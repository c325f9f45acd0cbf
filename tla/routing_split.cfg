SPECIFICATION Spec
CONSTANTS
  Services <- TwoServices
  Forms <- SomeForms
  Reserved = {80}
  Pool = {30000, 30001}
  Prebound = {30000}
  MaxReleases = 3
  a1 = a1
  a2 = a2
  Admins = {a1, a2}
  Characters <- SomeCharacters
  Hosts = {"h", "g"}
  Pages <- SomePages
  Assets <- OneAsset
  Keys <- TwoKeys
SYMMETRY AdminsAreEqual
INVARIANTS
  ResponsesNameTheirRelease
CHECK_DEADLOCK FALSE
