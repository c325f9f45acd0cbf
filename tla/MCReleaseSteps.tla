--------------------------- MODULE MCReleaseSteps ---------------------------
(* Instance of ReleaseSteps for TLC: the administrators are alike.           *)
EXTENDS ReleaseSteps, TLC

CONSTANTS a, b, s

OneLike == Permutations(Admins)
=============================================================================
