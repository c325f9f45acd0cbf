----------------------------- MODULE MCRouting -----------------------------
(***************************************************************************)
(* Two services of one agent: one for a whole host, one below /a, which    *)
(* may move to the other host, be disabled or ask for each other's ports.  *)
(***************************************************************************)
EXTENDS Routing

CONSTANTS a1, a2

AdminsAreEqual == Permutations(Admins)

Form(hosts, prefix, published, tcp, enabled) ==
    [route |-> [hosts |-> hosts, prefix |-> prefix], published |-> published,
     tcp |-> tcp, enabled |-> enabled]

TwoServices == {"s", "t"}
TwoKeys == [x \in {"s", "t"} |-> IF x = "s" THEN 1 ELSE 2]

\* Ports: 80 is the proxy's own, 30000 and 30001 are of the range the agent
\* binds in advance, of which it got 30000; 9000 is free.
SomeForms ==
    { Form({"h", "g"}, <<>>, {}, {30000}, TRUE),
      Form({"h"}, <<"a">>, {9000}, {}, TRUE),
      Form({"g"}, <<>>, {}, {9000}, FALSE),
      Form({"g"}, <<"a">>, {80}, {}, TRUE),
      Form({"g"}, <<"a">>, {}, {30001}, TRUE) }

SomeCharacters == {"a", "b", "x", "/"} \cup Special
SomePages == {<<>>, <<"a">>, <<"a", "b">>, <<"a", "/", "x">>}
OneAsset == {<<"a", "/", "x">>}
=============================================================================
