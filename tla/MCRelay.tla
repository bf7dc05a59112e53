------------------------------ MODULE MCRelay ------------------------------
(* Values for the constants of Relay. *)
EXTENDS Relay, TLC

CONSTANTS c1, c2

TwoClients == {c1, c2}

Limit(here, m1, m2, kinds, ends) ==
    [here |-> here, messages |-> c1 :> m1 @@ c2 :> m2, text |-> kinds, exits |-> ends]
Both(m1, m2, kinds, ends) == Limit(TwoClients, m1, m2, kinds, ends)
Alone(m1, kinds, ends) == Limit({c1}, m1, 0, kinds, ends)

(* One client jams, which takes three messages when a connection holds one *)
(* part, and one does not; one user ends a program when two clients type,  *)
(* two when one does, and one when a client alone jams or types all kinds. *)
Users ==
    { Both(3, 1, {"plain"}, 0), Both(1, 1, {"plain"}, 1), Both(1, 0, {"plain"}, 2),
      Alone(3, {"plain"}, 1), Alone(2, TextKind, 1) }
OneEach == { Both(1, 1, {"plain"}, 0) }
=============================================================================
