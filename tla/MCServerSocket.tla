--------------------------- MODULE MCServerSocket ---------------------------
(* Values for the constants of ServerSocket. *)
EXTENDS ServerSocket

CONSTANTS c1, c2, c3

TwoClients == {c1, c2}
ThreeClients == {c1, c2, c3}

Initialized == {"valid"}
Uninitialized == {"valid", "negative"}
=============================================================================
