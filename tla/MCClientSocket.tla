--------------------------- MODULE MCClientSocket ---------------------------
(* Values for the constants of ClientSocket. *)
EXTENDS ClientSocket, TLC

CONSTANTS socket, main, worker

OneSocket == {socket}
Main == {main}
TwoCallers == {main, worker}

CallersAreAlike == Permutations(TwoCallers)
=============================================================================
