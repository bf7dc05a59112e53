------------------------------ MODULE MCServer ------------------------------
(* Values for the constants of Server. *)
EXTENDS Server

CONSTANTS c1, c2

OneClient == <<c1>>
TwoClients == <<c1, c2>>
=============================================================================
