---------------------------- MODULE MessageMeaning ----------------------------
(***************************************************************************)
(* What the lines of Message mean: each comes with its meaning and with    *)
(* whether a number in it is too large, and the grammar of json says which *)
(* of them are legal between the quotes.                                   *)
(***************************************************************************)
EXTENDS Message

Grammar == INSTANCE JsonGrammar

=============================================================================
