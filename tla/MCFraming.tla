----------------------------- MODULE MCFraming -----------------------------
(* Values for the constants of Framing.  LongMessages has a payload that   *)
(* reads as a length, and a frame of 9 bytes that outgrows a buffer of 7.  *)
(* ShortMessages has frames of 5 and 7 bytes: behind the first, 6 bytes of *)
(* the second are carried over into an overlapping region.                 *)
EXTENDS Framing

LongMessages == {<<7>>, <<1, 0, 0, 0, 1>>}
ShortMessages == {<<7>>, <<5, 6, 7>>}
=============================================================================
