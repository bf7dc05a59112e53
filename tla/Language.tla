------------------------------- MODULE Language -------------------------------
(***************************************************************************)
(* Formal languages over sequences, for the reference definitions of the   *)
(* parsers.  A language is given by the operator that takes a set of       *)
(* positions of a word to the positions that can be reached from them by   *)
(* reading a member of it.  Position k is in front of element k.           *)
(***************************************************************************)
EXTENDS Integers, Sequences, SequencesExt, FiniteSetsExt

(* One element of a class. *)
One(word, at, class) == { k + 1 : k \in { j \in at : j <= Len(word) /\ word[j] \in class } }

(* One element of each class of a list, in turn. *)
Each(word, at, classes) == FoldLeft(LAMBDA from, class : One(word, from, class), at, classes)

(* The given elements. *)
Exactly(word, at, elements) == Each(word, at, [k \in 1..Len(elements) |-> {elements[k]}])

(* Any number of elements of a class, and at least one. *)
Many(word, at, class) ==
    LET End(j) == Min({ k \in j..Len(word) : word[k] \notin class } \cup {Len(word) + 1})
    IN  UNION { j..End(j) : j \in at }

Some(word, at, class) == Many(word, One(word, at, class), class)
=============================================================================
