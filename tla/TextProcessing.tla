--------------------------- MODULE TextProcessing ---------------------------
(***************************************************************************)
(* What the process server does to the text of one message: characters     *)
(* that cannot be printed become '?' and are counted, then                 *)
(* RemoveDuplicateWords keeps the first occurrence of every word.  Each    *)
(* iteration of the two loops is a step.  A character is a signed char;    *)
(* positions count from 0, as in the code, npos stands for none.           *)
(***************************************************************************)
EXTENDS Integers, Sequences, SequencesExt, FiniteSetsExt

CONSTANT Char   \* characters a text may have, signed: 128..255 are negative

ASSUME TextAssumption == Char \subseteq -128..127

Space == 32
QuestionMark == 63

VARIABLES
    input,          \* the text as it came
    text,           \* clientInput, then the parameter str
    i,              \* the place of the first loop
    errorsFound,
    prevWordBeg,    \* the place of the second loop
    words,          \* the words seen
    resStr,
    pc              \* "clean", "words" or "done"

vars == <<input, text, i, errorsFound, prevWordBeg, words, resStr, pc>>

Size == Len(text)
CharAt(k) == text[k + 1]

-----------------------------------------------------------------------------
Init ==
    /\ input \in Seq(Char) /\ text = input
    /\ i = 0 /\ errorsFound = 0
    /\ prevWordBeg = 0 /\ words = {} /\ resStr = <<>>
    /\ pc = "clean"

Printable(ch) == 32 <= ch /\ ch <= 126

(* The test of an unsigned character, which takes 128..255 for printable.  *)
MutCleanChar ==
    /\ pc = "clean" /\ i < Size
    /\ IF CharAt(i) < 0 \/ Printable(CharAt(i))
       THEN UNCHANGED <<text, errorsFound>>
       ELSE /\ text' = [text EXCEPT ![i + 1] = QuestionMark]
            /\ errorsFound' = errorsFound + 1
    /\ i' = i + 1
    /\ UNCHANGED <<input, prevWordBeg, words, resStr, pc>>

(* Without `clientInput[i] < 32', which on a signed char also finds 128..255. *)
MutCleanCharLow ==
    /\ pc = "clean" /\ i < Size
    /\ IF CharAt(i) <= 126
       THEN UNCHANGED <<text, errorsFound>>
       ELSE /\ text' = [text EXCEPT ![i + 1] = QuestionMark]
            /\ errorsFound' = errorsFound + 1
    /\ i' = i + 1
    /\ UNCHANGED <<input, prevWordBeg, words, resStr, pc>>

(* An iteration of the loop that replaces characters. *)
CleanChar ==
    /\ pc = "clean" /\ i < Size
    /\ IF Printable(CharAt(i))
       THEN UNCHANGED <<text, errorsFound>>
       ELSE /\ text' = [text EXCEPT ![i + 1] = QuestionMark]
            /\ errorsFound' = errorsFound + 1
    /\ i' = i + 1
    /\ UNCHANGED <<input, prevWordBeg, words, resStr, pc>>

AllClean ==
    /\ pc = "clean" /\ i = Size
    /\ pc' = "words"
    /\ UNCHANGED <<input, text, i, errorsFound, prevWordBeg, words, resStr>>

SpacesFrom(from) == { k \in from..(Size - 1) : CharAt(k) = Space }

(* Without `if (end == str.npos) end = str.size();', npos being behind the text. *)
MutEndOfWordNpos(from) ==
    IF SpacesFrom(from) = {} THEN Size + 1 ELSE Min(SpacesFrom(from))

(* A search that starts behind the character it should look at. *)
MutEndOfWord(from) ==
    IF SpacesFrom(from + 1) = {} THEN Size ELSE Min(SpacesFrom(from + 1))

(* find_first_of(' ', from), or the size of the text. *)
EndOfWord(from) == IF SpacesFrom(from) = {} THEN Size ELSE Min(SpacesFrom(from))

(* substr(from, to - from), which stops at the end of the text. *)
Substr(from, to) == SubSeq(text, from + 1, Min({to, Size}))

(* A loop that continues at the space it found. *)
MutTakeWord ==
    LET end == EndOfWord(prevWordBeg)
        subStr == Substr(prevWordBeg, end)
    IN
    /\ pc = "words" /\ prevWordBeg # Size + 1
    /\ IF subStr \in words
       THEN UNCHANGED <<resStr, words>>
       ELSE /\ resStr' = resStr \o subStr \o <<Space>>
            /\ words' = words \cup {subStr}
    /\ prevWordBeg' = IF end = Size THEN Size + 1 ELSE end
    /\ UNCHANGED <<input, text, i, errorsFound, pc>>

(* An iteration of RemoveDuplicateWords. *)
TakeWord ==
    LET end == EndOfWord(prevWordBeg)
        subStr == Substr(prevWordBeg, end)
    IN
    /\ pc = "words" /\ prevWordBeg # Size + 1
    /\ IF subStr \in words
       THEN UNCHANGED <<resStr, words>>
       ELSE /\ resStr' = resStr \o subStr \o <<Space>>
            /\ words' = words \cup {subStr}
    /\ prevWordBeg' = end + 1
    /\ UNCHANGED <<input, text, i, errorsFound, pc>>

(* The last space is cut off. *)
ReturnWords ==
    /\ pc = "words" /\ prevWordBeg = Size + 1
    /\ resStr' = SubSeq(resStr, 1, Len(resStr) - 1)
    /\ pc' = "done"
    /\ UNCHANGED <<input, text, i, errorsFound, prevWordBeg, words>>

Next == CleanChar \/ AllClean \/ TakeWord \/ ReturnWords

Spec == Init /\ [][Next]_vars

-----------------------------------------------------------------------------
(* The reference: the words of a text are what lies between neighbouring   *)
(* boundaries; the result is their first occurrences with a space between. *)
InOrder(set) ==
    [k \in 1..Cardinality(set) |->
        CHOOSE x \in set : Cardinality({ y \in set : y < x }) = k - 1]

Boundaries(str) ==
    {0, Len(str) + 1} \cup { k \in 1..Len(str) : str[k] = Space }

WordsOf(str) ==
    LET at == InOrder(Boundaries(str)) IN
    [k \in 1..(Len(at) - 1) |-> SubSeq(str, at[k] + 1, at[k + 1] - 1)]

FirstOccurrences(list) ==
    LET first == { k \in 1..Len(list) : \A j \in 1..(k - 1) : list[j] # list[k] }
        order == InOrder(first)
    IN  [k \in 1..Len(order) |-> list[order[k]]]

JoinWords(list) ==
    FlattenSeq([k \in 1..Len(list) |-> IF k = 1 THEN list[k] ELSE <<Space>> \o list[k]])

Cleaned(str) == [k \in 1..Len(str) |-> IF Printable(str[k]) THEN str[k] ELSE QuestionMark]

-----------------------------------------------------------------------------
TypeOK ==
    /\ input \in Seq(Char)
    /\ text \in Seq(Char \cup {QuestionMark})
    /\ i \in 0..Len(input) /\ errorsFound \in 0..i
    /\ prevWordBeg \in 0..(Size + 1)
    /\ \A word \in words : word \in Seq(Char \cup {QuestionMark})
    /\ resStr \in Seq(Char \cup {QuestionMark, Space})
    /\ pc \in {"clean", "words", "done"}

(* The loop of RemoveDuplicateWords reads no substring that begins behind  *)
(* the end of the text and cuts a character off only when there is one:    *)
(* its `!=' never misses the end, and resize() never gets size() - 1 of 0  *)
(* (ProcessServer.cpp:11 and 21).                                          *)
StaysInside ==
    pc = "words" => /\ prevWordBeg <= Size + 1
                    /\ prevWordBeg = Size + 1 => Len(resStr) > 0

(* The text that is passed on is the first occurrences of the words of the *)
(* cleaned text, in order, with one space between; an empty word, between  *)
(* two spaces, is a word like any other.                                   *)
DuplicatesAreRemoved ==
    pc = "done" => resStr = JoinWords(FirstOccurrences(WordsOf(Cleaned(input))))

(* Everything that is passed on can be printed, and each character that    *)
(* could not was counted.                                                  *)
PassedOnIsPrintable ==
    pc = "done" =>
        /\ \A k \in 1..Len(resStr) : Printable(resStr[k])
        /\ errorsFound = Cardinality({ k \in 1..Len(input) : ~Printable(input[k]) })
=============================================================================
