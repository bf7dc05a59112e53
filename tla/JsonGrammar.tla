----------------------------- MODULE JsonGrammar -----------------------------
(***************************************************************************)
(* RFC 8259 as languages over bytes: the reference that the parser of      *)
(* module Json is compared with.  Characters beyond ASCII are told by the  *)
(* code point they encode, not by the ranges of their bytes.               *)
(***************************************************************************)
EXTENDS Language, FiniteSets

Digits == 48..57
HexDigits == Digits \cup 65..70 \cup 97..102

(* The code point that a sequence of bytes encodes, and the length that    *)
(* its encoding has.                                                       *)
CodePointOf(bytes) ==
    LET marker == <<0, 192, 224, 240>>
    IN  FoldLeft(LAMBDA value, byte : value * 64 + byte - 128, bytes[1] - marker[Len(bytes)], Tail(bytes))

LengthOf(codepoint) ==
    CASE codepoint < 128 -> 1 [] codepoint \in 128..2047 -> 2
      [] codepoint \in 2048..65535 -> 3 [] OTHER -> 4

IsUtf8(bytes) ==
    /\ \A k \in 2..Len(bytes) : bytes[k] \in 128..191
    /\ CodePointOf(bytes) \in 0..1114111 /\ CodePointOf(bytes) \notin 55296..57343
    /\ LengthOf(CodePointOf(bytes)) = Len(bytes)

Characters(bytes, at) ==
    One(bytes, at, (32..127) \ {34, 92})
    \cup UNION { { j + n : j \in { j \in at : /\ j + n <= Len(bytes) + 1
                                              /\ IsUtf8(SubSeq(bytes, j, j + n - 1)) } }
                 : n \in 2..4 }

Escapes(bytes, at) ==
    LET behind == One(bytes, at, {92})
        Unicode(from, second) ==
            Each(bytes, One(bytes, from, {117}), <<{68, 100}, second, HexDigits, HexDigits>>)
        plain == Each(bytes, One(bytes, behind, {117}), [k \in 1..4 |-> HexDigits])
        high == Unicode(behind, {56, 57, 65, 66, 97, 98})
        low == Unicode(behind, {67, 68, 69, 70, 99, 100, 101, 102})
    IN  One(bytes, behind, {34, 47, 92, 98, 102, 110, 114, 116})
        \cup (plain \ (high \cup low))
        \cup Unicode(One(bytes, high, {92}), {67, 68, 69, 70, 99, 100, 101, 102})

Strings(bytes, at) ==
    LET ends[k \in 1..(Len(bytes) + 1)] ==
            One(bytes, {k}, {34})
            \cup UNION { ends[n] : n \in Characters(bytes, {k}) \cup Escapes(bytes, {k}) }
    IN  UNION { ends[k] : k \in One(bytes, at, {34}) }

Numbers(bytes, at) ==
    LET signed == at \cup One(bytes, at, {45})
        int == One(bytes, signed, {48}) \cup Many(bytes, One(bytes, signed, 49..57), Digits)
        frac == int \cup Some(bytes, One(bytes, int, {46}), Digits)
        e == One(bytes, frac, {69, 101})
    IN  frac \cup Some(bytes, e \cup One(bytes, e, {43, 45}), Digits)

Words(bytes, at) ==
    Exactly(bytes, at, <<116, 114, 117, 101>>) \cup Exactly(bytes, at, <<110, 117, 108, 108>>)
    \cup Exactly(bytes, at, <<102, 97, 108, 115, 101>>)

Space(bytes, at) == Many(bytes, at, {32, 9, 10, 13})
Sign(bytes, at, byte) == Space(bytes, One(bytes, Space(bytes, at), {byte}))

RECURSIVE Values(_, _), Listed(_, _, _)

(* One or more values, or members of an object, with commas between. *)
Listed(bytes, at, keyed) ==
    IF at = {} THEN {}
    ELSE LET values == Values(bytes, IF keyed THEN Sign(bytes, Strings(bytes, at), 58) ELSE at)
         IN  values \cup Listed(bytes, Sign(bytes, values, 44), keyed)

Values(bytes, at) ==
    IF at = {} THEN {}
    ELSE LET Bracketed(open, close, keyed) ==
                 LET inside == Sign(bytes, at, open)
                 IN  Sign(bytes, inside \cup Listed(bytes, inside, keyed), close)
         IN  Strings(bytes, at) \cup Numbers(bytes, at) \cup Words(bytes, at)
             \cup Bracketed(91, 93, FALSE) \cup Bracketed(123, 125, TRUE)

IsJson(bytes) == Len(bytes) + 1 \in Space(bytes, Values(bytes, Space(bytes, {1})))
=============================================================================
