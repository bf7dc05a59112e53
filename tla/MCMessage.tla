------------------------------- MODULE MCMessage -------------------------------
(***************************************************************************)
(* Lines for Message.  A line is put together from pieces whose meaning is *)
(* known: letters and spaces, escapes, characters beyond ASCII, and pieces *)
(* that break the json or, with quotes, add members to it, and numbers     *)
(* around the largest double.                                              *)
(***************************************************************************)
EXTENDS MessageMeaning

AnyChar == -128..127

Line(bytes, legal, meaning) ==
    [bytes |-> bytes, legal |-> legal, meaning |-> meaning, infinite |-> FALSE]
Means(bytes, meaning) == Line(bytes, TRUE, meaning)
Same(bytes) == Means(bytes, bytes)
Breaks(bytes) == Line(bytes, FALSE, <<>>)

(* A b space, o with two dots, \n, \" and \\; a tab, a quote, half a       *)
(* character, \x, and a second "text".                                     *)
Simple == { Same(<<65>>), Same(<<98>>), Same(<<32>>), Same(<<195, 182>>),
            Means(<<92, 110>>, <<10>>), Means(<<92, 34>>, <<34>>), Means(<<92, 92>>, <<92>>) }
Broken == { Breaks(<<9>>), Breaks(<<34>>), Breaks(<<195>>), Breaks(<<92, 120>>) }
AgainMember == <<34, 44, 34>> \o TextKey \o <<34, 58, 34>>

Joined(pieces) ==
    Line(FlattenSeq([k \in 1..Len(pieces) |-> pieces[k].bytes]),
         \A k \in 1..Len(pieces) : pieces[k].legal,
         FlattenSeq([k \in 1..Len(pieces) |-> pieces[k].meaning]))

JoinedUpTo(set, n) == { Joined(pieces) : pieces \in SeqOf(set, n) }

(* The last of several members counts. *)
Repeated ==
    { Line(first.bytes \o AgainMember \o second.bytes, first.legal /\ second.legal, second.meaning)
      : first, second \in JoinedUpTo(Simple \cup Broken, 1) }

(* Bytes beyond ASCII, at the edges of their ranges. *)
Edge == {127, 128, 143, 144, 159, 160, 191, 192}
Raw(bytes) ==
    LET legal == Grammar!IsUtf8(bytes) IN IF legal THEN Same(bytes) ELSE Breaks(bytes)
MultibyteLines ==
    { Raw(<<first, second>>) : first \in 128..255, second \in Edge \ {127} }
    \cup { Raw(<<first, second, third>>) : first \in 224..255, second \in Edge, third \in {128, 191, 192} }
    \cup { Raw(<<first, second, 128, fourth>>) : first \in 240..248, second \in Edge, fourth \in {127, 191} }

(* \u and four digits: the edges of the lengths, and surrogates.           *)
HexDigit(n) == IF n < 10 THEN 48 + n ELSE 87 + n
Written(codepoint) ==
    <<92, 117, HexDigit(codepoint \div 4096), HexDigit((codepoint \div 256) % 16),
      HexDigit((codepoint \div 16) % 16), HexDigit(codepoint % 16)>>

CodePoints == { Means(Written(65), <<65>>), Means(Written(127), <<127>>),
                Means(Written(128), <<194, 128>>), Means(Written(2047), <<223, 191>>),
                Means(Written(2048), <<224, 160, 128>>), Means(Written(55295), <<237, 159, 191>>),
                Means(Written(57344), <<238, 128, 128>>), Means(Written(65535), <<239, 191, 191>>),
                Means(Written(55296) \o Written(56320), <<240, 144, 128, 128>>),
                Means(Written(56319) \o Written(57343), <<244, 143, 191, 191>>),
                Breaks(Written(55296)), Breaks(Written(56320)), Breaks(Written(57343)),
                Breaks(Written(55296) \o <<92, 110>>), Breaks(<<92, 117, 48, 48, 52>>),
                Breaks(<<92, 117, 48, 48, 52, 103>>) }

(* A member "x" with a value that is put together from tokens or as a      *)
(* number, in front of the "text" that counts.                             *)
Tokens1 == { <<91>>, <<93>>, <<123>>, <<125>>, <<58>>, <<44>>, <<34, 120, 34>>, <<48>>, <<32>>,
             <<116, 114, 117, 101>>, <<110, 117, 108>> }
NumberBytes == {45, 46, 48, 49, 101, 43}
OtherValues == { FlattenSeq(tokens) : tokens \in SeqOf(Tokens1, 3) } \cup SeqOf(NumberBytes, 4)

OtherMember(value) ==
    <<34, 44, 34, 120, 34, 58>> \o value \o <<44, 34>> \o TextKey \o <<34, 58, 34, 98>>

WithOther(value) ==
    LET bytes == OtherMember(value)
    IN  IF Grammar!IsJson(Wrapped(bytes)) THEN Means(bytes, <<98>>) ELSE Breaks(bytes)

(* 1, 1.7, 1.8, 0.01, 1000 and 1.797693134862315, and exponents around 308 *)
(* and beyond any double.                                                  *)
One == <<49>>
OneSeven == <<49, 46, 55>>
OneEight == <<49, 46, 56>>
Hundredth == <<48, 46, 48, 49>>
AlmostMax == <<49, 46, 55, 57, 55, 54, 57, 51, 49, 51, 52, 56, 54, 50, 51, 49, 53>>
Times(mantissa, exponent) == mantissa \o <<101>> \o exponent
PowerOfTen(n) == <<49>> \o [k \in 1..n |-> 48]

(* Doubles end between 1.7976931348623158 and 1.7976931348623159, E308.    *)
FiniteNumbers ==
    { Times(One, <<51, 48, 56>>), Times(OneSeven, <<43, 51, 48, 56>>),
      Times(AlmostMax \o <<56>>, <<51, 48, 56>>), Times(Hundredth, <<51, 49, 48>>),
      Times(<<48>>, <<57, 57, 57>>), Times(OneEight, <<45, 57, 57, 57>>),
      Times(PowerOfTen(3), <<51, 48, 53>>) }
InfiniteNumbers ==
    { Times(One, <<51, 48, 57>>), Times(OneEight, <<51, 48, 56>>),
      Times(AlmostMax \o <<57>>, <<51, 48, 56>>), Times(Hundredth, <<51, 49, 49>>),
      Times(<<45, 49>>, <<57, 57, 57>>), Times(PowerOfTen(3), <<51, 48, 54>>) }

WithNumber ==
    { Means(OtherMember(number), <<98>>) : number \in FiniteNumbers }
    \cup { [Breaks(OtherMember(number)) EXCEPT !.infinite = TRUE] : number \in InfiniteNumbers }

Lines ==
    JoinedUpTo({Same(<<65>>), Same(<<98>>), Same(<<32>>)}, 6) \cup JoinedUpTo(Simple, 4)
    \cup JoinedUpTo(Simple \cup Broken, 3) \cup Repeated \cup MultibyteLines \cup CodePoints
    \cup { WithOther(value) : value \in OtherValues } \cup WithNumber
=============================================================================
