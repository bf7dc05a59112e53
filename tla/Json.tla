--------------------------------- MODULE Json ---------------------------------
(***************************************************************************)
(* nlohmann::json, as far as the programs use it: parse() of a sequence of *)
(* bytes 0..255, and the member of an object as a std::string.  The lexer  *)
(* is given by operators from a position to what is read there and the     *)
(* position behind it, the parser by one step per token; a loop is the     *)
(* function from the number of its rounds to where it is.  A number keeps  *)
(* the bytes it was written with; of its conversion only that remains      *)
(* which makes parse() throw.  The byte order mark, comments and the       *)
(* wording of errors are left out.                                         *)
(***************************************************************************)
EXTENDS Integers, Sequences, SequencesExt, FiniteSetsExt, Functions

Quote == 34
Backslash == 92
Eof == -1
Whitespace == {32, 9, 10, 13}
Nonzero == 49..57
Decimal == 48..57
Hex == Decimal \cup 65..70 \cup 97..102

(* get(), at a position. *)
ByteAt(bytes, k) == IF k <= Len(bytes) THEN bytes[k] ELSE Eof

-----------------------------------------------------------------------------
(* Strings.  What is read is the bytes to add to token_buffer, or an error. *)
Adds(added, next) == [ok |-> TRUE, added |-> added, next |-> next]
IllFormed == [ok |-> FALSE, added |-> <<>>, next |-> 0]

HexValue(byte) ==
    IF byte \in Decimal THEN byte - 48 ELSE IF byte \in 65..70 THEN byte - 55 ELSE byte - 87

(* The four hex digits at k, -1 when one of them is not. *)
get_codepoint(bytes, k) ==
    LET digit(n) == ByteAt(bytes, k + n)
    IN  IF \A n \in 0..3 : digit(n) \in Hex
        THEN 4096 * HexValue(digit(0)) + 256 * HexValue(digit(1))
             + 16 * HexValue(digit(2)) + HexValue(digit(3))
        ELSE -1

(* The bytes of a code point. *)
Encoded(codepoint) ==
    LET Low(shift) == 128 + ((codepoint \div shift) % 64)
    IN  IF codepoint < 128 THEN <<codepoint>>
        ELSE IF codepoint < 2048 THEN <<192 + (codepoint \div 64), Low(1)>>
        ELSE IF codepoint < 65536 THEN <<224 + (codepoint \div 4096), Low(64), Low(1)>>
        ELSE <<240 + (codepoint \div 262144), Low(4096), Low(64), Low(1)>>

HighSurrogate == 55296..56319
LowSurrogate == 56320..57343
SurrogatePair(high, low) == (high - 55296) * 1024 + (low - 56320) + 65536


(* Behind \u: a code point, or two surrogates. *)
UnicodeEscape(bytes, k) ==
    LET first == get_codepoint(bytes, k)
        second == get_codepoint(bytes, k + 6)
    IN  IF first = -1 \/ first \in LowSurrogate THEN IllFormed
        ELSE IF first \notin HighSurrogate THEN Adds(Encoded(first), k + 4)
        ELSE IF /\ ByteAt(bytes, k + 4) = Backslash /\ ByteAt(bytes, k + 5) = 117
                /\ second \in LowSurrogate
        THEN Adds(Encoded(SurrogatePair(first, second)), k + 10)
        ELSE IllFormed

(* The bytes that are meant by b, f, n, r and t behind a backslash. *)
EscapedControl == { <<98, 8>>, <<102, 12>>, <<110, 10>>, <<114, 13>>, <<116, 9>> }

(* What stands behind a backslash. *)
Escape(bytes, k) ==
    LET byte == ByteAt(bytes, k)
        meant == { c \in EscapedControl : c[1] = byte }
    IN  IF byte = 117 THEN UnicodeEscape(bytes, k + 1)
        ELSE IF byte \in {Quote, Backslash, 47} THEN Adds(<<byte>>, k + 1)
        ELSE IF meant # {} THEN Adds(<<(CHOOSE c \in meant : TRUE)[2]>>, k + 1)
        ELSE IllFormed

(* Bytes that stand for themselves; 0 to 31 must be escaped.               *)
Ascii == (32..127) \ {Quote, Backslash}

(* The first bytes of longer characters, each with the ranges that are     *)
(* handed to next_byte_in_range().                                         *)
AnyLater == 128..191
Multibyte ==
    { <<194..223, AnyLater>>, <<{224}, 160..191, AnyLater>>,
      <<225..236 \cup 238..239, AnyLater, AnyLater>>, <<{237}, 128..159, AnyLater>>,
      <<{240}, 144..191, AnyLater, AnyLater>>, <<241..243, AnyLater, AnyLater, AnyLater>>,
      <<{244}, 128..143, AnyLater, AnyLater>> }

next_byte_in_range(bytes, k, ranges) ==
    \A n \in 1..Len(ranges) : ByteAt(bytes, k + n - 1) \in ranges[n]

(* What a round of the loop in scan_string() reads, but for the closing quote. *)
StringCharacter(bytes, k) ==
    LET byte == ByteAt(bytes, k)
        fits == { ranges \in Multibyte : next_byte_in_range(bytes, k, ranges) }
        length == Len(CHOOSE ranges \in fits : TRUE)
    IN  IF byte = Backslash THEN Escape(bytes, k + 1)
        ELSE IF byte \in Ascii THEN Adds(<<byte>>, k + 1)
        ELSE IF fits # {} THEN Adds([n \in 1..length |-> ByteAt(bytes, k + n - 1)], k + length)
        ELSE IllFormed

Token(type, text, next) == [type |-> type, text |-> text, next |-> next]
ParseError == Token("parse_error", <<>>, 0)

(* A round of the loop in scan_string(); "uninitialized" means that it goes *)
(* on, with text in token_buffer.                                          *)
StringRound(bytes, at) ==
    LET c == StringCharacter(bytes, at.next)
    IN  IF at.type # "uninitialized" THEN at
        ELSE IF ByteAt(bytes, at.next) = Quote THEN Token("value_string", at.text, at.next + 1)
        ELSE IF c.ok THEN Token("uninitialized", at.text \o c.added, c.next)
        ELSE ParseError

scan_string(bytes, start) ==
    LET round[n \in 0..Len(bytes)] ==
            IF n = 0 THEN Token("uninitialized", <<>>, start) ELSE StringRound(bytes, round[n - 1])
    IN  round[Len(bytes)]

-----------------------------------------------------------------------------
(* Numbers: the table of scan_number(), state, bytes, state. *)
IntegerEdges ==
    { <<"init", {45}, "minus">>, <<"init", {48}, "zero">>, <<"init", Nonzero, "any1">>,
      <<"minus", {48}, "zero">>, <<"minus", Nonzero, "any1">>,
      <<"zero", {46}, "decimal1">>, <<"zero", {69, 101}, "exponent">>,
      <<"any1", Decimal, "any1">>, <<"any1", {46}, "decimal1">>, <<"any1", {69, 101}, "exponent">> }
FractionEdges ==
    { <<"decimal1", Decimal, "decimal2">>,
      <<"decimal2", Decimal, "decimal2">>, <<"decimal2", {69, 101}, "exponent">>,
      <<"exponent", {43, 45}, "sign">>, <<"exponent", Decimal, "any2">>,
      <<"sign", Decimal, "any2">>, <<"any2", Decimal, "any2">> }
NumberEdges == IntegerEdges \cup FractionEdges

(* It stops in front of the first byte that does not fit. *)
NumberRound(bytes, at) ==
    LET follow == { e \in NumberEdges : e[1] = at[1] /\ ByteAt(bytes, at[2]) \in e[2] }
    IN  IF follow = {} THEN at ELSE <<(CHOOSE e \in follow : TRUE)[3], at[2] + 1>>

scan_number(bytes, start) ==
    LET round[n \in 0..Len(bytes)] ==
            IF n = 0 THEN <<"init", start>> ELSE NumberRound(bytes, round[n - 1])
        end == round[Len(bytes)]
    IN  IF end[1] \in {"zero", "any1", "decimal2", "any2"}
        THEN Token("value_number", SubSeq(bytes, start, end[2] - 1), end[2])
        ELSE ParseError

(* What stands behind an e. *)
Exponent(bytes) ==
    LET value == FoldLeft(LAMBDA v, byte : 10 * v + byte - 48, 0,
                          SelectSeq(bytes, LAMBDA byte : byte \in Decimal))
    IN  IF bytes[1] = 45 THEN -value ELSE value

(* strtof() of a double gives infinity from 2^1024 - 2^970 on, about       *)
(* 1.7976931348623158079E308, and no further digits are compared here.     *)
(* Integers that 64 bits do not hold are converted by it, too.             *)
InfiniteFrom == <<49, 55, 57, 55, 54, 57, 51, 49, 51, 52, 56, 54, 50, 51, 49, 53, 56, 48, 55, 57>>

ReachesInfinity(digits) ==
    LET digit(k) == IF k <= Len(digits) THEN digits[k] ELSE 48
    IN  \A k \in 1..Len(InfiniteFrom) :
            digit(k) < InfiniteFrom[k] => \E j \in 1..(k - 1) : digit(j) > InfiniteFrom[j]

IsInfinite(number) ==
    LET e == SelectInSeq(number, LAMBDA byte : byte \in {69, 101})
        mantissa == IF e = 0 THEN number ELSE SubSeq(number, 1, e - 1)
        exponent == IF e = 0 THEN 0 ELSE Exponent(SubSeq(number, e + 1, Len(number)))
        point == SelectInSeq(mantissa, LAMBDA byte : byte = 46)
        whole == IF point = 0 THEN mantissa ELSE SubSeq(mantissa, 1, point - 1)
        Digits(bytes) == SelectSeq(bytes, LAMBDA byte : byte \in Decimal)
        first == SelectInSeq(Digits(mantissa), LAMBDA byte : byte \in Nonzero)
        magnitude == Len(Digits(whole)) - first + exponent
    IN  /\ first # 0
        /\ \/ magnitude > 308
           \/ /\ magnitude = 308
              /\ ReachesInfinity(SubSeq(Digits(mantissa), first, Len(Digits(mantissa))))

Literals == { <<"literal_true", <<116, 114, 117, 101>>>>,
              <<"literal_false", <<102, 97, 108, 115, 101>>>>,
              <<"literal_null", <<110, 117, 108, 108>>>> }

(* The literal that begins with the byte at start. *)
scan_literal(bytes, start) ==
    LET literal == CHOOSE l \in Literals : l[2][1] = bytes[start]
        next == start + Len(literal[2])
    IN  IF \A k \in start..(next - 1) : ByteAt(bytes, k) = literal[2][k - start + 1]
        THEN Token(literal[1], <<>>, next)
        ELSE ParseError

skip_whitespace(bytes, k) ==
    Min({ n \in k..(Len(bytes) + 1) : ByteAt(bytes, n) \notin Whitespace })

Structural == { <<91, "begin_array">>, <<93, "end_array">>, <<123, "begin_object">>,
                <<125, "end_object">>, <<58, "name_separator">>, <<44, "value_separator">> }

scan(bytes, from) ==
    LET k == skip_whitespace(bytes, from)
        byte == ByteAt(bytes, k)
        structural == { s \in Structural : s[1] = byte }
    IN  IF structural # {} THEN Token((CHOOSE s \in structural : TRUE)[2], <<>>, k + 1)
        ELSE IF \E l \in Literals : l[2][1] = byte THEN scan_literal(bytes, k)
        ELSE IF byte = Quote THEN scan_string(bytes, k + 1)
        ELSE IF byte \in Decimal \cup {45} THEN scan_number(bytes, k)
        ELSE IF byte \in {0, Eof} THEN Token("end_of_input", <<>>, k)
        ELSE ParseError

-----------------------------------------------------------------------------
(* The parser: ref_stack holds the open containers, the innermost last,    *)
(* each with the element that the next value goes to.  An object is a      *)
(* function from its keys, an array a sequence.                            *)
Scalar == {"value_string", "value_number", "literal_true", "literal_false", "literal_null"}

Value(type, value) == [type |-> type, value |-> value]
EmptyObject == [key \in {} |-> 0]

Parser(expects, ref_stack, root) == [expects |-> expects, ref_stack |-> ref_stack, root |-> root]
ParserStart == Parser("value", <<>>, Value("literal_null", <<>>))
Failed == Parser("nothing", <<>>, Value("discarded", <<>>))

(* The innermost container, with another value or element. *)
Container(type, value, element) == [type |-> type, value |-> value, element |-> element]
Updates(parser, frame, expects) ==
    Parser(expects, Append(Front(parser.ref_stack), frame), parser.root)

(* An object with another member, or another value of one. *)
SetMember(object, key, value) ==
    [other \in DOMAIN object \cup {key} |-> IF other = key THEN value ELSE object[other]]

(* A value is stored where it belongs, and the state is evaluated. *)
handle_value(parser, v) ==
    LET frame == Last(parser.ref_stack)
        Stored(value) == Updates(parser, Container(frame.type, value, frame.element), "comma")
    IN  IF parser.ref_stack = <<>> THEN Parser("end", <<>>, v)
        ELSE IF frame.type = "array" THEN Stored(Append(frame.value, v))
        ELSE Stored(SetMember(frame.value, frame.element, v))

Opens(parser, type, empty) ==
    Parser(IF type = "object" THEN "key or end" ELSE "value or end",
           Append(parser.ref_stack, Container(type, empty, <<>>)), parser.root)

Closes(parser) ==
    LET frame == Last(parser.ref_stack)
    IN  handle_value(Parser(parser.expects, Front(parser.ref_stack), parser.root),
                     Value(frame.type, frame.value))

Expects(parser, expects) == Parser(expects, parser.ref_stack, parser.root)

(* sax_parse_internal(), token by token: where a value is expected, ...    *)
TakesValue(parser, token) ==
    IF token.type = "value_number" /\ IsInfinite(token.text) THEN Failed
    ELSE IF token.type \in Scalar THEN handle_value(parser, Value(token.type, token.text))
    ELSE IF token.type = "begin_object" THEN Opens(parser, "object", EmptyObject)
    ELSE IF token.type = "begin_array" THEN Opens(parser, "array", <<>>)
    ELSE IF token.type = "end_array" /\ parser.expects = "value or end" THEN Closes(parser)
    ELSE Failed

(* ... the key of a member and the colon behind it, ...                    *)
TakesKey(parser, token) ==
    LET frame == Last(parser.ref_stack) IN
    IF token.type = "value_string" /\ parser.expects # "colon"
    THEN Updates(parser, Container(frame.type, frame.value, token.text), "colon")
    ELSE IF token.type = "name_separator" /\ parser.expects = "colon" THEN Expects(parser, "value")
    ELSE IF token.type = "end_object" /\ parser.expects = "key or end" THEN Closes(parser)
    ELSE Failed

(* ... and what may follow a value; in the end, what parse() does with the *)
(* token behind the outermost one.                                         *)
EvaluatesState(parser, token) ==
    LET inside == IF parser.ref_stack = <<>> THEN "none" ELSE Last(parser.ref_stack).type
    IN  IF inside = "none" /\ token.type = "end_of_input" THEN Expects(parser, "accepted")
        ELSE IF inside = "array" /\ token.type = "value_separator" THEN Expects(parser, "value")
        ELSE IF inside = "object" /\ token.type = "value_separator" THEN Expects(parser, "key")
        ELSE IF <<inside, token.type>> \in {<<"array", "end_array">>, <<"object", "end_object">>}
        THEN Closes(parser)
        ELSE Failed

ParserStep(parser, token) ==
    IF parser.expects \in {"value", "value or end"} THEN TakesValue(parser, token)
    ELSE IF parser.expects \in {"key", "key or end", "colon"} THEN TakesKey(parser, token)
    ELSE EvaluatesState(parser, token)

(* get_token(), and what is done with it, until the parser returns. *)
ParserRound(bytes, at) ==
    LET token == scan(bytes, at.next)
    IN  IF at.parser.expects \in {"accepted", "nothing"} THEN at
        ELSE [parser |-> ParserStep(at.parser, token), next |-> token.next]

(* parse(), a value that is "discarded" when it throws.                    *)
parse(bytes) ==
    LET round[n \in 0..(Len(bytes) + 1)] ==
            IF n = 0 THEN [parser |-> ParserStart, next |-> 1] ELSE ParserRound(bytes, round[n - 1])
    IN  round[Len(bytes) + 1].parser.root

(* std::string text = json[key], which throws when json is no object, the  *)
(* key is missing or its member is no string.                              *)
StringMember(json, key) ==
    IF /\ json.type = "object" /\ key \in DOMAIN json.value
       /\ json.value[key].type = "value_string"
    THEN [ok |-> TRUE, string |-> json.value[key].value]
    ELSE [ok |-> FALSE, string |-> <<>>]
=============================================================================
