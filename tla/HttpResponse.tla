----------------------------- MODULE HttpResponse -----------------------------
(***************************************************************************)
(* HttpResponseParser, which every message of the three programs goes      *)
(* through: a state machine that consumes one character a step.  A symbol  *)
(* is a character, or a word whose characters all belong to one class and  *)
(* are all treated alike, such as the name of a header.  "high" stands for *)
(* a byte above 127, which is negative as a char, "ctl" for a control      *)
(* character.  The version and keepAlive, which nobody reads, are left out,*)
(* and so are numbers that exceed an int and hexadecimal digits above 9.   *)
(***************************************************************************)
EXTENDS Integers, Sequences, SequencesExt, FiniteSetsExt, Language

CONSTANTS
    Input,      \* the messages to parse, sequences of symbols
    Json        \* contents that a program wraps in a message

VARIABLES
    input,          \* the message
    begin,          \* how many of its symbols are consumed
    state,
    statusCode,
    headers,        \* resp.headers: a name and a value, sequences of symbols
    contentSize,
    chunked,
    chunkSizeStr,
    chunkSize,
    content,        \* resp.content
    result          \* "none", a ParseResult, or "thrown"

vars == <<input, begin, state, statusCode, headers, contentSize, chunked,
          chunkSizeStr, chunkSize, content, result>>

-----------------------------------------------------------------------------
(* Classes of symbols. *)

Numeral == <<"0", "1", "2", "3", "4", "5", "6", "7", "8", "9">>
Digit == {"0", "1", "2", "3", "4", "5", "6", "7", "8", "9"}
Word == {"H", "T", "P", "OK", "y", "Content-Length", "content-length",
         "Transfer-Encoding", "chunked"}
Alnum == Digit \cup (Word \ {"Content-Length", "content-length", "Transfer-Encoding"})
Alpha == Alnum \ Digit
ChunkText == Alnum \cup {"SP"}     \* extensions of a chunk, lines behind the last one
Special == {"/", ":", "SEMI", "=", "SP", "TAB", "{"}
Control == {"CR", "LF", "TAB", "ctl"}
Symbol == Digit \cup Word \cup Special \cup Control \cup {".", "-", "high"}
Byte == Symbol \ {"OK", "Content-Length", "content-length", "Transfer-Encoding", "chunked"}

IsChar == Symbol \ {"high"}
NameChar == IsChar \ (Control \cup Special)
ValueChar == Symbol \ Control

(* A json is counted in bytes, and atoi() reads its length as an int. *)
ASSUME HttpAssumption ==
    /\ Input \subseteq Seq(Symbol) /\ Json \subseteq Seq(Byte)
    /\ \A json \in Json : Len(json) <= 2147483647

ValueOf(d) == CHOOSE v \in 0..9 : Numeral[v + 1] = d

Number(digits, base) ==
    LET value[k \in 0..Len(digits)] ==
            IF k = 0 THEN 0 ELSE value[k - 1] * base + ValueOf(digits[k])
    IN  value[Len(digits)]

(* The digits that atoi() and strtol() convert, up to the first other symbol. *)
Leading(str) ==
    LET other == { k \in 1..Len(str) : str[k] \notin Digit }
    IN  IF other = {} THEN str ELSE SubSeq(str, 1, Min(other) - 1)

Atoi(str) ==
    LET text == SelectInSeq(str, LAMBDA s : s # "SP")
        number == IF text = 0 THEN <<>> ELSE SubSeq(str, text, Len(str))
    IN  IF number # <<>> /\ number[1] = "-"
        THEN 0 - Number(Leading(Tail(number)), 10)
        ELSE Number(Leading(number), 10)

(* strcasecmp on words. *)
SameWord(str, word) ==
    str = <<word>> \/ (word = "Content-Length" /\ str = <<"content-length">>)

(* std::to_string. *)
ToDecimal(n) ==
    LET text[m \in 0..n] ==
            IF m < 10 THEN <<Numeral[m + 1]>> ELSE Append(text[m \div 10], Numeral[(m % 10) + 1])
    IN  text[n]

(* The message that the programs build around a json. *)
BuiltHead ==
    <<"H", "T", "T", "P", "/", "1", ".", "1", "SP", "2", "0", "0", "SP", "OK", "CR", "LF",
      "y", ":", "SP", "y", "/", "y", "CR", "LF", "Content-Length", ":", "SP">>

BuildsResponse(json) ==
    BuiltHead \o ToDecimal(Len(json)) \o <<"CR", "LF", "CR", "LF">> \o json

-----------------------------------------------------------------------------
State ==
    { "ResponseStatusStart", "ResponseHttpVersion_ht", "ResponseHttpVersion_htt",
      "ResponseHttpVersion_http", "ResponseHttpVersion_slash",
      "ResponseHttpVersion_majorStart", "ResponseHttpVersion_major",
      "ResponseHttpVersion_minorStart", "ResponseHttpVersion_minor",
      "ResponseHttpVersion_statusCodeStart", "ResponseHttpVersion_statusCode",
      "ResponseHttpVersion_statusTextStart", "ResponseHttpVersion_statusText",
      "ResponseHttpVersion_newLine", "HeaderLineStart", "HeaderLws", "HeaderName",
      "SpaceBeforeHeaderValue", "HeaderValue", "ExpectingNewline_2", "ExpectingNewline_3",
      "Post", "ChunkSize", "ChunkExtensionName", "ChunkExtensionValue",
      "ChunkSizeNewLine", "ChunkSizeNewLine_2", "ChunkSizeNewLine_3",
      "ChunkTrailerName", "ChunkTrailerValue", "ChunkDataNewLine_1",
      "ChunkDataNewLine_2", "ChunkData" }

(* The transitions that only change the state: from, on one of these, to. *)
StatusLineEdges ==
    { <<"ResponseStatusStart", {"H"}, "ResponseHttpVersion_ht">>,
      <<"ResponseHttpVersion_ht", {"T"}, "ResponseHttpVersion_htt">>,
      <<"ResponseHttpVersion_htt", {"T"}, "ResponseHttpVersion_http">>,
      <<"ResponseHttpVersion_http", {"P"}, "ResponseHttpVersion_slash">>,
      <<"ResponseHttpVersion_slash", {"/"}, "ResponseHttpVersion_majorStart">>,
      <<"ResponseHttpVersion_majorStart", Digit, "ResponseHttpVersion_major">>,
      <<"ResponseHttpVersion_major", {"."}, "ResponseHttpVersion_minorStart">>,
      <<"ResponseHttpVersion_major", Digit, "ResponseHttpVersion_major">>,
      <<"ResponseHttpVersion_minorStart", Digit, "ResponseHttpVersion_minor">>,
      <<"ResponseHttpVersion_minor", {"SP"}, "ResponseHttpVersion_statusCodeStart">>,
      <<"ResponseHttpVersion_minor", Digit, "ResponseHttpVersion_minor">>,
      <<"ResponseHttpVersion_statusTextStart", IsChar, "ResponseHttpVersion_statusText">>,
      <<"ResponseHttpVersion_statusText", {"CR"}, "ResponseHttpVersion_newLine">>,
      <<"ResponseHttpVersion_statusText", IsChar \ {"CR"}, "ResponseHttpVersion_statusText">>,
      <<"ResponseHttpVersion_newLine", {"LF"}, "HeaderLineStart">> }

HeaderEdges ==
    { <<"HeaderLineStart", {"CR"}, "ExpectingNewline_3">>,
      <<"HeaderLws", {"CR"}, "ExpectingNewline_2">>,
      <<"HeaderLws", {"SP", "TAB"}, "HeaderLws">>,
      <<"HeaderName", {":"}, "SpaceBeforeHeaderValue">>,
      <<"SpaceBeforeHeaderValue", {"SP"}, "HeaderValue">>,
      <<"ExpectingNewline_2", {"LF"}, "HeaderLineStart">> }

ChunkEdges ==
    { <<"ChunkSize", {"SEMI"}, "ChunkExtensionName">>,
      <<"ChunkSize", {"CR"}, "ChunkSizeNewLine">>,
      <<"ChunkExtensionName", ChunkText, "ChunkExtensionName">>,
      <<"ChunkExtensionName", {"="}, "ChunkExtensionValue">>,
      <<"ChunkExtensionName", {"CR"}, "ChunkSizeNewLine">>,
      <<"ChunkExtensionValue", ChunkText, "ChunkExtensionValue">>,
      <<"ChunkExtensionValue", {"CR"}, "ChunkSizeNewLine">>,
      <<"ChunkSizeNewLine_2", {"CR"}, "ChunkSizeNewLine_3">>,
      <<"ChunkSizeNewLine_2", Alpha, "ChunkTrailerName">>,
      <<"ChunkTrailerName", Alnum, "ChunkTrailerName">>,
      <<"ChunkTrailerName", {":"}, "ChunkTrailerValue">>,
      <<"ChunkTrailerValue", ChunkText, "ChunkTrailerValue">>,
      <<"ChunkTrailerValue", {"CR"}, "ChunkSizeNewLine">>,
      <<"ChunkDataNewLine_1", {"CR"}, "ChunkDataNewLine_2">>,
      <<"ChunkDataNewLine_2", {"LF"}, "ChunkSize">> }

Edges == StatusLineEdges \cup HeaderEdges \cup ChunkEdges

-----------------------------------------------------------------------------
Init ==
    /\ input \in Input /\ begin = 0
    /\ state = "ResponseStatusStart" /\ statusCode = 0
    /\ headers = <<>> /\ contentSize = 0 /\ chunked = FALSE
    /\ chunkSizeStr = <<>> /\ chunkSize = 0
    /\ content = <<>> /\ result = "none"

Symbol1 == input[begin + 1]
At(from) == result = "none" /\ begin < Len(input) /\ state = from
Consumes == begin' = begin + 1 /\ UNCHANGED input

headVars == <<statusCode, headers, contentSize, chunked>>
chunkVars == <<chunkSizeStr, chunkSize>>

Moves ==
    /\ \E e \in Edges : At(e[1]) /\ Symbol1 \in e[2] /\ state' = e[3]
    /\ UNCHANGED <<headVars, chunkVars, content, result>>

ReadsStatusCode ==
    /\ \/ At("ResponseHttpVersion_statusCodeStart") \/ At("ResponseHttpVersion_statusCode")
    /\ \/ /\ Symbol1 \in Digit
          /\ statusCode' = 10 * statusCode + ValueOf(Symbol1)
          /\ state' = "ResponseHttpVersion_statusCode"
       \/ /\ state = "ResponseHttpVersion_statusCode"
          /\ Symbol1 = "SP" /\ statusCode \in 100..999
          /\ state' = "ResponseHttpVersion_statusTextStart"
          /\ UNCHANGED statusCode
    /\ UNCHANGED <<headers, contentSize, chunked, chunkVars, content, result>>

(* A header starts, goes on in its name or value, or after a line break. *)
ReadsHeader ==
    LET last == Len(headers) IN
    /\ \/ /\ At("HeaderLineStart") /\ Symbol1 \in NameChar
          /\ headers' = Append(headers, [name |-> <<Symbol1>>, value |-> <<>>])
          /\ state' = "HeaderName"
       \/ /\ At("HeaderLineStart") /\ headers # <<>> /\ Symbol1 \in {"SP", "TAB"}
          /\ state' = "HeaderLws" /\ UNCHANGED headers
       \/ /\ At("HeaderName") /\ Symbol1 \in NameChar
          /\ headers' = [headers EXCEPT ![last] = [name |-> Append(@.name, Symbol1), value |-> @.value]]
          /\ UNCHANGED state
       \/ /\ \/ At("HeaderValue") /\ Symbol1 \in ValueChar
             \/ At("HeaderLws") /\ Symbol1 \in ValueChar \ {"SP"}
          /\ headers' = [headers EXCEPT ![last] = [name |-> @.name, value |-> Append(@.value, Symbol1)]]
          /\ state' = "HeaderValue"
    /\ UNCHANGED <<statusCode, contentSize, chunked, chunkVars, content, result>>

(* The end of a value.  contentSize is a size_t, and reserve() throws when *)
(* it was negative.                                                        *)
EndsHeader ==
    LET h == Last(headers) IN
    /\ At("HeaderValue") /\ Symbol1 = "CR"
    /\ state' = "ExpectingNewline_2"
    /\ contentSize' = IF SameWord(h.name, "Content-Length") THEN Atoi(h.value) ELSE contentSize
    /\ chunked' = (chunked \/ (/\ SameWord(h.name, "Transfer-Encoding")
                               /\ SameWord(h.value, "chunked")))
    /\ result' = IF contentSize' < 0 THEN "thrown" ELSE "none"
    /\ UNCHANGED <<statusCode, headers, chunkVars, content>>

(* The last line feed of the head is checked only when nothing follows.    *)
EndsHead ==
    /\ At("ExpectingNewline_3")
    /\ IF ~chunked /\ contentSize = 0
       THEN Symbol1 = "LF" /\ result' = "ParsingCompleted" /\ UNCHANGED state
       ELSE state' = (IF chunked THEN "ChunkSize" ELSE "Post") /\ UNCHANGED result
    /\ UNCHANGED <<headVars, chunkVars, content>>

MutReadsContent ==
    /\ At("Post")
    /\ contentSize' = contentSize - 1
    /\ content' = Append(content, Symbol1)
    /\ result' = IF contentSize = 0 THEN "ParsingCompleted" ELSE "none"
    /\ UNCHANGED <<state, statusCode, headers, chunked, chunkVars>>

ReadsContent ==
    /\ At("Post")
    /\ contentSize' = contentSize - 1
    /\ content' = Append(content, Symbol1)
    /\ result' = IF contentSize' = 0 THEN "ParsingCompleted" ELSE "none"
    /\ UNCHANGED <<state, statusCode, headers, chunked, chunkVars>>

(* Without chunkSizeStr.clear(). *)
MutReadsChunkSize ==
    /\ \/ /\ At("ChunkSize") /\ Symbol1 \in Alnum
          /\ chunkSizeStr' = Append(chunkSizeStr, Symbol1)
          /\ UNCHANGED <<state, chunkSize>>
       \/ /\ At("ChunkSizeNewLine") /\ Symbol1 = "LF"
          /\ chunkSize' = Number(Leading(chunkSizeStr), 16)
          /\ UNCHANGED chunkSizeStr
          /\ state' = IF chunkSize' = 0 THEN "ChunkSizeNewLine_2" ELSE "ChunkData"
    /\ UNCHANGED <<headVars, content, result>>

(* The size of a chunk, the empty one behind a trailer included. *)
ReadsChunkSize ==
    /\ \/ /\ At("ChunkSize") /\ Symbol1 \in Alnum
          /\ chunkSizeStr' = Append(chunkSizeStr, Symbol1)
          /\ UNCHANGED <<state, chunkSize>>
       \/ /\ At("ChunkSizeNewLine") /\ Symbol1 = "LF"
          /\ chunkSize' = Number(Leading(chunkSizeStr), 16)
          /\ chunkSizeStr' = <<>>
          /\ state' = IF chunkSize' = 0 THEN "ChunkSizeNewLine_2" ELSE "ChunkData"
    /\ UNCHANGED <<headVars, content, result>>

ReadsChunk ==
    /\ At("ChunkData")
    /\ content' = Append(content, Symbol1)
    /\ chunkSize' = chunkSize - 1
    /\ state' = IF chunkSize' = 0 THEN "ChunkDataNewLine_1" ELSE state
    /\ UNCHANGED <<headVars, chunkSizeStr, result>>

EndsChunks ==
    /\ At("ChunkSizeNewLine_3") /\ Symbol1 = "LF"
    /\ result' = "ParsingCompleted"
    /\ UNCHANGED <<state, headVars, chunkVars, content>>

Accepts ==
    /\ Consumes
    /\ \/ Moves \/ ReadsStatusCode \/ ReadsHeader \/ EndsHeader \/ EndsHead
       \/ ReadsContent \/ ReadsChunkSize \/ ReadsChunk \/ EndsChunks

(* The symbols for which the switch has a branch that goes on. *)
Expected ==
    \/ \E e \in Edges : state = e[1] /\ Symbol1 \in e[2]
    \/ /\ state \in {"ResponseHttpVersion_statusCodeStart", "ResponseHttpVersion_statusCode"}
       /\ Symbol1 \in Digit
    \/ /\ state = "ResponseHttpVersion_statusCode"
       /\ Symbol1 = "SP" /\ statusCode \in 100..999
    \/ state \in {"HeaderLineStart", "HeaderName"} /\ Symbol1 \in NameChar
    \/ state = "HeaderLineStart" /\ headers # <<>> /\ Symbol1 \in {"SP", "TAB"}
    \/ state = "HeaderValue" /\ Symbol1 \in ValueChar \cup {"CR"}
    \/ state = "HeaderLws" /\ Symbol1 \in ValueChar
    \/ state = "ExpectingNewline_3" /\ (~chunked /\ contentSize = 0 => Symbol1 = "LF")
    \/ state = "ChunkSize" /\ Symbol1 \in Alnum
    \/ state \in {"ChunkSizeNewLine", "ChunkSizeNewLine_3"} /\ Symbol1 = "LF"
    \/ state \in {"Post", "ChunkData"}

Rejects ==
    /\ result = "none" /\ begin < Len(input) /\ ~Expected
    /\ Consumes /\ result' = "ParsingError"
    /\ UNCHANGED <<state, headVars, chunkVars, content>>

Returns ==
    /\ result = "none" /\ begin = Len(input)
    /\ result' = "ParsingIncompleted"
    /\ UNCHANGED <<input, begin, state, headVars, chunkVars, content>>

Next == Accepts \/ Rejects \/ Returns

Spec == Init /\ [][Next]_vars

-----------------------------------------------------------------------------
(* The reference: which symbols make up a message, told by languages, and  *)
(* what its headers and its content are.                                   *)
LineBreak == <<"CR", "LF">>
Blank == {"SP", "TAB"}

Version(msg) ==
    LET Numbered(at) == Some(msg, at, Digit)
    IN  Numbered(One(msg, Numbered(Exactly(msg, {1}, <<"H", "T", "T", "P", "/">>)), {"."}))

(* A number of three digits, leading zeros aside. *)
StatusCodes(msg, at) ==
    UNION { { k \in Some(msg, {j}, Digit) : Number(SubSeq(msg, j, k - 1), 10) \in 100..999 }
            : j \in at }

StatusEnds(msg) ==
    LET code == StatusCodes(msg, One(msg, Version(msg), {"SP"}))
        Text(at) == Many(msg, One(msg, at, IsChar), IsChar \ {"CR"})
    IN  Exactly(msg, Text(One(msg, code, {"SP"})), LineBreak)

HeaderLine(msg, at) ==
    LET Value(from) == Many(msg, Exactly(msg, from, <<":", "SP">>), ValueChar)
    IN  Exactly(msg, Value(Some(msg, at, NameChar)), LineBreak)

ContinuationLine(msg, at) ==
    LET Value(blank) == blank \cup Many(msg, One(msg, blank, ValueChar \ Blank), ValueChar)
    IN  Exactly(msg, Value(Some(msg, at, Blank)), LineBreak)

(* Where the header lines and the empty line behind them begin. *)
LineStarts(msg, first) ==
    LET OneMore(at, k) == at \cup HeaderLine(msg, at) \cup ContinuationLine(msg, at \ first)
    IN  FoldLeft(OneMore, first, msg)

(* The headers of a message whose lines begin at these places. *)
HeadersOf(msg, at) ==
    LET Unblank(line) == SubSeq(line, SelectInSeq(line \o <<"end">>, LAMBDA s : s \notin Blank), Len(line))
        Split(line, colon) == [name |-> SubSeq(line, 1, colon - 1), value |-> SubSeq(line, colon + 2, Len(line))]
        Add(list, line) ==
            IF line[1] \in Blank
            THEN [list EXCEPT ![Len(list)].value = @ \o Unblank(line)]
            ELSE Append(list, Split(line, SelectInSeq(line, LAMBDA s : s = ":")))
    IN  FoldLeft(Add, <<>>, [k \in 1..(Len(at) - 1) |-> SubSeq(msg, at[k], at[k + 1] - 3)])

LengthsOf(list) == SelectSeq(list, LAMBDA h : SameWord(h.name, "Content-Length"))

DeclaredSize(lengths) == IF lengths = <<>> THEN 0 ELSE Atoi(Last(lengths).value)

IsChunked(list) ==
    \E k \in 1..Len(list) : /\ SameWord(list[k].name, "Transfer-Encoding")
                            /\ list[k].value = <<"chunked">>

(* Extensions of a chunk, and lines behind the last one. *)
Extension(msg, at) ==
    LET Value(name) == name \cup Many(msg, One(msg, name, {"="}), ChunkText)
    IN  at \cup Value(Many(msg, One(msg, at, {"SEMI"}), ChunkText))

Trailer(msg, at) ==
    LET Value(name) == Many(msg, One(msg, name, {":"}), ChunkText)
    IN  Exactly(msg, Value(Many(msg, One(msg, at, Alpha), Alnum)), LineBreak)

Trailers(msg, at) == FoldLeft(LAMBDA from, k : from \cup Trailer(msg, from), at, msg)

(* The chunks that begin at a position: where they may end, with their data. *)
Chunks(msg) ==
    LET from[k \in 1..(Len(msg) + 1)] ==
            LET Sized(q) == Number(Leading(SubSeq(msg, k, q - 1)), 16)
                Behind(size, data) ==
                    IF size = 0
                    THEN { <<e, <<>>>> : e \in Exactly(msg, Trailers(msg, data), LineBreak) }
                    ELSE UNION { { <<r[1], SubSeq(msg, d, d + size - 1) \o r[2]>> :
                                   r \in UNION { from[n] : n \in Exactly(msg, {d + size}, LineBreak) } }
                                 : d \in data }
            IN  UNION { Behind(Sized(q), Exactly(msg, Extension(msg, {q}), LineBreak))
                        : q \in Many(msg, {k}, Alnum) }
    IN  from

(* What may stand behind a head that ends in front of position at. *)
ContentAt(msg, chunked1, size, at) ==
    CASE chunked1 -> Chunks(msg)[at + 1]
      [] ~chunked1 /\ size = 0 -> { <<end, <<>>>> : end \in Exactly(msg, {at}, <<"LF">>) }
      [] OTHER -> IF size > 0 /\ at + size <= Len(msg)
                  THEN {<<at + 1 + size, SubSeq(msg, at + 1, at + size)>>} ELSE {}

(* A negative length makes a message impossible, even when another length  *)
(* follows.                                                                *)
WithHeaders(msg, heads, list) ==
    LET lengths == LengthsOf(list)
    IN  IF \E k \in 1..Len(lengths) : Atoi(lengths[k].value) < 0 THEN {}
        ELSE { [end |-> r[1], headers |-> list, content |-> r[2]] :
               r \in UNION { ContentAt(msg, IsChunked(list), DeclaredSize(lengths), at) : at \in heads } }

WithLines(msg, lines) ==
    WithHeaders(msg, { at \in One(msg, lines, {"CR"}) : at <= Len(msg) },
                HeadersOf(msg, SetToSortSeq(lines, <)))

(* The messages that input begins with: there is at most one. *)
Responses(msg) == WithLines(msg, LineStarts(msg, StatusEnds(msg)))

-----------------------------------------------------------------------------
TypeOK ==
    /\ input \in Seq(Symbol) /\ begin \in 0..Len(input)
    /\ state \in State
    /\ statusCode \in Nat
    /\ headers \in Seq([name : Seq(Symbol), value : Seq(Symbol)])
    /\ contentSize \in Int /\ (contentSize < 0 => result = "thrown") /\ chunked \in BOOLEAN
    /\ chunkSizeStr \in Seq(Alnum) /\ chunkSize \in Nat
    /\ content \in Seq(Symbol)
    /\ result \in {"none", "ParsingCompleted", "ParsingIncompleted", "ParsingError", "thrown"}

(* The parser says that a message is complete when it has consumed exactly *)
(* a message of the reference, no symbol less and none more, and hands over *)
(* its headers and its content; on any other input it says so, or throws.  *)
(* A length, a chunk or a line break that is counted wrong shows up only   *)
(* some symbols later (httpresponseparser.h:289-373 and 424-520).          *)
CompletesExactly ==
    /\ result = "ParsingCompleted" =>
          Responses(input) = {[end |-> begin + 1, headers |-> headers, content |-> content]}
    /\ result \in {"ParsingIncompleted", "ParsingError", "thrown"} => Responses(input) = {}

(* What a program builds around a json, with the length it writes into the *)
(* head, is taken apart to this json by the parser of the other program;   *)
(* every beginning of it is incomplete, never an error and never a shorter *)
(* message (ProcessServer.cpp:44-46, Client/main.cpp:26-28).               *)
OwnMessagesArrive ==
    \A json \in Json :
        result # "none" /\ IsPrefix(input, BuildsResponse(json)) =>
            IF input = BuildsResponse(json)
            THEN result = "ParsingCompleted" /\ content = json /\ begin = Len(input)
            ELSE result = "ParsingIncompleted"
=============================================================================
