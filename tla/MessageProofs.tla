----------------------------- MODULE MessageProofs -----------------------------
(***************************************************************************)
(* The way of one text from a client to the visual server, for lines of    *)
(* any length: nothing that is typed takes the lexer, the parser or the    *)
(* loops to a state they do not have, and a text without quotes and        *)
(* backslashes is shown as it was passed on, whatever it is.               *)
(*                                                                         *)
(* The recursive functions of Json are each shown to exist first, with the *)
(* least round for which one would not; then what they hand over has its   *)
(* type, by their rounds; then the parser is followed token by token       *)
(* through the json that the process server writes around a text.          *)
(***************************************************************************)
EXTENDS Message, TextProcessingProofs

(* f is the function of the rounds of scan_string, up to round m. *)
StringRounds(f, m, bytes, start) ==
    f = [n \in 0..m |-> IF n = 0 THEN Token("uninitialized", <<>>, start) ELSE StringRound(bytes, f[n - 1])]

LEMMA StringRoundsExist ==
    ASSUME NEW bytes, NEW start, NEW count \in Nat
    PROVE  \E f : StringRounds(f, count, bytes, start)
  <1> DEFINE bad == { m \in 0..count : ~\E f : StringRounds(f, m, bytes, start) }
  <1>1. bad = {}
    <2> SUFFICES ASSUME bad # {} PROVE FALSE
      OBVIOUS
    <2>1. bad \in SUBSET Nat
      OBVIOUS
    <2>2. PICK m \in bad : \A x \in bad : m <= x
      <3> HIDE DEF bad
      <3> QED BY <2>1, Least
    <2>3. m \in 0..count /\ ~\E f : StringRounds(f, m, bytes, start)
      OBVIOUS
    <2>4. CASE m = 0
      <3> DEFINE f == [n \in 0..0 |-> Token("uninitialized", <<>>, start)]
      <3>1. f = [n \in 0..m |-> IF n = 0 THEN Token("uninitialized", <<>>, start) ELSE StringRound(bytes, f[n - 1])]
        BY <2>4
      <3> QED BY <3>1, <2>3, Zenon DEF StringRounds
    <2>5. CASE m # 0
      <3>1. m - 1 \in 0..count /\ ~(m <= m - 1)
        BY <2>3, <2>5
      <3>2. m - 1 \notin bad
        <4> HIDE DEF bad
        <4> QED BY <2>2, <3>1
      <3>3. PICK g : StringRounds(g, m - 1, bytes, start)
        BY <3>1, <3>2
      <3> DEFINE f == [n \in 0..m |-> IF n = m THEN StringRound(bytes, g[m - 1]) ELSE g[n]]
      <3>4. ASSUME NEW n \in 0..m
            PROVE  f[n] = IF n = 0 THEN Token("uninitialized", <<>>, start) ELSE StringRound(bytes, f[n - 1])
        <4>1. CASE n = m
          <5>1. m \in 0..m /\ m - 1 \in 0..m /\ m - 1 # m
            BY <2>3, <2>5
          <5>2. f[m] = StringRound(bytes, g[m - 1]) /\ f[m - 1] = g[m - 1]
            BY ONLY <5>1
          <5> QED BY <4>1, <2>5, <5>2
        <4>2. CASE n # m
          <5>1. n \in 0..(m - 1) /\ (n # 0 => n - 1 \in 0..m /\ n - 1 # m)
            BY <4>2, <2>3
          <5>2. g[n] = IF n = 0 THEN Token("uninitialized", <<>>, start) ELSE StringRound(bytes, g[n - 1])
            BY <3>3, <5>1 DEF StringRounds
          <5> QED BY <4>2, <5>1, <5>2
        <4> QED BY <4>1, <4>2
      <3>5. f = [n \in 0..m |-> IF n = 0 THEN Token("uninitialized", <<>>, start) ELSE StringRound(bytes, f[n - 1])]
        BY <3>4
      <3> QED BY <3>5, <2>3, Zenon DEF StringRounds
    <2> QED BY <2>4, <2>5
  <1>2. count \in 0..count
    OBVIOUS
  <1> QED BY <1>1, <1>2, Zenon

(* What scan_string returns is its last round. *)
LEMMA ScanStringIs ==
    ASSUME NEW bytes, NEW start, Len(bytes) \in Nat
    PROVE  \E f : /\ scan_string(bytes, start) = f[Len(bytes)]
                  /\ f[0] = Token("uninitialized", <<>>, start)
                  /\ \A n \in 1..Len(bytes) : f[n] = StringRound(bytes, f[n - 1])
  <1> DEFINE f == CHOOSE f : StringRounds(f, Len(bytes), bytes, start)
  <1>1. StringRounds(f, Len(bytes), bytes, start)
    BY StringRoundsExist, Zenon
  <1>2. scan_string(bytes, start) = f[Len(bytes)]
    BY Zenon DEF scan_string, StringRounds
  <1> HIDE DEF f
  <1>3. f[0] = Token("uninitialized", <<>>, start)
    BY <1>1 DEF StringRounds
  <1>4. ASSUME NEW n \in 1..Len(bytes) PROVE f[n] = StringRound(bytes, f[n - 1])
    BY <1>1 DEF StringRounds
  <1> QED BY <1>2, <1>3, <1>4

(* f is the function of the rounds of parse, up to round m. *)
ParserRounds(f, m, bytes) ==
    f = [n \in 0..m |-> IF n = 0 THEN [parser |-> ParserStart, next |-> 1] ELSE ParserRound(bytes, f[n - 1])]

LEMMA ParserRoundsExist ==
    ASSUME NEW bytes, NEW count \in Nat
    PROVE  \E f : ParserRounds(f, count, bytes)
  <1> DEFINE bad == { m \in 0..count : ~\E f : ParserRounds(f, m, bytes) }
  <1>1. bad = {}
    <2> SUFFICES ASSUME bad # {} PROVE FALSE
      OBVIOUS
    <2>1. bad \in SUBSET Nat
      OBVIOUS
    <2>2. PICK m \in bad : \A x \in bad : m <= x
      <3> HIDE DEF bad
      <3> QED BY <2>1, Least
    <2>3. m \in 0..count /\ ~\E f : ParserRounds(f, m, bytes)
      OBVIOUS
    <2>4. CASE m = 0
      <3> DEFINE f == [n \in 0..0 |-> [parser |-> ParserStart, next |-> 1]]
      <3>1. f = [n \in 0..m |-> IF n = 0 THEN [parser |-> ParserStart, next |-> 1] ELSE ParserRound(bytes, f[n - 1])]
        BY <2>4
      <3> QED BY <3>1, <2>3, Zenon DEF ParserRounds
    <2>5. CASE m # 0
      <3>1. m - 1 \in 0..count /\ ~(m <= m - 1)
        BY <2>3, <2>5
      <3>2. m - 1 \notin bad
        <4> HIDE DEF bad
        <4> QED BY <2>2, <3>1
      <3>3. PICK g : ParserRounds(g, m - 1, bytes)
        BY <3>1, <3>2
      <3> DEFINE f == [n \in 0..m |-> IF n = m THEN ParserRound(bytes, g[m - 1]) ELSE g[n]]
      <3>4. ASSUME NEW n \in 0..m
            PROVE  f[n] = IF n = 0 THEN [parser |-> ParserStart, next |-> 1] ELSE ParserRound(bytes, f[n - 1])
        <4>1. CASE n = m
          <5>1. m \in 0..m /\ m - 1 \in 0..m /\ m - 1 # m
            BY <2>3, <2>5
          <5>2. f[m] = ParserRound(bytes, g[m - 1]) /\ f[m - 1] = g[m - 1]
            BY ONLY <5>1
          <5> QED BY <4>1, <2>5, <5>2
        <4>2. CASE n # m
          <5>1. n \in 0..(m - 1) /\ (n # 0 => n - 1 \in 0..m /\ n - 1 # m)
            BY <4>2, <2>3
          <5>2. g[n] = IF n = 0 THEN [parser |-> ParserStart, next |-> 1] ELSE ParserRound(bytes, g[n - 1])
            BY <3>3, <5>1 DEF ParserRounds
          <5> QED BY <4>2, <5>1, <5>2
        <4> QED BY <4>1, <4>2
      <3>5. f = [n \in 0..m |-> IF n = 0 THEN [parser |-> ParserStart, next |-> 1] ELSE ParserRound(bytes, f[n - 1])]
        BY <3>4
      <3> QED BY <3>5, <2>3, Zenon DEF ParserRounds
    <2> QED BY <2>4, <2>5
  <1>2. count \in 0..count
    OBVIOUS
  <1> QED BY <1>1, <1>2, Zenon

(* What parse returns is the root of the last round. *)
LEMMA ParseIs ==
    ASSUME NEW bytes, Len(bytes) \in Nat
    PROVE  \E f : /\ parse(bytes) = f[Len(bytes) + 1].parser.root
                  /\ f[0] = [parser |-> ParserStart, next |-> 1]
                  /\ \A n \in 1..(Len(bytes) + 1) : f[n] = ParserRound(bytes, f[n - 1])
  <1> DEFINE f == CHOOSE f : ParserRounds(f, Len(bytes) + 1, bytes)
  <1>1. ParserRounds(f, Len(bytes) + 1, bytes)
    <2>1. Len(bytes) + 1 \in Nat
      OBVIOUS
    <2> QED BY <2>1, ParserRoundsExist, Zenon
  <1>2. parse(bytes) = f[Len(bytes) + 1].parser.root
    BY Zenon DEF parse, ParserRounds
  <1> HIDE DEF f
  <1>3. f[0] = [parser |-> ParserStart, next |-> 1]
    BY <1>1 DEF ParserRounds
  <1>4. ASSUME NEW n \in 1..(Len(bytes) + 1) PROVE f[n] = ParserRound(bytes, f[n - 1])
    BY <1>1 DEF ParserRounds
  <1> QED BY <1>2, <1>3, <1>4

-----------------------------------------------------------------------------
(* What the lexer hands over, for any bytes and from any position. *)
Octet == 0..255
CodeUnit(n) == n \in Nat /\ n < 65536
Unicode(n) == n \in Nat /\ n < 1114112

LEMMA OctetSeqs ==
    /\ \A a \in Octet : <<a>> \in Seq(Octet)
    /\ \A a, b \in Octet : <<a, b>> \in Seq(Octet)
    /\ \A a, b, c \in Octet : <<a, b, c>> \in Seq(Octet)
    /\ \A a, b, c, d \in Octet : <<a, b, c, d>> \in Seq(Octet)
  OBVIOUS

(* A code point of four hex digits is a number of 16 bits. *)
LEMMA CodepointType ==
    ASSUME NEW bytes, NEW k
    PROVE  get_codepoint(bytes, k) = -1 \/ CodeUnit(get_codepoint(bytes, k))
  <1> DEFINE digit(n) == ByteAt(bytes, k + n)
  <1>1. CASE \A n \in 0..3 : digit(n) \in Hex
    <2>1. ASSUME NEW d \in Hex PROVE HexValue(d) \in 0..15
      BY SMT DEF Hex, Decimal, HexValue
    <2>2. /\ HexValue(digit(0)) \in 0..15 /\ HexValue(digit(1)) \in 0..15
          /\ HexValue(digit(2)) \in 0..15 /\ HexValue(digit(3)) \in 0..15
      <3>1. digit(0) \in Hex /\ digit(1) \in Hex /\ digit(2) \in Hex /\ digit(3) \in Hex
        <4> HIDE DEF digit
        <4>1. 0 \in 0..3 /\ 1 \in 0..3 /\ 2 \in 0..3 /\ 3 \in 0..3
          OBVIOUS
        <4> QED BY <1>1, <4>1, Zenon
      <3> HIDE DEF digit
      <3> QED BY <2>1, <3>1, Zenon
    <2>3. get_codepoint(bytes, k) = 4096 * HexValue(digit(0)) + 256 * HexValue(digit(1))
                                    + 16 * HexValue(digit(2)) + HexValue(digit(3))
      BY <1>1, SMT DEF get_codepoint
    <2> HIDE DEF digit
    <2> DEFINE a == HexValue(digit(0))
               b == HexValue(digit(1))
               c == HexValue(digit(2))
               d == HexValue(digit(3))
    <2> HIDE DEF a, b, c, d
    <2>4. CodeUnit(4096 * a + 256 * b + 16 * c + d)
      <3>1. a \in 0..15 /\ b \in 0..15 /\ c \in 0..15 /\ d \in 0..15
        BY <2>2 DEF a, b, c, d
      <3> QED BY <3>1, SMT DEF CodeUnit
    <2> QED BY <2>3, <2>4 DEF a, b, c, d
  <1>2. CASE ~\A n \in 0..3 : digit(n) \in Hex
    BY <1>2 DEF get_codepoint
  <1> QED BY <1>1, <1>2, Zenon

(* The bytes of a code point are bytes. *)
LEMMA EncodedType ==
    ASSUME NEW codepoint, Unicode(codepoint)
    PROVE  Encoded(codepoint) \in Seq(Octet)
  <1>1. ASSUME NEW n \in Nat PROVE 128 + (n % 64) \in Octet
    BY DEF Octet
  <1>2. /\ codepoint \in Nat
        /\ codepoint \div 1 \in Nat /\ codepoint \div 64 \in Nat /\ codepoint \div 4096 \in Nat
        /\ codepoint \div 262144 \in 0..4
        /\ codepoint < 65536 => codepoint \div 4096 \in 0..15
        /\ codepoint < 2048 => codepoint \div 64 \in 0..31
    <2>1. codepoint \in Nat /\ codepoint < 1114112
      BY DEF Unicode
    <2>2. codepoint \div 1 \in Nat /\ codepoint \div 64 \in Nat /\ codepoint \div 4096 \in Nat
      BY <2>1, SMT
    <2>3. codepoint \div 262144 \in 0..4
      BY <2>1, SMT
    <2>4. codepoint < 65536 => codepoint \div 4096 \in 0..15
      BY <2>1, SMT
    <2>5. codepoint < 2048 => codepoint \div 64 \in 0..31
      BY <2>1, SMT
    <2> QED BY <2>1, <2>2, <2>3, <2>4, <2>5
  <1>3. /\ 128 + ((codepoint \div 1) % 64) \in Octet
        /\ 128 + ((codepoint \div 64) % 64) \in Octet
        /\ 128 + ((codepoint \div 4096) % 64) \in Octet
    BY <1>1, <1>2
  <1>4. CASE codepoint < 128
    <2>1. Encoded(codepoint) = <<codepoint>>
      BY <1>4 DEF Encoded
    <2>2. codepoint \in Octet
      BY <1>2, <1>4 DEF Octet
    <2> QED BY <2>1, <2>2, OctetSeqs
  <1>5. CASE ~(codepoint < 128) /\ codepoint < 2048
    <2>1. Encoded(codepoint) = <<192 + (codepoint \div 64), 128 + ((codepoint \div 1) % 64)>>
      BY <1>5, SMT DEF Encoded
    <2>2. 192 + (codepoint \div 64) \in Octet
      BY <1>2, <1>5 DEF Octet
    <2> QED BY <1>3, <2>1, <2>2, OctetSeqs
  <1>6. CASE ~(codepoint < 128) /\ ~(codepoint < 2048) /\ codepoint < 65536
    <2>1. Encoded(codepoint) = <<224 + (codepoint \div 4096), 128 + ((codepoint \div 64) % 64),
                                 128 + ((codepoint \div 1) % 64)>>
      BY <1>6, SMT DEF Encoded
    <2>2. 224 + (codepoint \div 4096) \in Octet
      BY <1>2, <1>6 DEF Octet
    <2> QED BY <1>3, <2>1, <2>2, OctetSeqs
  <1>7. CASE ~(codepoint < 128) /\ ~(codepoint < 2048) /\ ~(codepoint < 65536)
    <2>1. Encoded(codepoint) = <<240 + (codepoint \div 262144), 128 + ((codepoint \div 4096) % 64),
                                 128 + ((codepoint \div 64) % 64), 128 + ((codepoint \div 1) % 64)>>
      BY <1>7, SMT DEF Encoded
    <2>2. 240 + (codepoint \div 262144) \in Octet
      BY <1>2, SMT DEF Octet
    <2> QED BY <1>3, <2>1, <2>2, OctetSeqs
  <1> QED BY <1>4, <1>5, <1>6, <1>7

LEMMA AddsType ==
    /\ IllFormed.added \in Seq(Octet)
    /\ \A added, next : added \in Seq(Octet) => Adds(added, next).added \in Seq(Octet)
  BY DEF IllFormed, Adds

(* Behind a backslash, only bytes are added. *)
LEMMA UnicodeEscapeType ==
    ASSUME NEW bytes, NEW k
    PROVE  UnicodeEscape(bytes, k).added \in Seq(Octet)
  <1> DEFINE first == get_codepoint(bytes, k)
             second == get_codepoint(bytes, k + 6)
             pair == SurrogatePair(first, second)
  <1>1. first = -1 \/ CodeUnit(first)
    BY CodepointType, Zenon
  <1>2. CASE first = -1 \/ first \in LowSurrogate
    BY AddsType, <1>2, Zenon DEF UnicodeEscape
  <1>3. CASE ~(first = -1 \/ first \in LowSurrogate) /\ first \notin HighSurrogate
    <2>1. UnicodeEscape(bytes, k) = Adds(Encoded(first), k + 4)
      BY <1>3, Zenon DEF UnicodeEscape
    <2>2. Unicode(first)
      <3> HIDE DEF first
      <3> QED BY <1>1, <1>3, SMT DEF CodeUnit, Unicode
    <2>3. Encoded(first) \in Seq(Octet)
      BY <2>2, EncodedType, Zenon
    <2> QED BY AddsType, <2>1, <2>3, Zenon
  <1>4. CASE ~(first = -1 \/ first \in LowSurrogate) /\ ~(first \notin HighSurrogate)
    <2>1. second \in LowSurrogate => Unicode(pair)
      <3> HIDE DEF first, second
      <3>1. ASSUME NEW high \in HighSurrogate, NEW low \in LowSurrogate
            PROVE  Unicode(SurrogatePair(high, low))
        <4>1. /\ high - 55296 \in Nat /\ high - 55296 < 1024
              /\ low - 56320 \in Nat /\ low - 56320 < 1024
          BY SMT DEF HighSurrogate, LowSurrogate
        <4>2. ASSUME NEW a \in Nat, a < 1024, NEW b \in Nat, b < 1024
              PROVE  a * 1024 + b + 65536 \in Nat /\ a * 1024 + b + 65536 < 1114112
          BY <4>2, SMT
        <4>3. SurrogatePair(high, low) = (high - 55296) * 1024 + (low - 56320) + 65536
          BY SMT DEF SurrogatePair
        <4> QED BY <4>1, <4>2, <4>3, SMT DEF Unicode
      <3> QED BY <1>4, <3>1
    <2>2. second \in LowSurrogate => Encoded(pair) \in Seq(Octet)
      BY <2>1, EncodedType, Zenon
    <2>3. \/ UnicodeEscape(bytes, k) = IllFormed
          \/ second \in LowSurrogate /\ UnicodeEscape(bytes, k) = Adds(Encoded(pair), k + 10)
      BY <1>4, SMT DEF UnicodeEscape
    <2> QED BY AddsType, <2>2, <2>3, Zenon
  <1> QED BY <1>2, <1>3, <1>4, Zenon

LEMMA EscapeType ==
    ASSUME NEW bytes, NEW k
    PROVE  Escape(bytes, k).added \in Seq(Octet)
  <1> DEFINE byte == ByteAt(bytes, k)
             meant == { c \in EscapedControl : c[1] = byte }
             c == CHOOSE c \in meant : TRUE
  <1>1. UnicodeEscape(bytes, k + 1).added \in Seq(Octet)
    BY UnicodeEscapeType
  <1>2. byte \in {Quote, Backslash, 47} => <<byte>> \in Seq(Octet)
    BY DEF Quote, Backslash, Octet
  <1>3. meant # {} => <<c[2]>> \in Seq(Octet)
    <2>1. meant # {} => c \in EscapedControl
      BY Zenon
    <2> HIDE DEF c
    <2>2. c \in EscapedControl => c[2] \in Octet
      BY DEF EscapedControl, Octet
    <2> QED BY <2>1, <2>2, OctetSeqs
  <1>4. \/ Escape(bytes, k) = UnicodeEscape(bytes, k + 1)
        \/ byte \in {Quote, Backslash, 47} /\ Escape(bytes, k) = Adds(<<byte>>, k + 1)
        \/ meant # {} /\ Escape(bytes, k) = Adds(<<c[2]>>, k + 1)
        \/ Escape(bytes, k) = IllFormed
    BY Zenon DEF Escape
  <1> HIDE DEF byte, meant, c
  <1>5. byte \in {Quote, Backslash, 47} => Adds(<<byte>>, k + 1).added \in Seq(Octet)
    BY <1>2, AddsType, Zenon
  <1>6. meant # {} => Adds(<<c[2]>>, k + 1).added \in Seq(Octet)
    BY <1>3, AddsType, Zenon
  <1>7. IllFormed.added \in Seq(Octet)
    BY AddsType, Zenon
  <1> QED BY <1>1, <1>4, <1>5, <1>6, <1>7, Zenon

(* A round of scan_string adds only bytes. *)
LEMMA CharacterType ==
    ASSUME NEW bytes, NEW k
    PROVE  StringCharacter(bytes, k).added \in Seq(Octet)
  <1> DEFINE byte == ByteAt(bytes, k)
             fits == { ranges \in Multibyte : next_byte_in_range(bytes, k, ranges) }
             ranges == CHOOSE ranges \in fits : TRUE
             added == [n \in 1..Len(ranges) |-> ByteAt(bytes, k + n - 1)]
  <1>1. Escape(bytes, k + 1).added \in Seq(Octet)
    BY EscapeType
  <1>2. byte \in Ascii => <<byte>> \in Seq(Octet)
    BY DEF Ascii, Octet
  <1>3. fits # {} => added \in Seq(Octet)
    <2> SUFFICES ASSUME fits # {} PROVE added \in Seq(Octet)
      OBVIOUS
    <2>1. ranges \in fits
      BY Zenon
    <2>2. ranges \in Multibyte /\ \A n \in 1..Len(ranges) : ByteAt(bytes, k + n - 1) \in ranges[n]
      BY <2>1, Zenon DEF next_byte_in_range
    <2> HIDE DEF ranges
    <2>3. ranges \in Seq(SUBSET Octet)
      <3>1. /\ AnyLater \in SUBSET Octet /\ 194..223 \in SUBSET Octet /\ {224} \in SUBSET Octet
            /\ 160..191 \in SUBSET Octet /\ 225..236 \cup 238..239 \in SUBSET Octet
            /\ {237} \in SUBSET Octet /\ 128..159 \in SUBSET Octet /\ {240} \in SUBSET Octet
            /\ 144..191 \in SUBSET Octet /\ 241..243 \in SUBSET Octet
            /\ {244} \in SUBSET Octet /\ 128..143 \in SUBSET Octet
        BY DEF Octet, AnyLater
      <3>2. /\ <<194..223, AnyLater>> \in Seq(SUBSET Octet)
            /\ <<{224}, 160..191, AnyLater>> \in Seq(SUBSET Octet)
        BY <3>1
      <3>3. /\ <<225..236 \cup 238..239, AnyLater, AnyLater>> \in Seq(SUBSET Octet)
            /\ <<{237}, 128..159, AnyLater>> \in Seq(SUBSET Octet)
        BY <3>1
      <3>4. /\ <<{240}, 144..191, AnyLater, AnyLater>> \in Seq(SUBSET Octet)
            /\ <<241..243, AnyLater, AnyLater, AnyLater>> \in Seq(SUBSET Octet)
            /\ <<{244}, 128..143, AnyLater, AnyLater>> \in Seq(SUBSET Octet)
        BY <3>1
      <3>5. Multibyte \subseteq Seq(SUBSET Octet)
        BY <3>2, <3>3, <3>4 DEF Multibyte
      <3> QED BY <2>2, <3>5
    <2>4. Len(ranges) \in Nat /\ \A n \in 1..Len(ranges) : ranges[n] \subseteq Octet
      BY <2>3
    <2>5. \A n \in 1..Len(ranges) : ByteAt(bytes, k + n - 1) \in Octet
      BY <2>2, <2>4
    <2> QED BY <2>4, <2>5
  <1>4. \/ StringCharacter(bytes, k) = Escape(bytes, k + 1)
        \/ byte \in Ascii /\ StringCharacter(bytes, k) = Adds(<<byte>>, k + 1)
        \/ fits # {} /\ StringCharacter(bytes, k) = Adds(added, k + Len(ranges))
        \/ StringCharacter(bytes, k) = IllFormed
    BY Zenon DEF StringCharacter
  <1> HIDE DEF byte, fits, ranges, added
  <1> QED BY <1>1, <1>2, <1>3, <1>4, AddsType, Zenon

(* What holds in the beginning and from a round to the next, holds always. *)
LEMMA Rounds ==
    ASSUME NEW count \in Nat, NEW S, 0 \in S, \A n \in 1..count : n - 1 \in S => n \in S
    PROVE  0..count \subseteq S
  <1> DEFINE bad == (0..count) \ S
  <1>1. bad = {}
    <2> SUFFICES ASSUME bad # {} PROVE FALSE
      OBVIOUS
    <2>1. bad \in SUBSET Nat
      OBVIOUS
    <2>2. PICK m \in bad : \A x \in bad : m <= x
      <3> HIDE DEF bad
      <3> QED BY <2>1, Least
    <2>3. m \in 1..count /\ m - 1 \in 0..count /\ ~(m <= m - 1)
      OBVIOUS
    <2>4. m - 1 \notin bad
      <3> HIDE DEF bad
      <3> QED BY <2>2, <2>3
    <2> QED BY <2>3, <2>4
  <1> QED BY <1>1

LEMMA TokenParts ==
    /\ \A type, text1, next : /\ Token(type, text1, next).type = type
                              /\ Token(type, text1, next).text = text1
                              /\ Token(type, text1, next).next = next
    /\ ParseError.type = "parse_error" /\ ParseError.text = <<>>
  BY DEF Token, ParseError

(* A string is a sequence of bytes. *)
LEMMA StringType ==
    ASSUME NEW bytes, Len(bytes) \in Nat, NEW start
    PROVE  scan_string(bytes, start).text \in Seq(Octet)
  <1>1. PICK f : /\ scan_string(bytes, start) = f[Len(bytes)]
                 /\ f[0] = Token("uninitialized", <<>>, start)
                 /\ \A n \in 1..Len(bytes) : f[n] = StringRound(bytes, f[n - 1])
    BY ScanStringIs
  <1> DEFINE S == { n \in 0..Len(bytes) : f[n].text \in Seq(Octet) }
  <1>2. 0 \in S
    <2>1. f[0].text = <<>> /\ <<>> \in Seq(Octet)
      BY <1>1, TokenParts, EmptySeq
    <2>2. 0 \in 0..Len(bytes)
      OBVIOUS
    <2> QED BY <2>1, <2>2, Zenon
  <1>3. ASSUME NEW n \in 1..Len(bytes), n - 1 \in S PROVE n \in S
    <2> DEFINE at == f[n - 1]
               c == StringCharacter(bytes, at.next)
    <2>1. f[n] = StringRound(bytes, at) /\ at.text \in Seq(Octet) /\ c.added \in Seq(Octet)
      BY <1>1, <1>3, CharacterType
    <2>2. \/ StringRound(bytes, at) = at
          \/ StringRound(bytes, at) = Token("value_string", at.text, at.next + 1)
          \/ StringRound(bytes, at) = Token("uninitialized", at.text \o c.added, c.next)
          \/ StringRound(bytes, at) = ParseError
      BY Zenon DEF StringRound
    <2>3. at.text \o c.added \in Seq(Octet)
      BY <2>1, ConcatProperties
    <2> HIDE DEF at, c
    <2>4. f[n].text \in Seq(Octet)
      <3>1. \/ f[n].text = at.text \/ f[n].text = at.text \o c.added \/ f[n].text = <<>>
        <4>1. /\ Token("value_string", at.text, at.next + 1).text = at.text
              /\ Token("uninitialized", at.text \o c.added, c.next).text = at.text \o c.added
              /\ ParseError.text = <<>>
          BY DEF Token, ParseError
        <4> QED BY <2>1, <2>2, <4>1, Zenon
      <3>2. <<>> \in Seq(Octet)
        BY EmptySeq
      <3> QED BY <2>1, <2>3, <3>1, <3>2, Zenon
    <2> QED BY <2>4
  <1>4. 0..Len(bytes) \subseteq S
    <2> HIDE DEF S
    <2> QED BY <1>2, <1>3, Rounds
  <1>5. Len(bytes) \in S
    <2> HIDE DEF S
    <2> QED BY <1>4
  <1> QED BY <1>1, <1>5

LEMMA ScanType ==
    ASSUME NEW bytes, Len(bytes) \in Nat, NEW from, scan(bytes, from).type = "value_string"
    PROVE  scan(bytes, from).text \in Seq(Octet)
  <1> DEFINE k == skip_whitespace(bytes, from)
             structural == { s \in Structural : s[1] = ByteAt(bytes, k) }
             s == CHOOSE s \in structural : TRUE
             literal == CHOOSE l \in Literals : l[2][1] = bytes[k]
  <1>1. \/ structural # {} /\ scan(bytes, from) = Token(s[2], <<>>, k + 1)
        \/ /\ \E l \in Literals : l[2][1] = ByteAt(bytes, k)
           /\ scan(bytes, from) = scan_literal(bytes, k)
        \/ scan(bytes, from) = scan_string(bytes, k + 1)
        \/ scan(bytes, from) = scan_number(bytes, k)
        \/ scan(bytes, from) = Token("end_of_input", <<>>, k)
        \/ scan(bytes, from) = ParseError
    BY Zenon DEF scan
  <1>2. scan_string(bytes, k + 1).text \in Seq(Octet)
    BY StringType, Zenon
  <1>3. scan_literal(bytes, k).text = <<>>
    BY DEF scan_literal, Token, ParseError
  <1>4. scan_number(bytes, k).type # "value_string"
    BY DEF scan_number, Token, ParseError
  <1> HIDE DEF k, structural, s
  <1>5. \/ scan(bytes, from).text = <<>>
        \/ scan(bytes, from).text \in Seq(Octet)
        \/ scan(bytes, from).type # "value_string"
    <2>1. /\ Token(s[2], <<>>, k + 1).text = <<>> /\ Token("end_of_input", <<>>, k).text = <<>>
          /\ ParseError.text = <<>>
      BY DEF Token, ParseError
    <2> QED BY <1>1, <1>2, <1>3, <1>4, <2>1, Zenon
  <1> QED BY <1>5, EmptySeq, Zenon

-----------------------------------------------------------------------------
(* What the parser builds: members that are strings are sequences of bytes. *)
MemberOK(v) == v.type = "value_string" => v.value \in Seq(Octet)
ObjectOK(v) == v.type = "object" => \A key \in DOMAIN v.value : MemberOK(v.value[key])
FrameOK(frame) == frame.type \in {"object", "array"} /\ ObjectOK(frame)
StackOK(stack) == \E T : stack \in Seq(T) /\ \A frame \in T : FrameOK(frame)

ParserOK(parser) ==
    /\ ObjectOK(parser.root) /\ StackOK(parser.ref_stack)
    /\ parser.expects \in {"value or end", "key", "key or end", "colon"} => parser.ref_stack # <<>>

LEMMA StackParts ==
    ASSUME NEW stack, StackOK(stack)
    PROVE  /\ stack # <<>> => FrameOK(Last(stack)) /\ StackOK(Front(stack))
           /\ \A frame : FrameOK(frame) => StackOK(Append(stack, frame)) /\ Append(stack, frame) # <<>>
  <1>1. PICK T : stack \in Seq(T) /\ \A frame \in T : FrameOK(frame)
    BY DEF StackOK
  <1>2. ASSUME stack # <<>> PROVE FrameOK(Last(stack)) /\ StackOK(Front(stack))
    <2>1. Len(stack) \in 1..Len(stack) /\ Last(stack) = stack[Len(stack)] /\ stack[Len(stack)] \in T
      BY <1>1, <1>2, EmptySeq, LenProperties, ElementOfSeq DEF Last
    <2>2. Front(stack) \in Seq(T)
      BY <1>1, <1>2, EmptySeq, LenProperties DEF Front
    <2> QED BY <1>1, <2>1, <2>2 DEF StackOK
  <1>3. ASSUME NEW frame, FrameOK(frame)
        PROVE  StackOK(Append(stack, frame)) /\ Append(stack, frame) # <<>>
    <2>1. /\ Append(stack, frame) \in Seq(T \cup {frame})
          /\ \A other \in T \cup {frame} : FrameOK(other)
          /\ Append(stack, frame) # <<>>
      BY <1>1, <1>3, AppendProperties
    <2> QED BY <2>1 DEF StackOK
  <1> QED BY <1>2, <1>3

LEMMA HandleValueOK ==
    ASSUME NEW parser, ObjectOK(parser.root), StackOK(parser.ref_stack),
           NEW v, MemberOK(v), ObjectOK(v)
    PROVE  ParserOK(handle_value(parser, v))
  <1> DEFINE frame == Last(parser.ref_stack)
             array == Container("array", Append(frame.value, v), frame.element)
             object == Container(frame.type, SetMember(frame.value, frame.element, v), frame.element)
  <1>1. CASE parser.ref_stack = <<>>
    <2>1. handle_value(parser, v) = Parser("end", <<>>, v)
      BY <1>1 DEF handle_value
    <2> QED BY <2>1, <1>1 DEF Parser, ParserOK
  <1>2. CASE parser.ref_stack # <<>>
    <2>1. FrameOK(frame) /\ StackOK(Front(parser.ref_stack))
      BY <1>2, StackParts
    <2>2. handle_value(parser, v) = Updates(parser, IF frame.type = "array" THEN array ELSE object, "comma")
      BY <1>2, Zenon DEF handle_value
    <2>3. frame.type = "array" => FrameOK(array)
      BY DEF FrameOK, ObjectOK, Container
    <2>4. frame.type # "array" => FrameOK(object)
      BY <2>1 DEF FrameOK, ObjectOK, Container, SetMember
    <2> HIDE DEF array, object, frame
    <2>5. ASSUME NEW new, FrameOK(new) PROVE ParserOK(Updates(parser, new, "comma"))
      BY <2>1, <2>5, StackParts DEF ParserOK, Updates, Parser
    <2> QED BY <2>2, <2>3, <2>4, <2>5
  <1> QED BY <1>1, <1>2

LEMMA ClosesOK ==
    ASSUME NEW parser, ParserOK(parser), parser.ref_stack # <<>>
    PROVE  ParserOK(Closes(parser))
  <1> DEFINE frame == Last(parser.ref_stack)
             outer == Parser(parser.expects, Front(parser.ref_stack), parser.root)
             v == Value(frame.type, frame.value)
  <1>1. FrameOK(frame) /\ StackOK(Front(parser.ref_stack)) /\ ObjectOK(parser.root)
    BY StackParts DEF ParserOK
  <1>2. ObjectOK(outer.root) /\ StackOK(outer.ref_stack)
    BY <1>1 DEF Parser
  <1>3. MemberOK(v) /\ ObjectOK(v)
    BY <1>1 DEF FrameOK, ObjectOK, MemberOK, Value
  <1>4. Closes(parser) = handle_value(outer, v)
    BY Zenon DEF Closes
  <1> HIDE DEF outer, v
  <1> QED BY <1>2, <1>3, <1>4, HandleValueOK

LEMMA OpensOK ==
    ASSUME NEW parser, ParserOK(parser)
    PROVE  /\ ParserOK(Opens(parser, "object", EmptyObject))
           /\ ParserOK(Opens(parser, "array", <<>>))
  <1>1. ASSUME NEW type \in {"object", "array"}, NEW empty, FrameOK(Container(type, empty, <<>>))
        PROVE  ParserOK(Opens(parser, type, empty))
    <2> DEFINE stack == Append(parser.ref_stack, Container(type, empty, <<>>))
    <2>1. StackOK(stack) /\ stack # <<>> /\ ObjectOK(parser.root)
      BY <1>1, StackParts DEF ParserOK
    <2>2. /\ Opens(parser, type, empty).ref_stack = stack
          /\ Opens(parser, type, empty).root = parser.root
      BY DEF Opens, Parser
    <2> HIDE DEF stack
    <2> QED BY <2>1, <2>2 DEF ParserOK
  <1>2. FrameOK(Container("object", EmptyObject, <<>>)) /\ FrameOK(Container("array", <<>>, <<>>))
    BY DEF FrameOK, ObjectOK, Container, EmptyObject
  <1> QED BY <1>1, <1>2

LEMMA FailedOK == ParserOK(Failed) /\ ParserOK(ParserStart)
  <1>1. StackOK(<<>>)
    <2> DEFINE T == { frame \in {} : FrameOK(frame) }
    <2>1. <<>> \in Seq(T) /\ \A frame \in T : FrameOK(frame)
      OBVIOUS
    <2> HIDE DEF T
    <2> QED BY <2>1, Zenon DEF StackOK
  <1> QED BY <1>1 DEF ParserOK, Failed, ParserStart, Parser, Value, ObjectOK

LEMMA ExpectsOK ==
    ASSUME NEW parser, ParserOK(parser), NEW expects,
           expects \in {"value or end", "key", "key or end", "colon"} => parser.ref_stack # <<>>
    PROVE  ParserOK(Expects(parser, expects))
  BY DEF ParserOK, Expects, Parser

LEMMA TakesValueOK ==
    ASSUME NEW parser, ParserOK(parser), parser.expects \in {"value", "value or end"},
           NEW token, token.type = "value_string" => token.text \in Seq(Octet)
    PROVE  ParserOK(TakesValue(parser, token))
  <1> DEFINE v == Value(token.type, token.text)
  <1>1. token.type \in Scalar => MemberOK(v) /\ ObjectOK(v)
    BY DEF Scalar, Value, MemberOK, ObjectOK
  <1>2. token.type \in Scalar => ParserOK(handle_value(parser, v))
    <2> HIDE DEF v
    <2> QED BY <1>1, HandleValueOK DEF ParserOK
  <1>3. parser.expects = "value or end" => ParserOK(Closes(parser))
    BY ClosesOK DEF ParserOK
  <1>4. \/ token.type \in Scalar /\ TakesValue(parser, token) = handle_value(parser, v)
        \/ TakesValue(parser, token) = Opens(parser, "object", EmptyObject)
        \/ TakesValue(parser, token) = Opens(parser, "array", <<>>)
        \/ parser.expects = "value or end" /\ TakesValue(parser, token) = Closes(parser)
        \/ TakesValue(parser, token) = Failed
    BY Zenon DEF TakesValue
  <1> HIDE DEF v
  <1> QED BY <1>2, <1>3, <1>4, OpensOK, FailedOK, Zenon

LEMMA TakesKeyOK ==
    ASSUME NEW parser, ParserOK(parser), parser.expects \in {"key", "key or end", "colon"},
           NEW token
    PROVE  ParserOK(TakesKey(parser, token))
  <1> DEFINE frame == Last(parser.ref_stack)
             new == Container(frame.type, frame.value, token.text)
  <1>1. parser.ref_stack # <<>>
    BY DEF ParserOK
  <1>2. FrameOK(frame) /\ StackOK(Front(parser.ref_stack)) /\ ObjectOK(parser.root)
    BY <1>1, StackParts DEF ParserOK
  <1>3. FrameOK(new)
    BY <1>2 DEF FrameOK, ObjectOK, Container
  <1>4. ParserOK(Updates(parser, new, "colon"))
    <2> HIDE DEF frame, new
    <2> QED BY <1>2, <1>3, StackParts DEF ParserOK, Updates, Parser
  <1>5. ParserOK(Expects(parser, "value")) /\ ParserOK(Closes(parser))
    BY <1>1, ExpectsOK, ClosesOK
  <1>6. \/ TakesKey(parser, token) = Updates(parser, new, "colon")
        \/ TakesKey(parser, token) = Expects(parser, "value")
        \/ TakesKey(parser, token) = Closes(parser)
        \/ TakesKey(parser, token) = Failed
    BY Zenon DEF TakesKey
  <1> HIDE DEF new
  <1> QED BY <1>4, <1>5, <1>6, FailedOK, Zenon

LEMMA EvaluatesStateOK ==
    ASSUME NEW parser, ParserOK(parser), NEW token
    PROVE  ParserOK(EvaluatesState(parser, token))
  <1> DEFINE inside == IF parser.ref_stack = <<>> THEN "none" ELSE Last(parser.ref_stack).type
  <1>1. inside = "object" \/ inside = "array" => parser.ref_stack # <<>>
    OBVIOUS
  <1>2. parser.ref_stack # <<>> => ParserOK(Closes(parser)) /\ ParserOK(Expects(parser, "key"))
    BY ClosesOK, ExpectsOK
  <1>3. ParserOK(Expects(parser, "accepted")) /\ ParserOK(Expects(parser, "value"))
    BY ExpectsOK
  <1>4. \/ EvaluatesState(parser, token) = Expects(parser, "accepted")
        \/ EvaluatesState(parser, token) = Expects(parser, "value")
        \/ inside = "object" /\ EvaluatesState(parser, token) = Expects(parser, "key")
        \/ /\ <<inside, token.type>> \in {<<"array", "end_array">>, <<"object", "end_object">>}
           /\ EvaluatesState(parser, token) = Closes(parser)
        \/ EvaluatesState(parser, token) = Failed
    BY Zenon DEF EvaluatesState
  <1> HIDE DEF inside
  <1>5. <<inside, token.type>> \in {<<"array", "end_array">>, <<"object", "end_object">>} =>
            inside = "object" \/ inside = "array"
    OBVIOUS
  <1> QED BY <1>1, <1>2, <1>3, <1>4, <1>5, FailedOK, Zenon

(* The value of a member that is a string is a sequence of bytes. *)
LEMMA ParseType ==
    ASSUME NEW bytes, Len(bytes) \in Nat
    PROVE  ObjectOK(parse(bytes))
  <1>1. PICK f : /\ parse(bytes) = f[Len(bytes) + 1].parser.root
                 /\ f[0] = [parser |-> ParserStart, next |-> 1]
                 /\ \A n \in 1..(Len(bytes) + 1) : f[n] = ParserRound(bytes, f[n - 1])
    BY ParseIs
  <1> DEFINE S == { n \in 0..(Len(bytes) + 1) : ParserOK(f[n].parser) }
  <1>2. 0 \in S
    <2>1. f[0].parser = ParserStart /\ 0 \in 0..(Len(bytes) + 1)
      BY <1>1
    <2> QED BY <2>1, FailedOK, Zenon
  <1>3. ASSUME NEW n \in 1..(Len(bytes) + 1), n - 1 \in S PROVE n \in S
    <2> DEFINE at == f[n - 1]
               token == scan(bytes, at.next)
    <2>1. f[n] = ParserRound(bytes, at) /\ ParserOK(at.parser)
      BY <1>1, <1>3
    <2>2. token.type = "value_string" => token.text \in Seq(Octet)
      BY ScanType, Zenon
    <2>3. ParserOK(ParserStep(at.parser, token))
      <3>1. \/ /\ at.parser.expects \in {"value", "value or end"}
               /\ ParserStep(at.parser, token) = TakesValue(at.parser, token)
            \/ /\ at.parser.expects \in {"key", "key or end", "colon"}
               /\ ParserStep(at.parser, token) = TakesKey(at.parser, token)
            \/ ParserStep(at.parser, token) = EvaluatesState(at.parser, token)
        BY Zenon DEF ParserStep
      <3> HIDE DEF at, token
      <3> QED BY <2>1, <2>2, <3>1, TakesValueOK, TakesKeyOK, EvaluatesStateOK, Zenon
    <2>4. f[n].parser = at.parser \/ f[n].parser = ParserStep(at.parser, token)
      BY <2>1 DEF ParserRound
    <2> HIDE DEF at, token
    <2>5. ParserOK(f[n].parser)
      BY <2>1, <2>3, <2>4, Zenon
    <2> QED BY <2>5
  <1>4. 0..(Len(bytes) + 1) \subseteq S
    <2> HIDE DEF S
    <2>1. Len(bytes) + 1 \in Nat
      OBVIOUS
    <2> QED BY <1>2, <1>3, <2>1, Rounds
  <1>5. Len(bytes) + 1 \in S
    <2> HIDE DEF S
    <2> QED BY <1>4
  <1>6. ParserOK(f[Len(bytes) + 1].parser)
    BY <1>5
  <1> QED BY <1>1, <1>6, Zenon DEF ParserOK

LEMMA StringMemberType ==
    ASSUME NEW bytes, Len(bytes) \in Nat, NEW key
    PROVE  StringMember(parse(bytes), key).string \in Seq(Octet)
  <1> DEFINE json == parse(bytes)
  <1>1. ObjectOK(json)
    BY ParseType
  <1> HIDE DEF json
  <1>2. \/ /\ json.type = "object" /\ key \in DOMAIN json.value /\ json.value[key].type = "value_string"
           /\ StringMember(json, key).string = json.value[key].value
        \/ StringMember(json, key).string = <<>>
    BY DEF StringMember
  <1>3. StringMember(json, key).string \in Seq(Octet)
    BY <1>1, <1>2, EmptySeq, Zenon DEF ObjectOK, MemberOK
  <1> QED BY <1>3 DEF json

-----------------------------------------------------------------------------
(* What the parser makes of a string of characters that stand for themselves. *)
Plain == (32..126) \ {Quote, Backslash}

(* The part of a string that n rounds of scan_string have read. *)
Part(bytes, start, n) == [j \in 1..n |-> bytes[start + j - 1]]

LEMMA PlainRound ==
    ASSUME NEW bytes, Len(bytes) \in Nat, NEW start \in Nat, NEW n \in Nat,
           start + n <= Len(bytes), bytes[start + n] \in Plain
    PROVE  StringRound(bytes, Token("uninitialized", Part(bytes, start, n), start + n))
               = Token("uninitialized", Part(bytes, start, n + 1), start + (n + 1))
  <1> DEFINE at == Token("uninitialized", Part(bytes, start, n), start + n)
             byte == bytes[start + n]
             c == StringCharacter(bytes, start + n)
  <1>1. at.type = "uninitialized" /\ at.text = Part(bytes, start, n) /\ at.next = start + n
    BY DEF Token
  <1>2. ByteAt(bytes, start + n) = byte
    BY DEF ByteAt
  <1>3. byte # Quote /\ byte # Backslash /\ byte \in Ascii
    BY DEF Plain, Ascii, Quote, Backslash
  <1>4. c = Adds(<<byte>>, start + n + 1)
    BY <1>2, <1>3, Zenon DEF StringCharacter
  <1>5. c.ok /\ c.added = <<byte>> /\ c.next = start + n + 1
    BY <1>4 DEF Adds
  <1>6. StringRound(bytes, at) = Token("uninitialized", at.text \o c.added, c.next)
    BY <1>1, <1>2, <1>3, <1>5, Zenon DEF StringRound
  <1>7. Part(bytes, start, n) \o <<byte>> = Part(bytes, start, n + 1)
    BY DEF Part
  <1>8. start + n + 1 = start + (n + 1)
    OBVIOUS
  <1> HIDE DEF at, c
  <1>9. StringRound(bytes, at) = Token("uninitialized", Part(bytes, start, n + 1), start + (n + 1))
    BY <1>1, <1>5, <1>6, <1>7, <1>8, Zenon
  <1> QED BY <1>9 DEF at

(* A string of such characters, up to its closing quote. *)
LEMMA PlainString ==
    ASSUME NEW bytes, Len(bytes) \in Nat, NEW start \in Nat \ {0}, NEW m \in Nat,
           start + m <= Len(bytes), \A n \in 0..(m - 1) : bytes[start + n] \in Plain,
           bytes[start + m] = Quote
    PROVE  scan_string(bytes, start) = Token("value_string", Part(bytes, start, m), start + m + 1)
  <1> DEFINE open(n) == Token("uninitialized", Part(bytes, start, n), start + n)
             closed == Token("value_string", Part(bytes, start, m), start + m + 1)
  <1>1. PICK f : /\ scan_string(bytes, start) = f[Len(bytes)]
                 /\ f[0] = Token("uninitialized", <<>>, start)
                 /\ \A n \in 1..Len(bytes) : f[n] = StringRound(bytes, f[n - 1])
    BY ScanStringIs
  <1> DEFINE S == { n \in 0..Len(bytes) : f[n] = IF n <= m THEN open(n) ELSE closed }
  <1>2. 0 \in S
    <2>1. Part(bytes, start, 0) = <<>> /\ start + 0 = start /\ 0 <= m /\ 0 \in 0..Len(bytes)
      BY DEF Part
    <2> QED BY <1>1, <2>1
  <1>3. ASSUME NEW n \in 1..Len(bytes), n - 1 \in S PROVE n \in S
    <2>1. /\ f[n] = StringRound(bytes, f[n - 1])
          /\ f[n - 1] = IF n - 1 <= m THEN open(n - 1) ELSE closed
      BY <1>1, <1>3
    <2>2. CASE n <= m
      <3>1. n - 1 \in Nat /\ n - 1 <= m /\ start + (n - 1) <= Len(bytes) /\ n - 1 \in 0..(m - 1)
            /\ (n - 1) + 1 = n
        BY <2>2
      <3>2. StringRound(bytes, open(n - 1)) = open((n - 1) + 1)
        <4>1. bytes[start + (n - 1)] \in Plain
          BY <3>1
        <4> QED BY <3>1, <4>1, PlainRound
      <3>3. f[n] = open(n)
        <4> HIDE DEF open, closed
        <4> QED BY <2>1, <3>1, <3>2
      <3> HIDE DEF open, closed
      <3> QED BY <2>2, <3>3
    <2>3. CASE n = m + 1
      <3>1. n - 1 = m /\ ~(n <= m) /\ m <= m
        BY <2>3
      <3>2. f[n] = StringRound(bytes, open(m))
        <4> HIDE DEF open, closed
        <4> QED BY <2>1, <3>1
      <3>3. /\ open(m).type = "uninitialized" /\ open(m).text = Part(bytes, start, m)
            /\ open(m).next = start + m /\ ByteAt(bytes, start + m) = Quote
        BY DEF Token, ByteAt
      <3>4. StringRound(bytes, open(m)) = closed
        <4> HIDE DEF open
        <4> QED BY <3>3, Zenon DEF StringRound
      <3> HIDE DEF open, closed
      <3> QED BY <3>1, <3>2, <3>4
    <2>4. CASE n > m + 1
      <3>1. ~(n - 1 <= m) /\ ~(n <= m)
        BY <2>4
      <3>2. closed.type # "uninitialized"
        BY DEF Token
      <3>3. StringRound(bytes, closed) = closed
        <4> HIDE DEF closed
        <4> QED BY <3>2, Zenon DEF StringRound
      <3> HIDE DEF open, closed
      <3> QED BY <2>1, <3>1, <3>3
    <2>5. n <= m \/ n = m + 1 \/ n > m + 1
      OBVIOUS
    <2> QED BY <2>2, <2>3, <2>4, <2>5
  <1>4. 0..Len(bytes) \subseteq S
    <2> HIDE DEF S
    <2> QED BY <1>2, <1>3, Rounds
  <1>5. Len(bytes) \in S /\ ~(Len(bytes) <= m)
    <2>1. Len(bytes) \in 0..Len(bytes) /\ ~(Len(bytes) <= m)
      OBVIOUS
    <2> HIDE DEF S
    <2> QED BY <1>4, <2>1
  <1> HIDE DEF open, closed
  <1>6. f[Len(bytes)] = closed
    BY <1>5
  <1> QED BY <1>1, <1>6 DEF closed

(* The lexer at a byte that is no white space. *)
LEMMA NothingSkipped ==
    ASSUME NEW bytes, Len(bytes) \in Nat, NEW k \in 1..(Len(bytes) + 1),
           ByteAt(bytes, k) \notin Whitespace
    PROVE  skip_whitespace(bytes, k) = k
  <1> DEFINE S == { n \in k..(Len(bytes) + 1) : ByteAt(bytes, n) \notin Whitespace }
  <1>1. S \in SUBSET Nat /\ k \in S /\ \A n \in S : k <= n
    OBVIOUS
  <1>2. skip_whitespace(bytes, k) = Min(S)
    BY DEF skip_whitespace
  <1> HIDE DEF S
  <1>3. Min(S) \in S /\ \A n \in S : Min(S) <= n
    BY <1>1, Least
  <1>4. Min(S) <= k /\ k <= Min(S) /\ Min(S) \in Nat
    BY <1>1, <1>3
  <1> QED BY <1>2, <1>4

LEMMA ScanStructural ==
    ASSUME NEW bytes, Len(bytes) \in Nat, NEW k \in 1..Len(bytes), NEW s \in Structural,
           bytes[k] = s[1]
    PROVE  scan(bytes, k) = Token(s[2], <<>>, k + 1)
  <1> DEFINE structural == { other \in Structural : other[1] = bytes[k] }
  <1>1. ByteAt(bytes, k) = bytes[k] /\ bytes[k] \notin Whitespace
    BY DEF ByteAt, Structural, Whitespace
  <1>2. skip_whitespace(bytes, k) = k
    BY <1>1, NothingSkipped
  <1>3. structural = {s}
    BY DEF Structural
  <1>4. structural # {} /\ (CHOOSE other \in structural : TRUE) = s
    <2> HIDE DEF structural
    <2> QED BY <1>3
  <1>5. scan(bytes, k) = Token((CHOOSE other \in structural : TRUE)[2], <<>>, k + 1)
    BY <1>1, <1>2, <1>4, Zenon DEF scan
  <1> HIDE DEF structural
  <1> QED BY <1>4, <1>5

LEMMA ScanQuote ==
    ASSUME NEW bytes, Len(bytes) \in Nat, NEW k \in 1..Len(bytes), bytes[k] = Quote
    PROVE  scan(bytes, k) = scan_string(bytes, k + 1)
  <1>1. ByteAt(bytes, k) = bytes[k] /\ bytes[k] \notin Whitespace
    BY DEF ByteAt, Quote, Whitespace
  <1>2. skip_whitespace(bytes, k) = k
    BY <1>1, NothingSkipped
  <1>3. { s \in Structural : s[1] = Quote } = {}
    BY DEF Structural, Quote
  <1>4. ~\E l \in Literals : l[2][1] = Quote
    BY DEF Literals, Quote
  <1> QED BY <1>1, <1>2, <1>3, <1>4, Zenon DEF scan

LEMMA ScanEof ==
    ASSUME NEW bytes, Len(bytes) \in Nat
    PROVE  scan(bytes, Len(bytes) + 1) = Token("end_of_input", <<>>, Len(bytes) + 1)
  <1> DEFINE k == Len(bytes) + 1
  <1>1. ByteAt(bytes, k) = Eof /\ Eof \notin Whitespace /\ k \in 1..(Len(bytes) + 1)
    BY DEF ByteAt, Eof, Whitespace
  <1>2. skip_whitespace(bytes, k) = k
    BY <1>1, NothingSkipped
  <1>3. { s \in Structural : s[1] = Eof } = {}
    BY DEF Structural, Eof
  <1>4. ~\E l \in Literals : l[2][1] = Eof
    BY DEF Literals, Eof
  <1>5. Eof # Quote /\ Eof \notin Decimal \cup {45}
    BY DEF Eof, Quote, Decimal
  <1> HIDE DEF k
  <1>6. scan(bytes, k) = Token("end_of_input", <<>>, k)
    BY <1>1, <1>2, <1>3, <1>4, <1>5, Zenon DEF scan
  <1> QED BY <1>6 DEF k

(* The elements of two sequences in a row. *)
LEMMA InARow ==
    ASSUME NEW S, NEW s \in Seq(S), NEW t \in Seq(S)
    PROVE  /\ s \o t \in Seq(S) /\ Len(s \o t) = Len(s) + Len(t)
           /\ \A k \in 1..Len(s) : (s \o t)[k] = s[k]
           /\ \A k \in 1..Len(t) : (s \o t)[Len(s) + k] = t[k]
  <1> DEFINE m == Len(s)
             n == Len(t)
             j == s \o t
  <1>1. m \in Nat /\ n \in Nat
    BY LenProperties
  <1>2. j \in Seq(S) /\ Len(j) = m + n
        /\ \A k \in 1..(m + n) : j[k] = IF k <= m THEN s[k] ELSE t[k - m]
    BY ConcatProperties
  <1> HIDE DEF m, n, j
  <1>3. ASSUME NEW k \in 1..m PROVE j[k] = s[k]
    <2>1. k \in 1..(m + n) /\ k <= m
      BY <1>1
    <2> QED BY <1>2, <2>1
  <1>4. ASSUME NEW k \in 1..n PROVE j[m + k] = t[k]
    <2>1. m + k \in 1..(m + n) /\ ~(m + k <= m) /\ (m + k) - m = k
      BY <1>1
    <2> QED BY <1>2, <2>1
  <1> QED BY <1>2, <1>3, <1>4 DEF m, n, j

(* The bytes of {"text":"..."}. *)
LEMMA WrappedBytes ==
    ASSUME NEW b \in Seq(Octet)
    PROVE  LET doc == Wrapped(b)
               m   == Len(b)
           IN  /\ doc \in Seq(Octet) /\ m \in Nat /\ Len(doc) = m + 11
               /\ doc[1] = 123 /\ doc[2] = Quote
               /\ \A j \in 1..4 : doc[2 + j] = TextKey[j]
               /\ doc[7] = Quote /\ doc[8] = 58 /\ doc[9] = Quote
               /\ \A j \in 1..m : doc[9 + j] = b[j]
               /\ doc[m + 10] = Quote /\ doc[m + 11] = 125
  <1> DEFINE m == Len(b)
             one == <<123, 34>>
             three == <<34, 58, 34>>
             two == <<34, 125>>
             six == one \o TextKey
             nine == six \o three
             front == nine \o b
             doc == front \o two
  <1>1. m \in Nat /\ b \in Seq(Octet)
    BY LenProperties
  <1>2. one \in Seq(Octet) /\ three \in Seq(Octet) /\ two \in Seq(Octet) /\ TextKey \in Seq(Octet)
    BY DEF Octet, TextKey
  <1>3. Len(one) = 2 /\ Len(TextKey) = 4 /\ Len(three) = 3 /\ Len(two) = 2
    BY DEF TextKey
  <1>4. one[1] = 123 /\ one[2] = 34 /\ three[1] = 34 /\ three[2] = 58 /\ three[3] = 34
        /\ two[1] = 34 /\ two[2] = 125
    OBVIOUS
  <1> HIDE DEF one, two, three
  <1>5. /\ six \in Seq(Octet) /\ Len(six) = 6 /\ six[1] = 123 /\ six[2] = 34
        /\ \A j \in 1..4 : six[2 + j] = TextKey[j]
    <2>0. one \in Seq(Octet) /\ TextKey \in Seq(Octet)
      BY <1>2
    <2>1. /\ six \in Seq(Octet) /\ Len(six) = Len(one) + Len(TextKey)
          /\ \A j \in 1..Len(one) : six[j] = one[j]
          /\ \A j \in 1..Len(TextKey) : six[Len(one) + j] = TextKey[j]
      BY ONLY <2>0, InARow
    <2> HIDE DEF six
    <2> QED BY <1>3, <1>4, <2>1
  <1> HIDE DEF six
  <1>6. /\ nine \in Seq(Octet) /\ Len(nine) = 9 /\ nine[1] = 123 /\ nine[2] = 34
        /\ \A j \in 1..4 : nine[2 + j] = TextKey[j]
        /\ nine[7] = 34 /\ nine[8] = 58 /\ nine[9] = 34
    <2>0. six \in Seq(Octet) /\ three \in Seq(Octet)
      BY <1>2, <1>5
    <2>1. /\ nine \in Seq(Octet) /\ Len(nine) = Len(six) + Len(three)
          /\ \A j \in 1..Len(six) : nine[j] = six[j]
          /\ \A j \in 1..Len(three) : nine[Len(six) + j] = three[j]
      BY ONLY <2>0, InARow
    <2> HIDE DEF nine
    <2>4. \A j \in 1..6 : nine[j] = six[j]
      BY <1>5, <2>1
    <2>2. \A j \in 1..4 : 2 + j \in 1..6
      OBVIOUS
    <2>3. nine[6 + 1] = 34 /\ nine[6 + 2] = 58 /\ nine[6 + 3] = 34
      BY <1>3, <1>4, <1>5, <2>1
    <2> QED BY <1>3, <1>5, <2>1, <2>2, <2>3, <2>4
  <1> HIDE DEF nine
  <1>7. /\ front \in Seq(Octet) /\ Len(front) = 9 + m
        /\ \A j \in 1..9 : front[j] = nine[j]
        /\ \A j \in 1..m : front[9 + j] = b[j]
    <2>0. nine \in Seq(Octet) /\ b \in Seq(Octet)
      BY <1>1, <1>6
    <2>1. /\ front \in Seq(Octet) /\ Len(front) = Len(nine) + Len(b)
          /\ \A j \in 1..Len(nine) : front[j] = nine[j]
          /\ \A j \in 1..Len(b) : front[Len(nine) + j] = b[j]
      BY ONLY <2>0, InARow
    <2> HIDE DEF front
    <2> QED BY <1>6, <2>1
  <1> HIDE DEF front
  <1>8. /\ doc \in Seq(Octet) /\ Len(doc) = (9 + m) + 2
        /\ \A j \in 1..(9 + m) : doc[j] = front[j]
        /\ \A j \in 1..2 : doc[(9 + m) + j] = two[j]
    <2>0. front \in Seq(Octet) /\ two \in Seq(Octet)
      BY <1>2, <1>7
    <2>1. /\ doc \in Seq(Octet) /\ Len(doc) = Len(front) + Len(two)
          /\ \A j \in 1..Len(front) : doc[j] = front[j]
          /\ \A j \in 1..Len(two) : doc[Len(front) + j] = two[j]
      BY ONLY <2>0, InARow
    <2> HIDE DEF doc
    <2> QED BY <1>3, <1>7, <2>1
  <1> HIDE DEF doc, m
  <1>9. \A j \in 1..9 : doc[j] = nine[j]
    BY <1>1, <1>7, <1>8
  <1>10. /\ doc[1] = 123 /\ doc[2] = 34 /\ doc[7] = 34 /\ doc[8] = 58 /\ doc[9] = 34
         /\ \A j \in 1..4 : doc[2 + j] = TextKey[j]
    <2>1. \A j \in 1..4 : 2 + j \in 1..9
      OBVIOUS
    <2> QED BY <1>6, <1>9, <2>1
  <1>11. \A j \in 1..m : doc[9 + j] = b[j]
    <2>1. \A j \in 1..m : 9 + j \in 1..(9 + m)
      BY <1>1
    <2> QED BY <1>7, <1>8, <2>1
  <1>12. Len(doc) = m + 11 /\ doc[m + 10] = 34 /\ doc[m + 11] = 125
    <2>1. (9 + m) + 1 = m + 10 /\ (9 + m) + 2 = m + 11 /\ 1 \in 1..2 /\ 2 \in 1..2
      BY <1>1
    <2>2. doc[(9 + m) + 1] = 34 /\ doc[(9 + m) + 2] = 125
      BY <1>4, <1>8, <2>1
    <2> QED BY <1>8, <2>1, <2>2
  <1>13. Wrapped(b) = doc
    BY Zenon DEF Wrapped, doc, front, nine, six, one, two, three
  <1> QED BY <1>1, <1>8, <1>10, <1>11, <1>12, <1>13 DEF m, Quote

(* Its six tokens, when the text consists of plain characters. *)
LEMMA WrappedTokens ==
    ASSUME NEW b \in Seq(Plain)
    PROVE  LET doc == Wrapped(b)
               m   == Len(b)
           IN  /\ m \in Nat /\ Len(doc) = m + 11
               /\ scan(doc, 1) = Token("begin_object", <<>>, 2)
               /\ scan(doc, 2) = Token("value_string", TextKey, 8)
               /\ scan(doc, 8) = Token("name_separator", <<>>, 9)
               /\ scan(doc, 9) = Token("value_string", b, m + 11)
               /\ scan(doc, m + 11) = Token("end_object", <<>>, m + 12)
               /\ scan(doc, m + 12) = Token("end_of_input", <<>>, m + 12)
  <1> DEFINE doc == Wrapped(b)
             m == Len(b)
  <1>1. b \in Seq(Octet) /\ m \in Nat /\ \A j \in 1..m : b[j] \in Plain
    <2>1. Plain \in SUBSET Octet
      BY DEF Plain, Octet
    <2> QED BY <2>1, LenProperties, ElementOfSeq
  <1>2. /\ Len(doc) = m + 11
        /\ doc[1] = 123 /\ doc[2] = Quote
        /\ \A j \in 1..4 : doc[2 + j] = TextKey[j]
        /\ doc[7] = Quote /\ doc[8] = 58 /\ doc[9] = Quote
        /\ \A j \in 1..m : doc[9 + j] = b[j]
        /\ doc[m + 10] = Quote /\ doc[m + 11] = 125
    BY <1>1, WrappedBytes
  <1> HIDE DEF doc
  <1>3. Len(doc) \in Nat /\ {1, 2, 7, 8, 9, m + 11} \subseteq 1..Len(doc)
    BY <1>1, <1>2
  <1>4. ASSUME NEW s \in Structural, NEW k \in 1..Len(doc), doc[k] = s[1]
        PROVE  scan(doc, k) = Token(s[2], <<>>, k + 1)
    BY <1>3, <1>4, ScanStructural
  <1>5. scan(doc, 1) = Token("begin_object", <<>>, 2)
    <2>1. <<123, "begin_object">> \in Structural
      BY DEF Structural
    <2> QED BY <1>2, <1>3, <1>4, <2>1
  <1>6. scan(doc, 8) = Token("name_separator", <<>>, 9)
    <2>1. <<58, "name_separator">> \in Structural
      BY DEF Structural
    <2> QED BY <1>2, <1>3, <1>4, <2>1
  <1>7. scan(doc, m + 11) = Token("end_object", <<>>, m + 12)
    <2>1. <<125, "end_object">> \in Structural
      BY DEF Structural
    <2>2. scan(doc, m + 11) = Token("end_object", <<>>, (m + 11) + 1)
      <3>1. m + 11 \in 1..Len(doc) /\ doc[m + 11] = 125
        BY <1>2, <1>3
      <3> QED BY <1>4, <2>1, <3>1
    <2>3. (m + 11) + 1 = m + 12
      BY <1>1
    <2> QED BY <2>2, <2>3, Zenon
  <1>8. scan(doc, 2) = Token("value_string", TextKey, 8)
    <2>1. \A n \in 0..(4 - 1) : doc[3 + n] \in Plain
      <3>1. \A j \in 1..4 : TextKey[j] \in Plain
        <4>1. TextKey \in Seq(Plain) /\ Len(TextKey) = 4
          BY DEF TextKey, Plain, Quote, Backslash
        <4> QED BY <4>1, ElementOfSeq
      <3> SUFFICES ASSUME NEW n \in 0..(4 - 1) PROVE doc[3 + n] \in Plain
        OBVIOUS
      <3>2. n + 1 \in 1..4 /\ 2 + (n + 1) = 3 + n
        OBVIOUS
      <3> QED BY <1>2, <3>1, <3>2
    <2>2. scan_string(doc, 3) = Token("value_string", Part(doc, 3, 4), 3 + 4 + 1)
      <3>1. 3 + 4 <= Len(doc) /\ doc[3 + 4] = Quote /\ 3 \in Nat \ {0} /\ 4 \in Nat
        BY <1>1, <1>2
      <3> QED BY <1>3, <2>1, <3>1, PlainString
    <2>3. Part(doc, 3, 4) = TextKey
      <3>1. TextKey = [j \in 1..4 |-> TextKey[j]]
        BY DEF TextKey
      <3>2. \A j \in 1..4 : doc[3 + j - 1] = TextKey[j]
        <4>1. \A j \in 1..4 : 3 + j - 1 = 2 + j
          OBVIOUS
        <4> QED BY <1>2, <4>1
      <3> HIDE DEF TextKey
      <3> QED BY <3>1, <3>2 DEF Part
    <2>4. scan(doc, 2) = scan_string(doc, 3)
      BY <1>2, <1>3, ScanQuote
    <2> QED BY <2>2, <2>3, <2>4
  <1>9. scan(doc, 9) = Token("value_string", b, m + 11)
    <2>1. \A n \in 0..(m - 1) : doc[10 + n] \in Plain
      <3> SUFFICES ASSUME NEW n \in 0..(m - 1) PROVE doc[10 + n] \in Plain
        OBVIOUS
      <3>1. n + 1 \in 1..m /\ 9 + (n + 1) = 10 + n
        BY <1>1
      <3>2. doc[9 + (n + 1)] = b[n + 1]
        BY <1>2, <3>1, Zenon
      <3>3. b[n + 1] \in Plain
        BY <3>1, ElementOfSeq, Zenon DEF m
      <3> QED BY <3>1, <3>2, <3>3, Zenon
    <2>2. scan_string(doc, 10) = Token("value_string", Part(doc, 10, m), 10 + m + 1)
      <3>1. 10 + m <= Len(doc) /\ doc[10 + m] = Quote /\ 10 \in Nat \ {0}
        BY <1>1, <1>2
      <3> QED BY <1>1, <1>3, <2>1, <3>1, PlainString
    <2>3. Part(doc, 10, m) = b
      <3>1. b = [j \in 1..m |-> b[j]]
        BY <1>1, LenProperties
      <3>2. \A j \in 1..m : doc[10 + j - 1] = b[j]
        <4>1. \A j \in 1..m : 10 + j - 1 = 9 + j
          BY <1>1
        <4> QED BY <1>2, <4>1
      <3> HIDE DEF m
      <3> QED BY <3>1, <3>2 DEF Part
    <2>4. scan(doc, 9) = scan_string(doc, 10)
      BY <1>2, <1>3, ScanQuote
    <2>5. 10 + m + 1 = m + 11
      BY <1>1
    <2> QED BY <2>2, <2>3, <2>4, <2>5, Zenon
  <1>10. scan(doc, m + 12) = Token("end_of_input", <<>>, m + 12)
    <2>1. Len(doc) + 1 = m + 12
      BY <1>1, <1>2
    <2> QED BY <1>3, <2>1, ScanEof
  <1> QED BY <1>1, <1>2, <1>5, <1>6, <1>7, <1>8, <1>9, <1>10 DEF doc

(* A stack of one container. *)
LEMMA OneContainer ==
    ASSUME NEW frame
    PROVE  /\ Append(<<>>, frame) = <<frame>> /\ Front(<<frame>>) = <<>>
           /\ Last(<<frame>>) = frame /\ <<frame>> # <<>>
  <1>1. Append(<<>>, frame) = <<frame>> /\ Len(<<frame>>) = 1 /\ <<frame>> # <<>>
    OBVIOUS
  <1>2. Last(<<frame>>) = frame
    BY <1>1 DEF Last
  <1>3. Front(<<frame>>) = <<>>
    BY <1>1 DEF Front
  <1> QED BY <1>1, <1>2, <1>3

(* The six steps of the parser on {"text":"..."}. *)
LEMMA SixSteps ==
    ASSUME NEW b, NEW n
    PROVE  LET null == Value("literal_null", <<>>)
               frame(value, element) == Container("object", value, element)
               object == SetMember(EmptyObject, TextKey, Value("value_string", b))
               p1 == Parser("key or end", <<frame(EmptyObject, <<>>)>>, null)
               p2 == Parser("colon", <<frame(EmptyObject, TextKey)>>, null)
               p3 == Parser("value", <<frame(EmptyObject, TextKey)>>, null)
               p4 == Parser("comma", <<frame(object, TextKey)>>, null)
               p5 == Parser("end", <<>>, Value("object", object))
               p6 == Parser("accepted", <<>>, Value("object", object))
           IN  /\ ParserStep(ParserStart, Token("begin_object", <<>>, 2)) = p1
               /\ ParserStep(p1, Token("value_string", TextKey, 8)) = p2
               /\ ParserStep(p2, Token("name_separator", <<>>, 9)) = p3
               /\ ParserStep(p3, Token("value_string", b, n)) = p4
               /\ ParserStep(p4, Token("end_object", <<>>, n + 1)) = p5
               /\ ParserStep(p5, Token("end_of_input", <<>>, n + 1)) = p6
  <1> DEFINE null == Value("literal_null", <<>>)
             frame(value, element) == Container("object", value, element)
             v == Value("value_string", b)
             object == SetMember(EmptyObject, TextKey, v)
             p1 == Parser("key or end", <<frame(EmptyObject, <<>>)>>, null)
             p2 == Parser("colon", <<frame(EmptyObject, TextKey)>>, null)
             p3 == Parser("value", <<frame(EmptyObject, TextKey)>>, null)
             p4 == Parser("comma", <<frame(object, TextKey)>>, null)
             p5 == Parser("end", <<>>, Value("object", object))
             p6 == Parser("accepted", <<>>, Value("object", object))
  <1>1. \A expects, stack, root : /\ Parser(expects, stack, root).expects = expects
                                  /\ Parser(expects, stack, root).ref_stack = stack
                                  /\ Parser(expects, stack, root).root = root
    BY DEF Parser
  <1>2. \A type, added, next : /\ Token(type, added, next).type = type
                               /\ Token(type, added, next).text = added
    BY DEF Token
  <1>3. \A value, element : /\ frame(value, element).type = "object"
                            /\ frame(value, element).value = value
                            /\ frame(value, element).element = element
    BY DEF Container
  <1>4. ParserStep(ParserStart, Token("begin_object", <<>>, 2)) = p1
    <2> DEFINE token == Token("begin_object", <<>>, 2)
    <2>1. token.type = "begin_object" /\ token.type \notin Scalar
      BY <1>2 DEF Scalar
    <2>2. ParserStart.expects = "value" /\ ParserStart.ref_stack = <<>> /\ ParserStart.root = null
      BY <1>1 DEF ParserStart
    <2> HIDE DEF token
    <2>3. ParserStep(ParserStart, token) = TakesValue(ParserStart, token)
      BY <2>2, Zenon DEF ParserStep
    <2>4. TakesValue(ParserStart, token) = Opens(ParserStart, "object", EmptyObject)
      BY <2>1, Zenon DEF TakesValue
    <2>5. Opens(ParserStart, "object", EmptyObject) = p1
      BY <2>2, OneContainer DEF Opens
    <2> QED BY <2>3, <2>4, <2>5, Zenon DEF token
  <1>5. ParserStep(p1, Token("value_string", TextKey, 8)) = p2
    <2> DEFINE token == Token("value_string", TextKey, 8)
               empty == frame(EmptyObject, <<>>)
    <2>1. token.type = "value_string" /\ token.text = TextKey
      BY <1>2
    <2>2. p1.expects = "key or end" /\ p1.ref_stack = <<empty>> /\ p1.root = null
      BY DEF Parser
    <2>3. Last(<<empty>>) = empty /\ Front(<<empty>>) = <<>> /\ empty.type = "object"
          /\ empty.value = EmptyObject
      BY <1>3, OneContainer
    <2> HIDE DEF token, p1, null, empty
    <2>4. ParserStep(p1, token) = TakesKey(p1, token)
      BY <2>2 DEF ParserStep
    <2>5. TakesKey(p1, token) = Updates(p1, frame(EmptyObject, TextKey), "colon")
      BY <2>1, <2>2, <2>3 DEF TakesKey
    <2>6. Updates(p1, frame(EmptyObject, TextKey), "colon") = p2
      BY <2>2, <2>3, OneContainer DEF Updates
    <2> QED BY <2>4, <2>5, <2>6, Zenon DEF token
  <1>6. ParserStep(p2, Token("name_separator", <<>>, 9)) = p3
    <2> DEFINE token == Token("name_separator", <<>>, 9)
    <2>1. token.type = "name_separator"
      BY <1>2
    <2>2. p2.expects = "colon" /\ p2.ref_stack = <<frame(EmptyObject, TextKey)>> /\ p2.root = null
      BY <1>1
    <2> HIDE DEF token, p2, null, frame
    <2>3. ParserStep(p2, token) = TakesKey(p2, token)
      BY <2>2 DEF ParserStep
    <2>4. TakesKey(p2, token) = Expects(p2, "value")
      BY <2>1, <2>2 DEF TakesKey
    <2>5. Expects(p2, "value") = p3
      BY <2>2 DEF Expects
    <2> QED BY <2>3, <2>4, <2>5, Zenon DEF token
  <1>7. ParserStep(p3, Token("value_string", b, n)) = p4
    <2> DEFINE token == Token("value_string", b, n)
               keyed == frame(EmptyObject, TextKey)
    <2>1. token.type = "value_string" /\ token.text = b /\ token.type \in Scalar
      BY <1>2 DEF Scalar
    <2>2. p3.expects = "value" /\ p3.ref_stack = <<keyed>> /\ p3.root = null
      BY <1>1
    <2>3. Last(<<keyed>>) = keyed /\ Front(<<keyed>>) = <<>> /\ <<keyed>> # <<>>
          /\ keyed.type = "object" /\ keyed.value = EmptyObject /\ keyed.element = TextKey
      BY <1>3, OneContainer
    <2> HIDE DEF token, p3, null, keyed, v, object
    <2>4. ParserStep(p3, token) = TakesValue(p3, token)
      BY <2>2 DEF ParserStep
    <2>5. TakesValue(p3, token) = handle_value(p3, v)
      BY <2>1, Zenon DEF TakesValue, v
    <2>6. handle_value(p3, v) = Updates(p3, frame(object, TextKey), "comma")
      BY <2>2, <2>3 DEF handle_value, object
    <2>7. Updates(p3, frame(object, TextKey), "comma") = p4
      BY <2>2, <2>3, OneContainer DEF Updates
    <2> QED BY <2>4, <2>5, <2>6, <2>7, Zenon DEF token
  <1>8. ParserStep(p4, Token("end_object", <<>>, n + 1)) = p5
    <2> DEFINE token == Token("end_object", <<>>, n + 1)
               full == frame(object, TextKey)
               outer == Parser("comma", <<>>, null)
    <2>1. token.type = "end_object"
      BY <1>2
    <2>2. p4.expects = "comma" /\ p4.ref_stack = <<full>> /\ p4.root = null
      BY <1>1
    <2>3. Last(<<full>>) = full /\ Front(<<full>>) = <<>> /\ <<full>> # <<>>
          /\ full.type = "object" /\ full.value = object
      BY <1>3, OneContainer
    <2>4. outer.ref_stack = <<>>
      BY <1>1
    <2> HIDE DEF token, p4, null, full, object
    <2>5. ParserStep(p4, token) = EvaluatesState(p4, token)
      BY <2>2 DEF ParserStep
    <2>6. EvaluatesState(p4, token) = Closes(p4)
      BY <2>1, <2>2, <2>3 DEF EvaluatesState
    <2>7. Closes(p4) = handle_value(outer, Value("object", object))
      BY <2>2, <2>3 DEF Closes
    <2> HIDE DEF outer
    <2>8. handle_value(outer, Value("object", object)) = p5
      BY <2>4, Zenon DEF handle_value
    <2> QED BY <2>5, <2>6, <2>7, <2>8, Zenon DEF token
  <1>9. ParserStep(p5, Token("end_of_input", <<>>, n + 1)) = p6
    <2> DEFINE token == Token("end_of_input", <<>>, n + 1)
    <2>1. token.type = "end_of_input"
      BY <1>2
    <2>2. p5.expects = "end" /\ p5.ref_stack = <<>> /\ p5.root = Value("object", object)
      BY <1>1
    <2> HIDE DEF token, p5, object
    <2>3. ParserStep(p5, token) = EvaluatesState(p5, token)
      BY <2>2 DEF ParserStep
    <2>4. EvaluatesState(p5, token) = Expects(p5, "accepted")
      BY <2>1, <2>2 DEF EvaluatesState
    <2>5. Expects(p5, "accepted") = p6
      BY <2>2 DEF Expects
    <2> QED BY <2>3, <2>4, <2>5, Zenon DEF token
  <1> QED BY <1>4, <1>5, <1>6, <1>7, <1>8, <1>9, Zenon

(* A text of plain characters, wrapped in a json, is taken out of it again. *)
LEMMA PlainArrives ==
    ASSUME NEW b \in Seq(Plain)
    PROVE  StringMember(parse(Wrapped(b)), TextKey) = [ok |-> TRUE, string |-> b]
  <1> DEFINE doc == Wrapped(b)
             m == Len(b)
             object == SetMember(EmptyObject, TextKey, Value("value_string", b))
             end == Parser("accepted", <<>>, Value("object", object))
  <1>1. PICK f : /\ parse(doc) = f[Len(doc) + 1].parser.root
                 /\ f[0] = [parser |-> ParserStart, next |-> 1]
                 /\ \A n \in 1..(Len(doc) + 1) : f[n] = ParserRound(doc, f[n - 1])
    <2>1. Len(doc) \in Nat
      BY WrappedTokens
    <2> HIDE DEF doc
    <2> QED BY <2>1, ParseIs
  <1>2. /\ m \in Nat /\ Len(doc) = m + 11
        /\ scan(doc, 1) = Token("begin_object", <<>>, 2)
        /\ scan(doc, 2) = Token("value_string", TextKey, 8)
        /\ scan(doc, 8) = Token("name_separator", <<>>, 9)
        /\ scan(doc, 9) = Token("value_string", b, m + 11)
        /\ scan(doc, m + 11) = Token("end_object", <<>>, m + 12)
        /\ scan(doc, m + 12) = Token("end_of_input", <<>>, m + 12)
    BY WrappedTokens
  <1> HIDE DEF doc, m
  <1>3. (m + 11) + 1 = m + 12
    BY <1>2
  <1>4. ASSUME NEW n \in 0..(m + 11), f[n].parser.expects \notin {"accepted", "nothing"}
        PROVE  f[n + 1] = [ parser |-> ParserStep(f[n].parser, scan(doc, f[n].next)),
                            next |-> scan(doc, f[n].next).next ]
    <2>1. n + 1 \in 1..(Len(doc) + 1) /\ (n + 1) - 1 = n
      BY <1>2
    <2>2. f[n + 1] = ParserRound(doc, f[n])
      BY <1>1, <2>1
    <2> QED BY <1>4, <2>2, Zenon DEF ParserRound
  <1>5. f[6] = [parser |-> end, next |-> m + 12]
    <2> DEFINE null == Value("literal_null", <<>>)
               frame(value, element) == Container("object", value, element)
               p1 == Parser("key or end", <<frame(EmptyObject, <<>>)>>, null)
               p2 == Parser("colon", <<frame(EmptyObject, TextKey)>>, null)
               p3 == Parser("value", <<frame(EmptyObject, TextKey)>>, null)
               p4 == Parser("comma", <<frame(object, TextKey)>>, null)
               p5 == Parser("end", <<>>, Value("object", object))
    <2>1. /\ ParserStep(ParserStart, Token("begin_object", <<>>, 2)) = p1
          /\ ParserStep(p1, Token("value_string", TextKey, 8)) = p2
          /\ ParserStep(p2, Token("name_separator", <<>>, 9)) = p3
          /\ ParserStep(p3, Token("value_string", b, m + 11)) = p4
          /\ ParserStep(p4, Token("end_object", <<>>, (m + 11) + 1)) = p5
          /\ ParserStep(p5, Token("end_of_input", <<>>, (m + 11) + 1)) = end
      BY SixSteps, Zenon
    <2>2. /\ ParserStart.expects = "value" /\ p1.expects = "key or end" /\ p2.expects = "colon"
          /\ p3.expects = "value" /\ p4.expects = "comma" /\ p5.expects = "end"
      BY DEF Parser, ParserStart
    <2>3. \A type, added, next : Token(type, added, next).next = next
      BY DEF Token
    <2> HIDE DEF p1, p2, p3, p4, p5, end
    <2>4. 0 \in 0..(m + 11) /\ 1 \in 0..(m + 11) /\ 2 \in 0..(m + 11) /\ 3 \in 0..(m + 11)
          /\ 4 \in 0..(m + 11) /\ 5 \in 0..(m + 11)
      BY <1>2
    <2>5. f[1] = [parser |-> p1, next |-> 2]
      <3>0. f[0].parser = ParserStart /\ f[0].next = 1
        BY <1>1
      <3>1. f[0 + 1] = [ parser |-> ParserStep(ParserStart, scan(doc, 1)),
                       next |-> scan(doc, 1).next ]
        BY <1>4, <2>2, <2>4, <3>0
      <3>2. ParserStep(ParserStart, scan(doc, 1)) = p1 /\ scan(doc, 1).next = 2
        BY <1>2, <2>1, <2>3
      <3> QED BY <3>1, <3>2
    <2>6. f[2] = [parser |-> p2, next |-> 8]
      <3>0. f[1].parser = p1 /\ f[1].next = 2
        BY <2>5
      <3>1. f[1 + 1] = [ parser |-> ParserStep(p1, scan(doc, 2)),
                       next |-> scan(doc, 2).next ]
        BY <1>4, <2>2, <2>4, <3>0
      <3>2. ParserStep(p1, scan(doc, 2)) = p2 /\ scan(doc, 2).next = 8
        BY <1>2, <2>1, <2>3
      <3> QED BY <3>1, <3>2
    <2>7. f[3] = [parser |-> p3, next |-> 9]
      <3>0. f[2].parser = p2 /\ f[2].next = 8
        BY <2>6
      <3>1. f[2 + 1] = [ parser |-> ParserStep(p2, scan(doc, 8)),
                       next |-> scan(doc, 8).next ]
        BY <1>4, <2>2, <2>4, <3>0
      <3>2. ParserStep(p2, scan(doc, 8)) = p3 /\ scan(doc, 8).next = 9
        BY <1>2, <2>1, <2>3
      <3> QED BY <3>1, <3>2
    <2>8. f[4] = [parser |-> p4, next |-> m + 11]
      <3>0. f[3].parser = p3 /\ f[3].next = 9
        BY <2>7
      <3>1. f[3 + 1] = [ parser |-> ParserStep(p3, scan(doc, 9)),
                       next |-> scan(doc, 9).next ]
        BY <1>4, <2>2, <2>4, <3>0
      <3>2. ParserStep(p3, scan(doc, 9)) = p4 /\ scan(doc, 9).next = m + 11
        BY <1>2, <2>1, <2>3
      <3> QED BY <3>1, <3>2
    <2>9. f[5] = [parser |-> p5, next |-> m + 12]
      <3>0. f[4].parser = p4 /\ f[4].next = m + 11
        BY <2>8
      <3>1. f[4 + 1] = [ parser |-> ParserStep(p4, scan(doc, m + 11)),
                       next |-> scan(doc, m + 11).next ]
        BY <1>4, <2>2, <2>4, <3>0
      <3>2. ParserStep(p4, scan(doc, m + 11)) = p5 /\ scan(doc, m + 11).next = m + 12
        BY <1>2, <1>3, <2>1, <2>3
      <3> QED BY <3>1, <3>2
    <2>10. f[6] = [parser |-> end, next |-> m + 12]
      <3>0. f[5].parser = p5 /\ f[5].next = m + 12
        BY <2>9
      <3>1. f[5 + 1] = [ parser |-> ParserStep(p5, scan(doc, m + 12)),
                       next |-> scan(doc, m + 12).next ]
        BY <1>4, <2>2, <2>4, <3>0
      <3>2. ParserStep(p5, scan(doc, m + 12)) = end /\ scan(doc, m + 12).next = m + 12
        BY <1>2, <1>3, <2>1, <2>3
      <3> QED BY <3>1, <3>2
    <2> QED BY <2>10
  <1>6. end.expects = "accepted" /\ end.root = Value("object", object)
    BY DEF Parser
  <1> HIDE DEF end
  <1> DEFINE S == { n \in 0..(m + 12) : n >= 6 => f[n].parser = end }
  <1>7. Len(doc) + 1 \in S
    <2>1. 0 \in S
      BY <1>2
    <2>2. ASSUME NEW n \in 1..(m + 12), n - 1 \in S PROVE n \in S
      <3>1. CASE n <= 6
        BY <1>5, <3>1
      <3>2. CASE n > 6
        <4>1. f[n - 1].parser = end /\ n \in 1..(Len(doc) + 1)
          BY <1>2, <2>2, <3>2
        <4>2. f[n] = ParserRound(doc, f[n - 1])
          BY <1>1, <4>1
        <4>3. f[n] = f[n - 1]
          BY <1>6, <4>1, <4>2 DEF ParserRound
        <4> QED BY <4>1, <4>3
      <3> QED BY <3>1, <3>2
    <2>3. 0..(m + 12) \subseteq S
      <3> HIDE DEF S
      <3>1. m + 12 \in Nat
        BY <1>2
      <3> QED BY <2>1, <2>2, <3>1, Rounds
    <2> HIDE DEF S
    <2> QED BY <1>2, <2>3
  <1>8. parse(doc) = Value("object", object)
    BY <1>1, <1>2, <1>6, <1>7
  <1>9. /\ TextKey \in DOMAIN object /\ object[TextKey] = Value("value_string", b)
    BY DEF SetMember
  <1>10. StringMember(parse(doc), TextKey) = [ok |-> TRUE, string |-> b]
    <2>1. \A type, value : Value(type, value).type = type /\ Value(type, value).value = value
      BY DEF Value
    <2>2. /\ parse(doc).type = "object" /\ parse(doc).value = object
          /\ object[TextKey].type = "value_string" /\ object[TextKey].value = b
      BY <1>8, <1>9, <2>1
    <2> QED BY <1>9, <2>2, Zenon DEF StringMember
  <1> QED BY <1>10 DEF doc

(* The next word that RemoveDuplicateWords takes is a part of the text. *)
LEMMA NextWordOfText ==
    ASSUME IInv, pc = "words", prevWordBeg # Size + 1
    PROVE  Substr(prevWordBeg, EndOfWord(prevWordBeg)) \in Seq({Space} \cup { text[m] : m \in 1..Size })
  <1>1. text \in Seq(Chars)
    BY TextIsCleaned DEF IInv
  <1>2. PICK n \in Nat : Taken(n)
    BY DEF IInv, WordsInv
  <1>3. Len(W) \in Nat /\ n \in 0..Len(W) /\ prevWordBeg = Border(n + 1)
    BY <1>1, <1>2, WordList DEF Taken
  <1>4. n # Len(W)
    <2> SUFFICES ASSUME n = Len(W) PROVE FALSE
      OBVIOUS
    <2>1. n + 1 \in 1..(Len(W) + 1) /\ n + 1 = Len(W) + 1
      BY <1>3
    <2>2. Border(n + 1) = Size + 1
      BY <1>1, <2>1, WordList
    <2> QED BY <1>3, <2>2
  <1>5. n + 1 \in 1..Len(W)
    BY <1>3, <1>4
  <1> DEFINE w == W[n + 1]
  <1>6. /\ Substr(prevWordBeg, EndOfWord(prevWordBeg)) = w /\ w \in Seq(Chars)
        /\ \A j \in 1..Len(w) : \E m \in 1..Size : w[j] = text[m]
    BY <1>1, <1>3, <1>5, NextWord
  <1> HIDE DEF w
  <1>7. w \in Seq({Space} \cup { text[m] : m \in 1..Size })
    <2>1. w \in [1..Len(w) -> {Space} \cup { text[m] : m \in 1..Size }] /\ Len(w) \in Nat
      BY <1>6, LenProperties
    <2> QED BY <2>1, SeqDef
  <1> QED BY <1>6, <1>7

-----------------------------------------------------------------------------
(* The characters of the text that is worked on, and the space that the    *)
(* second loop puts behind a word.                                         *)
OfText == {Space} \cup { text[m] : m \in 1..Size }

MessageInv ==
    /\ MessageTypeOK /\ typed \in Typed
    /\ pc = "typed" => /\ i = 0 /\ errorsFound = 0 /\ prevWordBeg = 0
                       /\ words = {} /\ resStr = <<>>
    /\ pc \in {"clean", "words", "done"} => IInv /\ resStr \in Seq(OfText)
    /\ PlainTextIsShown

(* The bytes between the quotes of a json. *)
LEMMA WrappedLength ==
    ASSUME NEW b \in Seq(Octet)
    PROVE  Len(Wrapped(b)) \in Nat
  BY WrappedBytes

LEMMA MessageInitInv == MessageInit => MessageInv
  <1> SUFFICES ASSUME MessageInit PROVE MessageInv
    OBVIOUS
  <1>1. shown \in Seq(0..255)
    BY EmptySeq DEF MessageInit
  <1> QED BY <1>1 DEF MessageInit, MessageInv, MessageTypeOK, PlainTextIsShown

(* What a client types reaches the loops as chars, if it reaches them.     *)
LEMMA ProcessServerParsesInv ==
    ASSUME MessageInv, ProcessServerParses
    PROVE  MessageInv'
  <1> DEFINE member == StringMember(parse(Wrapped(typed.bytes)), TextKey)
  <1>1. /\ pc = "typed" /\ UNCHANGED <<i, errorsFound, prevWordBeg, words, resStr, typed, shown>>
        /\ \/ pc' = "clean" /\ input' = Signed(member.string) /\ text' = input'
           \/ pc' = "killed"
    BY DEF ProcessServerParses
  <1>2. shown' \in Seq(0..255) /\ typed' \in Typed
    BY <1>1 DEF MessageInv, MessageTypeOK
  <1>3. CASE pc' = "killed"
    BY <1>1, <1>2, <1>3 DEF MessageInv, MessageTypeOK, PlainTextIsShown
  <1>4. CASE pc' = "clean"
    <2>1. member.string \in Seq(Octet)
      <3>1. typed.bytes \in Seq(Octet)
        BY MessageAssumption DEF MessageInv, Octet
      <3> QED BY <3>1, WrappedLength, StringMemberType
    <2>2. input' = Signed(member.string)
      BY <1>1, <1>4
    <2> HIDE DEF member
    <2>3. Signed(member.string) \in Seq(-128..127)
      <3>1. /\ Len(member.string) \in Nat
            /\ \A k \in 1..Len(member.string) : member.string[k] \in 0..255
        BY <2>1, LenProperties, ElementOfSeq DEF Octet
      <3> DEFINE char(c) == IF c > 127 THEN c - 256 ELSE c
      <3>2. \A c \in 0..255 : char(c) \in -128..127
        <4> SUFFICES ASSUME NEW c \in 0..255 PROVE char(c) \in -128..127
          OBVIOUS
        <4>1. CASE c > 127
          BY <4>1
        <4>2. CASE ~(c > 127)
          BY <4>2
        <4> QED BY <4>1, <4>2
      <3> HIDE DEF char
      <3>3. \A k \in 1..Len(member.string) : char(member.string[k]) \in -128..127
        BY <3>1, <3>2, Zenon
      <3>4. Signed(member.string) = [k \in 1..Len(member.string) |-> char(member.string[k])]
        BY DEF Signed, char
      <3>5. Signed(member.string) \in [1..Len(member.string) -> -128..127]
        BY <3>3, <3>4, Zenon
      <3> DEFINE chars == -128..127
      <3>6. Signed(member.string) \in [1..Len(member.string) -> chars]
        BY <3>5
      <3> HIDE DEF chars
      <3>7. Signed(member.string) \in Seq(chars)
        BY <3>1, <3>6, SeqDef
      <3> QED BY <3>7 DEF chars
    <2>4. Init'
      <3>1. i' = 0 /\ errorsFound' = 0 /\ prevWordBeg' = 0 /\ words' = {} /\ resStr' = <<>>
        BY <1>1 DEF MessageInv
      <3>2. input' \in Seq(Char) /\ text' = input' /\ pc' = "clean"
        BY <1>1, <1>4, <2>2, <2>3, MessageAssumption
      <3> QED BY <3>1, <3>2 DEF Init
    <2>5. IInv'
      BY <2>4, InitInv, PTL
    <2>6. resStr' \in Seq(OfText')
      <3>1. resStr' = <<>>
        BY <2>4 DEF Init
      <3> QED BY <3>1, EmptySeq
    <2>7. TypeOK'
      BY <2>5 DEF IInv
    <2> QED BY <1>2, <1>4, <2>5, <2>6, <2>7 DEF MessageInv, MessageTypeOK, PlainTextIsShown
  <1> QED BY <1>1, <1>3, <1>4

(* The loops add nothing to a text but spaces. *)
LEMMA ProcessServerCleansInv ==
    ASSUME MessageInv, ProcessServerCleans
    PROVE  MessageInv'
  <1>1. Next /\ UNCHANGED <<typed, shown>>
    BY DEF ProcessServerCleans
  <1>2. pc \in {"clean", "words"} /\ pc' \in {"clean", "words", "done"}
    BY <1>1 DEF Next, CleanChar, AllClean, TakeWord, ReturnWords
  <1>3. IInv /\ resStr \in Seq(OfText)
    BY <1>2 DEF MessageInv
  <1>4. IInv'
    BY <1>1, <1>3, CleanCharInv, AllCleanInv, TakeWordInv, ReturnWordsInv DEF Next
  <1>5. resStr' \in Seq(OfText')
    <2>1. CASE CleanChar \/ AllClean
      <3>1. resStr' = <<>>
        BY <1>3, <2>1 DEF CleanChar, AllClean, IInv, CleanInv
      <3> QED BY <3>1, EmptySeq
    <2>2. CASE TakeWord
      <3> DEFINE w == Substr(prevWordBeg, EndOfWord(prevWordBeg))
      <3>1. OfText' = OfText
        BY <2>2 DEF TakeWord, OfText, Size
      <3>2. w \in Seq(OfText)
        <4>1. pc = "words" /\ prevWordBeg # Size + 1
          BY <2>2 DEF TakeWord
        <4> QED BY <1>3, <4>1, NextWordOfText DEF OfText
      <3>3. <<Space>> \in Seq(OfText)
        BY DEF OfText
      <3>4. resStr' = resStr \/ resStr' = resStr \o w \o <<Space>>
        BY <2>2, Zenon DEF TakeWord
      <3> HIDE DEF w
      <3>5. resStr \o w \in Seq(OfText)
        BY <1>3, <3>2, ConcatProperties
      <3>6. resStr \o w \o <<Space>> \in Seq(OfText)
        BY <3>3, <3>5, ConcatProperties
      <3> QED BY <1>3, <3>1, <3>4, <3>6
    <2>3. CASE ReturnWords
      <3>1. OfText' = OfText /\ resStr' = SubSeq(resStr, 1, Len(resStr) - 1)
        BY <2>3 DEF ReturnWords, OfText, Size
      <3>2. SubSeq(resStr, 1, Len(resStr) - 1) \in Seq(OfText)
        BY <1>3
      <3> QED BY <3>1, <3>2
    <2> QED BY <1>1, <2>1, <2>2, <2>3 DEF Next
  <1>6. TypeOK'
    BY <1>4 DEF IInv
  <1>7. shown' \in Seq(0..255) /\ typed' \in Typed
    BY <1>1 DEF MessageInv, MessageTypeOK
  <1> QED BY <1>2, <1>4, <1>5, <1>6, <1>7 DEF MessageInv, MessageTypeOK, PlainTextIsShown

(* A plain text arrives. *)
LEMMA VisualServerParsesInv ==
    ASSUME MessageInv, VisualServerParses
    PROVE  MessageInv'
  <1> DEFINE member == StringMember(parse(Wrapped(Unsigned(resStr))), TextKey)
  <1>1. /\ pc = "done" /\ UNCHANGED <<text, resStr, typed>>
        /\ \/ member.ok /\ pc' = "shown" /\ shown' = member.string
           \/ ~member.ok /\ pc' = "visual server killed" /\ shown' = shown
    BY DEF VisualServerParses
  <1>2. IInv /\ resStr \in Seq(OfText) /\ \A k \in 1..Len(resStr) : Printable(resStr[k])
    BY <1>1 DEF MessageInv, IInv, WordsInv
  <1>3. Len(resStr) \in Nat /\ \A k \in 1..Len(resStr) : resStr[k] \in 32..126 /\ resStr[k] \in OfText
    <2>1. resStr \in Seq(Char \cup {QuestionMark, Space})
      BY <1>2 DEF IInv, TypeOK
    <2>2. Char \cup {QuestionMark, Space} \subseteq Int
      <3>1. Char \subseteq Int
        BY MessageAssumption
      <3> QED BY <3>1 DEF QuestionMark, Space
    <2>3. \A k \in 1..Len(resStr) : resStr[k] \in Int
      BY <2>1, <2>2, ElementOfSeq
    <2>4. \A k \in 1..Len(resStr) : resStr[k] \in 32..126
      <3>1. \A c \in Int : Printable(c) => c \in 32..126
        BY DEF Printable
      <3> QED BY <1>2, <2>3, <3>1
    <2>5. \A k \in 1..Len(resStr) : resStr[k] \in OfText
      BY <1>2, ElementOfSeq
    <2> QED BY <1>2, <2>4, <2>5, LenProperties
  <1>4. Unsigned(resStr) = resStr /\ resStr \in Seq(Octet)
    <2> DEFINE byte(c) == c % 256
    <2>0. \A c \in 32..126 : byte(c) = c /\ c \in Octet
      BY SMT DEF Octet
    <2> HIDE DEF byte
    <2>1. \A k \in 1..Len(resStr) : byte(resStr[k]) = resStr[k] /\ resStr[k] \in Octet
      BY <1>3, <2>0
    <2>2. resStr = [k \in 1..Len(resStr) |-> resStr[k]]
      BY <1>2, LenProperties
    <2>3. Unsigned(resStr) = [k \in 1..Len(resStr) |-> byte(resStr[k])]
      BY DEF Unsigned, byte
    <2>4. resStr \in [1..Len(resStr) -> Octet]
      BY <2>1, <2>2
    <2> QED BY <1>3, <2>1, <2>2, <2>3, <2>4, SeqDef
  <1>5. shown' \in Seq(0..255)
    <2>1. member.string \in Seq(Octet)
      BY <1>4, WrappedLength, StringMemberType
    <2> HIDE DEF member
    <2> QED BY <1>1, <2>1 DEF MessageInv, MessageTypeOK, Octet
  <1>6. ASSUME {Quote, Backslash} \cap Range(text) = {}
        PROVE  member.ok /\ member.string = resStr
    <2>1. \A m \in 1..Size : text[m] # Quote /\ text[m] # Backslash
      <3>1. text \in Seq(Chars) /\ Size = Len(text)
        BY <1>1, <1>2, TextIsCleaned DEF IInv, Size
      <3>2. \A m \in 1..Size : text[m] \in Range(text)
        BY <3>1, LenProperties DEF Range
      <3> QED BY <1>6, <3>2
    <2>2. \A k \in 1..Len(resStr) : resStr[k] \in Plain
      BY <1>3, <2>1 DEF OfText, Plain, Quote, Backslash, Space
    <2>3. resStr \in Seq(Plain)
      BY <1>2, <1>3, <2>2, LenProperties
    <2>4. StringMember(parse(Wrapped(resStr)), TextKey) = [ok |-> TRUE, string |-> resStr]
      BY <2>3, PlainArrives
    <2> QED BY <1>4, <2>4
  <1> HIDE DEF member
  <1>7. PlainTextIsShown'
    <2> SUFFICES ASSUME {Quote, Backslash} \cap Range(text') = {}
                 PROVE  pc' = "shown" /\ shown' = resStr'
      BY DEF PlainTextIsShown
    <2> QED BY <1>1, <1>6
  <1> QED BY <1>1, <1>5, <1>7 DEF MessageInv, MessageTypeOK

(* The invariant is inductive. *)
THEOREM MessageInductive == MessageSpec => []MessageInv
  <1>1. MessageInv /\ [MessageNext]_messageVars => MessageInv'
    <2>1. MessageInv /\ MessageNext => MessageInv'
      BY ProcessServerParsesInv, ProcessServerCleansInv, VisualServerParsesInv DEF MessageNext
    <2>2. MessageInv /\ UNCHANGED messageVars => MessageInv'
      <3> SUFFICES ASSUME MessageInv, UNCHANGED messageVars PROVE MessageInv'
        OBVIOUS
      <3>1. /\ UNCHANGED <<input, text, i, errorsFound, prevWordBeg, words, resStr, pc>>
            /\ UNCHANGED <<typed, shown>>
        BY DEF messageVars, vars
      <3>2. IInv' = IInv /\ TypeOK' = TypeOK
        BY <3>1 DEF IInv, TypeOK, CleanInv, WordsInv, Size, Unprintable, Taken, Border, W, Joined
      <3>3. OfText' = OfText
        BY <3>1 DEF OfText, Size
      <3>4. MessageTypeOK' = MessageTypeOK /\ PlainTextIsShown' = PlainTextIsShown
        BY <3>1, <3>2 DEF MessageTypeOK, PlainTextIsShown
      <3> QED BY <3>1, <3>2, <3>3, <3>4 DEF MessageInv
    <2> QED BY <2>1, <2>2
  <1> QED BY MessageInitInv, <1>1, PTL DEF MessageSpec

-----------------------------------------------------------------------------
(* Whatever is typed, what the loops work on and what is shown has its type. *)
THEOREM MessageTypeCorrect == MessageSpec => []MessageTypeOK
  <1>1. MessageInv => MessageTypeOK
    BY DEF MessageInv
  <1> QED BY MessageInductive, <1>1, PTL

(* For every line: a text without quotes and backslashes is shown as it    *)
(* was passed on, and the visual server goes on.                           *)
THEOREM PlainTextArrives == MessageSpec => []PlainTextIsShown
  <1>1. MessageInv => PlainTextIsShown
    BY DEF MessageInv
  <1> QED BY MessageInductive, <1>1, PTL

(* What TextProcessing promises holds for every line that is typed.        *)
THEOREM MessageIsProcessed ==
    MessageSpec => [](StaysInside /\ DuplicatesAreRemoved /\ PassedOnIsPrintable)
  <1>1. MessageInv => StaysInside /\ DuplicatesAreRemoved /\ PassedOnIsPrintable
    <2> SUFFICES ASSUME MessageInv PROVE StaysInside /\ DuplicatesAreRemoved /\ PassedOnIsPrintable
      OBVIOUS
    <2>1. CASE pc \in {"clean", "words", "done"}
      BY <2>1, InsideText, WithoutDuplicates, OnlyPrintables DEF MessageInv
    <2>2. CASE pc \notin {"clean", "words", "done"}
      BY <2>2 DEF StaysInside, DuplicatesAreRemoved, PassedOnIsPrintable
    <2> QED BY <2>1, <2>2
  <1> QED BY MessageInductive, <1>1, PTL
=============================================================================
