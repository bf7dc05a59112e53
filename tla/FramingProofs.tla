--------------------------- MODULE FramingProofs ---------------------------
(* Type correctness, NoEmptyRead and InOrderDelivery of Framing, for every *)
(* buffer size, set of payloads, number of messages and segmentation.      *)
EXTENDS Framing, SequenceTheorems, TLAPS

(* Stream offset behind the n-th message. *)
EndOf(n) == IF n = 0 THEN 0
            ELSE sent[n].start + SizeofUnsigned + Len(sent[n].payload)

(* Stream offset of the first byte the parser has not consumed. *)
Parsed == rd - (End - i)

(* Until read() has returned there is nothing to parse, and until the lock *)
(* is taken again nothing has been parsed.                                 *)
Idle ==
    /\ pc # "parse" => i = 0
    /\ pc \in {"top", "read"} => bytes = 0

(* The stream is the frames of the messages, one behind the other. *)
FrameOf(n) ==
    /\ sent[n].start = EndOf(n - 1)
    /\ EndOf(n) <= Len(stream)
    /\ Word(stream[sent[n].start + 1], stream[sent[n].start + 2],
            stream[sent[n].start + 3], stream[sent[n].start + 4])
          = Len(sent[n].payload)
    /\ \A k \in 1..Len(sent[n].payload) :
          stream[sent[n].start + SizeofUnsigned + k] = sent[n].payload[k]

LaidOut ==
    /\ Len(stream) = EndOf(Len(sent))
    /\ \A n \in 1..Len(sent) : FrameOf(n)

(* The unparsed bytes of the buffer are the next bytes of the stream. *)
Held == \A k \in i..(End - 1) : buffer[k] = stream[Parsed + 1 + k - i]

(* The parser stands at the end of the last message it delivered. *)
Matched ==
    /\ Len(delivered) <= Len(sent)
    /\ Parsed = EndOf(Len(delivered))
    /\ \A n \in 1..Len(delivered) : delivered[n] = sent[n].payload

IInv ==
    /\ TypeOK
    /\ Idle
    /\ NoEmptyRead
    /\ LaidOut
    /\ intact => Held /\ Matched

-----------------------------------------------------------------------------
LEMMA PayloadType ==
    ASSUME NEW p \in Payload
    PROVE  p \in Seq(Byte) /\ Len(p) \in Nat /\ Len(p) \div TwoTo24 < 256
  BY FramingAssumption, LenProperties

(* The four bytes of a length below 2^32 decode to that length. *)
LEMMA HeaderDecodes ==
    ASSUME NEW n \in Nat, n \div TwoTo24 < 256
    PROVE  /\ Header(n) \in Seq(Byte)
           /\ Len(Header(n)) = 4
           /\ Word(Header(n)[1], Header(n)[2], Header(n)[3], Header(n)[4]) = n
  <1>1. /\ n % 256 \in Byte /\ (n \div 256) % 256 \in Byte
        /\ (n \div TwoTo16) % 256 \in Byte /\ (n \div TwoTo24) % 256 \in Byte
    BY SMT DEF Byte, TwoTo16, TwoTo24
  <1>2. /\ Header(n) \in Seq(Byte) /\ Len(Header(n)) = 4
        /\ Header(n)[1] = n % 256 /\ Header(n)[2] = (n \div 256) % 256
        /\ Header(n)[3] = (n \div TwoTo16) % 256
        /\ Header(n)[4] = (n \div TwoTo24) % 256
    BY <1>1 DEF Header
  <1>3. Word(n % 256, (n \div 256) % 256, (n \div TwoTo16) % 256,
             (n \div TwoTo24) % 256) = n
    BY SMT DEF Word, TwoTo16, TwoTo24
  <1> QED BY <1>2, <1>3

LEMMA WordNat ==
    ASSUME NEW a \in Byte, NEW b \in Byte, NEW c \in Byte, NEW d \in Byte
    PROVE  Word(a, b, c, d) \in Nat
  BY SMT DEF Word, Byte, TwoTo16, TwoTo24

(* What a frame adds to the stream. *)
LEMMA FrameBytes ==
    ASSUME NEW s \in Seq(Byte), NEW p \in Payload
    PROVE  /\ s \o Frame(p) \in Seq(Byte)
           /\ Len(s \o Frame(p)) = Len(s) + 4 + Len(p)
           /\ \A k \in 1..Len(s) : (s \o Frame(p))[k] = s[k]
           /\ Word((s \o Frame(p))[Len(s) + 1], (s \o Frame(p))[Len(s) + 2],
                   (s \o Frame(p))[Len(s) + 3], (s \o Frame(p))[Len(s) + 4])
                = Len(p)
           /\ \A k \in 1..Len(p) : (s \o Frame(p))[Len(s) + 4 + k] = p[k]
  <1>1. /\ p \in Seq(Byte) /\ Len(p) \in Nat
        /\ Header(Len(p)) \in Seq(Byte) /\ Len(Header(Len(p))) = 4
        /\ Word(Header(Len(p))[1], Header(Len(p))[2],
                Header(Len(p))[3], Header(Len(p))[4]) = Len(p)
    BY PayloadType, HeaderDecodes
  <1>2. /\ Frame(p) \in Seq(Byte) /\ Len(Frame(p)) = 4 + Len(p)
        /\ \A k \in 1..4 : Frame(p)[k] = Header(Len(p))[k]
        /\ \A k \in 1..Len(p) : Frame(p)[4 + k] = p[k]
    <2> DEFINE h == Header(Len(p))
    <2>1. /\ h \o p \in Seq(Byte)
          /\ Len(h \o p) = Len(h) + Len(p)
          /\ \A k \in 1..(Len(h) + Len(p)) :
                (h \o p)[k] = IF k <= Len(h) THEN h[k] ELSE p[k - Len(h)]
      BY <1>1, ConcatProperties, Zenon
    <2>2. Len(h) = 4 /\ Len(p) \in Nat /\ Frame(p) = h \o p
      BY <1>1 DEF Frame
    <2> HIDE DEF h
    <2>3. \A k \in 1..4 : Frame(p)[k] = h[k]
      BY <2>1, <2>2
    <2>4. ASSUME NEW k \in 1..Len(p) PROVE Frame(p)[4 + k] = p[k]
      <3>1. 4 + k \in 1..(4 + Len(p)) /\ ~(4 + k <= 4) /\ (4 + k) - 4 = k
        BY <2>2
      <3> QED BY <2>1, <2>2, <3>1
    <2> QED BY <2>1, <2>2, <2>3, <2>4 DEF h
  <1>3. /\ Len(s) \in Nat
        /\ s \o Frame(p) \in Seq(Byte)
        /\ Len(s \o Frame(p)) = Len(s) + 4 + Len(p)
        /\ \A k \in 1..Len(s) : (s \o Frame(p))[k] = s[k]
        /\ \A k \in 1..(4 + Len(p)) : (s \o Frame(p))[Len(s) + k] = Frame(p)[k]
    <2> DEFINE f == Frame(p)
    <2>1. /\ s \o f \in Seq(Byte)
          /\ Len(s \o f) = Len(s) + Len(f)
          /\ \A k \in 1..(Len(s) + Len(f)) :
                (s \o f)[k] = IF k <= Len(s) THEN s[k] ELSE f[k - Len(s)]
      <3>1. f \in Seq(Byte) /\ s \in Seq(Byte)
        BY <1>2
      <3> HIDE DEF f
      <3> QED BY <3>1, ConcatProperties, Zenon
    <2>2. Len(s) \in Nat /\ Len(f) = 4 + Len(p) /\ Len(p) \in Nat
      BY <1>1, <1>2, LenProperties
    <2> HIDE DEF f
    <2>3. \A k \in 1..Len(s) : (s \o f)[k] = s[k]
      BY <2>1, <2>2
    <2>4. ASSUME NEW k \in 1..(4 + Len(p)) PROVE (s \o f)[Len(s) + k] = f[k]
      <3>1. /\ Len(s) + k \in 1..(Len(s) + Len(f))
            /\ ~(Len(s) + k <= Len(s)) /\ (Len(s) + k) - Len(s) = k
        BY <2>2
      <3> QED BY <2>1, <3>1
    <2>5. Len(s \o f) = Len(s) + 4 + Len(p)
      BY <2>1, <2>2
    <2> QED BY <2>1, <2>2, <2>3, <2>4, <2>5 DEF f
  <1> DEFINE t == s \o Frame(p)
  <1>4. /\ t[Len(s) + 1] = Header(Len(p))[1] /\ t[Len(s) + 2] = Header(Len(p))[2]
        /\ t[Len(s) + 3] = Header(Len(p))[3] /\ t[Len(s) + 4] = Header(Len(p))[4]
    <2>1. /\ 1 \in 1..4 /\ 2 \in 1..4 /\ 3 \in 1..4 /\ 4 \in 1..4
          /\ \A k \in 1..4 : k \in 1..(4 + Len(p))
      BY <1>1
    <2> QED BY <1>2, <1>3, <2>1, Zenon
  <1>5. \A k \in 1..Len(p) : t[Len(s) + 4 + k] = p[k]
    <2>1. ASSUME NEW k \in 1..Len(p)
          PROVE  4 + k \in 1..(4 + Len(p)) /\ Len(s) + (4 + k) = Len(s) + 4 + k
      BY <1>1, <1>3
    <2>2. ASSUME NEW k \in 1..Len(p) PROVE t[Len(s) + 4 + k] = p[k]
      <3>1. t[Len(s) + (4 + k)] = Frame(p)[4 + k]
        BY <1>3, <2>1, Zenon
      <3> QED BY <1>2, <2>1, <3>1
    <2> QED BY <2>2
  <1>6. Word(t[Len(s) + 1], t[Len(s) + 2], t[Len(s) + 3], t[Len(s) + 4]) = Len(p)
    BY <1>1, <1>4
  <1> QED BY <1>3, <1>5, <1>6

LEMMA WholeFrame ==
    ASSUME TypeOK, NEW k \in 0..End, WholeFrameAt(k)
    PROVE  /\ WordAt(k) \in Nat
           /\ k + 4 + WordAt(k) <= End
           /\ End <= BufferSize
  <1>1. End \in Nat /\ End <= BufferSize /\ End - k >= 4
    BY FramingAssumption DEF TypeOK, End, WholeFrameAt, SizeofUnsigned
  <1>2. /\ buffer[k] \in Byte /\ buffer[k + 1] \in Byte
        /\ buffer[k + 2] \in Byte /\ buffer[k + 3] \in Byte
    BY <1>1, FramingAssumption DEF TypeOK, Index
  <1> QED BY <1>1, <1>2, WordNat DEF WordAt, WholeFrameAt, SizeofUnsigned

(* The carry-over leaves bytes in the buffer. *)
LEMMA CarryOverType ==
    ASSUME TypeOK, NEW from \in Int, NEW r \in Nat, from + r <= BufferSize,
           NEW order \in CopyOrders, NEW b \in CarryOver(from, r, order)
    PROVE  b \in [Index -> Byte]
  <1>1. PICK junk \in [0..(0 - from - 1) -> Junk] :
           b = [k \in Index |->
                  IF k >= r THEN buffer[k]
                  ELSE IF SourceOf(k, from, r, order) < 0 THEN junk[k]
                  ELSE buffer[SourceOf(k, from, r, order)]]
    BY DEF CarryOver
  <1>2. ASSUME NEW k \in Index, k < r
        PROVE  /\ SourceOf(k, from, r, order) \in Int
               /\ SourceOf(k, from, r, order) < BufferSize
               /\ SourceOf(k, from, r, order) < 0 => k \in 0..(0 - from - 1)
    <2>1. CASE Overlap(from, r) /\ order = "down"
      BY <1>2, <2>1, FramingAssumption DEF SourceOf, Overlap, Index
    <2>2. CASE ~(Overlap(from, r) /\ order = "down")
      BY <1>2, <2>2, FramingAssumption DEF SourceOf, Index
    <2> QED BY <2>1, <2>2
  <1>3. ASSUME NEW k \in Index PROVE b[k] \in Byte
    <2>1. CASE k >= r
      BY <1>1, <2>1 DEF TypeOK
    <2>2. CASE k < r
      <3>1. CASE SourceOf(k, from, r, order) < 0
        BY <1>1, <1>2, <2>2, <3>1, FramingAssumption DEF Index
      <3>2. CASE ~(SourceOf(k, from, r, order) < 0)
        BY <1>1, <1>2, <2>2, <3>2, FramingAssumption DEF Index, TypeOK
      <3> QED BY <3>1, <3>2
    <2> QED BY <2>1, <2>2, FramingAssumption DEF Index
  <1> QED BY <1>1, <1>3

(* Copied forward, or without overlap, the r bytes at `from' arrive in front. *)
LEMMA CarryOverMoves ==
    ASSUME TypeOK, NEW from \in Nat, NEW r \in Nat, from + r <= BufferSize,
           NEW order \in CopyOrders, order = "up" \/ ~Overlap(from, r),
           NEW b \in CarryOver(from, r, order), NEW k \in 0..(r - 1)
    PROVE  b[k] = buffer[from + k]
  <1>1. PICK junk \in [0..(0 - from - 1) -> Junk] :
           b = [x \in Index |->
                  IF x >= r THEN buffer[x]
                  ELSE IF SourceOf(x, from, r, order) < 0 THEN junk[x]
                  ELSE buffer[SourceOf(x, from, r, order)]]
    BY DEF CarryOver
  <1>2. ~(Overlap(from, r) /\ order = "down")
    OBVIOUS
  <1>3. SourceOf(k, from, r, order) = k + from
    BY <1>2 DEF SourceOf
  <1>4. k \in Index /\ k < r /\ k + from >= 0 /\ k + from = from + k
    BY FramingAssumption DEF Index
  <1>5. b[k] = buffer[k + from]
    BY <1>1, <1>3, <1>4
  <1> QED BY <1>4, <1>5

-----------------------------------------------------------------------------
LEMMA SentType ==
    ASSUME TypeOK, NEW n \in 1..Len(sent)
    PROVE  /\ n \in Nat /\ n # 0 /\ Len(sent) \in Nat
           /\ sent[n].start \in Nat /\ sent[n].payload \in Payload
           /\ Len(sent[n].payload) \in Nat
           /\ EndOf(n) = sent[n].start + 4 + Len(sent[n].payload)
           /\ EndOf(n) \in Nat
  <1>1. Len(sent) \in Nat /\ n \in Nat /\ n # 0
    BY LenProperties DEF TypeOK
  <1>2. sent[n] \in [start : Nat, payload : Payload]
    BY ElementOfSeq DEF TypeOK
  <1>3. sent[n].start \in Nat /\ sent[n].payload \in Payload
    BY <1>2
  <1>4. Len(sent[n].payload) \in Nat
    BY <1>3, PayloadType
  <1> QED BY <1>1, <1>3, <1>4 DEF EndOf, SizeofUnsigned

LEMMA EndOfNat ==
    ASSUME TypeOK, NEW n \in 0..Len(sent)
    PROVE  EndOf(n) \in Nat
  <1>1. CASE n = 0
    BY <1>1 DEF EndOf
  <1>2. CASE n # 0
    <2>1. Len(sent) \in Nat
      BY LenProperties DEF TypeOK
    <2> QED BY <1>2, <2>1, SentType
  <1> QED BY <1>1, <1>2

LEMMA InitIInv == Init => IInv
  <1> SUFFICES ASSUME Init PROVE IInv
    OBVIOUS
  <1> USE FramingAssumption DEF Init
  <1>1. TypeOK
    BY DEF TypeOK, End, Byte, Index
  <1>2. Idle /\ NoEmptyRead
    BY DEF Idle, NoEmptyRead
  <1>3. LaidOut
    BY DEF LaidOut, EndOf
  <1>4. Held /\ Matched
    BY DEF Held, Matched, Parsed, End, EndOf
  <1> QED BY <1>1, <1>2, <1>3, <1>4 DEF IInv

LEMMA SendMessageInv ==
    ASSUME IInv, NEW p \in Payload, SendMessage(p)
    PROVE  IInv'
  <1> DEFINE m == [start |-> Len(stream), payload |-> p]
  <1>1. /\ TypeOK /\ Idle /\ NoEmptyRead /\ LaidOut
        /\ intact => Held /\ Matched
        /\ Len(stream) \in Nat /\ Len(sent) \in Nat
        /\ p \in Seq(Byte) /\ Len(p) \in Nat
        /\ sent' = Append(sent, m) /\ stream' = stream \o Frame(p)
        /\ UNCHANGED <<rd, buffer, reserved, bytes, i, pc, delivered, intact>>
    BY PayloadType, LenProperties DEF IInv, SendMessage, TypeOK
  <1>2. /\ stream' \in Seq(Byte)
        /\ Len(stream') = Len(stream) + 4 + Len(p)
        /\ \A k \in 1..Len(stream) : stream'[k] = stream[k]
        /\ Word(stream'[Len(stream) + 1], stream'[Len(stream) + 2],
                stream'[Len(stream) + 3], stream'[Len(stream) + 4]) = Len(p)
        /\ \A k \in 1..Len(p) : stream'[Len(stream) + 4 + k] = p[k]
    <2>1. stream \in Seq(Byte)
      BY <1>1 DEF TypeOK
    <2> QED BY <1>1, <2>1, FrameBytes, Zenon
  <1>3. /\ sent' \in Seq([start : Nat, payload : Payload])
        /\ Len(sent') = Len(sent) + 1
        /\ \A n \in 1..Len(sent) : sent'[n] = sent[n]
        /\ sent'[Len(sent) + 1].start = Len(stream)
        /\ sent'[Len(sent) + 1].payload = p
    <2>1. m \in [start : Nat, payload : Payload]
      BY <1>1
    <2>2. sent \in Seq([start : Nat, payload : Payload])
      BY <1>1 DEF TypeOK
    <2> HIDE DEF m
    <2>3. /\ sent' \in Seq([start : Nat, payload : Payload])
          /\ Len(sent') = Len(sent) + 1
          /\ \A n \in 1..Len(sent) : sent'[n] = sent[n]
          /\ sent'[Len(sent) + 1] = m
      BY <1>1, <2>1, <2>2, AppendProperties
    <2> QED BY <2>3 DEF m
  <1>4. TypeOK'
    BY <1>1, <1>2, <1>3 DEF TypeOK, End
  <1>5. Idle' /\ NoEmptyRead'
    BY <1>1 DEF Idle, NoEmptyRead
  <1>6. \A n \in 0..Len(sent) : EndOf(n)' = EndOf(n)
    BY <1>1, <1>3 DEF EndOf
  <1>7. PICK l \in Nat : l = Len(sent) + 1
    BY <1>1
  <1>8. EndOf(l)' = Len(stream')
    <2>1. /\ l # 0 /\ sent'[l].start = Len(stream) /\ sent'[l].payload = p
      BY <1>1, <1>3, <1>7
    <2>2. EndOf(l)' = Len(stream) + 4 + Len(p)
      BY <2>1 DEF EndOf, SizeofUnsigned
    <2> QED BY <1>2, <2>2
  <1>10. LaidOut'
    <2>1. ASSUME NEW n \in 1..Len(sent) PROVE FrameOf(n)'
      <3> DEFINE b == sent[n].start
                 q == sent[n].payload
      <3>1. /\ FrameOf(n) /\ sent'[n] = sent[n]
            /\ EndOf(n)' = EndOf(n) /\ EndOf(n - 1)' = EndOf(n - 1)
            /\ b \in Nat /\ Len(q) \in Nat /\ EndOf(n) = b + 4 + Len(q)
            /\ EndOf(n) <= Len(stream)
        <4>1. n \in 0..Len(sent) /\ n - 1 \in 0..Len(sent)
          BY <1>1
        <4> QED BY <1>1, <1>3, <1>6, <4>1, SentType DEF LaidOut, FrameOf
      <3>2. \A k \in 1..(4 + Len(q)) : stream'[b + k] = stream[b + k]
        <4> HIDE DEF b, q
        <4>1. \A k \in 1..(4 + Len(q)) : b + k \in 1..Len(stream)
          BY <1>1, <3>1
        <4> QED BY <1>2, <4>1
      <3>3. /\ stream'[b + 1] = stream[b + 1] /\ stream'[b + 2] = stream[b + 2]
            /\ stream'[b + 3] = stream[b + 3] /\ stream'[b + 4] = stream[b + 4]
        <4> HIDE DEF b, q
        <4> QED BY <3>1, <3>2
      <3>4. ASSUME NEW k \in 1..Len(q) PROVE stream'[b + 4 + k] = q[k]
        <4>1. 4 + k \in 1..(4 + Len(q)) /\ b + (4 + k) = b + 4 + k
          <5>1. PICK m1 \in Nat : m1 = Len(q)
            BY <3>1
          <5>2. k \in 1..m1
            BY <5>1
          <5>3. 4 + k \in 1..(4 + m1) /\ b + (4 + k) = b + 4 + k
            <6> HIDE DEF b, q
            <6> QED BY <3>1, <5>2
          <5> QED BY <5>1, <5>3
        <4>2. stream[b + 4 + k] = q[k]
          BY <3>1 DEF FrameOf, SizeofUnsigned
        <4> QED BY <3>2, <4>1, <4>2
      <3>5. EndOf(n) <= Len(stream')
        <4>1. b + 4 + Len(q) <= Len(stream) /\ Len(stream) \in Nat
          BY <1>1, <3>1
        <4>2. Len(stream') = Len(stream) + 4 + Len(p) /\ Len(p) \in Nat
          BY <1>2
        <4> HIDE DEF b, q
        <4> QED BY <3>1, <4>1, <4>2
      <3> QED BY <3>1, <3>3, <3>4, <3>5 DEF FrameOf, SizeofUnsigned
    <2>2. FrameOf(l)'
      <3>1. sent'[l].start = Len(stream) /\ sent'[l].payload = p
        BY <1>3, <1>7
      <3>2. Len(stream) = EndOf(l - 1)'
        BY <1>1, <1>6, <1>7 DEF LaidOut
      <3>3. EndOf(l)' <= Len(stream')
        BY <1>1, <1>2, <1>8
      <3> QED BY <1>2, <3>1, <3>2, <3>3 DEF FrameOf, SizeofUnsigned
    <2>3. /\ Len(sent') = l
          /\ \A n \in 1..l : n \in 1..Len(sent) \/ n = l
      BY <1>1, <1>3, <1>7
    <2>4. \A n \in 1..Len(sent') : FrameOf(n)'
      BY <2>1, <2>2, <2>3
    <2>5. Len(stream') = EndOf(Len(sent))'
      BY <1>8, <2>3 DEF EndOf
    <2> QED BY <2>4, <2>5 DEF LaidOut
  <1>9. ASSUME intact' PROVE Held' /\ Matched'
    <2>1. Held /\ Matched /\ Parsed' = Parsed /\ End' = End
      BY <1>1, <1>9 DEF Parsed, End
    <2>2. Held'
      <3>1. ASSUME NEW k \in i..(End - 1)
            PROVE  Parsed + 1 + k - i \in 1..Len(stream)
        <4>1. /\ Parsed + 1 + k - i \in Int /\ Parsed + 1 + k - i <= Len(stream)
              /\ Parsed \in Int /\ k - i >= 0
          BY <1>1, FramingAssumption DEF TypeOK, Parsed, End
        <4>2. Parsed >= 0
          <5>1. Len(delivered) \in 0..Len(sent)
            BY <1>1, <2>1, LenProperties DEF Matched, TypeOK
          <5> QED BY <1>1, <2>1, <4>1, <5>1, EndOfNat DEF Matched
        <4>3. k \in Int /\ i \in Int /\ Len(stream) \in Nat
          BY <1>1 DEF TypeOK, End
        <4>4. ASSUME NEW x \in Int, NEW y \in Int, NEW z \in Int, NEW n \in Nat,
                     x >= 0, y - z >= 0, x + 1 + y - z <= n
              PROVE  x + 1 + y - z \in 1..n
          BY <4>4
        <4> QED BY <4>1, <4>2, <4>3, <4>4
      <3> QED BY <1>1, <1>2, <2>1, <3>1 DEF Held
    <2>3. Matched'
      <3>1. Len(delivered) \in Nat /\ Len(delivered) <= Len(sent)
            /\ \A n \in 1..Len(delivered) : n \in 1..Len(sent)
        BY <1>1, <2>1, LenProperties DEF Matched, TypeOK
      <3> QED BY <1>1, <1>3, <1>6, <2>1, <3>1 DEF Matched
    <2> QED BY <2>2, <2>3
  <1> QED BY <1>4, <1>5, <1>9, <1>10 DEF IInv

LEMMA PrepareReadInv ==
    ASSUME IInv, PrepareRead
    PROVE  IInv'
  <1>1. /\ TypeOK /\ Idle /\ LaidOut
        /\ intact => Held /\ Matched
        /\ pc = "top" /\ pc' = "read" /\ i = 0 /\ bytes = 0
        /\ reserved' = IF BufferSize <= reserved THEN 0 ELSE reserved
        /\ intact' = (intact /\ reserved < BufferSize)
        /\ UNCHANGED <<sent, stream, rd, buffer, bytes, i, delivered>>
    BY DEF IInv, PrepareRead, Idle, peerVars
  <1>2. TypeOK' /\ Idle' /\ NoEmptyRead'
    BY <1>1, FramingAssumption DEF TypeOK, Idle, NoEmptyRead, End
  <1>3. LaidOut'
    BY <1>1 DEF LaidOut, FrameOf, EndOf
  <1>4. ASSUME intact' PROVE Held' /\ Matched'
    <2>1. intact /\ reserved < BufferSize
      BY <1>1, <1>4, Zenon
    <2>2. reserved' = reserved
      BY <1>1, <2>1, FramingAssumption DEF TypeOK
    <2>3. Held /\ Matched
      BY <1>1, <2>1, Zenon
    <2> QED BY <1>1, <2>2, <2>3 DEF Held, Matched, Parsed, End, EndOf
  <1> QED BY <1>2, <1>3, <1>4 DEF IInv

LEMMA ReadInv ==
    ASSUME IInv, Read
    PROVE  IInv'
  <1>1. PICK n \in 1..(BufferSize - reserved) :
           /\ rd + n <= Len(stream)
           /\ bytes' = n
           /\ rd' = rd + n
           /\ buffer' = [k \in Index |->
                           IF reserved <= k /\ k < reserved + n
                           THEN stream[rd + 1 + k - reserved] ELSE buffer[k]]
    BY DEF Read
  <1>2. /\ TypeOK /\ Idle /\ NoEmptyRead /\ LaidOut
        /\ intact => Held /\ Matched
        /\ pc = "read" /\ pc' = "returned" /\ i = 0 /\ i' = 0 /\ bytes = 0
        /\ UNCHANGED <<sent, stream, reserved, delivered, intact>>
        /\ reserved \in Nat /\ BufferSize \in Nat /\ n \in Nat
        /\ rd \in Nat /\ Len(stream) \in Nat
    BY FramingAssumption, LenProperties
       DEF IInv, Read, Idle, peerVars, TypeOK
  <1>3. ASSUME NEW k \in reserved..(reserved + n - 1)
        PROVE  /\ k \in Index
               /\ buffer'[k] = stream[rd + 1 + k - reserved]
               /\ stream[rd + 1 + k - reserved] \in Byte
    <2>1. k \in Index /\ reserved <= k /\ k < reserved + n
      BY <1>1, <1>2 DEF Index
    <2>2. rd + 1 + k - reserved \in 1..Len(stream)
      BY <1>1, <1>2
    <2> QED BY <1>1, <1>2, <2>1, <2>2 DEF TypeOK
  <1>4. \A k \in Index : ~(k \in reserved..(reserved + n - 1))
                         => buffer'[k] = buffer[k]
    BY <1>1, <1>2 DEF Index
  <1>5. TypeOK'
    <2>1. buffer' \in [Index -> Byte]
      BY <1>1, <1>2, <1>3, <1>4 DEF TypeOK
    <2> QED BY <1>1, <1>2, <2>1 DEF TypeOK, End
  <1>6. Idle' /\ NoEmptyRead'
    BY <1>2 DEF Idle, NoEmptyRead
  <1>7. LaidOut'
    BY <1>2 DEF LaidOut, FrameOf, EndOf
  <1>8. ASSUME intact' PROVE Held' /\ Matched'
    <2>1. /\ Held /\ Matched /\ End = reserved /\ End' = reserved + n
          /\ Parsed = rd - reserved /\ Parsed' = Parsed
      BY <1>1, <1>2, <1>8 DEF Parsed, End
    <2>2. ASSUME NEW k \in 0..(reserved + n - 1)
          PROVE  buffer'[k] = stream[Parsed + 1 + k - 0]
      <3>1. CASE k < reserved
        <4>1. k \in Index /\ k \in 0..(End - 1)
          BY <1>1, <1>2, <2>1, <3>1 DEF Index
        <4>2. buffer'[k] = buffer[k]
          BY <1>2, <1>4, <3>1, <4>1
        <4> QED BY <1>2, <2>1, <4>1, <4>2 DEF Held
      <3>2. CASE k >= reserved
        <4>1. k \in reserved..(reserved + n - 1)
          BY <1>2, <3>2
        <4>2. rd + 1 + k - reserved = Parsed + 1 + k - 0
          BY <1>2, <2>1
        <4> QED BY <1>3, <4>1, <4>2
      <3> QED BY <1>2, <3>1, <3>2
    <2>3. Held'
      BY <1>2, <2>1, <2>2 DEF Held
    <2>4. Matched'
      BY <1>2, <2>1 DEF Matched, EndOf
    <2> QED BY <2>3, <2>4
  <1> QED BY <1>5, <1>6, <1>7, <1>8 DEF IInv

(* The frame the parser finds is the next message the peer sent. *)
LEMMA NextFrame ==
    ASSUME TypeOK, LaidOut, Held, Matched, pc = "parse", WholeFrameAt(i)
    PROVE  LET d == Len(delivered) + 1 IN
           /\ d \in 1..Len(sent)
           /\ sent[d].start = Parsed
           /\ WordAt(i) = Len(sent[d].payload)
           /\ \A k \in 1..WordAt(i) : buffer[i + 4 + k - 1] = sent[d].payload[k]
  <1> DEFINE d == Len(delivered) + 1
             s == sent[d]
  <1>1. /\ i \in Nat /\ End \in Nat /\ rd \in Nat /\ Len(stream) \in Nat
        /\ rd <= Len(stream) /\ Len(sent) \in Nat /\ Len(delivered) \in Nat
        /\ End - i >= 4 /\ Parsed = rd - (End - i)
    BY FramingAssumption, LenProperties
       DEF TypeOK, End, WholeFrameAt, SizeofUnsigned, Parsed
  <1>2. WordAt(i) \in Nat /\ i + 4 + WordAt(i) <= End
    BY WholeFrame, i \in 0..End DEF TypeOK
  <1>3. d \in 1..Len(sent)
    <2>1. Len(delivered) <= Len(sent) /\ Parsed = EndOf(Len(delivered))
          /\ Len(stream) = EndOf(Len(sent))
      BY DEF Matched, LaidOut
    <2>2. Len(delivered) # Len(sent)
      BY <1>1, <2>1
    <2> QED BY <1>1, <2>1, <2>2
  <1>4. /\ s.start = Parsed /\ s.payload \in Payload /\ s.start \in Nat
        /\ FrameOf(d) /\ Len(s.payload) \in Nat
    <2>1. FrameOf(d)
      BY <1>3 DEF LaidOut
    <2>2. d - 1 = Len(delivered)
      BY <1>1
    <2> QED BY <1>3, <2>1, <2>2, SentType DEF FrameOf, Matched
  <1>5. ASSUME NEW j \in 0..(End - i - 1)
        PROVE  buffer[i + j] = stream[s.start + 1 + j]
    <2>1. i + j \in i..(End - 1) /\ Parsed + 1 + (i + j) - i = Parsed + 1 + j
      BY <1>1
    <2> QED BY <1>4, <2>1 DEF Held
  <1>6. WordAt(i) = Len(s.payload)
    <2>1. /\ 0 \in 0..(End - i - 1) /\ 1 \in 0..(End - i - 1)
          /\ 2 \in 0..(End - i - 1) /\ 3 \in 0..(End - i - 1)
      BY <1>1
    <2>2. /\ buffer[i] = stream[s.start + 1] /\ buffer[i + 1] = stream[s.start + 2]
          /\ buffer[i + 2] = stream[s.start + 3] /\ buffer[i + 3] = stream[s.start + 4]
      <3>1. /\ buffer[i + 0] = stream[s.start + 1 + 0]
            /\ buffer[i + 1] = stream[s.start + 1 + 1]
            /\ buffer[i + 2] = stream[s.start + 1 + 2]
            /\ buffer[i + 3] = stream[s.start + 1 + 3]
        BY <1>5, <2>1, Zenon
      <3>2. /\ i + 0 = i /\ s.start + 1 + 0 = s.start + 1
            /\ s.start + 1 + 1 = s.start + 2 /\ s.start + 1 + 2 = s.start + 3
            /\ s.start + 1 + 3 = s.start + 4
        BY <1>1, <1>4
      <3> QED BY <3>1, <3>2, Zenon
    <2>3. Word(stream[s.start + 1], stream[s.start + 2],
               stream[s.start + 3], stream[s.start + 4]) = Len(s.payload)
      BY <1>4 DEF FrameOf
    <2> QED BY <2>2, <2>3 DEF WordAt
  <1>7. ASSUME NEW k \in 1..WordAt(i)
        PROVE  buffer[i + 4 + k - 1] = s.payload[k]
    <2>1. /\ 4 + k - 1 \in 0..(End - i - 1)
          /\ i + (4 + k - 1) = i + 4 + k - 1
          /\ s.start + 1 + (4 + k - 1) = s.start + 4 + k
      BY <1>1, <1>2, <1>4
    <2>2. stream[s.start + 4 + k] = s.payload[k]
      BY <1>4, <1>6 DEF FrameOf, SizeofUnsigned
    <2> QED BY <1>5, <2>1, <2>2
  <1> QED BY <1>3, <1>4, <1>6, <1>7

LEMMA ParseFrameInv ==
    ASSUME IInv, ParseFrame
    PROVE  IInv'
  <1> DEFINE w == WordAt(i)
             f == [k \in 1..w |-> buffer[i + SizeofUnsigned + k - 1]]
             d == Len(delivered) + 1
  <1>1. /\ TypeOK /\ Idle /\ LaidOut
        /\ intact => Held /\ Matched
        /\ pc = "parse" /\ WholeFrameAt(i)
        /\ delivered' = Append(delivered, f)
        /\ i' = i + SizeofUnsigned + w
        /\ UNCHANGED <<sent, stream, rd, buffer, reserved, bytes, pc, intact>>
    BY DEF IInv, ParseFrame, peerVars
  <1>2. /\ w \in Nat /\ i + 4 + w <= End /\ End <= BufferSize
        /\ i \in Nat /\ End \in Nat /\ BufferSize \in Nat /\ End' = End
    BY <1>1, WholeFrame, FramingAssumption DEF TypeOK, End
  <1>3. f \in Seq(Byte) /\ Len(f) = w
    <2>1. ASSUME NEW k \in 1..w PROVE buffer[i + SizeofUnsigned + k - 1] \in Byte
      BY <1>1, <1>2 DEF TypeOK, Index, SizeofUnsigned
    <2> HIDE DEF w
    <2> QED BY <1>2, <2>1
  <1>4. /\ delivered' \in Seq(Seq(Byte)) /\ Len(delivered') = d
        /\ \A n \in 1..Len(delivered) : delivered'[n] = delivered[n]
        /\ delivered'[d] = f
    <2> HIDE DEF f
    <2> QED BY <1>1, <1>3, AppendProperties DEF TypeOK
  <1>5. TypeOK'
    BY <1>1, <1>2, <1>4 DEF TypeOK, SizeofUnsigned
  <1>6. Idle' /\ NoEmptyRead'
    BY <1>1 DEF Idle, NoEmptyRead
  <1>7. LaidOut'
    BY <1>1 DEF LaidOut, FrameOf, EndOf
  <1>8. ASSUME intact' PROVE Held' /\ Matched'
    <2>1. Held /\ Matched
      BY <1>1, <1>8
    <2>2. /\ d \in 1..Len(sent)
          /\ sent[d].start = Parsed /\ sent[d].payload \in Payload
          /\ w = Len(sent[d].payload)
          /\ \A k \in 1..w : f[k] = sent[d].payload[k]
      <3>1. /\ d \in 1..Len(sent)
            /\ sent[d].start = Parsed
            /\ w = Len(sent[d].payload)
            /\ \A k \in 1..w : buffer[i + 4 + k - 1] = sent[d].payload[k]
        BY <1>1, <2>1, NextFrame
      <3>2. sent[d].payload \in Payload
        BY <1>1, <3>1, SentType
      <3> QED BY <3>1, <3>2 DEF SizeofUnsigned
    <2>3. f = sent[d].payload
      <3> HIDE DEF f, d, w
      <3> QED BY <1>3, <2>2, PayloadType, SeqEqual
    <2>4. Parsed' = Parsed + 4 + w /\ Parsed \in Int /\ rd \in Nat
      BY <1>1, <1>2 DEF Parsed, SizeofUnsigned, TypeOK
    <2>5. Held'
      <3>1. ASSUME NEW k \in i'..(End' - 1)
            PROVE  buffer'[k] = stream'[Parsed' + 1 + k - i']
        <4>1. k \in i..(End - 1)
              /\ Parsed' + 1 + k - i' = Parsed + 1 + k - i
          BY <1>1, <1>2, <2>4 DEF SizeofUnsigned
        <4> QED BY <1>1, <2>1, <4>1 DEF Held
      <3> QED BY <3>1 DEF Held
    <2>6. Matched'
      <3>1. PICK e \in Nat : e = d
        BY <1>1, LenProperties DEF TypeOK
      <3>2. Len(delivered) \in Nat /\ Len(sent) \in Nat /\ e # 0
            /\ \A n \in 1..e : n \in 1..Len(delivered) \/ n = e
        BY <1>1, <3>1, LenProperties DEF TypeOK
      <3>3. Parsed' = EndOf(e)'
        BY <1>1, <2>2, <2>4, <3>1, <3>2 DEF EndOf, SizeofUnsigned
      <3>4. \A n \in 1..e : delivered'[n] = sent'[n].payload
        BY <1>1, <1>4, <2>1, <2>3, <3>1, <3>2 DEF Matched
      <3>5. e <= Len(sent') /\ Len(delivered') = e
        BY <1>1, <1>4, <2>2, <3>1, <3>2
      <3> QED BY <3>3, <3>4, <3>5 DEF Matched, EndOf
    <2> QED BY <2>5, <2>6
  <1> QED BY <1>5, <1>6, <1>7, <1>8 DEF IInv

LEMMA ReturnUnparsedInv ==
    ASSUME IInv, ReturnUnparsed
    PROVE  IInv'
  <1> DEFINE r == End - i
             from == bytes - r
  <1>0. PICK order \in CopyOrders :
           /\ buffer' \in CarryOver(from, r, order)
           /\ intact' = (/\ intact
                         /\ r > 0 => /\ reserved = 0
                                     /\ order = "up" \/ ~Overlap(from, r))
    BY DEF ReturnUnparsed
  <1>1. /\ TypeOK /\ Idle /\ LaidOut
        /\ intact => Held /\ Matched
        /\ pc = "parse" /\ pc' = "top" /\ bytes' = 0 /\ i' = 0
        /\ reserved' = r
        /\ UNCHANGED <<sent, stream, rd, delivered>>
    BY DEF IInv, ReturnUnparsed, peerVars
  <1>2. /\ r \in Nat /\ from \in Int /\ from + r <= BufferSize /\ r <= BufferSize
        /\ i \in Nat /\ reserved \in Nat /\ bytes \in Nat /\ End = reserved + bytes
        /\ End' = r /\ BufferSize \in Nat /\ rd \in Nat /\ i <= End
    BY <1>1, FramingAssumption DEF TypeOK, End
  <1>3. TypeOK'
    <2>1. buffer' \in [Index -> Byte]
      BY <1>0, <1>1, <1>2, CarryOverType
    <2>2. intact' \in BOOLEAN
      BY <1>0
    <2> QED BY <1>1, <1>2, <2>1, <2>2 DEF TypeOK
  <1>4. Idle' /\ NoEmptyRead'
    BY <1>1 DEF Idle, NoEmptyRead
  <1>5. LaidOut'
    BY <1>1 DEF LaidOut, FrameOf, EndOf
  <1>6. ASSUME intact' PROVE Held' /\ Matched'
    <2>0. /\ intact
          /\ r > 0 => reserved = 0 /\ (order = "up" \/ ~Overlap(from, r))
      BY <1>0, <1>6, Zenon
    <2>1. Held /\ Matched /\ Parsed' = Parsed /\ Parsed \in Int
      <3>1. Held /\ Matched
        BY <1>1, <2>0, Zenon
      <3> QED BY <1>1, <1>2, <3>1 DEF Parsed
    <2>2. ASSUME NEW k \in 0..(r - 1)
          PROVE  buffer'[k] = stream[Parsed + 1 + k - 0]
      <3>1. r > 0 /\ reserved = 0 /\ (order = "up" \/ ~Overlap(from, r))
        <4>1. r > 0
          BY <1>2
        <4> QED BY <2>0, <4>1, Zenon
      <3>2. from = i
        BY <1>2, <3>1
      <3>3. buffer'[k] = buffer[from + k]
        <4>1. /\ TypeOK /\ from \in Nat /\ r \in Nat /\ from + r <= BufferSize
              /\ order \in CopyOrders /\ (order = "up" \/ ~Overlap(from, r))
              /\ buffer' \in CarryOver(from, r, order) /\ k \in 0..(r - 1)
          BY <1>0, <1>1, <1>2, <3>1, <3>2
        <4> HIDE DEF from, r
        <4> QED BY <4>1, CarryOverMoves
      <3>4. i + k \in i..(End - 1) /\ Parsed + 1 + (i + k) - i = Parsed + 1 + k - 0
        BY <1>2, <2>1
      <3> QED BY <2>1, <3>2, <3>3, <3>4 DEF Held
    <2>3. Held'
      BY <1>1, <1>2, <2>1, <2>2 DEF Held
    <2>4. Matched'
      BY <1>1, <2>1 DEF Matched, EndOf
    <2> QED BY <2>3, <2>4
  <1> QED BY <1>3, <1>4, <1>5, <1>6 DEF IInv

LEMMA LockAgainInv ==
    ASSUME IInv, LockAgain
    PROVE  IInv'
  <1>1. /\ TypeOK /\ Idle /\ LaidOut
        /\ intact => Held /\ Matched
        /\ pc = "returned" /\ pc' = "parse" /\ i = 0
        /\ UNCHANGED <<sent, stream, rd, buffer, reserved, bytes, i, delivered, intact>>
    BY DEF IInv, LockAgain, Idle, peerVars
  <1>2. TypeOK' /\ Idle' /\ NoEmptyRead'
    BY <1>1 DEF TypeOK, Idle, NoEmptyRead, End
  <1>3. LaidOut'
    BY <1>1 DEF LaidOut, FrameOf, EndOf
  <1>4. (intact => Held /\ Matched)'
    BY <1>1 DEF Held, Matched, Parsed, End, EndOf
  <1> QED BY <1>2, <1>3, <1>4 DEF IInv

LEMMA ReconnectInv ==
    ASSUME IInv, Reconnect
    PROVE  IInv'
  <1>1. /\ TypeOK /\ Idle
        /\ \/ pc \in {"top", "read"} /\ pc' = "top"
           \/ pc = "returned" /\ pc' = "returned"
        /\ sent' = <<>> /\ stream' = <<>> /\ rd' = 0 /\ delivered' = <<>>
        /\ intact' = (intact /\ reserved = 0 /\ pc # "returned")
        /\ UNCHANGED <<buffer, reserved, bytes, i>>
    BY DEF IInv, Reconnect, MayReconnect, ReadsAgain
  <1>2. i = 0 /\ reserved \in Nat /\ (pc # "returned" => bytes = 0)
    BY <1>1 DEF Idle, TypeOK
  <1>3. TypeOK'
    BY <1>1 DEF TypeOK, End
  <1>4. Idle' /\ NoEmptyRead'
    BY <1>1, <1>2 DEF Idle, NoEmptyRead
  <1>5. LaidOut'
    BY <1>1 DEF LaidOut, EndOf
  <1>6. ASSUME intact' PROVE Held' /\ Matched'
    <2>1. reserved = 0 /\ bytes = 0
      <3>1. reserved = 0 /\ pc # "returned"
        BY <1>1, <1>6, Zenon
      <3> QED BY <1>2, <3>1, Zenon
    <2> QED BY <1>1, <1>2, <2>1 DEF Held, Matched, Parsed, End, EndOf
  <1> QED BY <1>3, <1>4, <1>5, <1>6 DEF IInv

LEMMA StutterInv ==
    ASSUME IInv, UNCHANGED vars
    PROVE  IInv'
  BY DEF IInv, vars, TypeOK, Idle, NoEmptyRead, LaidOut, FrameOf, EndOf,
         Held, Matched, Parsed, End

-----------------------------------------------------------------------------
(* The invariant behind the other theorems: while the connection is        *)
(* intact, the unparsed bytes in ReadBuffer are the bytes of the peer's    *)
(* stream that follow the last frame delivered.                            *)
THEOREM Inductive == Spec => []IInv
  <1>1. IInv /\ [Next]_vars => IInv'
    <2> SUFFICES ASSUME IInv, [Next]_vars PROVE IInv'
      OBVIOUS
    <2>1. CASE \E p \in Payload : SendMessage(p)
      BY <2>1, SendMessageInv
    <2>2. CASE PrepareRead
      BY <2>2, PrepareReadInv
    <2>3. CASE Read
      BY <2>3, ReadInv
    <2>4. CASE ParseFrame
      BY <2>4, ParseFrameInv
    <2>5. CASE ReturnUnparsed
      BY <2>5, ReturnUnparsedInv
    <2>6. CASE Reconnect
      BY <2>6, ReconnectInv
    <2>7. CASE UNCHANGED vars
      BY <2>7, StutterInv
    <2>8. CASE LockAgain
      BY <2>8, LockAgainInv
    <2> QED BY <2>1, <2>2, <2>3, <2>4, <2>5, <2>6, <2>7, <2>8 DEF Next, ReaderStep
  <1> QED BY InitIInv, <1>1, PTL DEF Spec

(* Every buffer index the parser and memcpy's destination use is inside    *)
(* ReadBuffer, and what OnRead asks to keep fits into it.                  *)
THEOREM TypeCorrect == Spec => []TypeOK
  <1>1. IInv => TypeOK
    BY DEF IInv
  <1> QED BY Inductive, <1>1, PTL

(* read() is always asked for at least one byte, so 0 always means the end *)
(* of the connection.                                                      *)
THEOREM ReadsAreNotEmpty == Spec => []NoEmptyRead
  <1>1. IInv => NoEmptyRead
    BY DEF IInv
  <1> QED BY Inductive, <1>1, PTL

(* Messages are delivered in the order sent, and only messages that were   *)
(* sent, until one of the five events that end `intact'.                  *)
THEOREM DeliveryInOrder == Spec => []InOrderDelivery
  <1>1. IInv => InOrderDelivery
    BY LenProperties DEF IInv, TypeOK, Matched, InOrderDelivery
  <1> QED BY Inductive, <1>1, PTL

(* The messages of a longer list of messages sent. *)
Payloads == [n \in 1..Len(sent) |-> sent[n].payload]

LEMMA PayloadsGrow ==
    ASSUME TypeOK, NEW p \in Payload, NEW k \in Nat,
           sent' = Append(sent, [start |-> k, payload |-> p])
    PROVE  Payloads' = Append(Payloads, p)
  <1> DEFINE m == [start |-> k, payload |-> p]
  <1>1. m \in [start : Nat, payload : Payload] /\ m.payload = p
    OBVIOUS
  <1>2. sent \in Seq([start : Nat, payload : Payload]) /\ sent' = Append(sent, m)
    BY DEF TypeOK
  <1> HIDE DEF m
  <1>3. /\ Len(sent) \in Nat /\ Len(sent') = Len(sent) + 1
        /\ \A n \in 1..Len(sent) : sent'[n] = sent[n]
        /\ sent'[Len(sent) + 1] = m
    BY <1>1, <1>2, AppendProperties, LenProperties
  <1>4. Payloads \in Seq(Payload) /\ Len(Payloads) = Len(sent)
    <2>1. \A n \in 1..Len(sent) : sent[n].payload \in Payload
      BY SentType
    <2> QED BY <1>3, <2>1 DEF Payloads
  <1>5. Payloads' \in Seq(Payload) /\ Len(Payloads') = Len(sent) + 1
    <2>1. \A n \in 1..(Len(sent) + 1) : sent'[n].payload \in Payload
      <3>1. ASSUME NEW n \in 1..(Len(sent) + 1) PROVE n \in 1..Len(sent) \/ n = Len(sent) + 1
        BY <1>3
      <3>2. \A n \in 1..Len(sent) : sent[n].payload \in Payload
        BY SentType
      <3> QED BY <1>1, <1>3, <3>1, <3>2
    <2> QED BY <1>3, <2>1 DEF Payloads
  <1>6. /\ Append(Payloads, p) \in Seq(Payload)
        /\ Len(Append(Payloads, p)) = Len(sent) + 1
        /\ \A n \in 1..Len(sent) : Append(Payloads, p)[n] = Payloads[n]
        /\ Append(Payloads, p)[Len(sent) + 1] = p
    BY <1>4, AppendProperties
  <1>7. ASSUME NEW n \in 1..(Len(sent) + 1)
        PROVE  Payloads'[n] = Append(Payloads, p)[n]
    <2>1. Payloads'[n] = sent'[n].payload
      BY <1>3 DEF Payloads
    <2>2. CASE n = Len(sent) + 1
      BY <1>1, <1>3, <1>6, <2>1, <2>2
    <2>3. CASE n \in 1..Len(sent)
      <3>1. Payloads[n] = sent[n].payload
        BY <2>3 DEF Payloads
      <3> QED BY <1>3, <1>6, <2>1, <2>3, <3>1
    <2>4. n = Len(sent) + 1 \/ n \in 1..Len(sent)
      <3>1. Len(sent) \in Nat
        BY <1>3
      <3> QED BY <3>1
    <2> QED BY <2>2, <2>3, <2>4
  <1> QED BY <1>5, <1>6, <1>7, SeqEqual

(* The receive path implements the channel of messages: every step is a    *)
(* step of the channel, or leaves it as it is.                             *)
THEOREM Refinement == Spec => ImplementsChannel
  <1>1. Init => Channel!Init
    BY DEF Init, Channel!Init
  <1>2. IInv /\ [Next]_vars => [Channel!Next]_(Channel!channelVars)
    <2> SUFFICES ASSUME IInv, [Next]_vars
                 PROVE  Channel!Next \/ UNCHANGED Channel!channelVars
      OBVIOUS
    <2> USE DEF Channel!channelVars, Channel!Next
    <2>1. ASSUME NEW p \in Payload, SendMessage(p)
          PROVE  Channel!Send(p)
      <3>1. /\ TypeOK /\ Len(stream) \in Nat
            /\ sent' = Append(sent, [start |-> Len(stream), payload |-> p])
            /\ UNCHANGED <<delivered, intact>>
        BY <2>1, LenProperties DEF IInv, TypeOK, SendMessage
      <3>2. Payloads' = Append(Payloads, p)
        BY <3>1, PayloadsGrow
      <3> QED BY <3>1, <3>2 DEF Channel!Send, Payloads
    <2>2. CASE PrepareRead
      <3>1. UNCHANGED <<sent, delivered>> /\ intact' = (intact /\ reserved < BufferSize)
        BY <2>2 DEF PrepareRead, peerVars
      <3> QED BY <3>1 DEF Channel!Break, IInv, TypeOK
    <2>3. CASE Read
      BY <2>3 DEF Read, peerVars
    <2>4. CASE ParseFrame
      <3>1. /\ UNCHANGED <<sent, intact>>
            /\ delivered' = Append(delivered, [k \in 1..WordAt(i) |-> buffer[i + SizeofUnsigned + k - 1]])
        BY <2>4 DEF ParseFrame, peerVars
      <3>2. CASE ~intact
        BY <3>1, <3>2 DEF Channel!DeliverAnything
      <3>3. CASE intact
        <4> DEFINE d == Len(delivered) + 1
        <4>1. IInv'
          BY <2>4, ParseFrameInv
        <4>2. /\ Len(delivered) \in Nat /\ Len(delivered') = d
              /\ delivered \in Seq(Seq(Byte)) /\ delivered' \in Seq(Seq(Byte))
          BY <3>1, <4>1, AppendProperties, LenProperties DEF IInv, TypeOK
        <4>3. /\ d <= Len(sent) /\ Len(sent) \in Nat
              /\ delivered'[d] = sent[d].payload
          <5>1. Matched'
            BY <3>1, <3>3, <4>1 DEF IInv
          <5>2. /\ Len(delivered') <= Len(sent)
                /\ \A n \in 1..Len(delivered') : delivered'[n] = sent[n].payload
            BY <3>1, <5>1 DEF Matched
          <5>3. Len(sent) \in Nat
            BY LenProperties DEF IInv, TypeOK
          <5>4. d \in 1..Len(delivered')
            BY <4>2
          <5> QED BY <4>2, <5>2, <5>3, <5>4
        <4> QED BY <3>1, <3>3, <4>2, <4>3 DEF Channel!Deliver
      <3> QED BY <3>2, <3>3
    <2>5. CASE ReturnUnparsed
      <3>1. UNCHANGED <<sent, delivered>> /\ intact' \in BOOLEAN /\ (intact' => intact)
        BY <2>5 DEF ReturnUnparsed, peerVars
      <3> QED BY <3>1 DEF Channel!Break, IInv, TypeOK
    <2>6. CASE Reconnect
      <3>1. sent' = <<>> /\ delivered' = <<>> /\ (intact' => intact) /\ intact' \in BOOLEAN
        BY <2>6 DEF Reconnect
      <3>2. [n \in 1..Len(sent) |-> sent[n].payload]' = <<>>
        BY <3>1
      <3>3. (~intact)' \in BOOLEAN /\ (~intact => (~intact)')
        BY <3>1
      <3>4. Channel!Renew
        BY <3>1, <3>2, <3>3 DEF Channel!Renew
      <3> QED BY <3>4
    <2>7. CASE LockAgain
      BY <2>7 DEF LockAgain, peerVars
    <2>8. CASE UNCHANGED vars
      BY <2>8 DEF vars
    <2> QED BY <2>1, <2>2, <2>3, <2>4, <2>5, <2>6, <2>7, <2>8 DEF Next, ReaderStep
  <1> QED BY Inductive, <1>1, <1>2, PTL DEF Spec, ImplementsChannel, Channel!Spec
=============================================================================
