---------------------------- MODULE RelayProofs ----------------------------
(***************************************************************************)
(* The safety properties of Relay, for any clients, limits and capacity.   *)
(* The inductive invariant follows the messages: from the user of a client *)
(* to the handler and back to the client, where they keep their order, and *)
(* from the handlers to the visual server, where each is a length and a    *)
(* text as long as no two handlers are between their Sends.                *)
(***************************************************************************)
EXTENDS Relay, SequenceTheorems, TLAPS

(* Where a client or its handler is. *)
Sending(c) == cmain[c] \in {"sendingLen", "text", "sendingText"}
Answering(c) == prd[c] \in {"got", "answerLen", "answerText"}
IsText(p) == p # None /\ p.part = "text"

(* m is a message that the user of c has typed. *)
Typed(c, m) == m.n \in 1..Len(typed[c]) /\ m = typed[c][m.n]

(* Every message of a connection has been typed at its client, and the     *)
(* reading thread of its socket has one exactly while it handles it.  The  *)
(* socket is not closed before the client has left, or exit is typed.      *)
OriginInv(c) ==
    /\ \A k \in 1..Len(typed[c]) : typed[c][k].n = k
    /\ Sending(c) => typed[c] # <<>>
    /\ \A k \in 1..Len(req[c]) : Typed(c, req[c][k].of)
    /\ \A k \in 1..Len(ans[c]) : Typed(c, ans[c][k].of)
    /\ cgot[c] # None => Typed(c, cgot[c].of)
    /\ cur[c] # None => Typed(c, cur[c])
    /\ cur[c] # None <=> prd[c] \in Handling
    /\ Len(answers[c]) <= Len(typed[c])
    /\ pend[c] = "closed" /\ pmain = "serving" => cend[c] = "closed" /\ cur[c] = None

(* The answers that client c has shown, or that are under way to it, are   *)
(* to messages before number n.                                            *)
AnsweredBefore(c, n) ==
    /\ Len(answers[c]) < n
    /\ IsText(cgot[c]) => cgot[c].of.n < n
    /\ \A k \in 1..Len(ans[c]) : IsText(ans[c][k]) => ans[c][k].of.n < n

(* Messages stay in order all the way from the client and back to it, so   *)
(* what has not been answered yet is counted by no answer.                 *)
AnswersOrdered(c) ==
    /\ IsText(cgot[c]) => Len(answers[c]) < cgot[c].of.n
    /\ \A j \in 1..Len(ans[c]) : IsText(ans[c][j]) =>
          /\ Len(answers[c]) < ans[c][j].of.n
          /\ IsText(cgot[c]) => cgot[c].of.n < ans[c][j].of.n
          /\ \A i \in 1..(j - 1) : IsText(ans[c][i]) => ans[c][i].of.n < ans[c][j].of.n

HandledIsNext(c) == Answering(c) => AnsweredBefore(c, cur[c].n)

RequestsOrdered(c) ==
    \A j \in 1..Len(req[c]) : IsText(req[c][j]) =>
        /\ AnsweredBefore(c, req[c][j].of.n)
        /\ cur[c] # None => cur[c].n < req[c][j].of.n
        /\ \A i \in 1..(j - 1) : IsText(req[c][i]) => req[c][i].of.n < req[c][j].of.n

SentIsLast(c) ==
    Sending(c) =>
        /\ AnsweredBefore(c, Len(typed[c]))
        /\ cur[c] # None => cur[c].n < Len(typed[c])
        /\ \A k \in 1..Len(req[c]) : IsText(req[c][k]) => req[c][k].of.n < Len(typed[c])

OrderInv(c) == AnswersOrdered(c) /\ HandledIsNext(c) /\ RequestsOrdered(c) /\ SentIsLast(c)

(* While no Sends have crossed, at most one handler is between its two.    *)
(* What the visual server has read and what is under way to it are the     *)
(* lengths and texts passed on, and the length of that handler's message.  *)
Between(c) == prd[c] = "passText"

Parts == 2 * Len(shown) + (IF vlen = None THEN 0 ELSE 1)

Nth(p, n, s) ==
    /\ p.part = IF n % 2 = 1 THEN "len" ELSE "text"
    /\ (n + 1) \div 2 <= Len(s) => p.of = s[(n + 1) \div 2]

FramesInv ==
    /\ ~lost
    /\ \A k \in 1..Len(shown) : shown[k] = passed[k]
    /\ Parts + Len(up) = 2 * Len(passed) + (IF \E c \in Client : Between(c) THEN 1 ELSE 0)
    /\ \A k \in 1..Len(up) : Nth(up[k], Parts + k, passed)
    /\ vlen # None /\ Len(shown) < Len(passed) => vlen = passed[Len(shown) + 1]
    /\ \A c \in Client : Between(c) =>
          cur[c] = IF up = <<>> THEN vlen ELSE up[Len(up)].of

UpstreamInv ==
    /\ ~crossed => \A c, d \in Client : Between(c) /\ Between(d) => c = d
    /\ vend = "open" /\ ~crossed => FramesInv
    /\ uend = "closed" /\ pmain = "serving" => vend = "closed"

CoreInv ==
    /\ TypeOK /\ UpstreamInv
    /\ \A c \in Client : OriginInv(c) /\ OrderInv(c)

IInv == CoreInv /\ OutlivesPoliteClients

-----------------------------------------------------------------------------
(* A part sent is the last one on its way. *)
LEMMA PartSent ==
    ASSUME NEW T, NEW s \in Seq(T), NEW e \in T
    PROVE  /\ Append(s, e) \in Seq(T)
           /\ Len(s) \in Nat /\ Len(Append(s, e)) = Len(s) + 1
           /\ \A k \in 1..Len(s) : Append(s, e)[k] = s[k]
           /\ Append(s, e)[Len(s) + 1] = e
  BY AppendProperties, LenProperties

(* A part read is the first one, and the others move up. *)
LEMMA PartRead ==
    ASSUME NEW T, NEW s \in Seq(T), s # <<>>
    PROVE  /\ Head(s) \in T /\ Tail(s) \in Seq(T)
           /\ Len(s) \in Nat /\ 1 \in 1..Len(s) /\ Head(s) = s[1]
           /\ Len(Tail(s)) \in Nat /\ Len(Tail(s)) = Len(s) - 1
           /\ \A k \in 1..Len(Tail(s)) : k + 1 \in 1..Len(s) /\ Tail(s)[k] = s[k + 1]
  <1>1. /\ Head(s) \in T /\ Tail(s) \in Seq(T)
        /\ Len(s) \in Nat /\ Len(s) # 0 /\ Head(s) = s[1]
        /\ Len(Tail(s)) = Len(s) - 1
        /\ \A k \in 1..Len(Tail(s)) : Tail(s)[k] = s[k + 1]
    BY HeadTailProperties, LenProperties, EmptySeq
  <1> DEFINE t == Tail(s)
  <1> HIDE DEF t
  <1>2. \A k \in 1..Len(t) : k + 1 \in 1..Len(s)
    BY <1>1 DEF t
  <1> QED BY <1>1, <1>2 DEF t

(* The empty sequence of parts or messages. *)
LEMMA NoParts ==
    ASSUME NEW T
    PROVE  <<>> \in Seq(T) /\ Len(<<>>) = 0
  OBVIOUS

(* A step that leaves client c, its connection and its handler alone. *)
Untouched(c) ==
    /\ typed'[c] = typed[c] /\ cmain'[c] = cmain[c] /\ cgot'[c] = cgot[c]
    /\ answers'[c] = answers[c] /\ req'[c] = req[c] /\ ans'[c] = ans[c]
    /\ pend'[c] = pend[c] /\ cur'[c] = cur[c] /\ (cend[c] = "closed" => cend'[c] = "closed")
    /\ prd'[c] = prd[c] \/ {prd[c], prd'[c]} \cap Handling = {}
    /\ pmain' = "serving" => pmain = "serving"

(* It keeps what is said of c. *)
LEMMA UntouchedInv ==
    ASSUME NEW c \in Client, OriginInv(c), OrderInv(c), Untouched(c)
    PROVE  OriginInv(c)' /\ OrderInv(c)'
  <1> USE DEF Handling
  <1>1. OriginInv(c)'
    BY DEF Untouched, OriginInv, Typed, Sending
  <1>2. OrderInv(c)'
    BY DEF Untouched, OrderInv, AnswersOrdered, HandledIsNext, RequestsOrdered, SentIsLast,
           AnsweredBefore, Answering, Sending, IsText
  <1> QED BY <1>1, <1>2

(* A step that neither sends nor reads upstream. *)
UpstreamUntouched ==
    /\ up' = up /\ passed' = passed /\ shown' = shown /\ vlen' = vlen /\ lost' = lost
    /\ crossed' = crossed /\ vend' = vend /\ uend' = uend
    /\ pmain' = "serving" => pmain = "serving"
    /\ \A c \in Client : /\ Between(c)' <=> Between(c)
                         /\ Between(c) => cur'[c] = cur[c]

(* It keeps what is said of the parts there. *)
LEMMA UpstreamUntouchedInv ==
    ASSUME UpstreamInv, UpstreamUntouched
    PROVE  UpstreamInv'
  <1> USE DEF UpstreamUntouched
  <1>1. FramesInv => FramesInv'
    <2> SUFFICES ASSUME FramesInv PROVE FramesInv'
      OBVIOUS
    <2>1. Parts' = Parts
      BY DEF Parts
    <2>2. (\E c \in Client : Between(c))' <=> (\E c \in Client : Between(c))
      OBVIOUS
    <2> QED BY <2>1, <2>2 DEF FramesInv
  <1> QED BY <1>1 DEF UpstreamInv

-----------------------------------------------------------------------------
(* The steps of a client. *)
USE DEF clientVars, upVars, visualVars, serverVars, mainVars, Running, HasMutex, MainGoes,
        ReaderGoes, Between, Handling, Reading, Building

(* The user of c types a message, the last one of c. *)
LEMMA TypesInv ==
    ASSUME CoreInv, NEW c \in Client, NEW text \in limit.text, Types(c, text)
    PROVE  CoreInv'
  <1> DEFINE s == typed[c]
             e == [from |-> c, n |-> Len(s) + 1, text |-> text]
  <1> USE DEF Types, CoreInv
  <1>1. s \in Seq(Message) /\ Len(s) \in Nat /\ text \in TextKind
    BY RelayAssumption, LenProperties DEF TypeOK
  <1>2. e \in Message
    BY <1>1 DEF Message
  <1>3. /\ typed'[c] \in Seq(Message) /\ Len(typed'[c]) = Len(s) + 1
        /\ \A k \in 1..Len(s) : typed'[c][k] = s[k]
        /\ typed'[c][Len(s) + 1] = e /\ e.n = Len(s) + 1
        /\ typed' = [typed EXCEPT ![c] = typed'[c]] /\ cmain'[c] = "sendingLen"
    BY <1>1, <1>2, PartSent DEF TypeOK
  <1> HIDE DEF e
  <1>4. TypeOK'
    <2>1. typed' \in [Client -> Seq(Message)]
      BY <1>3 DEF TypeOK
    <2>2. \A d \in Client : Len(typed'[d]) <= limit.messages[d]
      <3>1. limit.messages[c] \in Nat
        BY RelayAssumption DEF TypeOK
      <3> QED BY <1>1, <1>3, <3>1, SMTT(20) DEF TypeOK
    <2> QED BY <2>1, <2>2 DEF TypeOK
  <1>5. OriginInv(c)'
    <2>1. \A m : Typed(c, m) => Typed(c, m)'
      BY <1>1, <1>3 DEF Typed
    <2>2. \A k \in 1..Len(typed'[c]) : typed'[c][k].n = k
      BY <1>1, <1>3 DEF OriginInv
    <2>3. typed'[c] # <<>>
      BY ONLY <1>1, <1>3, EmptySeq
    <2> QED BY <1>1, <1>3, <2>1, <2>2, <2>3, SMTT(20) DEF OriginInv, TypeOK, Sending
  <1>6. OrderInv(c)'
    <2>1. \A m : Typed(c, m) => m.n < Len(typed'[c])
      BY <1>1, <1>3 DEF Typed
    <2>2. Len(answers[c]) < Len(typed'[c])
      BY <1>1, <1>3, LenProperties DEF OriginInv, TypeOK
    <2> QED BY <2>1, <2>2 DEF OriginInv, OrderInv, AnswersOrdered, HandledIsNext, RequestsOrdered,
           SentIsLast, AnsweredBefore, Answering, Sending, IsText, TypeOK
  <1>7. ASSUME NEW d \in Client, d # c PROVE OriginInv(d)' /\ OrderInv(d)'
    BY <1>7, UntouchedInv DEF Untouched, TypeOK
  <1>8. UpstreamInv'
    BY UpstreamUntouchedInv DEF UpstreamUntouched
  <1> QED BY <1>4, <1>5, <1>6, <1>7, <1>8

(* A Send of c ends: its part is on its way, or lost. *)
LEMMA SendEndsInv ==
    ASSUME CoreInv, NEW c \in Client, SendEnds(c)
    PROVE  CoreInv'
  <1> DEFINE m == typed[c][Len(typed[c])]
             p == [of |-> m, part |-> IF cmain[c] = "sendingLen" THEN "len" ELSE "text"]
  <1> USE DEF SendEnds, CoreInv
  <1>1. /\ Sending(c) /\ typed[c] \in Seq(Message) /\ typed[c] # <<>>
        /\ Len(typed[c]) \in 1..Len(typed[c]) /\ m \in Message
        /\ m.n = Len(typed[c]) /\ Typed(c, m)
    BY EmptySeq, LenProperties, ElementOfSeq DEF TypeOK, OriginInv, Sending, Typed
  <1>2. p \in Part /\ p.of = m /\ (IsText(p) <=> cmain[c] = "sendingText")
    BY <1>1, RelayAssumption DEF Part, IsText
  <1>3. /\ cmain' = [cmain EXCEPT ![c] = IF cmain[c] = "sendingLen" THEN "text" ELSE "typing"]
        /\ req' = [req EXCEPT ![c] = req'[c]]
        /\ req'[c] = IF pend[c] = "closed" THEN req[c] ELSE Append(req[c], p)
    BY DEF TypeOK
  <1>4. /\ req[c] \in Seq(Part) /\ Len(req[c]) \in Nat /\ req'[c] \in Seq(Part)
        /\ Len(req'[c]) <= Capacity
    <2>1. req[c] \in Seq(Part) /\ Len(req[c]) \in Nat /\ Len(req[c]) <= Capacity
      BY LenProperties DEF TypeOK
    <2>2. CASE pend[c] = "closed"
      BY ONLY <1>3, <2>1, <2>2
    <2>3. CASE pend[c] = "open"
      <3>1. Len(req[c]) < Capacity /\ req'[c] = Append(req[c], p)
        BY <1>3, <2>3 DEF Room
      <3> QED BY ONLY <1>2, <2>1, <3>1, PartSent, RelayAssumption
    <2> QED BY <2>2, <2>3 DEF TypeOK, Open
  <1>5. ASSUME NEW k \in 1..Len(req'[c])
        PROVE  \/ k \in 1..Len(req[c]) /\ req'[c][k] = req[c][k]
               \/ k = Len(req[c]) + 1 /\ req'[c][k] = p
    <2>1. CASE pend[c] = "closed"
      BY <1>3, <2>1
    <2>2. CASE pend[c] = "open"
      <3>1. req'[c] = Append(req[c], p)
        BY ONLY <1>3, <2>2
      <3>2. k \in 1..Len(req'[c])
        BY <1>5
      <3> QED BY ONLY <1>2, <1>4, <3>1, <3>2, PartSent
    <2> QED BY <2>1, <2>2 DEF TypeOK, Open
  <1> HIDE DEF m, p
  <1>6. TypeOK'
    BY <1>3, <1>4, <1>5, SMTT(20) DEF TypeOK
  <1>7. OriginInv(c)'
    <2>1. \A k \in 1..Len(req'[c]) : Typed(c, req'[c][k].of)
      <3>1. Typed(c, p.of)
        BY <1>1, <1>2
      <3>2. \A k \in 1..Len(req[c]) : Typed(c, req[c][k].of)
        BY DEF OriginInv
      <3> QED BY ONLY <1>5, <3>1, <3>2
    <2>2. OriginInv(c) /\ (Sending(c)' => typed[c] # <<>>)
      BY <1>1
    <2>3. UNCHANGED <<typed, ans, cgot, cur, prd, answers, pend, cend, pmain>>
      OBVIOUS
    <2> QED BY ONLY <2>1, <2>2, <2>3 DEF OriginInv, Typed
  <1>8. OrderInv(c)'
    <2>1. \A n : AnsweredBefore(c, n)' <=> AnsweredBefore(c, n)
      BY DEF AnsweredBefore
    <2>2. AnswersOrdered(c)' /\ HandledIsNext(c)'
      BY <2>1 DEF OrderInv, AnswersOrdered, HandledIsNext, Answering
    <2>3. /\ AnsweredBefore(c, m.n) /\ (cur[c] # None => cur[c].n < m.n)
          /\ \A k \in 1..Len(req[c]) : IsText(req[c][k]) => req[c][k].of.n < m.n
      BY <1>1 DEF OrderInv, SentIsLast
    <2>4. RequestsOrdered(c)'
      <3> SUFFICES ASSUME NEW j \in 1..Len(req'[c]), IsText(req'[c][j])
                   PROVE  /\ AnsweredBefore(c, req[c][j].of.n)'
                          /\ cur[c] # None => cur[c].n < req'[c][j].of.n
                          /\ \A i \in 1..(j - 1) :
                                IsText(req'[c][i]) => req'[c][i].of.n < req'[c][j].of.n
        BY DEF RequestsOrdered, IsText
      <3>1. CASE j \in 1..Len(req[c]) /\ req'[c][j] = req[c][j]
        <4>1. \A i \in 1..(j - 1) : i \in 1..Len(req[c]) /\ req'[c][i] = req[c][i]
          BY <1>4, <1>5, <3>1
        <4> QED BY <2>1, <3>1, <4>1 DEF OrderInv, RequestsOrdered
      <3>2. CASE j = Len(req[c]) + 1 /\ req'[c][j] = p
        <4>1. \A i \in 1..(j - 1) : i \in 1..Len(req[c]) /\ req'[c][i] = req[c][i]
          BY <1>4, <1>5, <3>2
        <4> QED BY <1>2, <2>1, <2>3, <3>2, <4>1
      <3> QED BY <1>5, <3>1, <3>2
    <2>5. SentIsLast(c)'
      <3> SUFFICES ASSUME Sending(c)' PROVE SentIsLast(c)'
        BY DEF SentIsLast
      <3>1. cmain[c] = "sendingLen" /\ ~IsText(p)
        BY <1>2, <1>3 DEF Sending, TypeOK
      <3> QED BY <1>1, <1>4, <1>5, <2>1, <2>3, <3>1 DEF SentIsLast, IsText
    <2> QED BY <2>2, <2>4, <2>5 DEF OrderInv
  <1>9. ASSUME NEW d \in Client, d # c PROVE OriginInv(d)' /\ OrderInv(d)'
    BY <1>9, UntouchedInv DEF Untouched, TypeOK
  <1>10. UpstreamInv'
    BY UpstreamUntouchedInv DEF UpstreamUntouched, TypeOK
  <1> QED BY <1>6, <1>7, <1>8, <1>9, <1>10

(* The program of client c ends. *)
LEMMA ClientEndsInv ==
    ASSUME CoreInv, NEW c \in Client, ClientEnds(c)
    PROVE  CoreInv'
  <1> USE DEF ClientEnds, CoreInv
  <1>1. /\ cmain' = [cmain EXCEPT ![c] = "exited"] /\ cgot' = [cgot EXCEPT ![c] = None]
        /\ ans' = [ans EXCEPT ![c] = <<>>] /\ req' = [req EXCEPT ![c] = req'[c]]
        /\ req'[c] = req[c] \/ req'[c] = <<>>
    BY DEF TypeOK
  <1>2. /\ cmain'[c] = "exited" /\ cgot'[c] = None /\ ans'[c] = <<>> /\ Len(<<>>) = 0
        /\ req'[c] \in Seq(Part) /\ Len(req'[c]) <= Capacity
        /\ <<>> \in Seq(Part) /\ Len(<<>>) <= Capacity
    <2>1. <<>> \in Seq(Part) /\ Len(<<>>) = 0 /\ Len(<<>>) <= Capacity
      BY ONLY NoParts, RelayAssumption
    <2>2. cmain'[c] = "exited" /\ cgot'[c] = None /\ ans'[c] = <<>>
      BY <1>1 DEF TypeOK
    <2>3. req[c] \in Seq(Part) /\ Len(req[c]) <= Capacity
      BY DEF TypeOK
    <2> QED BY ONLY <1>1, <2>1, <2>2, <2>3
  <1>3. limit' = limit /\ exits' \in 0..limit.exits
    BY RelayAssumption, SMTT(20) DEF TypeOK, UserExits
  <1>4. TypeOK'
    <2>1. /\ req' \in [Client -> Seq(Part)] /\ ans' \in [Client -> Seq(Part)]
          /\ \A d \in Client : Len(req'[d]) <= Capacity /\ Len(ans'[d]) <= Capacity
      BY <1>1, <1>2 DEF TypeOK
    <2>2. cgot' \in [Client -> Part \cup {None}] /\ cend' \in [Client -> Open]
      BY <1>1 DEF TypeOK, Open
    <2> QED BY <1>1, <1>3, <2>1, <2>2 DEF TypeOK
  <1>5. OriginInv(c)'
    <2>1. OriginInv(c) /\ ~Sending(c)'
      BY <1>2 DEF Sending
    <2>2. UNCHANGED <<typed, cur, prd, answers, pend, pmain>> /\ cend'[c] = "closed"
      BY DEF TypeOK
    <2> QED BY ONLY <1>1, <1>2, <2>1, <2>2 DEF OriginInv, Typed
  <1>6. OrderInv(c)'
    BY <1>1, <1>2 DEF OrderInv, AnswersOrdered, HandledIsNext, RequestsOrdered, SentIsLast,
           AnsweredBefore, Answering, Sending, IsText
  <1>7. ASSUME NEW d \in Client, d # c PROVE OriginInv(d)' /\ OrderInv(d)'
    BY <1>7, UntouchedInv DEF Untouched, TypeOK
  <1>8. UpstreamInv'
    BY UpstreamUntouchedInv DEF UpstreamUntouched, TypeOK
  <1> QED BY <1>4, <1>5, <1>6, <1>7, <1>8

(* The reading thread of client c reads a part. *)
LEMMA ClientReadsInv ==
    ASSUME CoreInv, NEW c \in Client, ClientReads(c)
    PROVE  CoreInv'
  <1> DEFINE s == ans[c]
  <1> USE DEF ClientReads, CoreInv
  <1>1. /\ ans' = [ans EXCEPT ![c] = ans'[c]] /\ ans'[c] = Tail(s)
        /\ cgot' = [cgot EXCEPT ![c] = Head(s)] /\ cgot'[c] = Head(s)
        /\ s \in Seq(Part) /\ s # <<>>
    BY DEF TypeOK
  <1>2. /\ Head(s) \in Part /\ ans'[c] \in Seq(Part)
        /\ Len(s) \in Nat /\ 1 \in 1..Len(s) /\ Head(s) = s[1]
        /\ Len(ans'[c]) \in Nat /\ Len(ans'[c]) = Len(s) - 1
        /\ \A k \in 1..Len(ans'[c]) : k + 1 \in 1..Len(s) /\ ans'[c][k] = s[k + 1]
    BY ONLY <1>1, PartRead
  <1>3. TypeOK'
    <2>1. Len(ans'[c]) <= Capacity
      BY <1>2, RelayAssumption DEF TypeOK
    <2> QED BY <1>1, <1>2, <2>1 DEF TypeOK
  <1>4. OriginInv(c)'
    <2>1. /\ \A k \in 1..Len(ans'[c]) : Typed(c, ans'[c][k].of)
          /\ Typed(c, cgot'[c].of)
      <3>1. \A k \in 1..Len(s) : Typed(c, s[k].of)
        BY DEF OriginInv
      <3> QED BY ONLY <1>1, <1>2, <3>1
    <2>2. OriginInv(c) /\ (Sending(c)' => Sending(c))
      BY DEF Sending
    <2>3. UNCHANGED <<typed, cmain, req, cur, prd, answers, pend, cend, pmain>>
      OBVIOUS
    <2> QED BY ONLY <2>1, <2>2, <2>3 DEF OriginInv, Typed
  <1>5. OrderInv(c)'
    <2>1. AnswersOrdered(c)'
      <3>1. \A j \in 1..Len(ans'[c]) : IsText(ans'[c][j]) =>
               /\ Len(answers[c]) < ans'[c][j].of.n
               /\ IsText(cgot'[c]) => cgot'[c].of.n < ans'[c][j].of.n
               /\ \A i \in 1..(j - 1) :
                     IsText(ans'[c][i]) => ans'[c][i].of.n < ans'[c][j].of.n
        <4> SUFFICES ASSUME NEW j \in 1..Len(ans'[c]), IsText(ans'[c][j])
                     PROVE  /\ Len(answers[c]) < ans'[c][j].of.n
                            /\ IsText(cgot'[c]) => cgot'[c].of.n < ans'[c][j].of.n
                            /\ \A i \in 1..(j - 1) :
                                  IsText(ans'[c][i]) => ans'[c][i].of.n < ans'[c][j].of.n
          OBVIOUS
        <4>1. /\ j + 1 \in 1..Len(s) /\ ans'[c][j] = s[j + 1] /\ 1 \in 1..((j + 1) - 1)
              /\ \A i \in 1..(j - 1) : i + 1 \in 1..((j + 1) - 1) /\ ans'[c][i] = s[i + 1]
          <5>1. j \in 1..Len(ans'[c])
            OBVIOUS
          <5> QED BY ONLY <1>2, <5>1
        <4>2. AnswersOrdered(c) /\ j \in 1..Len(ans'[c]) /\ IsText(ans'[c][j])
          BY DEF OrderInv
        <4> QED BY ONLY <1>1, <1>2, <4>1, <4>2 DEF AnswersOrdered
      <3>2. IsText(cgot'[c]) => Len(answers[c]) < cgot'[c].of.n
        BY <1>1, <1>2 DEF OrderInv, AnswersOrdered
      <3> QED BY <3>1, <3>2 DEF AnswersOrdered, IsText
    <2>2. \A n : AnsweredBefore(c, n) => AnsweredBefore(c, n)'
      BY <1>1, <1>2 DEF AnsweredBefore, IsText
    <2>3. HandledIsNext(c)'
      BY <2>2 DEF OrderInv, HandledIsNext, Answering
    <2>4. RequestsOrdered(c)' /\ SentIsLast(c)'
      BY <2>2 DEF OrderInv, RequestsOrdered, SentIsLast, Sending, IsText
    <2> QED BY <2>1, <2>3, <2>4 DEF OrderInv
  <1>6. ASSUME NEW d \in Client, d # c PROVE OriginInv(d)' /\ OrderInv(d)'
    BY <1>6, UntouchedInv DEF Untouched, TypeOK
  <1>7. UpstreamInv'
    BY UpstreamUntouchedInv DEF UpstreamUntouched, TypeOK
  <1> QED BY <1>3, <1>4, <1>5, <1>6, <1>7

(* The reading thread of client c shows an answer when its text is there. *)
LEMMA ClientShowsInv ==
    ASSUME CoreInv, NEW c \in Client, ClientShows(c)
    PROVE  CoreInv'
  <1> DEFINE p == cgot[c]
  <1> USE DEF ClientShows, CoreInv
  <1>1. /\ cgot' = [cgot EXCEPT ![c] = None] /\ cgot'[c] = None
        /\ answers' = [answers EXCEPT ![c] = answers'[c]]
        /\ answers'[c] = IF IsText(p) THEN Append(answers[c], p.of) ELSE answers[c]
        /\ p \in Part /\ p.of \in Message
    BY DEF TypeOK, IsText, Part
  <1>2. /\ answers[c] \in Seq(Message) /\ answers'[c] \in Seq(Message) /\ Len(answers[c]) \in Nat
        /\ Len(answers'[c]) = IF IsText(p) THEN Len(answers[c]) + 1 ELSE Len(answers[c])
    <2>1. CASE IsText(p)
      BY <1>1, <2>1, PartSent DEF TypeOK
    <2>2. CASE ~IsText(p)
      BY <1>1, <2>2, LenProperties DEF TypeOK
    <2> QED BY <2>1, <2>2
  <1>3. TypeOK'
    <2>1. /\ answers' \in [Client -> Seq(Message)]
          /\ cgot' \in [Client -> Part \cup {None}]
      BY <1>1, <1>2 DEF TypeOK
    <2> QED BY <2>1 DEF TypeOK
  <1>4. /\ \A k \in 1..Len(ans[c]) : ans[c][k].of.n \in Nat
        /\ \A k \in 1..Len(req[c]) : req[c][k].of.n \in Nat
        /\ cur[c] # None => cur[c].n \in Nat
        /\ p.of.n \in 1..Len(typed[c]) /\ Len(typed[c]) \in Nat
    <2>1. Len(typed[c]) \in Nat
      BY LenProperties DEF TypeOK
    <2>2. \A m : Typed(c, m) => m.n \in 1..Len(typed[c]) /\ m.n \in Nat
      BY ONLY <2>1 DEF Typed
    <2> QED BY <1>1, <2>1, <2>2 DEF OriginInv
  <1>5. OriginInv(c)'
    <2>1. Len(answers'[c]) <= Len(typed[c])
      <3>1. /\ IsText(p) => Len(answers[c]) < p.of.n
            /\ Len(answers[c]) <= Len(typed[c])
        BY DEF OriginInv, OrderInv, AnswersOrdered
      <3> QED BY ONLY <1>2, <1>4, <3>1
    <2>2. OriginInv(c) /\ (Sending(c)' => Sending(c))
      BY DEF Sending
    <2>3. UNCHANGED <<typed, cmain, req, ans, cur, prd, pend, cend, pmain>>
      OBVIOUS
    <2> QED BY ONLY <1>1, <2>1, <2>2, <2>3 DEF OriginInv, Typed
  <1>6. OrderInv(c)'
    <2>1. AnswersOrdered(c)'
      BY <1>1, <1>2, <1>4 DEF OrderInv, AnswersOrdered, IsText
    <2>2. ASSUME NEW n \in Nat, AnsweredBefore(c, n) PROVE AnsweredBefore(c, n)'
      <3>1. Len(answers'[c]) < n
        <4>1. /\ IsText(p) => Len(answers[c]) < p.of.n /\ p.of.n < n
              /\ Len(answers[c]) < n
          BY <2>2 DEF OrderInv, AnswersOrdered, AnsweredBefore
        <4> QED BY ONLY <1>2, <1>4, <2>2, <4>1
      <3>2. \A k \in 1..Len(ans[c]) : IsText(ans[c][k]) => ans[c][k].of.n < n
        BY <2>2 DEF AnsweredBefore
      <3> QED BY <1>1, <3>1, <3>2 DEF AnsweredBefore, IsText
    <2>3. HandledIsNext(c)'
      BY <1>4, <2>2 DEF OriginInv, OrderInv, HandledIsNext, Answering
    <2>4. RequestsOrdered(c)' /\ SentIsLast(c)'
      BY <1>4, <2>2 DEF OrderInv, RequestsOrdered, SentIsLast, Sending, IsText
    <2> QED BY <2>1, <2>3, <2>4 DEF OrderInv
  <1>7. ASSUME NEW d \in Client, d # c PROVE OriginInv(d)' /\ OrderInv(d)'
    BY <1>7, UntouchedInv DEF Untouched, TypeOK
  <1>8. UpstreamInv'
    BY UpstreamUntouchedInv DEF UpstreamUntouched, TypeOK
  <1> QED BY <1>3, <1>5, <1>6, <1>7, <1>8

-----------------------------------------------------------------------------
(* The reading thread of the socket reads a part, and may drop it. *)
LEMMA ServerReadsInv ==
    ASSUME CoreInv, NEW c \in Client, ServerReads(c) \/ ServerDrops(c)
    PROVE  CoreInv'
  <1> DEFINE s == req[c]
             p == Head(req[c])
  <1> USE DEF CoreInv
  <1>0. /\ prd[c] \notin Handling /\ cur[c] = None /\ s # <<>> /\ dropped' \subseteq Client
        /\ pend[c] = "open"
        /\ req' = [req EXCEPT ![c] = Tail(s)]
        /\ prd' = [prd EXCEPT ![c] = prd'[c]] /\ cur' = [cur EXCEPT ![c] = cur'[c]]
        /\ \/ prd'[c] \in Reading \cup Building /\ cur'[c] = cur[c]
           \/ p.part = "text" /\ prd'[c] = "got" /\ cur'[c] = p.of
        /\ UNCHANGED <<clientVars, cend, pend, ans, accepted, pmain, process, upVars, visualVars>>
    <2>1. s # <<>> /\ s \in Seq(Part) /\ prd[c] \in {"read"} \cup Building \cup {"deaf"}
      <3>1. s \in Seq(Part)
        BY DEF TypeOK
      <3>2. CASE ServerReads(c)
        BY <3>1, <3>2 DEF ServerReads
      <3>3. CASE ServerDrops(c)
        BY <3>1, <3>3 DEF ServerDrops
      <3> QED BY <3>2, <3>3
    <2>2. p.part \in {"len", "text"}
      <3>1. p \in Part
        BY ONLY <2>1, PartRead
      <3> QED BY ONLY <3>1 DEF Part
    <2>3. cur[c] = None /\ prd \in [Client -> {"backlog", "leaving", "left", "gone"}
                                         \cup Building \cup Reading \cup Handling]
          /\ cur \in [Client -> Message \cup {None}] /\ dropped \subseteq Client
      BY <2>1 DEF TypeOK, OriginInv
    <2>4. CASE ServerReads(c)
      <3>1. CASE p.part = "len"
        BY <2>1, <2>3, <2>4, <3>1 DEF ServerReads
      <3>2. CASE p.part = "text"
        BY <2>1, <2>3, <2>4, <3>2 DEF ServerReads, ReaderGoes
      <3> QED BY <2>2, <3>1, <3>2
    <2>5. CASE ServerDrops(c)
      BY <2>1, <2>2, <2>3, <2>5 DEF ServerDrops
    <2> QED BY <2>4, <2>5
  <1> USE <1>0
  <1>1. /\ req' = [req EXCEPT ![c] = req'[c]] /\ req'[c] = Tail(s)
        /\ s \in Seq(Part) /\ s # <<>>
    BY DEF TypeOK
  <1>2. /\ p \in Part /\ req'[c] \in Seq(Part)
        /\ Len(s) \in Nat /\ 1 \in 1..Len(s) /\ p = s[1]
        /\ Len(req'[c]) \in Nat /\ Len(req'[c]) = Len(s) - 1
        /\ \A k \in 1..Len(req'[c]) : k + 1 \in 1..Len(s) /\ req'[c][k] = s[k + 1]
    BY ONLY <1>1, PartRead
  <1>3. /\ \/ prd'[c] \in Reading \cup Building /\ cur'[c] = cur[c]
           \/ IsText(p) /\ prd'[c] = "got" /\ cur'[c] = p.of
        /\ p.of \in Message /\ p.of # None
    BY <1>2, RelayAssumption DEF TypeOK, IsText, Part
  <1> HIDE DEF p
  <1>4. TypeOK'
    <2>1. Len(req'[c]) <= Capacity /\ req' \in [Client -> Seq(Part)]
      BY <1>1, <1>2, RelayAssumption DEF TypeOK
    <2>2. \A d \in Client : Len(req'[d]) <= Capacity
      BY <1>1, <2>1 DEF TypeOK
    <2>3. /\ cur' \in [Client -> Message \cup {None}]
          /\ prd' \in [Client -> {"backlog", "leaving", "left", "gone"}
                                    \cup Building \cup Reading \cup Handling]
      <3>1. cur'[c] \in Message \cup {None} /\ prd'[c] \in Reading \cup Building \cup Handling
        BY <1>3 DEF TypeOK
      <3> QED BY <1>3, <3>1 DEF TypeOK
    <2> QED BY <2>1, <2>2, <2>3 DEF TypeOK
  <1>5. OriginInv(c)'
    <2>1. \A k \in 1..Len(s) : Typed(c, s[k].of)
      BY DEF OriginInv
    <2>2. \A k \in 1..Len(req'[c]) : Typed(c, req'[c][k].of)
      BY ONLY <1>2, <2>1
    <2>3. /\ cur'[c] # None => Typed(c, cur'[c])
          /\ cur'[c] # None <=> prd'[c] \in Handling
      <3>1. cur[c] = None /\ Typed(c, p.of)
        BY <1>2, <1>3, <2>1 DEF OriginInv
      <3> QED BY ONLY <1>3, <3>1
    <2> QED BY <1>3, <2>2, <2>3 DEF OriginInv, Sending, Typed
  <1>6. OrderInv(c)'
    <2>1. \A n : AnsweredBefore(c, n)' <=> AnsweredBefore(c, n)
      BY DEF AnsweredBefore
    <2>2. AnswersOrdered(c)'
      BY DEF OrderInv, AnswersOrdered
    <2>3. HandledIsNext(c)'
      BY <1>2, <1>3, <2>1 DEF OrderInv, HandledIsNext, RequestsOrdered, Answering
    <2>4. RequestsOrdered(c)'
      <3> SUFFICES ASSUME NEW j \in 1..Len(req'[c]), IsText(req'[c][j])
                   PROVE  /\ AnsweredBefore(c, req[c][j].of.n)'
                          /\ cur'[c] # None => cur'[c].n < req'[c][j].of.n
                          /\ \A i \in 1..(j - 1) :
                                IsText(req'[c][i]) => req'[c][i].of.n < req'[c][j].of.n
        BY DEF RequestsOrdered, IsText
      <3>1. /\ j + 1 \in 1..Len(s) /\ req'[c][j] = s[j + 1] /\ 1 \in 1..((j + 1) - 1)
            /\ \A i \in 1..(j - 1) : i + 1 \in 1..((j + 1) - 1) /\ req'[c][i] = s[i + 1]
        BY <1>2
      <3>2. IsText(s[j + 1]) /\ RequestsOrdered(c)
        BY <3>1 DEF OrderInv, IsText
      <3>3. AnsweredBefore(c, req[c][j].of.n)'
        BY <2>1, <3>1, <3>2 DEF RequestsOrdered
      <3>4. \A i \in 1..(j - 1) :
                IsText(req'[c][i]) => req'[c][i].of.n < req'[c][j].of.n
        BY <3>1, <3>2 DEF RequestsOrdered
      <3>5. cur'[c] # None => cur'[c].n < req'[c][j].of.n
        <4>1. CASE cur'[c] = cur[c]
          BY <4>1
        <4>2. CASE IsText(p) /\ cur'[c] = p.of
          BY <1>2, <3>1, <3>2, <4>2 DEF RequestsOrdered
        <4> QED BY <1>3, <4>1, <4>2
      <3> QED BY ONLY <3>3, <3>4, <3>5
    <2>5. SentIsLast(c)'
      <3> SUFFICES ASSUME Sending(c)' PROVE SentIsLast(c)'
        BY DEF SentIsLast
      <3>1. Sending(c)
        BY DEF Sending
      <3>2. /\ AnsweredBefore(c, Len(typed[c]))
            /\ \A k \in 1..Len(s) : IsText(s[k]) => s[k].of.n < Len(typed[c])
        BY <3>1 DEF OrderInv, SentIsLast
      <3>3. AnsweredBefore(c, Len(typed[c]))'
        BY <2>1, <3>2
      <3>4. \A k \in 1..Len(req'[c]) : IsText(req'[c][k]) => req'[c][k].of.n < Len(typed[c])
        BY ONLY <1>2, <3>2
      <3>5. cur'[c] # None => cur'[c].n < Len(typed[c])
        <4>1. IsText(p) => p.of.n < Len(typed[c])
          BY ONLY <1>2, <3>2
        <4> QED BY <1>3, <4>1
      <3> QED BY <3>3, <3>4, <3>5 DEF SentIsLast, IsText
    <2> QED BY <2>2, <2>3, <2>4, <2>5 DEF OrderInv
  <1>7. ASSUME NEW d \in Client, d # c PROVE OriginInv(d)' /\ OrderInv(d)'
    BY <1>7, UntouchedInv DEF Untouched, TypeOK
  <1>8. UpstreamInv'
    BY UpstreamUntouchedInv DEF UpstreamUntouched, TypeOK
  <1> QED BY <1>4, <1>5, <1>6, <1>7, <1>8

(* A Send of an answer ends: its part is on its way, or lost. *)
LEMMA AnswersInv ==
    ASSUME CoreInv, NEW c \in Client, AnswerLen(c) \/ AnswerText(c)
    PROVE  CoreInv'
  <1> DEFINE p == [of |-> cur[c], part |-> IF prd[c] = "answerLen" THEN "len" ELSE "text"]
  <1> USE DEF AnswerLen, AnswerText, Answers, CoreInv
  <1>1. /\ prd[c] \in {"answerLen", "answerText"} /\ Answering(c)
        /\ cur[c] \in Message /\ cur[c] # None /\ Typed(c, cur[c])
        /\ cur[c].n \in Nat /\ Len(typed[c]) \in Nat
    BY LenProperties DEF TypeOK, OriginInv, Answering, Typed
  <1>2. p \in Part /\ p.of = cur[c] /\ (IsText(p) <=> prd[c] = "answerText")
    BY <1>1, RelayAssumption DEF Part, IsText
  <1>3. /\ prd' = [prd EXCEPT ![c] = prd'[c]]
        /\ prd'[c] = IF prd[c] = "answerLen" THEN "answerText" ELSE "passLen"
        /\ ans' = [ans EXCEPT ![c] = ans'[c]]
        /\ ans'[c] = IF cend[c] = "closed" THEN ans[c] ELSE Append(ans[c], p)
        /\ UNCHANGED cur
    <2>1. CASE AnswerLen(c)
      BY <2>1 DEF TypeOK
    <2>2. CASE AnswerText(c)
      BY <2>2 DEF TypeOK
    <2> QED BY <2>1, <2>2
  <1>4. /\ ans[c] \in Seq(Part) /\ Len(ans[c]) \in Nat /\ ans'[c] \in Seq(Part)
        /\ Len(ans'[c]) <= Capacity
    <2>1. ans[c] \in Seq(Part) /\ Len(ans[c]) \in Nat /\ Len(ans[c]) <= Capacity
      BY LenProperties DEF TypeOK
    <2>2. CASE cend[c] = "closed"
      BY ONLY <1>3, <2>1, <2>2
    <2>3. CASE cend[c] = "open"
      <3>1. Len(ans[c]) < Capacity /\ ans'[c] = Append(ans[c], p)
        BY <1>3, <2>3 DEF Room
      <3> QED BY ONLY <1>2, <2>1, <3>1, PartSent, RelayAssumption
    <2> QED BY <2>2, <2>3 DEF TypeOK, Open
  <1>5. ASSUME NEW k \in 1..Len(ans'[c])
        PROVE  \/ k \in 1..Len(ans[c]) /\ ans'[c][k] = ans[c][k]
               \/ k = Len(ans[c]) + 1 /\ ans'[c][k] = p
    <2>1. CASE cend[c] = "closed"
      BY <1>3, <2>1
    <2>2. CASE cend[c] = "open"
      <3>1. ans'[c] = Append(ans[c], p)
        BY ONLY <1>3, <2>2
      <3>2. k \in 1..Len(ans'[c])
        BY <1>5
      <3> QED BY ONLY <1>2, <1>4, <3>1, <3>2, PartSent
    <2> QED BY <2>1, <2>2 DEF TypeOK, Open
  <1> HIDE DEF p
  <1>6. TypeOK'
    <2>1. ans' \in [Client -> Seq(Part)] /\ \A d \in Client : Len(ans'[d]) <= Capacity
      BY <1>3, <1>4 DEF TypeOK
    <2>2. prd' \in [Client -> {"backlog", "leaving", "left", "gone"}
                                 \cup Building \cup Reading \cup Handling]
      BY <1>3 DEF TypeOK
    <2>3. \A d \in Client : Len(typed'[d]) <= limit'.messages[d] /\ Len(req'[d]) <= Capacity
      BY <1>3 DEF TypeOK
    <2>4. UNCHANGED <<cgot, cur, cmain, cend, pend, mainVars, uend, vend, upVars, visualVars>>
      BY <1>3
    <2> QED BY <1>3, <2>1, <2>2, <2>3, <2>4 DEF TypeOK
  <1>7. OriginInv(c)'
    <2>1. \A k \in 1..Len(ans'[c]) : Typed(c, ans'[c][k].of)
      <3>1. Typed(c, p.of)
        BY <1>1, <1>2
      <3>2. \A k \in 1..Len(ans[c]) : Typed(c, ans[c][k].of)
        BY DEF OriginInv
      <3> QED BY ONLY <1>5, <3>1, <3>2
    <2>2. OriginInv(c) /\ (Sending(c)' => Sending(c))
      BY DEF Sending
    <2>3. UNCHANGED <<typed, cmain, req, cgot, cur, answers, pend, cend, pmain>>
      OBVIOUS
    <2>4. pend[c] = "open" /\ prd'[c] \in Handling /\ cur[c] # None
      BY <1>1, <1>3 DEF OriginInv
    <2> QED BY ONLY <2>1, <2>2, <2>3, <2>4 DEF OriginInv, Typed
  <1>8. OrderInv(c)'
    <2>1. AnsweredBefore(c, cur[c].n)
      BY <1>1 DEF OrderInv, HandledIsNext
    <2>2. ASSUME NEW n, AnsweredBefore(c, n), IsText(p) => cur[c].n < n
          PROVE  AnsweredBefore(c, n)'
      BY <1>2, <1>4, <1>5, <2>2 DEF AnsweredBefore, IsText
    <2>3. AnswersOrdered(c)'
      <3> SUFFICES ASSUME NEW j \in 1..Len(ans'[c]), IsText(ans'[c][j])
                   PROVE  /\ Len(answers[c]) < ans'[c][j].of.n
                          /\ IsText(cgot[c]) => cgot[c].of.n < ans'[c][j].of.n
                          /\ \A i \in 1..(j - 1) :
                                IsText(ans'[c][i]) => ans'[c][i].of.n < ans'[c][j].of.n
        BY DEF OrderInv, AnswersOrdered, IsText
      <3>1. CASE j \in 1..Len(ans[c]) /\ ans'[c][j] = ans[c][j]
        <4>1. \A i \in 1..(j - 1) : i \in 1..Len(ans[c]) /\ ans'[c][i] = ans[c][i]
          BY <1>4, <1>5, <3>1
        <4> QED BY <3>1, <4>1 DEF OrderInv, AnswersOrdered
      <3>2. CASE j = Len(ans[c]) + 1 /\ ans'[c][j] = p
        <4>1. \A i \in 1..(j - 1) : i \in 1..Len(ans[c]) /\ ans'[c][i] = ans[c][i]
          BY <1>4, <1>5, <3>2
        <4> QED BY <1>2, <2>1, <3>2, <4>1 DEF AnsweredBefore
      <3> QED BY <1>5, <3>1, <3>2
    <2>4. HandledIsNext(c)'
      BY <1>2, <1>3, <2>1, <2>2 DEF HandledIsNext, Answering
    <2>5. RequestsOrdered(c)'
      <3> SUFFICES ASSUME NEW j \in 1..Len(req[c]), IsText(req[c][j])
                   PROVE  /\ AnsweredBefore(c, req[c][j].of.n)'
                          /\ cur[c].n < req[c][j].of.n
                          /\ \A i \in 1..(j - 1) :
                                IsText(req[c][i]) => req[c][i].of.n < req[c][j].of.n
        BY <1>3 DEF RequestsOrdered, IsText
      <3> QED BY <1>1, <2>2 DEF OrderInv, RequestsOrdered
    <2>6. SentIsLast(c)'
      <3> SUFFICES ASSUME Sending(c)' PROVE SentIsLast(c)'
        BY DEF SentIsLast
      <3>1. Sending(c)
        BY DEF Sending
      <3> QED BY <1>1, <1>3, <2>2, <3>1 DEF OrderInv, SentIsLast, IsText
    <2> QED BY <2>3, <2>4, <2>5, <2>6 DEF OrderInv
  <1>9. ASSUME NEW d \in Client, d # c PROVE OriginInv(d)' /\ OrderInv(d)'
    BY <1>9, UntouchedInv DEF Untouched, TypeOK
  <1>10. UpstreamInv'
    BY UpstreamUntouchedInv DEF UpstreamUntouched, TypeOK
  <1> QED BY <1>6, <1>7, <1>8, <1>9, <1>10

(* The steps of client c, and of its handler, that move no part. *)
LEMMA QuietInv ==
    ASSUME CoreInv, NEW c \in Client,
           \/ SecondSendBegins(c) \/ ClientDisconnects(c)
           \/ ServerHandles(c) \/ ServerDisconnects(c) \/ ExitDisconnects(c)
    PROVE  CoreInv'
  <1> USE DEF SecondSendBegins, ClientDisconnects, ServerHandles, ServerDisconnects,
              ExitDisconnects, CoreInv
  <1>1. TypeOK'
    <2>1. CASE SecondSendBegins(c)
      BY <2>1 DEF TypeOK
    <2>2. CASE ClientDisconnects(c)
      BY <2>2 DEF TypeOK, Open
    <2>3. CASE ServerHandles(c)
      BY <2>3 DEF TypeOK
    <2>4. CASE ServerDisconnects(c)
      BY <2>4, SMTT(20) DEF TypeOK, Open
    <2>5. CASE ExitDisconnects(c)
      BY <2>5 DEF TypeOK, Open
    <2> QED BY <2>1, <2>2, <2>3, <2>4, <2>5
  <1>2. OriginInv(c)'
    <2>1. CASE SecondSendBegins(c)
      <3>1. OriginInv(c) /\ Sending(c)
        BY <2>1 DEF Sending
      <3>2. UNCHANGED <<typed, cgot, answers, req, ans, cur, prd, pend, cend, pmain>>
        BY <2>1
      <3> QED BY ONLY <3>1, <3>2 DEF OriginInv, Typed
    <2>2. CASE ClientDisconnects(c)
      BY <2>2 DEF OriginInv, Sending, Typed
    <2>3. CASE ServerHandles(c)
      BY <2>3, SMTT(20) DEF TypeOK, OriginInv, Sending, Typed
    <2>4. CASE ServerDisconnects(c)
      BY <2>4, SMTT(20) DEF TypeOK, OriginInv, Sending, Typed
    <2>5. CASE ExitDisconnects(c)
      BY <2>5 DEF TypeOK, OriginInv, Sending, Typed
    <2> QED BY <2>1, <2>2, <2>3, <2>4, <2>5
  <1>3. OrderInv(c)'
    <2>1. \A n : AnsweredBefore(c, n)' <=> AnsweredBefore(c, n)
      BY DEF AnsweredBefore
    <2>2. /\ cur'[c] = cur[c]
          /\ Answering(c)' => Answering(c)
          /\ Sending(c)' => Sending(c)
      BY DEF TypeOK, Answering, Sending
    <2>3. AnswersOrdered(c)' /\ HandledIsNext(c)'
      BY <2>1, <2>2 DEF OrderInv, AnswersOrdered, HandledIsNext
    <2>4. RequestsOrdered(c)' /\ SentIsLast(c)'
      BY <2>1, <2>2 DEF OrderInv, RequestsOrdered, SentIsLast
    <2> QED BY <2>3, <2>4 DEF OrderInv
  <1>4. ASSUME NEW d \in Client, d # c PROVE OriginInv(d)' /\ OrderInv(d)'
    BY <1>4, UntouchedInv DEF Untouched, TypeOK
  <1>5. UpstreamInv'
    BY UpstreamUntouchedInv DEF UpstreamUntouched, TypeOK
  <1> QED BY <1>1, <1>2, <1>3, <1>4, <1>5

-----------------------------------------------------------------------------
(* The first Send of a message upstream. *)
LEMMA PassLenInv ==
    ASSUME CoreInv, NEW c \in Client, PassLen(c)
    PROVE  CoreInv'
  <1> DEFINE p == [of |-> cur[c], part |-> "len"]
  <1> USE DEF PassLen, CoreInv
  <1>1. cur[c] \in Message /\ p \in Part /\ p.of = cur[c] /\ p.part = "len"
    BY DEF TypeOK, OriginInv, Part
  <1>2. prd' = [prd EXCEPT ![c] = "passText"] /\ prd[c] = "passLen" /\ prd'[c] = "passText"
    BY DEF TypeOK
  <1>3. up \in Seq(Part) /\ up' \in Seq(Part) /\ Len(up) \in Nat /\ Len(up') <= Capacity
    BY <1>1, PartSent, RelayAssumption, LenProperties DEF TypeOK, Room, Open
  <1>4. TypeOK'
    BY <1>2, <1>3 DEF TypeOK
  <1>5. OriginInv(c)' /\ OrderInv(c)'
    <2>1. OriginInv(c)'
      BY <1>2 DEF OriginInv, Sending, Typed
    <2>2. OrderInv(c)'
      BY <1>2 DEF OrderInv, AnswersOrdered, HandledIsNext, RequestsOrdered, SentIsLast,
           AnsweredBefore, Answering, Sending, IsText
    <2> QED BY <2>1, <2>2
  <1>6. ASSUME NEW d \in Client, d # c PROVE OriginInv(d)' /\ OrderInv(d)'
    BY <1>6, UntouchedInv DEF Untouched, TypeOK
  <1>7. UpstreamInv'
    <2>1. ~crossed' => ~crossed /\ \A d \in Client : ~Between(d)
      BY DEF TypeOK
    <2>2. \A d \in Client : d # c => (Between(d)' <=> Between(d))
      BY <1>2 DEF TypeOK
    <2>3. ASSUME vend = "open", ~crossed' PROVE FramesInv'
      <3>1. FramesInv /\ \A d \in Client : ~Between(d)
        BY <2>1, <2>3 DEF UpstreamInv
      <3>2. /\ Len(up') = Len(up) + 1 /\ up' # <<>>
            /\ \A k \in 1..Len(up) : up'[k] = up[k]
            /\ up'[Len(up) + 1] = p
        <4>1. up' = Append(up, p)
          BY <2>3
        <4> HIDE DEF p
        <4> QED BY <1>1, <1>3, <4>1, PartSent
      <3> HIDE DEF p
      <3>3. Parts' = Parts /\ Parts \in Nat /\ Len(passed) \in Nat
        BY LenProperties DEF Parts, TypeOK
      <3>4. Parts + Len(up) = 2 * Len(passed)
        BY <3>1, SMTT(20) DEF FramesInv
      <3>5. Nth(p, Parts + Len(up) + 1, passed)
        BY <1>1, <3>3, <3>4 DEF Nth
      <3>6. \A k \in 1..Len(up') : Nth(up'[k], Parts + k, passed)
        <4>1. \A k \in 1..Len(up) : Nth(up[k], Parts + k, passed)
          BY <3>1 DEF FramesInv
        <4> QED BY ONLY <1>3, <3>2, <3>3, <3>5, <4>1
      <3>7. Parts' + Len(up') = 2 * Len(passed) + 1
        BY ONLY <1>3, <3>2, <3>3, <3>4
      <3>8. Between(c)' /\ \A d \in Client : Between(d)' => d = c
        BY <1>2, <2>2, <3>1
      <3>9. cur'[c] = up'[Len(up')].of
        BY <1>1, <3>2
      <3> QED BY <3>1, <3>2, <3>3, <3>6, <3>7, <3>8, <3>9 DEF FramesInv
    <2> QED BY <1>2, <2>1, <2>2, <2>3 DEF UpstreamInv
  <1> QED BY <1>4, <1>5, <1>6, <1>7

(* The second Send of a message upstream. *)
LEMMA PassTextInv ==
    ASSUME CoreInv, NEW c \in Client, PassText(c)
    PROVE  CoreInv'
  <1> DEFINE m == cur[c]
             p == [of |-> cur[c], part |-> "text"]
  <1> USE DEF PassText, CoreInv
  <1>1. m \in Message /\ p \in Part /\ p.of = m /\ p.part = "text"
    BY DEF TypeOK, OriginInv, Part
  <1>2. /\ prd' = [prd EXCEPT ![c] = "read"] /\ prd[c] = "passText" /\ prd'[c] = "read"
        /\ cur' = [cur EXCEPT ![c] = None] /\ cur'[c] = None
    BY DEF TypeOK
  <1>3. up \in Seq(Part) /\ up' \in Seq(Part) /\ Len(up) \in Nat /\ Len(up') <= Capacity
    BY <1>1, PartSent, RelayAssumption, LenProperties DEF TypeOK, Room, Open
  <1>4. /\ passed \in Seq(Message) /\ passed' \in Seq(Message) /\ Len(passed) \in Nat
        /\ Len(passed') = Len(passed) + 1
        /\ \A k \in 1..Len(passed) : passed'[k] = passed[k]
        /\ passed'[Len(passed) + 1] = m
    BY <1>1, PartSent DEF TypeOK
  <1>5. TypeOK'
    BY <1>2, <1>3, <1>4, SMTT(20) DEF TypeOK
  <1>6. OriginInv(c)' /\ OrderInv(c)'
    <2>1. OriginInv(c)'
      BY <1>2 DEF OriginInv, Sending, Typed
    <2>2. OrderInv(c)'
      BY <1>2 DEF OrderInv, AnswersOrdered, HandledIsNext, RequestsOrdered, SentIsLast,
           AnsweredBefore, Answering, Sending, IsText
    <2> QED BY <2>1, <2>2
  <1>7. ASSUME NEW d \in Client, d # c PROVE OriginInv(d)' /\ OrderInv(d)'
    BY <1>7, UntouchedInv DEF Untouched, TypeOK
  <1>8. UpstreamInv'
    <2>1. \A d \in Client : d # c => (Between(d)' <=> Between(d)) /\ cur'[d] = cur[d]
      BY <1>2 DEF TypeOK
    <2>2. ASSUME vend = "open", ~crossed PROVE FramesInv'
      <3>1. FramesInv /\ \A d \in Client : ~Between(d)'
        BY <1>2, <2>1, <2>2 DEF UpstreamInv
      <3>2. /\ Len(up') = Len(up) + 1 /\ up' # <<>>
            /\ \A k \in 1..Len(up) : up'[k] = up[k]
            /\ up'[Len(up) + 1] = p
        <4>1. up' = Append(up, p)
          BY <2>2
        <4> HIDE DEF p
        <4> QED BY <1>1, <1>3, <4>1, PartSent
      <3>3. /\ Parts' = Parts /\ Parts \in Nat /\ Len(shown) \in Nat
            /\ Parts = 2 * Len(shown) + (IF vlen = None THEN 0 ELSE 1)
        BY LenProperties DEF Parts, TypeOK
      <3>4. /\ Parts + Len(up) = 2 * Len(passed) + 1
            /\ m = IF up = <<>> THEN vlen ELSE up[Len(up)].of
        BY <1>2, <3>1 DEF FramesInv
      <3> HIDE DEF p, m
      <3>5. /\ Parts \in Nat /\ Len(up) \in Nat /\ Len(passed) \in Nat
            /\ Len(up') = Len(up) + 1 /\ Len(passed') = Len(passed) + 1
            /\ Parts + Len(up) = 2 * Len(passed) + 1
        BY <1>3, <1>4, <3>2, <3>3, <3>4
      <3>6. ASSUME NEW k \in 1..Len(up) PROVE Nth(up[k], Parts + k, passed')
        <4>1. Nth(up[k], Parts + k, passed)
          BY <3>1 DEF FramesInv
        <4>2. CASE k = Len(up)
          <5>1. (Parts + k) % 2 = 1 /\ (Parts + k + 1) \div 2 = Len(passed) + 1
            BY ONLY <3>5, <4>2
          <5>2. up[k].of = m
            BY <3>4, <4>2
          <5> QED BY <1>4, <3>3, <4>1, <5>1, <5>2 DEF Nth
        <4>3. CASE k < Len(up)
          <5>1. (Parts + k + 1) \div 2 \in 1..Len(passed)
            BY ONLY <3>5, <4>3
          <5> QED BY <1>4, <3>3, <4>1, <5>1 DEF Nth
        <4> QED BY <1>3, <4>2, <4>3
      <3>7. Nth(p, Parts + Len(up) + 1, passed')
        <4>1. (Parts + Len(up) + 1) % 2 = 0 /\ (Parts + Len(up) + 2) \div 2 = Len(passed) + 1
          BY ONLY <3>5
        <4> QED BY ONLY <1>1, <1>4, <3>5, <4>1 DEF Nth
      <3>8. \A k \in 1..Len(up') : Nth(up'[k], Parts + k, passed')
        BY ONLY <3>2, <3>5, <3>6, <3>7, SMTT(20)
      <3>9. Len(shown) <= Len(passed)
        BY <1>3, <1>4, <3>3, <3>4
      <3>10. \A k \in 1..Len(shown) : shown[k] = passed'[k]
        BY <1>4, <3>1, <3>3, <3>9 DEF FramesInv
      <3>11. vlen # None /\ Len(shown) < Len(passed') => vlen = passed'[Len(shown) + 1]
        <4>1. CASE Len(shown) < Len(passed)
          BY <1>4, <3>1, <3>3, <4>1 DEF FramesInv
        <4>2. CASE Len(shown) = Len(passed) /\ vlen # None
          <5>1. Len(up) = 0
            BY <1>3, <1>4, <3>3, <3>4, <4>2
          <5>2. up = <<>>
            BY <1>3, <5>1, EmptySeq
          <5> QED BY <1>4, <3>4, <4>2, <5>2
        <4> QED BY <1>4, <3>3, <3>9, <4>1, <4>2
      <3>12. Parts' + Len(up') = 2 * Len(passed')
        BY ONLY <3>3, <3>5
      <3>13. ~lost' /\ UNCHANGED <<shown, vlen>>
        <4>1. ~lost
          BY <3>1 DEF FramesInv
        <4>2. lost' = lost /\ UNCHANGED <<shown, vlen>>
          OBVIOUS
        <4> QED BY ONLY <4>1, <4>2
      <3>14. \A d \in Client : ~Between(d)'
        BY <3>1
      <3> HIDE DEF PassText
      <3>15. \A k \in 1..Len(up') : Nth(up[k], Parts + k, passed)'
        BY ONLY <3>3, <3>8 DEF Nth
      <3> QED BY ONLY <3>10, <3>11, <3>12, <3>13, <3>14, <3>15 DEF FramesInv
    <2> QED BY <1>2, <2>1, <2>2 DEF UpstreamInv
  <1> QED BY <1>5, <1>6, <1>7, <1>8

(* The visual server reads a part. *)
LEMMA VisualReadsInv ==
    ASSUME CoreInv, VisualReads
    PROVE  CoreInv'
  <1> DEFINE p == Head(up)
  <1> USE DEF VisualReads, CoreInv
  <1>1. /\ p \in Part /\ up' \in Seq(Part) /\ up \in Seq(Part)
        /\ Len(up) \in Nat /\ 1 \in 1..Len(up) /\ p = up[1]
        /\ Len(up') \in Nat /\ Len(up') = Len(up) - 1
        /\ \A k \in 1..Len(up') : k + 1 \in 1..Len(up) /\ up'[k] = up[k + 1]
    BY PartRead DEF TypeOK
  <1>2. p.of \in Message /\ p.of # None /\ p.part \in {"len", "text"}
    BY <1>1, RelayAssumption DEF Part
  <1> HIDE DEF p
  <1>3. /\ vlen' = IF Whole \/ lost' THEN None ELSE p.of
        /\ shown' = IF Whole /\ ~lost THEN Append(shown, p.of) ELSE shown
        /\ lost' = (lost \/ ~(Whole \/ (vlen = None /\ p.part = "len")))
        /\ Whole <=> vlen # None /\ p.part = "text" /\ p.of = vlen
    BY DEF p, Whole
  <1>4. /\ shown \in Seq(Message) /\ Len(shown) \in Nat /\ shown' \in Seq(Message)
        /\ Len(shown') = IF Whole /\ ~lost THEN Len(shown) + 1 ELSE Len(shown)
        /\ \A k \in 1..Len(shown) : shown'[k] = shown[k]
        /\ Whole /\ ~lost => shown'[Len(shown) + 1] = p.of
    <2>1. CASE Whole /\ ~lost
      BY <1>2, <1>3, <2>1, PartSent DEF TypeOK
    <2>2. CASE ~(Whole /\ ~lost)
      BY <1>3, <2>2, LenProperties DEF TypeOK
    <2> QED BY <2>1, <2>2
  <1>5. TypeOK'
    <2>1. lost' \in BOOLEAN
      BY <1>3 DEF TypeOK
    <2>2. vlen' \in Message \cup {None}
      BY ONLY <1>2, <1>3
    <2>3. Len(up') <= Capacity
      BY <1>1, RelayAssumption DEF TypeOK
    <2> QED BY <1>1, <1>4, <2>1, <2>2, <2>3 DEF TypeOK
  <1>6. ASSUME NEW d \in Client PROVE OriginInv(d)' /\ OrderInv(d)'
    BY <1>6, UntouchedInv DEF Untouched
  <1>7. UpstreamInv'
    <2>1. ASSUME ~crossed PROVE FramesInv'
      <3>1. FramesInv
        BY <2>1 DEF UpstreamInv
      <3>2. Parts \in Nat /\ Parts = 2 * Len(shown) + (IF vlen = None THEN 0 ELSE 1)
        BY <1>4 DEF Parts
      <3>3. Len(passed) \in Nat
        BY LenProperties DEF TypeOK
      <3>4. /\ p.part = IF vlen = None THEN "len" ELSE "text"
            /\ Len(shown) < Len(passed) => p.of = passed[Len(shown) + 1]
        <4>1. Nth(p, Parts + 1, passed)
          BY <1>1, <3>1 DEF FramesInv
        <4>2. /\ (Parts + 2) \div 2 = Len(shown) + 1
              /\ (Parts + 1) % 2 = IF vlen = None THEN 1 ELSE 0
          BY ONLY <1>4, <3>2
        <4> QED BY <1>4, <3>2, <3>3, <4>1, <4>2 DEF Nth
      <3>5. vlen # None => Len(shown) < Len(passed)
        BY <1>1, <1>4, <3>1, <3>2, <3>3 DEF FramesInv
      <3>6. Whole <=> vlen # None
        BY <1>3, <3>1, <3>4, <3>5 DEF FramesInv
      <3>7. /\ ~lost' /\ vlen' = IF vlen = None THEN p.of ELSE None
            /\ Parts' = Parts + 1
        <4>1. ~lost /\ (vlen = None => p.part = "len")
          BY <3>1, <3>4 DEF FramesInv
        <4>2. ~lost' /\ vlen' = IF vlen = None THEN p.of ELSE None
          BY ONLY <1>3, <3>6, <4>1
        <4>3. Parts' = 2 * Len(shown') + (IF vlen' = None THEN 0 ELSE 1)
          BY ONLY <1>2 DEF Parts
        <4>4. CASE vlen = None
          <5>1. vlen' # None /\ Len(shown') = Len(shown)
            BY ONLY <1>2, <1>4, <3>6, <4>2, <4>4
          <5> QED BY ONLY <1>4, <3>2, <4>2, <4>3, <4>4, <5>1
        <4>5. CASE vlen # None
          <5>1. vlen' = None /\ Len(shown') = Len(shown) + 1
            BY ONLY <1>4, <3>6, <4>1, <4>2, <4>5
          <5> QED BY ONLY <1>4, <3>2, <4>2, <4>3, <4>5, <5>1
        <4> QED BY ONLY <4>4, <4>5
      <3>9. \A k \in 1..Len(up') : Nth(up'[k], Parts' + k, passed)
        <4>1. ASSUME NEW k \in 1..Len(up') PROVE Nth(up'[k], Parts' + k, passed)
          <5>1. Parts' + k = Parts + (k + 1)
            BY <1>1, <3>2, <3>7
          <5>2. Nth(up[k + 1], Parts + (k + 1), passed)
            BY <1>1, <3>1 DEF FramesInv
          <5> QED BY <1>1, <5>1, <5>2
        <4> QED BY <4>1
      <3>10. \A k \in 1..Len(shown') : shown'[k] = passed[k]
        BY <1>3, <1>4, <3>1, <3>3, <3>4, <3>5, <3>6 DEF FramesInv
      <3>11. vlen' # None /\ Len(shown') < Len(passed) => vlen' = passed[Len(shown') + 1]
        BY <1>3, <1>4, <3>1, <3>4, <3>6, <3>7 DEF FramesInv
      <3>12. /\ Parts' + Len(up') = Parts + Len(up)
             /\ (\E d \in Client : Between(d))' <=> (\E d \in Client : Between(d))
        BY <1>1, <3>2, <3>7
      <3>13. \A d \in Client : Between(d)' =>
                cur'[d] = IF up' = <<>> THEN vlen' ELSE up'[Len(up')].of
        <4> SUFFICES ASSUME NEW d \in Client, Between(d)
                     PROVE  cur[d] = IF up' = <<>> THEN vlen' ELSE up'[Len(up')].of
          OBVIOUS
        <4>1. cur[d] = up[Len(up)].of
          BY <3>1 DEF FramesInv
        <4>2. CASE up' = <<>>
          <5>1. Len(up) = 1
            BY ONLY <1>1, <4>2, NoParts
          <5>2. vlen = None
            <6>1. Parts + Len(up) = 2 * Len(passed) + 1
              <7>1. \E x \in Client : Between(x)
                OBVIOUS
              <7> QED BY ONLY <3>1, <7>1 DEF FramesInv
            <6> QED BY ONLY <1>4, <3>2, <3>3, <5>1, <6>1
          <5> QED BY <1>1, <3>7, <4>1, <4>2, <5>1, <5>2
        <4>3. CASE up' # <<>>
          <5>1. Len(up') \in 1..Len(up')
            BY <1>1, <4>3, EmptySeq
          <5> QED BY <1>1, <4>1, <4>3, <5>1
        <4> QED BY <4>2, <4>3
      <3> QED BY <3>1, <3>7, <3>9, <3>10, <3>11, <3>12, <3>13 DEF FramesInv
    <2> QED BY <2>1 DEF UpstreamInv
  <1> QED BY <1>5, <1>6, <1>7

-----------------------------------------------------------------------------
(* The accepting thread, the work thread and a client that goes into Work  *)
(* touch no message.                                                       *)
LEMMA RegistryInv ==
    ASSUME CoreInv,
           \/ Worker
           \/ \E c \in Client : ServerLeaves(c) \/ Accepts(c) \/ Registers(c) \/ Greets(c)
    PROVE  CoreInv'
  <1> USE DEF CoreInv
  <1>1. /\ prd' \in [Client -> {"backlog", "leaving", "left", "gone"}
                               \cup Building \cup Reading \cup Handling]
        /\ \A d \in Client : prd'[d] = prd[d] \/ {prd[d], prd'[d]} \cap Handling = {}
        /\ accepted' \in Client \cup {None}
        /\ UNCHANGED <<clientVars, cend, pend, req, ans, cur, dropped, pmain, process, upVars,
                       visualVars>>
    <2>1. prd \in [Client -> {"backlog", "leaving", "left", "gone"}
                               \cup Building \cup Reading \cup Handling]
          /\ accepted \in Client \cup {None}
      BY DEF TypeOK
    <2>2. CASE Worker
      BY <2>1, <2>2 DEF Worker
    <2>3. ASSUME NEW c \in Client, ServerLeaves(c) PROVE <1>1!:
      BY <2>1, <2>3 DEF ServerLeaves
    <2>4. ASSUME NEW c \in Client, Accepts(c) PROVE <1>1!:
      BY <2>1, <2>4 DEF Accepts
    <2>5. ASSUME NEW c \in Client, Registers(c) PROVE <1>1!:
      BY <2>1, <2>5 DEF Registers
    <2>6. ASSUME NEW c \in Client, Greets(c) PROVE <1>1!:
      BY <2>1, <2>6 DEF Greets
    <2> QED BY <2>2, <2>3, <2>4, <2>5, <2>6
  <1>2. TypeOK'
    BY <1>1 DEF TypeOK
  <1>3. ASSUME NEW d \in Client PROVE OriginInv(d)' /\ OrderInv(d)'
    BY <1>1, <1>3, UntouchedInv DEF Untouched
  <1>4. UpstreamInv'
    BY <1>1, UpstreamUntouchedInv DEF UpstreamUntouched
  <1> QED BY <1>2, <1>3, <1>4

(* The steps of the process server's main thread, of its upstream socket,  *)
(* of the visual server's end, and those that end the process server.      *)
LEMMA MainInv ==
    ASSUME CoreInv,
           \/ UpstreamDisconnects \/ ExitBegins
           \/ ExitDestroysUpstream \/ ExitLocks \/ ExitUnlocks
           \/ VisualThrows \/ VisualExits
    PROVE  CoreInv'
  <1> USE DEF CoreInv
  <1>0. /\ UNCHANGED <<clientVars, cend, pend, req, ans, prd, cur, dropped, accepted, process,
                       passed, crossed, vlen, shown, lost, limit>>
        /\ exits' = exits \/ (exits < limit.exits /\ exits' = exits + 1)
        /\ pmain' = pmain \/ pmain' \in {"upCut", "upClosed", "upDestroyed", "disconnecting",
                                         "closed"}
        /\ uend' = uend \/ (uend' = "closed" /\ (pmain' = "serving" => vend = "closed"))
        /\ (vend' = vend /\ up' = up) \/ (vend' = "closed" /\ up' = <<>>)
    <2>1. CASE UpstreamDisconnects
      BY <2>1 DEF UpstreamDisconnects
    <2>2. CASE ExitBegins
      BY <2>2 DEF ExitBegins, UserExits
    <2>3. CASE ExitDestroysUpstream
      BY <2>3 DEF ExitDestroysUpstream, MainProceeds
    <2>4. CASE ExitLocks
      BY <2>4 DEF ExitLocks, MainProceeds
    <2>5. CASE ExitUnlocks
      BY <2>5 DEF ExitUnlocks, MainProceeds
    <2>6. CASE VisualThrows
      BY <2>6 DEF VisualThrows, VisualCloses
    <2>7. CASE VisualExits
      BY <2>7 DEF VisualExits, VisualCloses, UserExits
    <2> QED BY <2>1, <2>2, <2>3, <2>4, <2>5, <2>6, <2>7
  <1> USE <1>0
  <1>1. limit' = limit /\ exits' \in 0..limit.exits
    BY RelayAssumption DEF TypeOK
  <1>2. up' \in Seq(Part) /\ Len(up') <= Capacity
    <2>1. <<>> \in Seq(Part) /\ Len(<<>>) <= Capacity
      BY ONLY NoParts, RelayAssumption
    <2>2. up' = up \/ up' = <<>>
      OBVIOUS
    <2> QED BY <2>1, <2>2 DEF TypeOK
  <1>3. TypeOK'
    BY <1>1, <1>2, RelayAssumption DEF TypeOK, Open
  <1>4. ASSUME NEW d \in Client PROVE OriginInv(d)' /\ OrderInv(d)'
    BY <1>4, UntouchedInv DEF Untouched
  <1>5. UpstreamInv'
    <2>1. FramesInv /\ vend' = "open" => FramesInv'
      <3> SUFFICES ASSUME FramesInv, vend' = "open" PROVE FramesInv'
        OBVIOUS
      <3>1. /\ UNCHANGED <<up, passed, shown, vlen, lost, prd, cur>>
        OBVIOUS
      <3> QED BY <3>1 DEF FramesInv, Parts, Nth
    <2> QED BY <2>1 DEF UpstreamInv
  <1> QED BY <1>3, <1>4, <1>5

(* The steps that end the process server change nothing else. *)
LEMMA EndsInv ==
    ASSUME CoreInv, process' \in {"terminated", "killed", "undefined", "aborted", "exited"},
           UNCHANGED <<prd, cur, dropped, accepted, pmain, clientVars, cend, pend, req, ans,
                       upVars, visualVars>>
    PROVE  CoreInv'
  <1> USE DEF CoreInv
  <1>1. TypeOK'
    BY DEF TypeOK
  <1>2. ASSUME NEW d \in Client PROVE OriginInv(d)' /\ OrderInv(d)'
    BY <1>2, UntouchedInv DEF Untouched
  <1>3. UpstreamInv'
    BY UpstreamUntouchedInv DEF UpstreamUntouched
  <1> QED BY <1>1, <1>2, <1>3

(* Every step keeps the invariant. *)
LEMMA StepInv == CoreInv /\ Next => CoreInv'
  <1> SUFFICES ASSUME CoreInv, Next PROVE CoreInv'
    OBVIOUS
  <1>1. ASSUME NEW c \in Client,
               \/ \E text \in limit.text : Types(c, text)
               \/ SecondSendBegins(c) \/ SendEnds(c) \/ ClientEnds(c) \/ ClientReader(c)
        PROVE  CoreInv'
    BY <1>1, TypesInv, QuietInv, SendEndsInv, ClientEndsInv, ClientReadsInv, ClientShowsInv
    DEF ClientReader
  <1>2. ASSUME NEW c \in Client, ServerReader(c) PROVE CoreInv'
    <2>1. CASE \/ ParseThrows(c) \/ AnswerKilled(c) \/ AnswerThrows(c)
               \/ PassKilled(c) \/ PassThrows(c) \/ PassUndefined(c)
      BY <2>1, EndsInv
      DEF ParseThrows, AnswerKilled, AnswerThrows, PassKilled, PassThrows, PassUndefined, Ends
    <2> QED BY <1>2, <2>1, ServerReadsInv, AnswersInv, QuietInv, RegistryInv,
               PassLenInv, PassTextInv
            DEF ServerReader
  <1>3. ASSUME NEW c \in Client,
               \/ GreetingThrows(c) \/ ExitThrows(c)
               \/ ServerReaderAborts(c) \/ AcceptsTooLate(c)
        PROVE  CoreInv'
    BY <1>3, EndsInv DEF GreetingThrows, ExitThrows, ServerReaderAborts, AcceptsTooLate, Ends
  <1>4. CASE UpstreamAborts \/ ExitEnds
    BY <1>4, EndsInv DEF UpstreamAborts, ExitEnds, Ends
  <1>5. CASE Acceptor
    BY <1>3, <1>5, RegistryInv DEF Acceptor
  <1>6. CASE ServerMain
    BY <1>3, <1>4, <1>6, MainInv, QuietInv DEF ServerMain
  <1>7. CASE EndedByChance
    BY <1>3, <1>4, <1>7 DEF EndedByChance
  <1> QED BY <1>1, <1>2, <1>5, <1>6, <1>7, MainInv, RegistryInv, VisualReadsInv
          DEF Next, VisualReader

(* The process server does not end by itself on clients that are polite.   *)
LEMMA EndInv ==
    ASSUME CoreInv, OutlivesPoliteClients, Next
    PROVE  OutlivesPoliteClients'
  <1> SUFFICES ASSUME (\A c \in Client : Polite(c))', vend' = "open", pmain' = "serving",
                      ~Running'
               PROVE  FALSE
    BY DEF OutlivesPoliteClients
  <1> USE DEF CoreInv
  <1>1. process = "running"
    BY DEF Next
  <1>2. ASSUME NEW c \in Client, ParseThrows(c) PROVE FALSE
    <2>1. cur[c] # None /\ cur[c].text = "illegal" /\ Typed(c, cur[c])
      BY <1>2 DEF ParseThrows, OriginInv, TypeOK
    <2>2. \A k \in 1..Len(typed[c]) : typed[c][k].text = "plain"
      BY <1>2 DEF ParseThrows, Ends, Polite
    <2> QED BY <2>1, <2>2 DEF Typed
  <1>3. ASSUME NEW c \in Client, AnswerKilled(c) PROVE FALSE
    <2>1. Len(answers[c]) < cur[c].n /\ cur[c].n \in 1..Len(typed[c])
      BY <1>3 DEF AnswerKilled, OriginInv, OrderInv, HandledIsNext, AnsweredBefore, Answering,
                    Typed
    <2>2. Len(answers[c]) = Len(typed[c])
      BY <1>3 DEF AnswerKilled, Ends, Polite
    <2>3. Len(answers[c]) \in Nat /\ Len(typed[c]) \in Nat
      BY LenProperties DEF TypeOK
    <2> QED BY <2>1, <2>2, <2>3
  <1>4. ASSUME NEW c \in Client, AnswerThrows(c) PROVE FALSE
    BY <1>4 DEF AnswerThrows, Ends, OriginInv
  <1>5. ASSUME NEW c \in Client, PassKilled(c) \/ PassThrows(c) \/ PassUndefined(c)
        PROVE  FALSE
    BY <1>5 DEF PassKilled, PassThrows, PassUndefined, UpstreamDestroyed, Ends, UpstreamInv
  <1>6. ASSUME ServerMain \/ EndedByChance PROVE FALSE
    BY <1>1, <1>6 DEF ServerMain, ExitDestroysUpstream, ExitLocks, ExitDisconnects, ExitThrows,
                      ExitUnlocks, ExitEnds, MainProceeds, EndedByChance, UpstreamAborts,
                      ServerReaderAborts, AcceptsTooLate, Ends
  <1>7. ASSUME NEW c \in Client, ServerReader(c) PROVE FALSE
    BY <1>1, <1>2, <1>3, <1>4, <1>5, <1>7
    DEF ServerReader, ServerReads, ServerDrops, ServerHandles, AnswerLen, AnswerText, Answers,
        PassLen, PassText, ServerDisconnects, ServerLeaves
  <1>8. ASSUME NEW c \in Client, GreetingThrows(c) PROVE FALSE
    <2>1. accepted' = c /\ cend'[c] = "closed"
      BY <1>8 DEF GreetingThrows, Ends, OriginInv
    <2> QED BY <2>1 DEF Polite, Greeted
  <1>9. ASSUME Acceptor \/ Worker PROVE FALSE
    BY <1>1, <1>8, <1>9 DEF Acceptor, Accepts, Registers, Greets, Worker
  <1>10. ASSUME NEW c \in Client,
               \/ \E text \in limit.text : Types(c, text)
               \/ SecondSendBegins(c) \/ SendEnds(c) \/ ClientEnds(c) \/ ClientReader(c)
        PROVE  FALSE
    BY <1>1, <1>10 DEF Types, SecondSendBegins, SendEnds, ClientEnds, ClientReader, ClientReads,
                      ClientShows, ClientDisconnects
  <1> QED BY <1>1, <1>6, <1>7, <1>10, <1>9
          DEF Next, UpstreamDisconnects, ExitBegins, VisualReader, VisualReads,
              VisualThrows, VisualExits, VisualCloses

(* The invariant holds at the start. *)
LEMMA InitInv == Init => IInv
  <1> SUFFICES ASSUME Init PROVE IInv
    OBVIOUS
  <1>1. TypeOK
    <2>1. /\ typed \in [Client -> Seq(Message)] /\ answers \in [Client -> Seq(Message)]
          /\ req \in [Client -> Seq(Part)] /\ ans \in [Client -> Seq(Part)]
      BY NoParts DEF Init
    <2>2. limit \in Limits /\ exits \in 0..limit.exits
      BY RelayAssumption DEF Init
    <2>3. \A c \in Client : /\ Len(typed[c]) <= limit.messages[c]
                            /\ Len(req[c]) <= Capacity /\ Len(ans[c]) <= Capacity
      <3> SUFFICES ASSUME NEW c \in Client
                   PROVE  /\ Len(typed[c]) <= limit.messages[c]
                          /\ Len(req[c]) <= Capacity /\ Len(ans[c]) <= Capacity
        OBVIOUS
      <3>1. /\ limit.messages[c] \in 0..MaxMessages /\ MaxMessages \in Nat
            /\ Capacity \in Nat
        BY <2>2, RelayAssumption
      <3>2. typed[c] = <<>> /\ req[c] = <<>> /\ ans[c] = <<>>
        BY DEF Init
      <3> QED BY <3>1, <3>2, NoParts
    <2>4. /\ cgot \in [Client -> Part \cup {None}] /\ cur \in [Client -> Message \cup {None}]
          /\ cmain \in [Client -> {"typing", "sendingLen", "text", "sendingText", "exited"}]
      BY DEF Init
    <2>5. /\ cend \in [Client -> Open] /\ pend \in [Client -> Open]
          /\ prd \in [Client -> {"backlog", "leaving", "left", "gone"}
                                  \cup Building \cup Reading \cup Handling]
          /\ dropped \subseteq Client /\ accepted \in Client \cup {None}
      BY DEF Init, Open
    <2>6. /\ up \in Seq(Part) /\ Len(up) <= Capacity
          /\ passed \in Seq(Message) /\ shown \in Seq(Message)
      BY NoParts, RelayAssumption DEF Init
    <2>7. /\ pmain = "serving" /\ process = "running" /\ uend \in Open /\ vend \in Open
          /\ vlen = None
      BY DEF Init, Open
    <2>8. crossed \in BOOLEAN /\ lost \in BOOLEAN
      BY DEF Init
    <2> QED BY <2>1, <2>2, <2>3, <2>4, <2>5, <2>6, <2>7, <2>8 DEF TypeOK
  <1>2. UpstreamInv
    <2>1. \A c \in Client : ~Between(c)
      BY DEF Init
    <2>2. /\ ~lost /\ Len(shown) = 0 /\ Len(up) = 0 /\ Len(passed) = 0 /\ vlen = None
      BY NoParts DEF Init
    <2>3. FramesInv
      BY <2>1, <2>2 DEF FramesInv, Parts
    <2> QED BY <2>1, <2>3 DEF UpstreamInv, Init
  <1>3. ASSUME NEW c \in Client PROVE OriginInv(c) /\ OrderInv(c)
    <2>1. /\ cmain[c] \in {"typing", "exited"} /\ prd[c] \in {"backlog", "gone"}
          /\ pend[c] = cend[c] /\ cur[c] = None /\ cgot[c] = None
          /\ Len(typed[c]) = 0 /\ Len(answers[c]) = 0 /\ Len(req[c]) = 0 /\ Len(ans[c]) = 0
      BY <1>3, NoParts DEF Init
    <2> QED BY <2>1 DEF OriginInv, OrderInv, AnswersOrdered, HandledIsNext, RequestsOrdered,
           SentIsLast, AnsweredBefore, Answering, Sending, IsText
  <1>4. OutlivesPoliteClients
    BY DEF Init, OutlivesPoliteClients
  <1> QED BY <1>1, <1>2, <1>3, <1>4 DEF IInv, CoreInv

(* The invariant is inductive. *)
THEOREM Inductive == Spec => []IInv
  <1>1. IInv /\ [Next]_vars => IInv'
    <2>1. IInv /\ Next => IInv'
      BY StepInv, EndInv DEF IInv
    <2>2. IInv /\ UNCHANGED vars => IInv'
      <3> SUFFICES ASSUME IInv, UNCHANGED vars PROVE IInv'
        OBVIOUS
      <3> USE DEF IInv, CoreInv, vars
      <3>1. TypeOK'
        BY DEF TypeOK
      <3>2. ASSUME NEW c \in Client PROVE OriginInv(c)' /\ OrderInv(c)'
        BY <3>2, UntouchedInv DEF Untouched
      <3>3. UpstreamInv'
        BY UpstreamUntouchedInv DEF UpstreamUntouched
      <3>4. OutlivesPoliteClients'
        BY DEF OutlivesPoliteClients, Polite, Greeted
      <3> QED BY <3>1, <3>2, <3>3, <3>4
    <2> QED BY <2>1, <2>2
  <1> QED BY InitInv, <1>1, PTL DEF Spec

-----------------------------------------------------------------------------
(* Every variable keeps its type, and no direction of a connection holds   *)
(* more parts than fit in it.                                              *)
THEOREM TypeCorrect == Spec => []TypeOK
  <1>1. IInv => TypeOK
    BY DEF IInv, CoreInv
  <1> QED BY Inductive, <1>1, PTL

(* The framing of the upstream connection is ruined by nothing but two     *)
(* handlers between their two Sends at a time, whatever the capacity.      *)
THEOREM Framed == Spec => []FramedUnlessCrossed
  <1>1. IInv => FramedUnlessCrossed
    <2> SUFFICES ASSUME CoreInv, vend = "open", ~crossed PROVE FramedUnlessCrossed
      BY DEF IInv, FramedUnlessCrossed
    <2>1. FramesInv
      BY DEF CoreInv, UpstreamInv
    <2>2. Len(shown) \in Nat /\ Len(up) \in Nat /\ Len(passed) \in Nat /\ Parts \in Nat
      BY LenProperties DEF CoreInv, TypeOK, Parts
    <2>3. Len(passed) = (Parts + Len(up)) \div 2
      BY <2>1, <2>2 DEF FramesInv
    <2>4. \A k \in 1..Len(up) : Nth(up[k], Parts + k, passed)
      BY <2>1 DEF FramesInv
    <2> QED BY <2>1, <2>2, <2>3, <2>4 DEF FramesInv, FramedUnlessCrossed, Nth, Parts
  <1> QED BY Inductive, <1>1, PTL

(* Polite clients never end the process server, however many there are and *)
(* however their messages interleave.                                      *)
THEOREM OutlivesPolite == Spec => []OutlivesPoliteClients
  <1>1. IInv => OutlivesPoliteClients
    BY DEF IInv
  <1> QED BY Inductive, <1>1, PTL

(* No step of any program ends a jam, but the end of the process server.   *)
THEOREM JamForEver == Spec => JamIsForEver
  <1>1. IInv /\ [Next]_vars => (\A c \in Client : Jammed(c) => (Jammed(c))' \/ ~Running')
    <2> SUFFICES ASSUME TypeOK, [Next]_vars, NEW c \in Client, Jammed(c), Running'
                 PROVE  (Jammed(c))'
      BY DEF IInv, CoreInv
    <2> USE DEF Jammed, TypeOK
    <2>1. CASE UNCHANGED vars
      BY <2>1 DEF vars
    <2>2. ASSUME NEW d \in Client,
                 \/ \E text \in limit.text : Types(d, text)
                 \/ SecondSendBegins(d) \/ SendEnds(d) \/ ClientEnds(d) \/ ClientReader(d)
          PROVE  (Jammed(c))'
      <3>1. CASE \E text \in limit.text : Types(d, text)
        BY <3>1 DEF Types
      <3>2. CASE SecondSendBegins(d)
        BY <3>2 DEF SecondSendBegins
      <3>3. CASE SendEnds(d)
        BY <3>3 DEF SendEnds
      <3>4. CASE ClientEnds(d)
        BY <3>4 DEF ClientEnds
      <3>5. CASE ClientReader(d)
        BY <3>5 DEF ClientReader, ClientReads, ClientShows, ClientDisconnects
      <3> QED BY <2>2, <3>1, <3>2, <3>3, <3>4, <3>5
    <2>3. ASSUME NEW d \in Client, ServerReader(d) PROVE (Jammed(c))'
      BY <2>3 DEF ServerReader, ServerReads, ServerDrops, ServerHandles, ParseThrows, AnswerLen,
                  AnswerText, Answers, AnswerKilled, AnswerThrows, PassLen, PassText, PassKilled,
                  PassThrows, PassUndefined, ServerDisconnects, ServerLeaves, Ends
    <2>4. CASE UpstreamDisconnects \/ ExitBegins \/ VisualReader \/ VisualExits
      BY <2>4 DEF UpstreamDisconnects, ExitBegins, VisualReader, VisualReads, VisualThrows,
                  VisualExits, VisualCloses
    <2>5. CASE Acceptor \/ Worker
      BY <2>5 DEF Acceptor, Accepts, Registers, Greets, GreetingThrows, Worker, Ends
    <2>6. CASE ServerMain \/ EndedByChance
      BY <2>6 DEF ServerMain, ExitDestroysUpstream, ExitLocks, ExitDisconnects, ExitThrows,
                  ExitUnlocks, ExitEnds, MainProceeds, EndedByChance, UpstreamAborts,
                  ServerReaderAborts, AcceptsTooLate, Ends
    <2> QED BY <2>1, <2>2, <2>3, <2>4, <2>5, <2>6 DEF Next
  <1> QED BY Inductive, <1>1, PTL DEF Spec, JamIsForEver
=============================================================================
