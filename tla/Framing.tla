------------------------------ MODULE Framing ------------------------------
(***************************************************************************)
(* The receive path of one connection: CClientSocket::_ReadThreadFunc      *)
(* reads bytes into ReadBuffer behind the BytesReserved bytes kept from    *)
(* the previous read, OnRead hands them to StandartParser, which cuts      *)
(* frames (a 32-bit length, then the payload) and returns how many bytes   *)
(* are left of an unfinished frame, and memcpy moves these to the front.   *)
(*                                                                         *)
(* The peer's byte stream is kept whole in `stream'; `rd' bytes of it have *)
(* been returned by read().  TCP may return any number of the bytes that   *)
(* are there, so every segmentation of the stream is a behaviour.          *)
(***************************************************************************)
EXTENDS Integers, Sequences

CONSTANTS
    BufferSize,     \* ReadBuffer.size(): 1024 in the programs
    Payload,        \* payloads the peer sends: sequences of bytes
    MaxMessages,    \* bound on the number of messages sent
    CopyOrders,     \* orders in which memcpy may move bytes: "up", "down"
    Junk            \* bytes found in memory in front of the buffer

SizeofUnsigned == 4
TwoTo16 == 65536
TwoTo24 == 16777216
Byte == 0..255
Index == 0..(BufferSize - 1)

ASSUME FramingAssumption ==
    /\ BufferSize \in Nat \ {0}
    /\ \A p \in Payload : p \in Seq(Byte) /\ Len(p) \div TwoTo24 < 256
    /\ MaxMessages \in Nat
    /\ CopyOrders \subseteq {"up", "down"} /\ CopyOrders # {}
    /\ Junk \subseteq Byte /\ Junk # {}

VARIABLES
    sent,       \* messages sent, each with the stream offset of its frame
    stream,     \* every byte the peer has sent on the connection
    rd,         \* number of bytes of the stream that read() has returned
    buffer,     \* ReadBuffer
    reserved,   \* BytesReserved
    bytes,      \* result of the last read()
    i,          \* position of StandartParser in the buffer
    pc,         \* where the reading thread is: "top", "read", "returned", "parse"
    delivered,  \* payloads handed to the message handler, in order
    intact      \* history: no step so far could damage or misplace a frame

peerVars == <<sent, stream>>
vars == <<sent, stream, rd, buffer, reserved, bytes, i, pc, delivered, intact>>

-----------------------------------------------------------------------------
(* The wire format: a little-endian 32-bit length, then the payload. *)

Header(n) == <<n % 256, (n \div 256) % 256,
               (n \div TwoTo16) % 256, (n \div TwoTo24) % 256>>

Frame(p) == Header(Len(p)) \o p

Word(b0, b1, b2, b3) == b0 + 256 * b1 + TwoTo16 * b2 + TwoTo24 * b3

WordAt(k) == Word(buffer[k], buffer[k + 1], buffer[k + 2], buffer[k + 3])

End == reserved + bytes

-----------------------------------------------------------------------------
Init ==
    /\ sent = <<>> /\ stream = <<>> /\ rd = 0
    /\ buffer = [k \in Index |-> 0]
    /\ reserved = 0 /\ bytes = 0 /\ i = 0
    /\ pc = "top"
    /\ delivered = <<>>
    /\ intact = TRUE

(* The peer sends one message: the length and the text, one after the other. *)
SendMessage(p) ==
    /\ Len(sent) < MaxMessages
    /\ sent' = Append(sent, [start |-> Len(stream), payload |-> p])
    /\ stream' = stream \o Frame(p)
    /\ UNCHANGED <<rd, buffer, reserved, bytes, i, pc, delivered, intact>>

(* Under the lock, before the read: a full buffer is emptied, which throws *)
(* the unfinished frame away.                                              *)
MutTopNeverEmpties ==
    /\ pc = "top" /\ pc' = "read"
    /\ UNCHANGED <<peerVars, rd, buffer, reserved, bytes, i, delivered, intact>>

PrepareRead ==
    /\ pc = "top" /\ pc' = "read"
    /\ reserved' = IF BufferSize <= reserved THEN 0 ELSE reserved
    /\ intact' = (intact /\ reserved < BufferSize)
    /\ UNCHANGED <<peerVars, rd, buffer, bytes, i, delivered>>

(* read(): some of the bytes the peer has sent, as many as there is room for. *)
(* It runs without the lock.                                                  *)
Read ==
    /\ pc = "read" /\ pc' = "returned"
    /\ \E n \in 1..(BufferSize - reserved) :
          /\ rd + n <= Len(stream)
          /\ bytes' = n
          /\ rd' = rd + n
          /\ buffer' = [k \in Index |->
                          IF reserved <= k /\ k < reserved + n
                          THEN stream[rd + 1 + k - reserved] ELSE buffer[k]]
    /\ i' = 0
    /\ UNCHANGED <<peerVars, reserved, delivered, intact>>

(* Only now the reading thread has the lock again; it does not look whether *)
(* the socket still is the one it read from, and calls OnRead.              *)
LockAgain ==
    /\ pc = "returned" /\ pc' = "parse"
    /\ UNCHANGED <<peerVars, rd, buffer, reserved, bytes, i, delivered, intact>>

-----------------------------------------------------------------------------
(* A second test that leaves the length of the header out. *)
MutWholeFrameIgnoresHeader(k) ==
    /\ End - k >= SizeofUnsigned
    /\ k + WordAt(k) <= End

(* StandartParser's two tests; its loop condition i < end is in the first. *)
WholeFrameAt(k) ==
    /\ End - k >= SizeofUnsigned
    /\ k + SizeofUnsigned + WordAt(k) <= End

ParseFrame ==
    /\ pc = "parse"
    /\ WholeFrameAt(i)
    /\ delivered' = Append(delivered,
                      [k \in 1..WordAt(i) |-> buffer[i + SizeofUnsigned + k - 1]])
    /\ i' = i + SizeofUnsigned + WordAt(i)
    /\ UNCHANGED <<peerVars, rd, buffer, reserved, bytes, pc, intact>>

(* memcpy(buf, buf + from, r).  Bytes in front of the buffer are whatever  *)
(* lies there.  When the two regions overlap the result depends on the     *)
(* order in which the library copies: going down, byte k is copied from a  *)
(* place that has been overwritten, and ends up with an old byte at r or   *)
(* behind it.                                                              *)
Overlap(from, r) == 0 < from /\ from < r

SourceOf(k, from, r, order) ==
    IF Overlap(from, r) /\ order = "down"
    THEN r + ((k - r) % from)
    ELSE k + from

CarryOver(from, r, order) ==
    { [k \in Index |->
         IF k >= r THEN buffer[k]
         ELSE IF SourceOf(k, from, r, order) < 0 THEN junk[k]
         ELSE buffer[SourceOf(k, from, r, order)]] :
      junk \in [0..(0 - from - 1) -> Junk] }

(* StandartParser returns r, the length of the unfinished frame, and the   *)
(* reading thread moves r bytes to the front, counting back from the end   *)
(* of the bytes of this read, not from the end of the bytes in the buffer. *)
MutReturnFromStart ==
    LET r == End - i IN
    /\ pc = "parse" /\ ~WholeFrameAt(i)
    /\ reserved' = r
    /\ \E order \in CopyOrders : buffer' \in CarryOver(0, r, order)
    /\ pc' = "top" /\ bytes' = 0 /\ i' = 0
    /\ UNCHANGED <<peerVars, rd, delivered, intact>>

ReturnUnparsed ==
    LET r == End - i
        from == bytes - r
    IN
    /\ pc = "parse"
    /\ ~WholeFrameAt(i)
    /\ reserved' = r
    /\ \E order \in CopyOrders :
          /\ buffer' \in CarryOver(from, r, order)
          /\ intact' = (/\ intact
                        /\ r > 0 => /\ reserved = 0
                                    /\ order = "up" \/ ~Overlap(from, r))
    /\ pc' = "top" /\ bytes' = 0 /\ i' = 0
    /\ UNCHANGED <<peerVars, rd, delivered>>

MayReconnect == pc \in {"top", "read", "returned"}

ReadsAgain == IF pc = "returned" THEN pc ELSE "top"

(* Without a look at what the old connection has left in the buffer.       *)
MutReconnect ==
    /\ MayReconnect /\ pc' = ReadsAgain
    /\ sent' = <<>> /\ stream' = <<>> /\ rd' = 0 /\ delivered' = <<>>
    /\ intact' = (intact /\ pc # "returned")
    /\ UNCHANGED <<buffer, reserved, bytes, i>>

(* The connection ends while the reading thread does not hold the lock,    *)
(* and the socket is connected again.  Neither Disconnect() nor Connect()  *)
(* resets BytesReserved: an unfinished frame of the old connection stays   *)
(* in front of the bytes of the new one, which damages them.  And bytes    *)
(* that read() has already returned are handed to OnRead as if the new     *)
(* connection had brought them.                                            *)
Reconnect ==
    /\ MayReconnect /\ pc' = ReadsAgain
    /\ sent' = <<>> /\ stream' = <<>> /\ rd' = 0 /\ delivered' = <<>>
    /\ intact' = (intact /\ reserved = 0 /\ pc # "returned")
    /\ UNCHANGED <<buffer, reserved, bytes, i>>

ReaderStep == PrepareRead \/ Read \/ LockAgain \/ ParseFrame \/ ReturnUnparsed

Next == (\E p \in Payload : SendMessage(p)) \/ Reconnect \/ ReaderStep

Spec == Init /\ [][Next]_vars

(* The reading thread keeps running, and TCP delivers what was sent. *)
FairSpec == Spec /\ WF_vars(ReaderStep)

-----------------------------------------------------------------------------
TypeOK ==
    /\ sent \in Seq([start : Nat, payload : Payload])
    /\ stream \in Seq(Byte)
    /\ rd \in 0..Len(stream)
    /\ buffer \in [Index -> Byte]
    /\ reserved \in 0..BufferSize
    /\ bytes \in 0..(BufferSize - reserved)
    /\ i \in 0..End
    /\ pc \in {"top", "read", "returned", "parse"}
    /\ delivered \in Seq(Seq(Byte))
    /\ intact \in BOOLEAN

(* read() is never called with a length of 0: it would answer 0, which the *)
(* reading thread takes for the end of the connection (ClientSocket.cpp:32).*)
NoEmptyRead == pc = "read" => reserved < BufferSize

(* As long as no read that began with an unfinished frame also ended with  *)
(* one, no overlapping copy went through a memcpy that cannot do it, no    *)
(* frame outgrew the buffer, no connection ended in a frame and none was   *)
(* replaced between read() and the lock behind it, the handler has been    *)
(* given exactly the messages the peer sent on this connection, in the     *)
(* order it sent them.                                                     *)
InOrderDelivery ==
    intact => \A n \in 1..Len(delivered) :
                 n <= Len(sent) /\ delivered[n] = sent[n].payload

(* Every message sent reaches the handler, or the connection ends or loses *)
(* its framing in one of the ways named above: the reading thread never    *)
(* stops short of a complete frame and never waits for room it will not    *)
(* make.                                                                   *)
SentIsDelivered ==
    \A n \in 1..MaxMessages :
        Len(sent) >= n ~> (Len(delivered) >= n \/ Len(sent) < n \/ ~intact)

(* The receive path is a channel of messages, whatever the segments are    *)
(* that TCP delivers and the buffer that frames are cut from: a message    *)
(* sent appears at the handler in one step, in its turn, and a channel     *)
(* that has not broken has lost, repeated or changed none.                 *)
Channel == INSTANCE MessageChannel WITH
    Message <- Payload,
    sent <- [n \in 1..Len(sent) |-> sent[n].payload],
    broken <- ~intact

ImplementsChannel == Channel!Spec

(* ClientSocket.hpp:41: the bytes OnRead reserves "will be copyed from the *)
(* end to beginning of buffer".                                            *)
ReservedBytesAreTheLastOnes ==
    [][pc = "parse" /\ pc' = "top" =>
         \A k \in 0..(reserved' - 1) : buffer'[k] = buffer[End - reserved' + k]]_vars
=============================================================================
