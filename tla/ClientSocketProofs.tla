------------------------- MODULE ClientSocketProofs -------------------------
(* The safety properties of ClientSocket, for any sockets, threads, number *)
(* of connections and segments.                                            *)
EXTENDS ClientSocket, TLAPS

(* A caller is in a step of a call on s that holds the mutex. *)
Doing(t, s, what) == target[t] = s /\ at[t] = what
Connecting(s) == \E t \in Caller : Doing(t, s, "connecting")
Holds(t, s) == target[t] = s /\ at[t] \in {"connecting", "onDisconnect", "sending"}

(* Who has the mutex follows from where the threads are. *)
MutexInv(s) ==
    /\ mutex[s] = Reader <=> rpc[s] \in {"onRead", "onDisconnect"}
    /\ \A t \in Caller : mutex[s] = t <=> Holds(t, s)

(* The reading thread's locals live between the read() and its result. *)
LocalsInv(s) ==
    /\ seen[s] # 0 => rpc[s] = "inRead"
    /\ result[s] # "none" <=> rpc[s] = "returned"

(* There is a peer exactly when a connection is up, and the callback of a  *)
(* disconnection finds the socket closed.                                  *)
HandleInv(s) ==
    /\ handle[s] \in {0, opened[s]} /\ seen[s] <= opened[s]
    /\ peer[s] = "none" <=> handle[s] = 0 \/ Connecting(s)
    /\ Connecting(s) => handle[s] # 0
    /\ handle[s] # 0 => rpc[s] # "onDisconnect"
    /\ handle[s] # 0 => \A t \in Caller : ~Doing(t, s, "onDisconnect")

(* As long as no caller closed the connection in the thread's window, the  *)
(* thread reads from the connection that is up, and what it has read about *)
(* its end is what the peer has done.                                      *)
WindowInv(s) ==
    InWindow(s) /\ ~localClose[s] =>
        /\ handle[s] # 0 /\ ~Connecting(s)
        /\ rpc[s] = "inRead" => seen[s] = handle[s]
        /\ result[s] \in {"eof", "error"} => peer[s] \in {"closed", "reset"}

(* One disconnection is outstanding while a connection is up or its        *)
(* callback runs.                                                          *)
Balanced(s) ==
    balance[s] = 1 <=>
        \/ /\ handle[s] # 0
           /\ \A t \in Caller : ~Doing(t, s, "connecting")
        \/ rpc[s] = "onDisconnect"
        \/ \E t \in Caller : Doing(t, s, "onDisconnect")

SocketInv(s) ==
    MutexInv(s) /\ LocalsInv(s) /\ HandleInv(s) /\ WindowInv(s) /\ Balanced(s)

IInv ==
    /\ TypeOK
    /\ \A s \in Socket : SocketInv(s)
    /\ TerminatesOnlyByLocalClose

-----------------------------------------------------------------------------
(* The invariant holds when the program starts. *)
LEMMA InitInv == Init => IInv
  BY ClientSocketAssumption
  DEF Init, IInv, TypeOK, ReaderState, TerminatesOnlyByLocalClose, SocketInv, MutexInv,
      LocalsInv, HandleInv, WindowInv, Balanced, InWindow, Doing, Connecting,
      Holds, Reader, Free

(* The step leaves a socket, and the calls that hold its mutex, alone. *)
Untouched(x) ==
    /\ handle'[x] = handle[x] /\ peer'[x] = peer[x] /\ opened'[x] = opened[x]
    /\ balance'[x] = balance[x] /\ localClose'[x] = localClose[x]
    /\ rpc'[x] = rpc[x] /\ seen'[x] = seen[x] /\ result'[x] = result[x]
    /\ mutex'[x] = mutex[x]
    /\ \A t \in Caller :
          \/ at'[t] = at[t] /\ target'[t] = target[t]
          \/ ~Holds(t, x) /\ ~Holds(t, x)'

(* What is known of a socket outlives such a step. *)
LEMMA UntouchedInv ==
    ASSUME NEW x \in Socket, SocketInv(x), Untouched(x)
    PROVE  SocketInv(x)'
  BY DEF Untouched, SocketInv, MutexInv, LocalsInv, HandleInv, WindowInv, Balanced,
         InWindow, Doing, Connecting, Holds, Reader, Free

(* The step may touch one socket, of which the invariant still holds. *)
Kept(s) ==
    /\ TypeOK' /\ SocketInv(s)'
    /\ \A x \in Socket : x # s => Untouched(x)

(* A step of the reading thread keeps the invariant of its socket. *)
LEMMA ReaderInv ==
    ASSUME NEW s \in Socket, IInv, ReaderStep(s)
    PROVE  Kept(s)
  <1> USE ClientSocketAssumption
      DEF Kept, IInv, TypeOK, ReaderState, SocketInv, MutexInv, LocalsInv, HandleInv,
          WindowInv, Balanced, InWindow, Doing, Connecting, Holds, Untouched, Reader,
          Free, connVars, historyVars, readerVars, callerVars
  <1>1. CASE ReaderTop(s)
    BY <1>1 DEF ReaderTop
  <1>2. CASE ReaderWakes(s)
    BY <1>2 DEF ReaderWakes
  <1>3. CASE ReaderFetchesHandle(s)
    BY <1>3 DEF ReaderFetchesHandle
  <1>4. CASE ReaderReturns(s)
    BY <1>4 DEF ReaderReturns, ReadOutcome, Stale, Reaches
  <1>5. CASE ReaderGotData(s)
    BY <1>5 DEF ReaderGotData, Forget
  <1>6. CASE ReaderDisconnects(s)
    BY <1>6 DEF ReaderDisconnects, CloseSocket, Forget
  <1>7. CASE ReaderIgnoresEof(s)
    BY <1>7 DEF ReaderIgnoresEof, Forget
  <1>8. CASE ReaderThrows(s)
    BY <1>8 DEF ReaderThrows, socketVars
  <1>9. CASE ReaderOnRead(s)
    BY <1>9 DEF ReaderOnRead, ReaderUnlocks
  <1>10. CASE ReaderOnDisconnect(s)
    BY <1>10 DEF ReaderOnDisconnect, ReaderUnlocks
  <1> QED BY <1>1, <1>2, <1>3, <1>4, <1>5, <1>6, <1>7, <1>8, <1>9, <1>10 DEF ReaderStep, ReaderCore

(* The beginning of a call does. *)
LEMMA CallerBeginsInv ==
    ASSUME NEW s \in Socket, NEW t \in Caller, IInv, CallerBegins(t, s)
    PROVE  Kept(s)
  <1> USE ClientSocketAssumption
      DEF Kept, IInv, TypeOK, ReaderState, SocketInv, MutexInv, LocalsInv, HandleInv,
          WindowInv, Balanced, InWindow, Doing, Connecting, Holds, Untouched, Reader,
          Free, connVars, historyVars, readerVars, callerVars
  <1>1. CASE ConnectBegins(t, s)
    BY <1>1 DEF ConnectBegins
  <1>2. CASE DisconnectBegins(t, s)
    <2> USE <1>2 DEF DisconnectBegins, CloseSocket
    <2>1. localClose'[s] = (localClose[s] \/ InWindow(s)) /\ rpc'[s] = rpc[s]
      OBVIOUS
    <2>2. WindowInv(s)'
      BY <2>1
    <2> QED BY <2>2
  <1>3. CASE SendBegins(t, s)
    BY <1>3 DEF SendBegins
  <1>4. CASE DestroyBegins(t, s)
    <2> USE <1>4 DEF DestroyBegins, StopReader, CloseSocket, Notified
    <2>1. localClose'[s] = (localClose[s] \/ (handle[s] # 0 /\ InWindow(s)))
      OBVIOUS
    <2>2. InWindow(s) => localClose'[s]
      BY <2>1
    <2>3. WindowInv(s)'
      BY <2>2
    <2> QED BY <2>3
  <1> QED BY <1>1, <1>2, <1>3, <1>4 DEF CallerBegins

(* The end of a call does. *)
LEMMA CallerEndsInv ==
    ASSUME NEW s \in Socket, NEW t \in Caller, IInv, CallerEnds(t, s)
    PROVE  Kept(s)
  <1> USE ClientSocketAssumption
      DEF Kept, IInv, TypeOK, ReaderState, SocketInv, MutexInv, LocalsInv, HandleInv,
          WindowInv, Balanced, InWindow, Doing, Connecting, Holds, Untouched, Reader,
          Free, connVars, historyVars, readerVars, callerVars
  <1>1. CASE ConnectSucceeds(t, s)
    BY <1>1 DEF ConnectSucceeds, Notified
  <1>2. CASE ConnectFails(t, s)
    BY <1>2 DEF ConnectFails, CloseSocket
  <1>3. CASE DisconnectEnds(t, s)
    BY <1>3 DEF DisconnectEnds
  <1>4. CASE SendEnds(t, s)
    BY <1>4 DEF SendEnds
  <1>5. CASE SendKilled(t, s)
    BY <1>5 DEF SendKilled, socketVars
  <1>6. CASE Joins(t, s)
    BY <1>6 DEF Joins, socketVars
  <1> QED BY <1>1, <1>2, <1>3, <1>4, <1>5, <1>6 DEF CallerEnds

(* So does a step of the peer. *)
LEMMA PeerInv ==
    ASSUME NEW s \in Socket, IInv, PeerStep(s)
    PROVE  Kept(s)
  <1> USE ClientSocketAssumption
      DEF Kept, IInv, TypeOK, ReaderState, SocketInv, MutexInv, LocalsInv, HandleInv,
          WindowInv, Balanced, InWindow, Doing, Connecting, Holds, Untouched, Reader,
          Free, connVars, historyVars, readerVars, callerVars
  <1>1. CASE PeerSends(s)
    BY <1>1 DEF PeerSends
  <1>2. CASE PeerCloses(s)
    BY <1>2 DEF PeerCloses
  <1>3. CASE PeerResets(s)
    BY <1>3 DEF PeerResets
  <1> QED BY <1>1, <1>2, <1>3 DEF PeerStep

-----------------------------------------------------------------------------
(* Every step keeps the type and what is known of each socket. *)
LEMMA StepInv ==
    ASSUME IInv, Next
    PROVE  TypeOK' /\ \A x \in Socket : SocketInv(x)'
  <1>1. PICK s \in Socket :
          \/ ReaderStep(s) \/ PeerStep(s)
          \/ \E t \in Caller : CallerBegins(t, s) \/ CallerEnds(t, s)
    BY DEF Next
  <1>2. Kept(s)
    BY <1>1, ReaderInv, PeerInv, CallerBeginsInv, CallerEndsInv
  <1>3. ASSUME NEW x \in Socket PROVE SocketInv(x)'
    <2>1. SocketInv(x)
      BY DEF IInv
    <2> QED BY <1>2, <2>1, UntouchedInv DEF Kept
  <1> QED BY <1>2, <1>3 DEF Kept

(* Only a failed read() ends the program by std::terminate. *)
LEMMA OnlyReaderTerminates ==
    ASSUME Next, process' = "terminated"
    PROVE  \E s \in Socket : ReaderThrows(s)
  <1>1. PICK s \in Socket :
          \/ ReaderStep(s) \/ PeerStep(s)
          \/ \E t \in Caller : CallerBegins(t, s) \/ CallerEnds(t, s)
    BY DEF Next
  <1>2. process = "running"
    BY DEF Next, Running
  <1>3. CASE ReaderStep(s)
    BY <1>2, <1>3 DEF ReaderStep, ReaderCore, ReaderTop, ReaderWakes,
       ReaderFetchesHandle, ReaderReturns, ReaderGotData, ReaderDisconnects,
       ReaderIgnoresEof, ReaderThrows, ReaderOnRead, ReaderOnDisconnect
  <1>4. CASE PeerStep(s)
    BY <1>2, <1>4 DEF PeerStep, PeerSends, PeerCloses, PeerResets
  <1>5. ASSUME NEW t \in Caller, CallerBegins(t, s) PROVE FALSE
    BY <1>2, <1>5 DEF CallerBegins, ConnectBegins, DisconnectBegins,
       SendBegins, DestroyBegins
  <1>6. ASSUME NEW t \in Caller, CallerEnds(t, s) PROVE FALSE
    BY <1>2, <1>6 DEF CallerEnds, ConnectSucceeds, ConnectFails,
       DisconnectEnds, SendEnds, SendKilled, Joins
  <1> QED BY <1>1, <1>3, <1>4, <1>5, <1>6

(* It was in its window, and a caller had closed the connection there. *)
LEMMA TerminationInv ==
    ASSUME IInv, Next
    PROVE  TerminatesOnlyByLocalClose'
  <1> SUFFICES ASSUME process' = "terminated"
               PROVE  \E s \in Socket : /\ localClose'[s] /\ InWindow(s)'
                                        /\ result'[s] = "error" /\ handle'[s] = 0
    BY DEF TerminatesOnlyByLocalClose
  <1>1. PICK s \in Socket : ReaderThrows(s)
    BY OnlyReaderTerminates
  <1>2. /\ rpc[s] = "returned" /\ result[s] = "error" /\ handle[s] = 0
        /\ UNCHANGED <<rpc, result, handle, localClose>>
    BY <1>1 DEF ReaderThrows, socketVars, connVars, historyVars, readerVars
  <1>3. localClose[s]
    BY <1>2 DEF IInv, SocketInv, WindowInv, InWindow
  <1> QED BY <1>2, <1>3 DEF InWindow

(* The invariant of the specification is inductive. *)
THEOREM Inductive == Spec => []IInv
  <1>1. IInv /\ [Next]_vars => IInv'
    <2> SUFFICES ASSUME IInv, [Next]_vars PROVE IInv'
      OBVIOUS
    <2>1. CASE Next
      BY <2>1, StepInv, TerminationInv DEF IInv
    <2>2. CASE UNCHANGED vars
      <3> USE <2>2 DEF vars, socketVars, connVars, historyVars, readerVars, callerVars
      <3>1. TypeOK' /\ TerminatesOnlyByLocalClose'
        BY DEF IInv, TypeOK, TerminatesOnlyByLocalClose, InWindow
      <3>2. ASSUME NEW x \in Socket PROVE SocketInv(x)'
        <4>1. Untouched(x)
          BY DEF Untouched
        <4>2. SocketInv(x)
          BY DEF IInv
        <4> QED BY <4>1, <4>2, UntouchedInv
      <3> QED BY <3>1, <3>2 DEF IInv
    <2> QED BY <2>1, <2>2
  <1> QED BY InitInv, <1>1, PTL DEF Spec

-----------------------------------------------------------------------------
(* Every variable keeps its type; in particular OnConnect and OnDisconnect *)
(* calls never get more than one apart (balance).                          *)
THEOREM TypeCorrect == Spec => []TypeOK
  <1>1. IInv => TypeOK
    BY DEF IInv
  <1> QED BY Inductive, <1>1, PTL

(* Each OnConnect is followed by exactly one OnDisconnect, whichever of    *)
(* the threads notices the end of the connection first.                    *)
THEOREM OneDisconnect == Spec => []OneDisconnectPerConnection
  <1>1. IInv => OneDisconnectPerConnection
    BY DEF IInv, SocketInv, Balanced, OneDisconnectPerConnection, Doing
  <1> QED BY Inductive, <1>1, PTL

(* The reading thread ends the program only after a caller has closed the  *)
(* connection in the thread's unlocked window.                             *)
THEOREM TerminatesByLocalClose == Spec => []TerminatesOnlyByLocalClose
  <1>1. IInv => TerminatesOnlyByLocalClose
    BY DEF IInv
  <1> QED BY Inductive, <1>1, PTL

(* The only step from the return of read() to OnDisconnect. *)
LEMMA OnlyReaderDisconnects ==
    ASSUME TypeOK, Next, NEW s \in Socket, rpc[s] = "returned",
           rpc'[s] = "onDisconnect"
    PROVE  ReaderDisconnects(s)
  <1>1. PICK x \in Socket :
          \/ ReaderStep(x) \/ PeerStep(x)
          \/ \E t \in Caller : CallerBegins(t, x) \/ CallerEnds(t, x)
    BY DEF Next
  <1> USE DEF TypeOK
  <1>2. CASE ReaderStep(x)
    BY <1>2 DEF ReaderStep, ReaderCore, ReaderTop, ReaderWakes,
       ReaderFetchesHandle, ReaderReturns, ReaderGotData, ReaderDisconnects,
       ReaderIgnoresEof, ReaderThrows, ReaderOnRead, ReaderOnDisconnect,
       ReaderUnlocks, socketVars, readerVars
  <1>3. CASE PeerStep(x)
    BY <1>3 DEF PeerStep, PeerSends, PeerCloses, PeerResets, readerVars
  <1>4. ASSUME NEW t \in Caller, CallerBegins(t, x) PROVE FALSE
    BY <1>4 DEF CallerBegins, ConnectBegins, DisconnectBegins, SendBegins,
       DestroyBegins, StopReader, Notified, readerVars
  <1>5. ASSUME NEW t \in Caller, CallerEnds(t, x) PROVE FALSE
    BY <1>5 DEF CallerEnds, ConnectSucceeds, ConnectFails, DisconnectEnds,
       SendEnds, SendKilled, Joins, Notified, socketVars, readerVars
  <1> QED BY <1>1, <1>2, <1>3, <1>4, <1>5

(* The reading thread closes a connection only when its peer has left,     *)
(* unless a caller closed one in the thread's unlocked window.             *)
THEOREM ClosesForAReason == Spec => ClosedForAReason
  <1> DEFINE Reason == \A s \in Socket :
               rpc[s] = "returned" /\ rpc'[s] = "onDisconnect"
                  => peer[s] \in {"closed", "reset"} \/ localClose[s]
  <1>1. IInv /\ [Next]_vars => [Reason]_vars
    <2> SUFFICES ASSUME IInv, Next, NEW s \in Socket,
                        rpc[s] = "returned", rpc'[s] = "onDisconnect"
                 PROVE  peer[s] \in {"closed", "reset"} \/ localClose[s]
      OBVIOUS
    <2>1. ReaderDisconnects(s)
      BY OnlyReaderDisconnects DEF IInv
    <2>2. result[s] \in {"eof", "error"} /\ InWindow(s)
      BY <2>1 DEF ReaderDisconnects, InWindow
    <2> QED BY <2>2 DEF IInv, SocketInv, WindowInv
  <1>2. Spec => [][Reason]_vars
    BY Inductive, <1>1, PTL DEF Spec
  <1> QED BY <1>2 DEF ClosedForAReason
=============================================================================
