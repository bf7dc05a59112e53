------------------------- MODULE ServerSocketProofs -------------------------
(* The safety properties of ServerSocket, for any connections, any number  *)
(* of calls of Open and any address length accept() may be given.          *)
EXTENDS ServerSocket, SequenceTheorems, TLAPS

(* Who has the mutex follows from where the two threads are. *)
MutexInv ==
    /\ smutex = Owner <=> upc = "opening"
    /\ smutex = Acceptor <=> apc = "onAccept"

(* The destructor stops the accepting thread for good and closes the       *)
(* socket; what OnAccept gets is a connection.                             *)
StopInv ==
    /\ stopAccepting <=> upc \in {"joining", "destroyed"}
    /\ stopAccepting => listener = 0
    /\ apc = "onAccept" => ~stopAccepting /\ accepted \in Client

ListenerInv ==
    /\ listener \in {0, opens}
    /\ upc = "opening" => listener # 0
    /\ aseen # 0 => apc = "inAccept"

(* Until the first Open() has returned the accepting thread stays inside   *)
(* the mutex.  As long as that socket is open the thread accepts from it   *)
(* and nothing makes it return.                                            *)
FirstOpenInv ==
    /\ opens = 0 /\ ~stopAccepting => apc \in {"top", "waiting", "notified"}
    /\ listener = 1 =>
          /\ apc \in {"unlocked", "inAccept", "returned"} => upc # "opening"
          /\ apc = "inAccept" => aseen = 1
          /\ apc = "returned" => accepted # "einval"
          /\ apc # "done"

IInv ==
    /\ TypeOK
    /\ MutexInv
    /\ StopInv
    /\ ListenerInv
    /\ "negative" \notin AddressLength => FirstOpenInv

-----------------------------------------------------------------------------
(* The invariant holds when the program starts. *)
LEMMA InitInv == Init => IInv
  <1> SUFFICES ASSUME Init PROVE IInv
    OBVIOUS
  <1>1. MaxOpens \in Nat
    BY ServerSocketAssumption
  <1>2. TypeOK
    <2>1. listener \in 0..MaxOpens /\ opens \in 0..MaxOpens /\ aseen \in 0..MaxOpens
      BY <1>1 DEF Init
    <2>2. /\ stopAccepting \in BOOLEAN /\ smutex \in {Free, Acceptor, Owner}
          /\ accepted \in Client \cup {"none", "error", "einval"}
          /\ served \subseteq Client
      BY DEF Init
    <2>3. backlog \in Seq(Client)
      BY DEF Init
    <2>4. apc \in AcceptorState /\ upc \in {"idle", "opening", "joining", "destroyed"}
      BY DEF Init, AcceptorState
    <2> QED BY <2>1, <2>2, <2>3, <2>4 DEF TypeOK
  <1>3. MutexInv /\ StopInv
    BY DEF Init, MutexInv, StopInv, Free, Owner, Acceptor
  <1>4. ListenerInv /\ FirstOpenInv
    BY DEF Init, ListenerInv, FirstOpenInv
  <1> QED BY <1>2, <1>3, <1>4 DEF IInv

(* A step of the accepting thread keeps it. *)
LEMMA AcceptorInv ==
    ASSUME IInv, AcceptorStep
    PROVE  IInv'
  <1> USE ServerSocketAssumption
      DEF IInv, TypeOK, MutexInv, StopInv, ListenerInv, FirstOpenInv, AcceptorState,
          Free, Owner, Acceptor, listenVars
  <1>1. CASE AcceptorTop /\ UNCHANGED <<upc, served>>
    BY <1>1 DEF AcceptorTop
  <1>2. CASE AcceptorWakes /\ UNCHANGED <<upc, served>>
    BY <1>2 DEF AcceptorWakes
  <1>3. CASE AcceptorFetchesHandle /\ UNCHANGED <<upc, served>>
    BY <1>3 DEF AcceptorFetchesHandle
  <1>4. CASE AcceptReturns /\ UNCHANGED <<upc, served>>
    <2> USE <1>4 DEF AcceptReturns
    <2>1. CASE Accepts
      <3>1. Head(backlog) \in Client /\ Tail(backlog) \in Seq(Client)
        BY <2>1, HeadTailProperties DEF Accepts
      <3> QED BY <2>1, <3>1 DEF Accepts
    <2>2. CASE FailsToAccept
      BY <2>2 DEF FailsToAccept
    <2> QED BY <2>1, <2>2
  <1>5. CASE AcceptorStops /\ UNCHANGED <<upc, served>>
    BY <1>5 DEF AcceptorStops
  <1>6. CASE AcceptorRetries /\ UNCHANGED <<upc, served>>
    BY <1>6 DEF AcceptorRetries
  <1>7. CASE AcceptorHasClient /\ UNCHANGED <<upc, served>>
    BY <1>7 DEF AcceptorHasClient
  <1>8. CASE AcceptorOnAccept
    BY <1>8 DEF AcceptorOnAccept
  <1> QED BY <1>1, <1>2, <1>3, <1>4, <1>5, <1>6, <1>7, <1>8 DEF AcceptorStep, AcceptorCore

(* So does a step of the thread that owns the socket, and an arrival. *)
LEMMA OwnerInv ==
    ASSUME IInv, OwnerStep \/ \E c \in Client : Arrives(c)
    PROVE  IInv'
  <1> USE ServerSocketAssumption
      DEF IInv, TypeOK, MutexInv, StopInv, ListenerInv, FirstOpenInv, AcceptorState,
          Free, Owner, Acceptor, listenVars, acceptorVars
  <1>1. CASE upc = "idle" /\ upc' = "opening" /\ OpenBegins /\ UNCHANGED served
    BY <1>1 DEF OpenBegins
  <1>2. CASE upc' = "idle" /\ OpenSucceeds /\ UNCHANGED served
    BY <1>2 DEF OpenSucceeds, AcceptorNotified
  <1>3. CASE upc' = "idle" /\ OpenFails /\ UNCHANGED served
    BY <1>3 DEF OpenFails
  <1>4. CASE upc = "idle" /\ Close /\ UNCHANGED <<upc, served>>
    BY <1>4 DEF Close, CloseListener
  <1>5. CASE DestroyBegins
    BY <1>5 DEF DestroyBegins, StopAcceptor, CloseListener, AcceptorNotified
  <1>6. CASE Joins
    BY <1>6 DEF Joins
  <1>7. ASSUME NEW c \in Client, Arrives(c) PROVE IInv'
    <2>1. Append(backlog, c) \in Seq(Client)
      BY AppendProperties
    <2> QED BY <1>7, <2>1 DEF Arrives
  <1> QED BY <1>1, <1>2, <1>3, <1>4, <1>5, <1>6, <1>7 DEF OwnerStep

(* The invariant is inductive. *)
THEOREM Inductive == Spec => []IInv
  <1>1. IInv /\ [Next]_vars => IInv'
    <2>1. IInv /\ Next => IInv'
      BY AcceptorInv, OwnerInv DEF Next
    <2>2. IInv /\ UNCHANGED vars => IInv'
      BY DEF IInv, TypeOK, MutexInv, StopInv, ListenerInv, FirstOpenInv, vars,
             listenVars, acceptorVars
    <2> QED BY <2>1, <2>2
  <1> QED BY InitInv, <1>1, PTL DEF Spec

-----------------------------------------------------------------------------
(* Every variable keeps its type: whatever accept() returns, OnAccept is   *)
(* only ever given connections.                                            *)
THEOREM TypeCorrect == Spec => []TypeOK
  <1>1. IInv => TypeOK
    BY DEF IInv
  <1> QED BY Inductive, <1>1, PTL

(* When the address length given to accept() is usable, the accepting      *)
(* thread does not return as long as the socket of the first Open() is     *)
(* open.  (With a negative one it does: ServerSocketLength.cfg.)         *)
THEOREM AcceptsUntilClosed ==
    ASSUME "negative" \notin AddressLength
    PROVE  Spec => []AcceptsWhileOpen
  <1>1. IInv => AcceptsWhileOpen
    BY DEF IInv, FirstOpenInv, AcceptsWhileOpen
  <1> QED BY Inductive, <1>1, PTL

(* No connection is handed to OnAccept once the destructor has told the    *)
(* accepting thread to stop, even one that accept() had already returned.  *)
THEOREM StopsServing == Spec => NothingServedAfterStop
  <1> DEFINE Served == served' # served => ~stopAccepting
  <1>1. IInv /\ [Next]_vars => [Served]_vars
    <2> SUFFICES ASSUME IInv, Next, served' # served PROVE ~stopAccepting
      OBVIOUS
    <2>1. AcceptorOnAccept
      BY DEF Next, AcceptorStep, OwnerStep, DestroyBegins, Joins, Arrives
    <2> QED BY <2>1 DEF AcceptorOnAccept, IInv, StopInv
  <1>2. Spec => [][Served]_vars
    BY Inductive, <1>1, PTL DEF Spec
  <1> QED BY <1>2 DEF NothingServedAfterStop
=============================================================================
