---------------------------- MODULE ClientSocket ----------------------------
(***************************************************************************)
(* CClientSocket: a TCP connection shared by its own reading thread and by *)
(* the threads that call Connect, Disconnect, Send and the destructor.     *)
(* One recursive mutex protects it, except for the one place where the     *)
(* reading thread lets go of it, reads Handle and blocks in read().        *)
(*                                                                         *)
(* A step is a section of code under the mutex, or a system call that      *)
(* blocks.  OnDisconnect and OnRead, the callbacks a derived class         *)
(* overrides, run under the mutex as steps of their own.  The bytes that   *)
(* are read, and the buffer, are in module Framing.                        *)
(*                                                                         *)
(* A handle is the number of the connection it was opened for; 0 is -1.    *)
(* Descriptor numbers are reused, so a read with the handle of a closed    *)
(* connection may reach the connection that follows it.                    *)
(***************************************************************************)
EXTENDS Naturals

CONSTANTS
    Socket,             \* the CClientSocket objects
    Caller,             \* the threads that use them, reading threads aside
    MaxConnections,     \* bound on the calls of Connect on a socket
    MaxInbox            \* bound on the unread segments of a connection

Reader == "reader"
Free == "free"

ASSUME ClientSocketAssumption ==
    /\ MaxConnections \in Nat /\ MaxInbox \in Nat
    /\ {Reader, Free} \cap Caller = {}

VARIABLES
    handle,         \* Handle
    stopReading,    \* StopReading
    mutex,          \* owner of Mutex
    rpc,            \* where the reading thread is
    seen,           \* the handle the reading thread called read() with
    result,         \* what its last read() returned
    peer,           \* the other end: "none", "open", "closed" or "reset"
    inbox,          \* segments that have arrived and are not read
    opened,         \* number of connections opened so far
    balance,        \* history: OnConnect calls less OnDisconnect calls
    localClose,     \* history: a caller closed a connection being read
    process         \* "running", "terminated" (std::terminate) or "killed"

VARIABLES
    at,             \* what each caller is doing
    target          \* the socket it is doing it to

connVars == <<handle, peer, inbox, opened>>
historyVars == <<balance, localClose>>
readerVars == <<rpc, seen, result>>
callerVars == <<at, target>>
socketVars == <<connVars, historyVars, readerVars, stopReading, mutex>>
vars == <<socketVars, callerVars, process>>

ReaderState == {"none", "top", "waiting", "notified", "unlocked", "inRead",
                "returned", "onRead", "onDisconnect", "done"}

(* The reading thread is outside the mutex, at or around its read(). *)
InWindow(s) == rpc[s] \in {"unlocked", "inRead", "returned"}

Running == process = "running"

-----------------------------------------------------------------------------
Init ==
    /\ handle = [s \in Socket |-> 0]
    /\ peer = [s \in Socket |-> "none"]
    /\ inbox = [s \in Socket |-> 0]
    /\ opened = [s \in Socket |-> 0]
    /\ balance = [s \in Socket |-> 0]
    /\ localClose = [s \in Socket |-> FALSE]
    /\ rpc = [s \in Socket |-> "top"]
    /\ seen = [s \in Socket |-> 0]
    /\ result = [s \in Socket |-> "none"]
    /\ stopReading = [s \in Socket |-> FALSE]
    /\ mutex = [s \in Socket |-> Free]
    /\ process = "running"
    /\ at = [t \in Caller |-> "idle"]
    /\ target \in [Caller -> Socket]

-----------------------------------------------------------------------------
(* The reading thread.  Its local variables, seen and result, go back to   *)
(* their initial values where they are used for the last time.             *)

Forget(s) == result' = [result EXCEPT ![s] = "none"]

(* The head of the loop, one section under the mutex: return, wait on the  *)
(* condition variable, or let go of the mutex to read.                     *)
ReaderTop(s) ==
    /\ rpc[s] = "top" /\ mutex[s] = Free
    /\ rpc' = [rpc EXCEPT ![s] = IF stopReading[s] THEN "done"
                                 ELSE IF handle[s] = 0 THEN "waiting"
                                 ELSE "unlocked"]
    /\ UNCHANGED <<connVars, historyVars, seen, result, stopReading, mutex,
                   callerVars, process>>

(* The predicate of CV.wait, evaluated with the mutex held again. *)
ReaderWakes(s) ==
    /\ rpc[s] = "notified" /\ mutex[s] = Free
    /\ rpc' = [rpc EXCEPT ![s] =
                 IF stopReading[s] \/ handle[s] # 0 THEN "top" ELSE "waiting"]
    /\ UNCHANGED <<connVars, historyVars, seen, result, stopReading, mutex,
                   callerVars, process>>

(* The argument of read() is evaluated without the mutex. *)
ReaderFetchesHandle(s) ==
    /\ rpc[s] = "unlocked"
    /\ seen' = [seen EXCEPT ![s] = handle[s]]
    /\ rpc' = [rpc EXCEPT ![s] = "inRead"]
    /\ UNCHANGED <<connVars, historyVars, result, stopReading, mutex,
                   callerVars, process>>

(* read() with a handle that was closed after it was fetched: 0 if the     *)
(* call was already blocked when shutdown() came, -1 if it had not begun,  *)
(* unless the number now belongs to the next connection.                   *)
Stale(s) == seen[s] # 0 /\ seen[s] # handle[s]
Reaches(s) == seen[s] # 0 /\ handle[s] # 0

ReadOutcome(s, r) ==
    \/ r = "data" /\ Reaches(s) /\ inbox[s] > 0
    \/ r = "eof" /\ (Stale(s) \/ (Reaches(s) /\ peer[s] = "closed" /\ inbox[s] = 0))
    \/ r = "error" /\ (seen[s] = 0 \/ Stale(s) \/ (Reaches(s) /\ peer[s] \in {"none", "reset"}))

ReaderReturns(s) ==
    /\ rpc[s] = "inRead"
    /\ \E r \in {"data", "eof", "error"} :
          /\ ReadOutcome(s, r)
          /\ result' = [result EXCEPT ![s] = r]
          /\ inbox' = IF r = "data" THEN [inbox EXCEPT ![s] = @ - 1] ELSE inbox
    /\ seen' = [seen EXCEPT ![s] = 0]
    /\ rpc' = [rpc EXCEPT ![s] = "returned"]
    /\ UNCHANGED <<handle, peer, opened, historyVars, stopReading, mutex,
                   callerVars, process>>

(* _CloseSocket: the connection is dropped, whatever the peer is doing. *)
CloseSocket(s) ==
    /\ handle' = [handle EXCEPT ![s] = 0]
    /\ peer' = [peer EXCEPT ![s] = "none"]
    /\ inbox' = [inbox EXCEPT ![s] = 0]
    /\ UNCHANGED opened

ReaderGotData(s) ==
    /\ rpc[s] = "returned" /\ mutex[s] = Free /\ result[s] = "data"
    /\ mutex' = [mutex EXCEPT ![s] = Reader]
    /\ rpc' = [rpc EXCEPT ![s] = "onRead"]
    /\ Forget(s)
    /\ UNCHANGED <<connVars, historyVars, seen, stopReading,
                   callerVars, process>>

(* Without the branch for a read() of 0. *)
MutReaderDisconnects(s) ==
    /\ rpc[s] = "returned" /\ mutex[s] = Free /\ result[s] = "error"
    /\ handle[s] # 0
    /\ CloseSocket(s)
    /\ mutex' = [mutex EXCEPT ![s] = Reader]
    /\ rpc' = [rpc EXCEPT ![s] = "onDisconnect"]
    /\ Forget(s)
    /\ UNCHANGED <<historyVars, seen, stopReading, callerVars, process>>

(* Without `if (GetIsConnected())' in the branch of a read() of 0. *)
MutReaderIgnoresEof(s) ==
    /\ rpc[s] = "returned" /\ mutex[s] = Free /\ result[s] = "eof"
    /\ handle[s] = 0
    /\ process' = "terminated"
    /\ UNCHANGED <<socketVars, callerVars>>

(* Disconnect() by the reading thread, up to its callback. *)
ReaderDisconnects(s) ==
    /\ rpc[s] = "returned" /\ mutex[s] = Free /\ result[s] \in {"eof", "error"}
    /\ handle[s] # 0
    /\ CloseSocket(s)
    /\ mutex' = [mutex EXCEPT ![s] = Reader]
    /\ rpc' = [rpc EXCEPT ![s] = "onDisconnect"]
    /\ Forget(s)
    /\ UNCHANGED <<historyVars, seen, stopReading, callerVars, process>>

ReaderIgnoresEof(s) ==
    /\ rpc[s] = "returned" /\ mutex[s] = Free /\ result[s] = "eof"
    /\ handle[s] = 0
    /\ rpc' = [rpc EXCEPT ![s] = "top"]
    /\ Forget(s)
    /\ UNCHANGED <<connVars, historyVars, seen, stopReading, mutex,
                   callerVars, process>>

(* A failed read() calls Disconnect() unconditionally, which throws when   *)
(* the socket is closed; nothing catches it in the thread.                 *)
ReaderThrows(s) ==
    /\ rpc[s] = "returned" /\ mutex[s] = Free /\ result[s] = "error"
    /\ handle[s] = 0
    /\ process' = "terminated"
    /\ UNCHANGED <<socketVars, callerVars>>

(* The end of an iteration: the mutex is released. *)
ReaderUnlocks(s) ==
    /\ mutex' = [mutex EXCEPT ![s] = Free]
    /\ rpc' = [rpc EXCEPT ![s] = "top"]
    /\ UNCHANGED <<connVars, seen, result, stopReading>>

(* The callbacks of the base class and of CClient change no state here. *)
ReaderOnRead(s) ==
    /\ rpc[s] = "onRead"
    /\ ReaderUnlocks(s)
    /\ UNCHANGED <<historyVars, callerVars, process>>

ReaderOnDisconnect(s) ==
    /\ rpc[s] = "onDisconnect"
    /\ ReaderUnlocks(s)
    /\ balance' = [balance EXCEPT ![s] = @ - 1]
    /\ UNCHANGED <<localClose, callerVars, process>>

(* What the reading thread does whatever the class of the socket is. *)
ReaderCore(s) ==
    \/ ReaderTop(s) \/ ReaderWakes(s)
    \/ ReaderFetchesHandle(s) \/ ReaderReturns(s)
    \/ ReaderGotData(s) \/ ReaderDisconnects(s)
    \/ ReaderIgnoresEof(s) \/ ReaderThrows(s)

-----------------------------------------------------------------------------
(* The callers. *)

(* CV.notify_all() *)
Notified(s) ==
    rpc' = [rpc EXCEPT ![s] = IF @ = "waiting" THEN "notified" ELSE @]

(* A Connect() that blocks in connect() without the mutex. *)
MutConnectBegins(t, s) ==
    /\ at[t] = "idle" /\ mutex[s] = Free
    /\ handle[s] = 0 /\ opened[s] < MaxConnections
    /\ opened' = [opened EXCEPT ![s] = @ + 1]
    /\ handle' = [handle EXCEPT ![s] = opened[s] + 1]
    /\ at' = [at EXCEPT ![t] = "connecting"]
    /\ target' = [target EXCEPT ![t] = s]
    /\ UNCHANGED <<peer, inbox, historyVars, readerVars, stopReading, mutex, process>>

(* Without CV.notify_all(). *)
MutConnectSucceeds(t, s) ==
    /\ at[t] = "connecting" /\ target[t] = s
    /\ peer' = [peer EXCEPT ![s] = "open"]
    /\ balance' = [balance EXCEPT ![s] = @ + 1]
    /\ mutex' = [mutex EXCEPT ![s] = Free]
    /\ at' = [at EXCEPT ![t] = "idle"]
    /\ UNCHANGED <<handle, inbox, opened, localClose, readerVars, stopReading,
                   target, process>>

(* Connect() holds the mutex from beginning to end, and Handle is set long *)
(* before the connection is there.                                         *)
ConnectBegins(t, s) ==
    /\ at[t] = "idle" /\ mutex[s] = Free
    /\ handle[s] = 0 /\ opened[s] < MaxConnections
    /\ opened' = [opened EXCEPT ![s] = @ + 1]
    /\ handle' = [handle EXCEPT ![s] = opened[s] + 1]
    /\ mutex' = [mutex EXCEPT ![s] = t]
    /\ at' = [at EXCEPT ![t] = "connecting"]
    /\ target' = [target EXCEPT ![t] = s]
    /\ UNCHANGED <<peer, inbox, historyVars, readerVars, stopReading, process>>

ConnectSucceeds(t, s) ==
    /\ at[t] = "connecting" /\ target[t] = s
    /\ peer' = [peer EXCEPT ![s] = "open"]
    /\ balance' = [balance EXCEPT ![s] = @ + 1]
    /\ Notified(s)
    /\ mutex' = [mutex EXCEPT ![s] = Free]
    /\ at' = [at EXCEPT ![t] = "idle"]
    /\ UNCHANGED <<handle, inbox, opened, localClose, seen, result, stopReading,
                   target, process>>

(* bind, inet_pton or connect fails: the handle is closed, the call throws. *)
ConnectFails(t, s) ==
    /\ at[t] = "connecting" /\ target[t] = s
    /\ CloseSocket(s)
    /\ mutex' = [mutex EXCEPT ![s] = Free]
    /\ at' = [at EXCEPT ![t] = "idle"]
    /\ UNCHANGED <<historyVars, readerVars, stopReading, target, process>>

(* A _CloseSocket() that leaves Handle as it is. *)
MutDisconnectBegins(t, s) ==
    /\ at[t] = "idle" /\ mutex[s] = Free /\ handle[s] # 0
    /\ peer' = [peer EXCEPT ![s] = "closed"]
    /\ mutex' = [mutex EXCEPT ![s] = t]
    /\ at' = [at EXCEPT ![t] = "onDisconnect"]
    /\ target' = [target EXCEPT ![t] = s]
    /\ UNCHANGED <<handle, inbox, opened, historyVars, readerVars, stopReading, process>>

(* Disconnect() up to its callback; it throws, changing nothing, when the  *)
(* socket is not connected.                                                *)
DisconnectBegins(t, s) ==
    /\ at[t] = "idle" /\ mutex[s] = Free /\ handle[s] # 0
    /\ CloseSocket(s)
    /\ localClose' = [localClose EXCEPT ![s] = @ \/ InWindow(s)]
    /\ mutex' = [mutex EXCEPT ![s] = t]
    /\ at' = [at EXCEPT ![t] = "onDisconnect"]
    /\ target' = [target EXCEPT ![t] = s]
    /\ UNCHANGED <<balance, readerVars, stopReading, process>>

DisconnectEnds(t, s) ==
    /\ at[t] = "onDisconnect" /\ target[t] = s
    /\ balance' = [balance EXCEPT ![s] = @ - 1]
    /\ mutex' = [mutex EXCEPT ![s] = Free]
    /\ at' = [at EXCEPT ![t] = "idle"]
    /\ UNCHANGED <<connVars, localClose, readerVars, stopReading, target, process>>

(* Send() keeps the mutex while it blocks in send(). *)
SendBegins(t, s) ==
    /\ at[t] = "idle" /\ mutex[s] = Free /\ handle[s] # 0
    /\ mutex' = [mutex EXCEPT ![s] = t]
    /\ at' = [at EXCEPT ![t] = "sending"]
    /\ target' = [target EXCEPT ![t] = s]
    /\ UNCHANGED <<connVars, historyVars, readerVars, stopReading, process>>

(* The peer answers what arrives after it closed with a reset. *)
SendEnds(t, s) ==
    /\ at[t] = "sending" /\ target[t] = s
    /\ peer' = [peer EXCEPT ![s] = IF @ = "closed" THEN "reset" ELSE @]
    /\ inbox' = [inbox EXCEPT ![s] = IF peer[s] = "closed" THEN 0 ELSE @]
    /\ mutex' = [mutex EXCEPT ![s] = Free]
    /\ at' = [at EXCEPT ![t] = "idle"]
    /\ UNCHANGED <<handle, opened, historyVars, readerVars, stopReading, target, process>>

(* send() without MSG_NOSIGNAL to a connection that was reset. *)
SendKilled(t, s) ==
    /\ at[t] = "sending" /\ target[t] = s /\ peer[s] = "reset"
    /\ process' = "killed"
    /\ UNCHANGED <<socketVars, callerVars>>

(* Without CV.notify_all(). *)
MutStopReader(s) ==
    /\ mutex[s] = Free
    /\ CloseSocket(s)
    /\ stopReading' = [stopReading EXCEPT ![s] = TRUE]
    /\ UNCHANGED <<readerVars, mutex>>

(* The destructor up to the join.  A connected socket is disconnected; by  *)
(* then OnDisconnect is the one of the base class.                         *)
StopReader(s) ==
    /\ mutex[s] = Free
    /\ CloseSocket(s)
    /\ stopReading' = [stopReading EXCEPT ![s] = TRUE]
    /\ Notified(s)
    /\ UNCHANGED <<seen, result, mutex>>

(* Nobody else may be using the object any more. *)
DestroyBegins(t, s) ==
    /\ at[t] = "idle" /\ ~stopReading[s]
    /\ \A u \in Caller : target[u] = s => at[u] = "idle"
    /\ StopReader(s)
    /\ balance' = [balance EXCEPT ![s] = IF handle[s] # 0 THEN @ - 1 ELSE @]
    /\ localClose' = [localClose EXCEPT ![s] = @ \/ (handle[s] # 0 /\ InWindow(s))]
    /\ at' = [at EXCEPT ![t] = "joining"]
    /\ target' = [target EXCEPT ![t] = s]
    /\ UNCHANGED process

Joins(t, s) ==
    /\ at[t] = "joining" /\ target[t] = s /\ rpc[s] = "done"
    /\ at' = [at EXCEPT ![t] = "destroyed"]
    /\ UNCHANGED <<socketVars, target, process>>

CallerBegins(t, s) ==
    /\ ~stopReading[s]
    /\ \/ ConnectBegins(t, s) \/ DisconnectBegins(t, s)
       \/ SendBegins(t, s) \/ DestroyBegins(t, s)

CallerEnds(t, s) ==
    \/ ConnectSucceeds(t, s) \/ ConnectFails(t, s)
    \/ DisconnectEnds(t, s) \/ SendEnds(t, s) \/ SendKilled(t, s)
    \/ Joins(t, s)

-----------------------------------------------------------------------------
(* The other end of the connection. *)

PeerSends(s) ==
    /\ peer[s] = "open" /\ inbox[s] < MaxInbox
    /\ inbox' = [inbox EXCEPT ![s] = @ + 1]
    /\ UNCHANGED <<handle, peer, opened, historyVars, readerVars, stopReading,
                   mutex, callerVars, process>>

PeerCloses(s) ==
    /\ peer[s] = "open"
    /\ peer' = [peer EXCEPT ![s] = "closed"]
    /\ UNCHANGED <<handle, inbox, opened, historyVars, readerVars, stopReading,
                   mutex, callerVars, process>>

PeerResets(s) ==
    /\ peer[s] \in {"open", "closed"}
    /\ peer' = [peer EXCEPT ![s] = "reset"]
    /\ inbox' = [inbox EXCEPT ![s] = 0]
    /\ UNCHANGED <<handle, opened, historyVars, readerVars, stopReading,
                   mutex, callerVars, process>>

PeerStep(s) == PeerSends(s) \/ PeerCloses(s) \/ PeerResets(s)

-----------------------------------------------------------------------------
ReaderStep(s) ==
    Running /\ (ReaderCore(s) \/ ReaderOnRead(s) \/ ReaderOnDisconnect(s))

Next ==
    /\ Running
    /\ \E s \in Socket :
          \/ ReaderStep(s) \/ PeerStep(s)
          \/ \E t \in Caller : CallerBegins(t, s) \/ CallerEnds(t, s)

Spec == Init /\ [][Next]_vars

(* Threads that can run do run.  Strong fairness for the reading thread:   *)
(* the callers take the mutex again and again, but between two calls a     *)
(* caller waits for a person or for the network.  Nothing makes a peer     *)
(* read, so a send() to an open peer may block for ever, and nothing makes *)
(* a caller begin a call.                                                  *)
Fairness ==
    \A s \in Socket :
        /\ SF_vars(ReaderStep(s))
        /\ \A t \in Caller :
              /\ WF_vars(Running /\ CallerEnds(t, s) /\ at[t] # "sending")
              /\ WF_vars(Running /\ peer[s] # "open" /\ SendEnds(t, s))

FairSpec == Spec /\ Fairness

-----------------------------------------------------------------------------
TypeOK ==
    /\ handle \in [Socket -> 0..MaxConnections]
    /\ peer \in [Socket -> {"none", "open", "closed", "reset"}]
    /\ inbox \in [Socket -> 0..MaxInbox]
    /\ opened \in [Socket -> 0..MaxConnections]
    /\ balance \in [Socket -> {0, 1}]
    /\ localClose \in [Socket -> BOOLEAN]
    /\ rpc \in [Socket -> ReaderState]
    /\ seen \in [Socket -> 0..MaxConnections]
    /\ result \in [Socket -> {"none", "data", "eof", "error"}]
    /\ stopReading \in [Socket -> BOOLEAN]
    /\ mutex \in [Socket -> Caller \cup {Reader, Free}]
    /\ process \in {"running", "terminated", "killed"}
    /\ at \in [Caller -> {"idle", "connecting", "onDisconnect", "sending",
                          "joining", "destroyed"}]
    /\ target \in [Caller -> Socket]

(* Each OnConnect is followed by exactly one OnDisconnect, whichever       *)
(* thread notices the end of the connection first: one is outstanding      *)
(* exactly while the connection is up or its callback is running.          *)
OneDisconnectPerConnection ==
    \A s \in Socket :
        balance[s] = 1 <=>
            \/ /\ handle[s] # 0
               /\ \A t \in Caller : ~(target[t] = s /\ at[t] = "connecting")
            \/ rpc[s] = "onDisconnect"
            \/ \E t \in Caller : target[t] = s /\ at[t] = "onDisconnect"

(* The reading thread ends the program only by a read() that failed after  *)
(* a caller closed the connection in the thread's unlocked window: neither *)
(* a peer that leaves nor an end of file ever does (ClientSocket.cpp:27-34). *)
TerminatesOnlyByLocalClose ==
    process = "terminated" =>
        \E s \in Socket : /\ localClose[s] /\ InWindow(s)
                          /\ result[s] = "error" /\ handle[s] = 0

(* The reading thread closes a connection only when the peer of that       *)
(* connection has left, unless a caller closed an earlier connection of    *)
(* the socket while the thread was reading from it.                        *)
ClosedForAReason ==
    [][\A s \in Socket :
          rpc[s] = "returned" /\ rpc'[s] = "onDisconnect"
              => peer[s] \in {"closed", "reset"} \/ localClose[s]]_vars

(* No wakeup is lost: the reading thread gets to read a connection, unless *)
(* a Send() that the peer does not read keeps the mutex from it.           *)
ConnectedIsRead ==
    \A s \in Socket :
        (peer[s] = "open") ~> \/ InWindow(s) \/ peer[s] # "open" \/ ~Running
                              \/ \E t \in Caller : at[t] = "sending"

(* A peer that leaves is noticed: the socket does not stay connected. *)
LeavingIsNoticed ==
    \A s \in Socket :
        (peer[s] \in {"closed", "reset"}) ~> (handle[s] = 0 \/ ~Running)

(* A destructor that has begun ends, unless the program does. *)
ReaderIsJoined ==
    \A t \in Caller : (at[t] = "joining") ~> (at[t] = "destroyed" \/ ~Running)

(* Client/main.cpp:19: "if you want to exit type exit".  main leaves its   *)
(* loop, the destructor runs, and the program ends by itself.              *)
ExitIsNotAnAbort == process # "terminated"
=============================================================================
