---------------------------- MODULE ServerSocket ----------------------------
(***************************************************************************)
(* CServerSocket: a listening socket, the thread that accepts connections  *)
(* from it, and the thread that opens, closes and destroys it.  As in      *)
(* ClientSocket, the mutex protects everything except the place where the  *)
(* accepting thread lets go of it, reads Handle and blocks in accept().    *)
(*                                                                         *)
(* A handle is the number of the Open() that made it; 0 is -1.             *)
(***************************************************************************)
EXTENDS Naturals, Sequences

CONSTANTS
    Client,         \* the connections that may arrive
    MaxOpens,       \* bound on the calls of Open
    AddressLength   \* what the uninitialized socklen_t given to accept() holds:
                    \* "valid", or "negative" when taken as a signed number

Free == "free"
Acceptor == "acceptor"
Owner == "main"

ASSUME ServerSocketAssumption ==
    /\ MaxOpens \in Nat
    /\ AddressLength \subseteq {"valid", "negative"}
    /\ {"none", "einval", "error"} \cap Client = {}

VARIABLES
    listener,       \* Handle
    opens,          \* number of Open() calls so far
    stopAccepting,  \* StopAccepting
    smutex,         \* owner of Mutex
    apc,            \* where the accepting thread is
    aseen,          \* the handle it called accept() with
    accepted,       \* what accept() returned: a connection, or an error
    backlog,        \* connections the kernel has established, in order
    upc,            \* where the thread that owns the object is
    served          \* connections that OnAccept was called with

listenVars == <<listener, opens>>
acceptorVars == <<apc, aseen, accepted>>
vars == <<listenVars, acceptorVars, stopAccepting, smutex, backlog, upc, served>>

AcceptorState == {"top", "waiting", "notified", "unlocked", "inAccept",
                  "returned", "onAccept", "done"}

-----------------------------------------------------------------------------
Init ==
    /\ listener = 0 /\ opens = 0
    /\ stopAccepting = FALSE
    /\ smutex = Free
    /\ apc = "top" /\ aseen = 0 /\ accepted = "none"
    /\ backlog = <<>>
    /\ upc = "idle"
    /\ served = {}

(* The head of the loop: return, wait on the condition variable, or let go *)
(* of the mutex to accept.                                                 *)
AcceptorTop ==
    /\ apc = "top" /\ smutex = Free
    /\ apc' = IF stopAccepting THEN "done"
              ELSE IF listener = 0 THEN "waiting" ELSE "unlocked"
    /\ UNCHANGED <<listenVars, aseen, accepted, stopAccepting, smutex, backlog>>

AcceptorWakes ==
    /\ apc = "notified" /\ smutex = Free
    /\ apc' = IF stopAccepting \/ listener # 0 THEN "top" ELSE "waiting"
    /\ UNCHANGED <<listenVars, aseen, accepted, stopAccepting, smutex, backlog>>

AcceptorFetchesHandle ==
    /\ apc = "unlocked" /\ apc' = "inAccept"
    /\ aseen' = listener
    /\ UNCHANGED <<listenVars, accepted, stopAccepting, smutex, backlog>>

(* accept() on a listening socket takes a connection, or fails when the    *)
(* connection was aborted.  With a negative address length it takes the    *)
(* connection, drops it and fails with EINVAL.                             *)
Accepts ==
    /\ aseen # 0 /\ listener # 0 /\ backlog # <<>> /\ upc # "opening"
    /\ backlog' = Tail(backlog)
    /\ \/ accepted' = "error"
       \/ "valid" \in AddressLength /\ accepted' = Head(backlog)
       \/ "negative" \in AddressLength /\ accepted' = "einval"

(* accept() with a handle that is closed: EBADF, or EINVAL if the call was *)
(* already blocked when shutdown() came.  With one that does not listen    *)
(* yet: EINVAL.                                                            *)
FailsToAccept ==
    /\ \/ aseen = 0 /\ accepted' = "error"
       \/ aseen # 0 /\ upc = "opening" /\ accepted' = "einval"
       \/ aseen # 0 /\ aseen # listener /\ accepted' \in {"error", "einval"}
    /\ UNCHANGED backlog

AcceptReturns ==
    /\ apc = "inAccept" /\ apc' = "returned"
    /\ Accepts \/ FailsToAccept
    /\ aseen' = 0
    /\ UNCHANGED <<listenVars, stopAccepting, smutex>>

(* The thread returns whenever accept() fails. *)
MutAcceptorStops ==
    /\ apc = "returned" /\ smutex = Free
    /\ stopAccepting \/ accepted \in {"einval", "error"}
    /\ apc' = "done" /\ accepted' = "none"
    /\ UNCHANGED <<listenVars, aseen, stopAccepting, smutex, backlog>>

(* With the mutex held again. *)
AcceptorStops ==
    /\ apc = "returned" /\ smutex = Free
    /\ stopAccepting \/ accepted = "einval"
    /\ apc' = "done" /\ accepted' = "none"
    /\ UNCHANGED <<listenVars, aseen, stopAccepting, smutex, backlog>>

AcceptorRetries ==
    /\ apc = "returned" /\ smutex = Free
    /\ ~stopAccepting /\ accepted = "error"
    /\ apc' = "top" /\ accepted' = "none"
    /\ UNCHANGED <<listenVars, aseen, stopAccepting, smutex, backlog>>

(* Without `if (StopAccepting) return;' behind accept(). *)
MutHasClientStopping ==
    /\ apc = "returned" /\ smutex = Free
    /\ accepted \in Client
    /\ apc' = "onAccept" /\ smutex' = Acceptor
    /\ UNCHANGED <<listenVars, aseen, accepted, stopAccepting, backlog>>

(* Without `if (sock == -1)'. *)
MutHasClientUnchecked ==
    /\ apc = "returned" /\ smutex = Free
    /\ ~stopAccepting
    /\ apc' = "onAccept" /\ smutex' = Acceptor
    /\ UNCHANGED <<listenVars, aseen, accepted, stopAccepting, backlog>>

AcceptorHasClient ==
    /\ apc = "returned" /\ smutex = Free
    /\ ~stopAccepting /\ accepted \in Client
    /\ apc' = "onAccept" /\ smutex' = Acceptor
    /\ UNCHANGED <<listenVars, aseen, accepted, stopAccepting, backlog>>

(* What the accepting thread does whatever OnAccept does. *)
AcceptorCore ==
    \/ AcceptorTop \/ AcceptorWakes \/ AcceptorFetchesHandle
    \/ AcceptReturns \/ AcceptorStops \/ AcceptorRetries \/ AcceptorHasClient

(* ClientSocketFactory and OnAccept of the base class; nothing keeps the   *)
(* new socket, so it is destroyed at once.                                 *)
AcceptorOnAccept ==
    /\ apc = "onAccept" /\ apc' = "top"
    /\ served' = served \cup {accepted}
    /\ accepted' = "none" /\ smutex' = Free
    /\ UNCHANGED <<listenVars, aseen, stopAccepting, backlog, upc>>

-----------------------------------------------------------------------------
(* The thread that owns the object. *)

(* CV.notify_all() *)
AcceptorNotified == IF apc = "waiting" THEN "notified" ELSE apc

(* Open() holds the mutex from beginning to end, and Handle is set before  *)
(* the socket listens; the accepting thread may see it in its window.      *)
OpenBegins ==
    /\ smutex = Free /\ listener = 0 /\ opens < MaxOpens
    /\ opens' = opens + 1
    /\ listener' = opens'
    /\ smutex' = Owner
    /\ UNCHANGED <<acceptorVars, stopAccepting, backlog>>

(* Without CV.notify_all(). *)
MutOpenSucceeds ==
    /\ upc = "opening" /\ smutex' = Free
    /\ UNCHANGED <<listenVars, acceptorVars, stopAccepting, backlog>>

OpenSucceeds ==
    /\ upc = "opening" /\ smutex' = Free
    /\ apc' = AcceptorNotified
    /\ UNCHANGED <<listenVars, aseen, accepted, stopAccepting, backlog>>

(* bind or listen fails: the handle is closed, the call throws. *)
OpenFails ==
    /\ upc = "opening" /\ smutex' = Free
    /\ listener' = 0
    /\ UNCHANGED <<opens, acceptorVars, stopAccepting, backlog>>

(* _CloseSocket: the kernel drops the connections that were not accepted. *)
CloseListener == listener' = 0 /\ backlog' = <<>> /\ UNCHANGED opens

(* Close() throws, changing nothing, when the socket is not opened. *)
Close ==
    /\ smutex = Free /\ listener # 0
    /\ CloseListener
    /\ UNCHANGED <<acceptorVars, stopAccepting, smutex>>

(* The destructor leaves the socket open: accept() goes on blocking. *)
MutStopAcceptorOpen ==
    /\ smutex = Free
    /\ stopAccepting' = TRUE
    /\ apc' = AcceptorNotified
    /\ UNCHANGED <<listenVars, aseen, accepted, smutex, backlog>>

(* The destructor up to the join. *)
StopAcceptor ==
    /\ smutex = Free
    /\ CloseListener
    /\ stopAccepting' = TRUE
    /\ apc' = AcceptorNotified
    /\ UNCHANGED <<aseen, accepted, smutex>>

DestroyBegins ==
    /\ upc = "idle" /\ upc' = "joining"
    /\ StopAcceptor
    /\ UNCHANGED served

Joins ==
    /\ upc = "joining" /\ apc = "done" /\ smutex = Free
    /\ upc' = "destroyed"
    /\ UNCHANGED <<listenVars, acceptorVars, stopAccepting, smutex, backlog, served>>

-----------------------------------------------------------------------------
(* The kernel completes the handshake of a connection. *)
Arrives(c) ==
    /\ listener # 0 /\ upc # "opening"
    /\ \A k \in 1..Len(backlog) : backlog[k] # c
    /\ c \notin served /\ accepted # c
    /\ backlog' = Append(backlog, c)
    /\ UNCHANGED <<listenVars, acceptorVars, stopAccepting, smutex, upc, served>>

AcceptorStep == (AcceptorCore /\ UNCHANGED <<upc, served>>) \/ AcceptorOnAccept

OwnerStep ==
    \/ upc = "idle" /\ upc' = "opening" /\ OpenBegins /\ UNCHANGED served
    \/ upc' = "idle" /\ (OpenSucceeds \/ OpenFails) /\ UNCHANGED served
    \/ upc = "idle" /\ Close /\ UNCHANGED <<upc, served>>
    \/ DestroyBegins
    \/ Joins

Next == AcceptorStep \/ OwnerStep \/ \E c \in Client : Arrives(c)

Spec == Init /\ [][Next]_vars

(* A thread that can run does; the owner need not call anything, but a     *)
(* destructor it is in goes on.                                            *)
FairSpec == Spec /\ WF_vars(AcceptorStep) /\ WF_vars(Joins)

-----------------------------------------------------------------------------
TypeOK ==
    /\ listener \in 0..MaxOpens /\ opens \in 0..MaxOpens /\ aseen \in 0..MaxOpens
    /\ stopAccepting \in BOOLEAN
    /\ smutex \in {Free, Acceptor, Owner}
    /\ apc \in AcceptorState
    /\ accepted \in Client \cup {"none", "error", "einval"}
    /\ backlog \in Seq(Client)
    /\ upc \in {"idle", "opening", "joining", "destroyed"}
    /\ served \subseteq Client

(* ServerSocket.hpp:4: the object "can accept connections": as long as it  *)
(* is open, its accepting thread has not returned.  (The thread does not   *)
(* outlive the first Close(), so this is about the first Open().)          *)
AcceptsWhileOpen == listener = 1 => apc # "done"

(* No connection is handed to OnAccept once the destructor has told the    *)
(* accepting thread to stop, even one that accept() had already returned   *)
(* while the thread was without the mutex (ServerSocket.cpp:24).           *)
NothingServedAfterStop == [][served' # served => ~stopAccepting]_vars

(* ServerSocket.hpp:4: "produce CClientSocketfor each new connection".  A  *)
(* connection that has arrived does not stay in the backlog of an open     *)
(* socket, unless it was opened again after a Close().                     *)
InBacklog(c) == \E k \in 1..Len(backlog) : backlog[k] = c

ArrivedIsAccepted ==
    \A c \in Client : InBacklog(c) ~> (~InBacklog(c) \/ (opens > 1 /\ apc = "done"))

(* A destructor that has begun ends: whether the accepting thread waits,   *)
(* blocks in accept() or is about to, it is woken and returns.             *)
AcceptorIsJoined == (upc = "joining") ~> (upc = "destroyed")
=============================================================================
