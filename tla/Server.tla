------------------------------- MODULE Server -------------------------------
(***************************************************************************)
(* CServer: a CServerSocket that keeps the sockets it accepted.  Four      *)
(* kinds of threads meet here: the accepting thread, which creates clients *)
(* and registers them in Clients; a reading thread per client, whose       *)
(* OnDisconnect puts the client in Work; the work thread, which removes    *)
(* and destroys the clients in Work; and main, which opens the server and  *)
(* at the end runs its destructor.  There is one mutex per client, and the *)
(* server's, which the callbacks take while they hold a client's.          *)
(*                                                                         *)
(* The reading threads are those of ClientSocket and the accepting thread  *)
(* is that of ServerSocket, with the callbacks of this class.  A client is *)
(* made for one connection and never reconnects, so its handle is 1 or 0.  *)
(* Accept callbacks that begin when the members of CServer have been       *)
(* destroyed are not followed: the process is "undefined" from there.      *)
(***************************************************************************)
EXTENDS Naturals, Sequences

CONSTANTS
    Arrivals,       \* the connections that may arrive, in this order
    MaxInbox,       \* bound on the unread segments of a connection
    Improper        \* the clients that may send what the handler cannot parse

Client == { Arrivals[k] : k \in 1..Len(Arrivals) }

ASSUME ServerAssumption ==
    /\ MaxInbox \in Nat
    /\ Arrivals \in Seq(Client)
    /\ {"none", "einval", "error"} \cap Client = {}
    /\ \A j, k \in 1..Len(Arrivals) : Arrivals[j] = Arrivals[k] => j = k
    /\ Improper \subseteq Client

Free == "free"
Acceptor == "acceptor"
Worker == "worker"
Main == "main"
Reader == "reader"

VARIABLES
    handle, stopReading, mutex, rpc, seen, result, peer, inbox, process,
    listener, opens, stopAccepting, smutex, apc, aseen, accepted, backlog

VARIABLES
    derived,    \* the client's virtual functions are those of its own class
    clients,    \* Clients
    work,       \* Work
    stopWork,   \* StopWorkThread
    wpc,        \* where the work thread is
    wi,         \* its place in Work
    mpc,        \* where main is
    mi,         \* its place in Clients
    gone        \* clients whose destructor has returned

clientVars == <<handle, stopReading, mutex, rpc, seen, result, peer, inbox>>
listenVars == <<listener, opens, stopAccepting, aseen, accepted, backlog>>
registryVars == <<clients, work>>
workerVars == <<stopWork, wpc, wi>>
mainVars == <<mpc, mi>>
lifeVars == <<derived, gone>>
vars == <<clientVars, listenVars, smutex, apc, registryVars, workerVars,
          mainVars, lifeVars, process>>

(* The counters and histories of ClientSocket and the state of its callers *)
(* play no part in the actions that are used here.                         *)
C == INSTANCE ClientSocket WITH
        Socket <- Client, Caller <- {Acceptor, Worker, Main}, MaxConnections <- 1,
        opened <- 1, balance <- 0, localClose <- 0, at <- 0, target <- 0

Constructed == { c \in Client : rpc[c] # "none" }

L == INSTANCE ServerSocket WITH
        MaxOpens <- 1, AddressLength <- {"valid"}, upc <- mpc, served <- Constructed

Running == process = "running"

(* The members of CServer, Work and Clients among them, are being or have  *)
(* been destroyed.                                                         *)
MembersGone == mpc \in {"members", "joinReader", "joinAcceptor", "destroyed"}

-----------------------------------------------------------------------------
Init ==
    /\ handle = [c \in Client |-> 0]
    /\ stopReading = [c \in Client |-> FALSE]
    /\ mutex = [c \in Client |-> Free]
    /\ rpc = [c \in Client |-> "none"]
    /\ seen = [c \in Client |-> 0]
    /\ result = [c \in Client |-> "none"]
    /\ peer = [c \in Client |-> "none"]
    /\ inbox = [c \in Client |-> 0]
    /\ process = "running"
    /\ L!Init
    /\ derived = [c \in Client |-> FALSE]
    /\ clients = <<>> /\ work = <<>>
    /\ stopWork = FALSE /\ wpc = "top" /\ wi = 1
    /\ mi = 1
    /\ gone = {}

(* CV.notify_all() on the condition variable of the server.  The accepting *)
(* thread waits on it too, but only Open and the destructor make its       *)
(* predicate true.                                                         *)
WorkerNotified == wpc' = IF wpc = "waiting" THEN "notified" ELSE wpc

-----------------------------------------------------------------------------
(* The reading thread of a client. *)

(* What was read holds no whole message, or messages the handler can       *)
(* parse; or the virtual function still is the OnRead of CClientSocket,    *)
(* which drops everything.                                                 *)
ReaderOnRead(c) ==
    /\ rpc[c] = "onRead"
    /\ C!ReaderUnlocks(c)
    /\ UNCHANGED <<listenVars, smutex, apc, registryVars, workerVars, mainVars,
                   lifeVars, process>>

(* json::parse throws on a content that is not a json, json["text"] on one *)
(* that is not an object with a text, and nobody catches it.               *)
ReaderOnReadThrows(c) ==
    /\ rpc[c] = "onRead" /\ derived[c] /\ c \in Improper
    /\ process' = "terminated"
    /\ UNCHANGED <<clientVars, listenVars, smutex, apc, registryVars, workerVars,
                   mainVars, lifeVars>>

(* As long as the constructor of the derived class has not run, and again  *)
(* once its destructor has, OnDisconnect is the one of CClientSocket.      *)
ReaderOnDisconnectBase(c) ==
    /\ rpc[c] = "onDisconnect" /\ ~derived[c]
    /\ C!ReaderUnlocks(c)
    /\ UNCHANGED <<listenVars, smutex, apc, registryVars, workerVars, mainVars,
                   lifeVars, process>>

(* Without Serv->CV.notify_all(). *)
MutReaderOnDisconnect(c) ==
    /\ rpc[c] = "onDisconnect" /\ derived[c]
    /\ smutex = Free /\ ~MembersGone
    /\ work' = Append(work, c)
    /\ C!ReaderUnlocks(c)
    /\ UNCHANGED <<listenVars, smutex, apc, clients, workerVars, mainVars,
                   lifeVars, process>>

(* Without the lock_guard on Serv->Mutex. *)
MutReaderLeavesUnlocked(c) ==
    /\ rpc[c] = "onDisconnect" /\ derived[c] /\ ~MembersGone
    /\ work' = Append(work, c)
    /\ WorkerNotified
    /\ C!ReaderUnlocks(c)
    /\ UNCHANGED <<listenVars, smutex, apc, clients, stopWork, wi, mainVars,
                   lifeVars, process>>

(* CClientSocketForServer::OnDisconnect, with the client's mutex held. *)
ReaderOnDisconnect(c) ==
    /\ rpc[c] = "onDisconnect" /\ derived[c]
    /\ smutex = Free /\ ~MembersGone
    /\ work' = Append(work, c)
    /\ WorkerNotified
    /\ C!ReaderUnlocks(c)
    /\ UNCHANGED <<listenVars, smutex, apc, clients, stopWork, wi, mainVars,
                   lifeVars, process>>

ReaderUsesDestroyedWork(c) ==
    /\ rpc[c] = "onDisconnect" /\ derived[c]
    /\ smutex = Free /\ MembersGone
    /\ process' = "undefined"
    /\ UNCHANGED <<clientVars, listenVars, smutex, apc, registryVars, workerVars,
                   mainVars, lifeVars>>

ReaderStep(c) ==
    \/ /\ C!ReaderCore(c)
       /\ UNCHANGED <<listenVars, smutex, apc, registryVars, workerVars, mainVars, lifeVars>>
    \/ ReaderOnRead(c) \/ ReaderOnReadThrows(c)
    \/ ReaderOnDisconnectBase(c) \/ ReaderOnDisconnect(c)
    \/ ReaderUsesDestroyedWork(c)

-----------------------------------------------------------------------------
(* The accepting thread, from ClientSocketFactory to the end of OnAccept   *)
(* with the server's mutex held.                                           *)

(* The constructor of CClientSocket starts the reading thread. *)
CreatesClient ==
    /\ apc = "onAccept" /\ ~MembersGone
    /\ apc' = "constructing"
    /\ handle' = [handle EXCEPT ![accepted] = 1]
    /\ rpc' = [rpc EXCEPT ![accepted] = "top"]
    /\ UNCHANGED <<stopReading, mutex, seen, result, peer, inbox, listenVars, smutex,
                   registryVars, workerVars, mainVars, lifeVars, process>>

AcceptsIntoDestroyedServer ==
    /\ apc = "onAccept" /\ MembersGone
    /\ process' = "undefined"
    /\ UNCHANGED <<clientVars, listenVars, smutex, apc, registryVars, workerVars,
                   mainVars, lifeVars>>

(* Then the constructor of the derived class runs, and OnAccept pushes.    *)
RegistersClient ==
    /\ apc = "constructing" /\ apc' = "greeting"
    /\ derived' = [derived EXCEPT ![accepted] = TRUE]
    /\ clients' = Append(clients, accepted)
    /\ UNCHANGED <<clientVars, listenVars, smutex, work, workerVars, mainVars,
                   gone, process>>

(* GetRemoteEndpoint takes the client's mutex; getpeername() fails when    *)
(* the handle is closed or the connection was reset.                       *)
HasRemoteEndpoint(c) == handle[c] # 0 /\ peer[c] # "reset"

(* A GetRemoteEndpoint that returns with the client's mutex locked. *)
MutGreetsClient ==
    /\ apc = "greeting" /\ mutex[accepted] = Free
    /\ HasRemoteEndpoint(accepted)
    /\ mutex' = [mutex EXCEPT ![accepted] = Acceptor]
    /\ apc' = "top" /\ accepted' = "none" /\ smutex' = Free
    /\ UNCHANGED <<handle, stopReading, rpc, seen, result, peer, inbox,
                   listener, opens, stopAccepting, aseen, backlog,
                   registryVars, workerVars, mainVars, lifeVars, process>>

GreetsClient ==
    /\ apc = "greeting" /\ mutex[accepted] = Free
    /\ HasRemoteEndpoint(accepted)
    /\ apc' = "top" /\ accepted' = "none" /\ smutex' = Free
    /\ UNCHANGED <<clientVars, listener, opens, stopAccepting, aseen, backlog,
                   registryVars, workerVars, mainVars, lifeVars, process>>

(* An OnAccept that catches the error and puts the client in Work. *)
MutGreetingThrows ==
    /\ apc = "greeting" /\ mutex[accepted] = Free
    /\ ~HasRemoteEndpoint(accepted)
    /\ work' = Append(work, accepted) /\ WorkerNotified
    /\ apc' = "top" /\ accepted' = "none" /\ smutex' = Free
    /\ UNCHANGED <<clientVars, listener, opens, stopAccepting, aseen, backlog,
                   clients, stopWork, wi, mainVars, lifeVars, process>>

GreetingThrows ==
    /\ apc = "greeting" /\ mutex[accepted] = Free
    /\ ~HasRemoteEndpoint(accepted)
    /\ process' = "terminated"
    /\ UNCHANGED <<clientVars, listenVars, smutex, apc, registryVars, workerVars,
                   mainVars, lifeVars>>

AcceptorStep ==
    \/ /\ L!AcceptorCore
       /\ UNCHANGED <<clientVars, registryVars, workerVars, mainVars, lifeVars, process>>
    \/ CreatesClient \/ AcceptsIntoDestroyedServer
    \/ RegistersClient
    \/ GreetsClient \/ GreetingThrows

-----------------------------------------------------------------------------
(* The work thread. *)

WorkerTop ==
    /\ wpc = "top" /\ smutex = Free
    /\ IF stopWork THEN wpc' = "done" /\ UNCHANGED <<smutex, wi>>
       ELSE IF work = <<>> THEN wpc' = "waiting" /\ UNCHANGED <<smutex, wi>>
       ELSE wpc' = "erasing" /\ smutex' = Worker /\ wi' = 1
    /\ UNCHANGED <<clientVars, listenVars, apc, registryVars, stopWork, mainVars,
                   lifeVars, process>>

WorkerWakes ==
    /\ wpc = "notified" /\ smutex = Free
    /\ wpc' = IF stopWork \/ work # <<>> THEN "top" ELSE "waiting"
    /\ UNCHANGED <<clientVars, listenVars, smutex, apc, registryVars, stopWork, wi,
                   mainVars, lifeVars, process>>

Among(c, list) == \E k \in 1..Len(list) : list[k] = c

(* Clients.erase(find_if(...)): the last reference goes, and with it the   *)
(* derived part of the client.  erase(end()) is undefined.                 *)
WorkerErases ==
    /\ wpc = "erasing"
    /\ IF Among(work[wi], clients)
       THEN /\ \E k \in 1..Len(clients) :
                  /\ clients[k] = work[wi]
                  /\ \A j \in 1..(k - 1) : clients[j] # work[wi]
                  /\ clients' = SubSeq(clients, 1, k - 1) \o SubSeq(clients, k + 1, Len(clients))
            /\ derived' = [derived EXCEPT ![work[wi]] = FALSE]
            /\ wpc' = "destroying"
            /\ UNCHANGED process
       ELSE process' = "undefined" /\ UNCHANGED <<clients, derived, wpc>>
    /\ UNCHANGED <<clientVars, listenVars, smutex, apc, work, stopWork, wi, mainVars,
                   gone>>

WorkerDestroys ==
    /\ wpc = "destroying" /\ wpc' = "joining"
    /\ C!StopReader(work[wi])
    /\ UNCHANGED <<listenVars, smutex, apc, registryVars, stopWork, wi, mainVars,
                   lifeVars, process>>

(* The destructor of the client detaches its thread instead of joining it. *)
MutWorkerDetaches ==
    /\ wpc = "joining"
    /\ gone' = gone \cup {work[wi]}
    /\ IF wi < Len(work)
       THEN wi' = wi + 1 /\ wpc' = "erasing" /\ UNCHANGED <<work, smutex>>
       ELSE wi' = 1 /\ wpc' = "top" /\ work' = <<>> /\ smutex' = Free
    /\ UNCHANGED <<clientVars, listenVars, apc, clients, stopWork, mainVars,
                   derived, process>>

(* Without Work.clear(). *)
MutWorkerJoins ==
    /\ wpc = "joining" /\ rpc[work[wi]] = "done"
    /\ gone' = gone \cup {work[wi]}
    /\ IF wi < Len(work)
       THEN wi' = wi + 1 /\ wpc' = "erasing" /\ UNCHANGED smutex
       ELSE wi' = 1 /\ wpc' = "top" /\ smutex' = Free
    /\ UNCHANGED <<clientVars, listenVars, apc, registryVars, stopWork, mainVars,
                   derived, process>>

(* The next client, or Work.clear() and the end of the iteration. *)
WorkerJoins ==
    /\ wpc = "joining" /\ rpc[work[wi]] = "done"
    /\ gone' = gone \cup {work[wi]}
    /\ IF wi < Len(work)
       THEN wi' = wi + 1 /\ wpc' = "erasing" /\ UNCHANGED <<work, smutex>>
       ELSE wi' = 1 /\ wpc' = "top" /\ work' = <<>> /\ smutex' = Free
    /\ UNCHANGED <<clientVars, listenVars, apc, clients, stopWork, mainVars,
                   derived, process>>

WorkerStep ==
    \/ WorkerTop \/ WorkerWakes
    \/ WorkerErases \/ WorkerDestroys \/ WorkerJoins

-----------------------------------------------------------------------------
(* Main: Open, and the destructors of CServer and CServerSocket. *)

(* A failure of Open ends the programs and is not followed.                *)
MainOpens ==
    /\ mpc = "idle" /\ mpc' = "opening" /\ L!OpenBegins
    /\ UNCHANGED <<clientVars, registryVars, workerVars, mi, lifeVars, process>>

MainHasOpened ==
    /\ mpc' = "idle" /\ L!OpenSucceeds
    /\ UNCHANGED <<clientVars, registryVars, workerVars, mi, lifeVars, process>>

(* The programs exit only when Open has returned. *)
MainExits ==
    /\ mpc = "idle" /\ smutex = Free /\ listener # 0
    /\ smutex' = Main /\ mpc' = "disconnecting" /\ mi' = 1
    /\ UNCHANGED <<clientVars, listenVars, apc, registryVars, workerVars, lifeVars, process>>

(* ptr->Disconnect(), and the OnDisconnect it calls: main has both mutexes. *)
MainDisconnects ==
    /\ mpc = "disconnecting" /\ mi <= Len(clients)
    /\ LET c == clients[mi] IN
          /\ mutex[c] = Free /\ handle[c] # 0
          /\ C!CloseSocket(c)
          /\ work' = Append(work, c)
    /\ WorkerNotified
    /\ mi' = mi + 1
    /\ UNCHANGED <<stopReading, mutex, rpc, seen, result, listenVars, smutex, apc,
                   clients, stopWork, wi, mpc, lifeVars, process>>

(* Without CV.notify_all(). *)
MutMainCloses ==
    /\ mpc = "disconnecting" /\ mi > Len(clients)
    /\ L!CloseListener
    /\ stopWork' = TRUE
    /\ smutex' = Free /\ mpc' = "joinWorker" /\ mi' = 1
    /\ UNCHANGED <<clientVars, stopAccepting, apc, aseen, accepted, registryVars,
                   wpc, wi, lifeVars, process>>

(* Disconnect() throws, in a destructor, when the client's reading thread  *)
(* has closed it and the work thread has not yet removed it.               *)
MainThrows ==
    /\ mpc = "disconnecting" /\ mi <= Len(clients)
    /\ mutex[clients[mi]] = Free /\ handle[clients[mi]] = 0
    /\ process' = "terminated"
    /\ UNCHANGED <<clientVars, listenVars, smutex, apc, registryVars, workerVars,
                   mainVars, lifeVars>>

MainCloses ==
    /\ mpc = "disconnecting" /\ mi > Len(clients)
    /\ L!CloseListener
    /\ stopWork' = TRUE /\ WorkerNotified
    /\ smutex' = Free /\ mpc' = "joinWorker" /\ mi' = 1
    /\ UNCHANGED <<clientVars, stopAccepting, apc, aseen, accepted, registryVars,
                   wi, lifeVars, process>>

MainJoinsWorker ==
    /\ mpc = "joinWorker" /\ wpc = "done" /\ smutex = Free
    /\ mpc' = "members"
    /\ UNCHANGED <<clientVars, listenVars, smutex, apc, registryVars, workerVars,
                   mi, lifeVars, process>>

(* Clients is destroyed, and its elements with it. *)
MainDestroysClient ==
    /\ mpc = "members" /\ clients # <<>>
    /\ C!StopReader(Head(clients))
    /\ derived' = [derived EXCEPT ![Head(clients)] = FALSE]
    /\ mpc' = "joinReader"
    /\ UNCHANGED <<listenVars, smutex, apc, registryVars, workerVars, mi, gone, process>>

MainJoinsReader ==
    /\ mpc = "joinReader" /\ rpc[Head(clients)] = "done"
    /\ gone' = gone \cup {Head(clients)}
    /\ clients' = Tail(clients)
    /\ mpc' = "members"
    /\ UNCHANGED <<clientVars, listenVars, smutex, apc, work, workerVars, mi,
                   derived, process>>

MainStopsAccepting ==
    /\ mpc = "members" /\ clients = <<>>
    /\ L!StopAcceptor
    /\ mpc' = "joinAcceptor"
    /\ UNCHANGED <<clientVars, registryVars, workerVars, mi, lifeVars, process>>

MainJoinsAcceptor ==
    /\ mpc = "joinAcceptor" /\ apc = "done" /\ smutex = Free
    /\ mpc' = "destroyed"
    /\ UNCHANGED <<clientVars, listenVars, smutex, apc, registryVars, workerVars,
                   mi, lifeVars, process>>

Destructor ==
    \/ MainDisconnects \/ MainThrows \/ MainCloses \/ MainJoinsWorker
    \/ MainDestroysClient \/ MainJoinsReader
    \/ MainStopsAccepting \/ MainJoinsAcceptor

-----------------------------------------------------------------------------
(* The peers. *)

Arrived(c) == peer[c] # "none" \/ rpc[c] # "none"

Arrives(c) ==
    /\ \E k \in 1..Len(Arrivals) :
          c = Arrivals[k] /\ \A j \in 1..(k - 1) : Arrived(Arrivals[j])
    /\ UNCHANGED <<handle, stopReading, mutex, rpc, seen, result, inbox,
                   registryVars, workerVars, mainVars, lifeVars, process>>
    /\ peer[c] = "none" /\ L!Arrives(c)
    /\ peer' = [peer EXCEPT ![c] = "open"]

(* At any time, also while the connection waits in the backlog. *)
PeerActs(c) ==
    /\ C!PeerStep(c)
    /\ UNCHANGED <<listenVars, smutex, apc, registryVars, workerVars, mainVars, lifeVars>>

-----------------------------------------------------------------------------
Next ==
    /\ Running
    /\ \/ \E c \in Client : ReaderStep(c) \/ Arrives(c) \/ PeerActs(c)
       \/ AcceptorStep \/ WorkerStep
       \/ MainOpens \/ MainHasOpened \/ MainExits \/ Destructor

Spec == Init /\ [][Next]_vars

(* Threads that can run do run.  The accepting thread and main compete for *)
(* a client's mutex with its reading thread, which takes it again and      *)
(* again as long as its peer sends; strong fairness says that they get it, *)
(* since that thread blocks in read() in between.  For the other threads   *)
(* weak fairness is enough.  Main need not exit, peers need not do anything.*)
Fairness ==
    /\ \A c \in Client : WF_vars(Running /\ ReaderStep(c))
    /\ SF_vars(Running /\ AcceptorStep)
    /\ WF_vars(Running /\ WorkerStep)
    /\ SF_vars(Running /\ Destructor)

FairSpec == Spec /\ Fairness

-----------------------------------------------------------------------------
TypeOK ==
    /\ handle \in [Client -> 0..1] /\ seen \in [Client -> 0..1]
    /\ stopReading \in [Client -> BOOLEAN]
    /\ mutex \in [Client -> {Free, Reader}]
    /\ rpc \in [Client -> C!ReaderState]
    /\ result \in [Client -> {"none", "data", "eof", "error"}]
    /\ peer \in [Client -> {"none", "open", "closed", "reset"}]
    /\ inbox \in [Client -> 0..MaxInbox]
    /\ process \in {"running", "terminated", "undefined"}
    /\ listener \in 0..1 /\ opens \in 0..1 /\ aseen \in 0..1
    /\ stopAccepting \in BOOLEAN /\ stopWork \in BOOLEAN
    /\ smutex \in {Free, Acceptor, Worker, Main}
    /\ apc \in L!AcceptorState \cup {"constructing", "greeting"}
    /\ accepted \in Client \cup {"none", "error", "einval"}
    /\ backlog \in Seq(Client) /\ clients \in Seq(Client) /\ work \in Seq(Client)
    /\ derived \in [Client -> BOOLEAN]
    /\ wpc \in {"top", "waiting", "notified", "erasing", "destroying", "joining", "done"}
    /\ wi \in Nat \ {0} /\ mi \in Nat \ {0}
    /\ mpc \in {"idle", "opening", "disconnecting", "joinWorker", "members", "joinReader",
                "joinAcceptor", "destroyed"}
    /\ gone \subseteq Client

(* The work thread's find_if always finds the client and never finds it    *)
(* destroyed: whenever the server's mutex can be taken, Work holds         *)
(* clients that are in Clients, each once (Server.cpp:19).                 *)
WorkIsRegistered ==
    smutex = Free /\ ~MembersGone =>
        /\ \A k \in 1..Len(work) : Among(work[k], clients)
        /\ \A j, k \in 1..Len(work) : work[j] = work[k] => j = k

(* No client that is destroyed can be reached: it is not in Clients, its   *)
(* reading thread is over and nobody has its mutex.                        *)
DestroyedIsUnreachable ==
    \A c \in gone : /\ ~Among(c, clients) /\ accepted # c
                    /\ rpc[c] = "done" /\ mutex[c] = Free /\ handle[c] = 0

(* The work thread holds the server's mutex while it joins the reading     *)
(* thread of a client.  That thread is then past its OnDisconnect, so it   *)
(* never needs that mutex again and the join cannot deadlock.              *)
JoinNeedsNoServerMutex ==
    wpc \in {"destroying", "joining"} =>
        /\ rpc[work[wi]] # "onDisconnect"
        /\ handle[work[wi]] = 0

(* Two threads, each waiting for the mutex of the other: a reading thread  *)
(* in OnDisconnect, and the accepting thread that greets this client or    *)
(* main that disconnects it.                                               *)
Deadlocked(c) ==
    /\ rpc[c] = "onDisconnect" /\ derived[c]
    /\ \/ apc = "greeting" /\ accepted = c
       \/ mpc = "disconnecting" /\ mi <= Len(clients) /\ clients[mi] = c

(* The server ends only in these ways.  While it serves, a client that has *)
(* already left when the accepting thread asks for its address             *)
(* (Server.cpp:8), or one that sends what the handler cannot parse         *)
(* (VisualServer.cpp:14-15).  At exit, besides these, a client that has left by itself, that its    *)
(* thread has put in Work and that the work thread has not removed yet     *)
(* (Server.cpp:32); a client whose handle main closes in front of its      *)
(* read() (ClientSocket.cpp:27); or a client that is accepted or leaves    *)
(* when the members of CServer are gone.  Nothing else throws out of a     *)
(* thread or is undefined.                                                 *)
LeftBefore(c) == handle[c] = 0 /\ Among(c, work)
ClosedUnderRead(c) == rpc[c] = "returned" /\ result[c] = "error" /\ handle[c] = 0

EndsForAKnownReason ==
    ~Running =>
        \/ apc = "greeting" /\ peer[accepted] # "open"
        \/ \E c \in Improper : rpc[c] = "onRead" /\ derived[c]
        \/ mpc = "disconnecting" /\ mi <= Len(clients) /\ LeftBefore(clients[mi])
        \/ mpc # "idle" /\ \E c \in Client : ClosedUnderRead(c)
        \/ MembersGone /\ (apc = "onAccept" \/ \E c \in Client : rpc[c] = "onDisconnect")

(* Every client whose connection ends is removed and destroyed, unless the *)
(* program ends or two threads deadlock in one of the two ways above.      *)
DisconnectedIsDestroyed ==
    \A c \in Client :
        (rpc[c] = "onDisconnect")
            ~> (c \in gone \/ ~Running \/ \E d \in Client : Deadlocked(d))

(* The destructor ends, or the program does, or two threads deadlock in    *)
(* one of these two ways: no join and no wait in it is for ever otherwise. *)
ExitEnds ==
    (mpc = "disconnecting")
        ~> (mpc = "destroyed" \/ ~Running \/ \E c \in Client : Deadlocked(c))

(* Server.hpp:29-31: when the reading thread encounters the disconnection, *)
(* the callback "will add this client to Work vector, to remove it later". *)
CallbackAddsToWork ==
    \A c \in Client :
        (rpc[c] = "onDisconnect" /\ derived[c]) ~> (Among(c, work) \/ ~Running)

(* The registry of clients that the server implements: a client is being   *)
(* destroyed from the moment its last reference goes to the end of the     *)
(* join in its destructor, and has left from the moment it is in Work.     *)
Ending(c) ==
    \/ wpc \in {"destroying", "joining"} /\ c = work[wi]
    \/ mpc = "joinReader" /\ c = Head(clients)

Life(c) ==
    IF c \in gone THEN "destroyed"
    ELSE IF Ending(c) THEN "ending"
    ELSE IF ~Among(c, clients) THEN "new"
    ELSE IF Among(c, work) THEN "left" ELSE "registered"

Registry == INSTANCE ClientRegistry WITH
    life <- [c \in Client |-> Life(c)], serving <- ~MembersGone

(* However the accepting thread, the reading threads, the work thread and  *)
(* main interleave, a client is registered once, leaves at most once, is   *)
(* destroyed once and not before it has left (but at exit), and nothing    *)
(* happens to the lists while a client is being destroyed                  *)
(* (Server.hpp:15-19, Server.cpp:5-39).                                    *)
ImplementsRegistry == Registry!Spec
=============================================================================
