---------------------------- MODULE ServerProofs ----------------------------
(***************************************************************************)
(* The safety properties of Server, for any number of arriving clients and *)
(* any bound on what is unread.  The inductive invariant says who has the  *)
(* server's mutex, how far main's destructor is, what the lists Clients    *)
(* and Work hold while the work thread goes through them, and for each     *)
(* client where in its life it is.                                         *)
(***************************************************************************)
EXTENDS Server, SequenceTheorems, TLAPS

NoDuplicates(s) == \A j, k \in 1..Len(s) : s[j] = s[k] => j = k

(* Who has the server's mutex follows from where the threads are. *)
LockInv ==
    /\ smutex = Acceptor <=> apc \in {"onAccept", "constructing", "greeting"}
    /\ smutex = Worker <=> wpc \in {"erasing", "destroying", "joining"}
    /\ smutex = Main <=> mpc \in {"opening", "disconnecting"}

(* The order of main's destructor, and the connection in accept()'s hands. *)
PhaseInv ==
    /\ stopWork <=> mpc = "joinWorker" \/ MembersGone
    /\ wpc = "done" => stopWork
    /\ MembersGone => wpc = "done" /\ apc \notin {"constructing", "greeting"}
    /\ accepted \in Client => apc \in {"returned", "onAccept", "constructing", "greeting"}
    /\ apc \in {"onAccept", "constructing", "greeting"} => accepted \in Client
    /\ mpc = "joinReader" =>
          clients # <<>> /\ handle[Head(clients)] = 0 /\ ~derived[Head(clients)]

(* Work holds registered clients, but for those the work thread has erased *)
(* since it took the server's mutex.                                       *)
Erased(k) ==
    \/ wpc = "erasing" /\ k < wi
    \/ wpc \in {"destroying", "joining"} /\ k <= wi

ListInv ==
    /\ NoDuplicates(clients) /\ NoDuplicates(work) /\ NoDuplicates(backlog)
    /\ wpc \in {"erasing", "destroying", "joining"} => wi <= Len(work)
    /\ ~MembersGone =>
          \A k \in 1..Len(work) : Among(work[k], clients) <=> ~Erased(k)

(* The connection of a client: who has its mutex, when it has a peer.  A   *)
(* reading thread finds its handle closed only when the server exits.      *)
ConnectionInv(c) ==
    /\ mutex[c] = Reader <=> rpc[c] \in {"onRead", "onDisconnect"}
    /\ handle[c] = 0 /\ rpc[c] # "none" => peer[c] = "none"
    /\ handle[c] # 0 => rpc[c] \notin {"none", "onDisconnect"}
    /\ handle[c] = 0 /\ C!InWindow(c) => mpc \notin {"idle", "opening"}

(* The life of a client: in the backlog or accepted, constructed,          *)
(* registered, put in Work when its connection is closed, destroyed.       *)
LifeInv(c) ==
    /\ rpc[c] = "none" => ~Among(c, clients) /\ ~Among(c, work)
    /\ Among(c, backlog) => rpc[c] = "none" /\ accepted # c
    /\ accepted = c => (rpc[c] = "none" <=> apc \in {"returned", "onAccept"})
    /\ accepted = c /\ apc = "constructing" => ~Among(c, clients)
    /\ accepted = c /\ apc = "greeting" => Among(c, clients)
    /\ derived[c] => Among(c, clients)
    /\ Among(c, clients) => derived[c] \/ (mpc = "joinReader" /\ c = Head(clients))
    /\ Among(c, work) => handle[c] = 0 /\ rpc[c] # "onDisconnect"
    /\ Among(c, clients) /\ handle[c] = 0 /\ ~MembersGone =>
          \/ Among(c, work) \/ rpc[c] = "onDisconnect"
          \/ accepted = c /\ apc = "greeting"
    /\ c \in gone => rpc[c] = "done" /\ ~Among(c, clients) /\ accepted # c /\ handle[c] = 0

CoreInv ==
    /\ TypeOK /\ LockInv /\ PhaseInv /\ ListInv
    /\ \A c \in Client : ConnectionInv(c) /\ LifeInv(c)

IInv == CoreInv /\ EndsForAKnownReason

-----------------------------------------------------------------------------
(* An element of a list is among its elements. *)
LEMMA ElementAmong ==
    ASSUME NEW s, NEW k \in 1..Len(s)
    PROVE  Among(s[k], s)
  BY DEF Among

(* The empty list, which the lists start as and Work.clear() leaves. *)
LEMMA EmptyList ==
    /\ <<>> \in Seq(Client) /\ Len(<<>>) = 0
    /\ NoDuplicates(<<>>)
    /\ \A c : ~Among(c, <<>>)
  BY DEF NoDuplicates, Among

(* push_back: the list as before, and the new element at its end. *)
LEMMA AppendToList ==
    ASSUME NEW s \in Seq(Client), NEW e \in Client
    PROVE  /\ Append(s, e) \in Seq(Client)
           /\ Len(s) \in Nat /\ Len(Append(s, e)) = Len(s) + 1
           /\ \A k \in 1..Len(s) : Append(s, e)[k] = s[k]
           /\ Append(s, e)[Len(s) + 1] = e
           /\ \A c : Among(c, Append(s, e)) <=> Among(c, s) \/ c = e
           /\ NoDuplicates(s) /\ ~Among(e, s) => NoDuplicates(Append(s, e))
  <1>1. /\ Append(s, e) \in Seq(Client)
        /\ Len(s) \in Nat /\ Len(Append(s, e)) = Len(s) + 1
        /\ \A k \in 1..Len(s) : Append(s, e)[k] = s[k]
        /\ Append(s, e)[Len(s) + 1] = e
    BY AppendProperties, LenProperties
  <1> DEFINE t == Append(s, e)
  <1> HIDE DEF t
  <1>2. /\ Len(s) \in Nat /\ Len(t) = Len(s) + 1 /\ t[Len(s) + 1] = e
        /\ \A k \in 1..Len(s) : t[k] = s[k]
    BY <1>1 DEF t
  <1>3. ASSUME NEW c PROVE Among(c, t) <=> Among(c, s) \/ c = e
    BY <1>2 DEF Among
  <1>4. NoDuplicates(s) /\ ~Among(e, s) => NoDuplicates(t)
    BY <1>2 DEF NoDuplicates, Among
  <1> QED BY <1>1, <1>3, <1>4 DEF t

(* A list without duplicates that loses its first element. *)
LEMMA TailOfList ==
    ASSUME NEW s \in Seq(Client), s # <<>>, NoDuplicates(s)
    PROVE  /\ Head(s) \in Client /\ Tail(s) \in Seq(Client)
           /\ Among(Head(s), s)
           /\ NoDuplicates(Tail(s))
           /\ \A c : Among(c, Tail(s)) <=> Among(c, s) /\ c # Head(s)
  <1> DEFINE t == Tail(s)
  <1>1. /\ Head(s) \in Client /\ t \in Seq(Client) /\ Head(s) = s[1]
        /\ Len(s) \in Nat /\ Len(s) # 0 /\ Len(t) = Len(s) - 1
        /\ \A k \in 1..Len(t) : t[k] = s[k + 1]
    BY HeadTailProperties, LenProperties, EmptySeq
  <1> HIDE DEF t
  <1>2. Among(Head(s), s)
    BY <1>1 DEF Among
  <1>3. NoDuplicates(t)
    BY <1>1 DEF NoDuplicates
  <1>4. ASSUME NEW c PROVE Among(c, t) <=> Among(c, s) /\ c # Head(s)
    <2>1. ASSUME NEW k \in 1..Len(t), t[k] = c PROVE Among(c, s) /\ c # Head(s)
      BY <1>1, <2>1 DEF Among, NoDuplicates
    <2>2. ASSUME NEW k \in 1..Len(s), s[k] = c, c # Head(s) PROVE Among(c, t)
      <3>1. k # 1 /\ k - 1 \in 1..Len(t) /\ t[k - 1] = s[k]
        BY <1>1, <2>2
      <3> QED BY <2>2, <3>1 DEF Among
    <2> QED BY <2>1, <2>2 DEF Among
  <1> QED BY <1>1, <1>2, <1>3, <1>4 DEF t

(* erase() of the element at place k. *)
Without(s, k) == SubSeq(s, 1, k - 1) \o SubSeq(s, k + 1, Len(s))

(* erase() removes the element it is to remove and no other. *)
LEMMA RemoveFromList ==
    ASSUME NEW s \in Seq(Client), NoDuplicates(s), NEW k \in 1..Len(s)
    PROVE  /\ Without(s, k) \in Seq(Client) /\ NoDuplicates(Without(s, k))
           /\ \A c : Among(c, Without(s, k)) <=> Among(c, s) /\ c # s[k]
  <1> DEFINE u == SubSeq(s, 1, k - 1)
             v == SubSeq(s, k + 1, Len(s))
             t == u \o v
  <1>1. /\ Len(s) \in Nat /\ k \in Int
        /\ \A i \in 1..(k - 1) : s[i] \in Client
        /\ \A i \in (k + 1)..Len(s) : s[i] \in Client
    BY ElementOfSeq, LenProperties
  <1>2. /\ u \in Seq(Client) /\ Len(u) = k - 1
        /\ \A i \in 1..(k - 1) : u[i] = s[i]
    BY <1>1, SubSeqProperties
  <1>3. /\ v \in Seq(Client) /\ Len(v) = Len(s) - k
        /\ \A i \in 1..(Len(s) - k) : v[i] = s[k + i]
    BY <1>1, SubSeqProperties
  <1>4. /\ t \in Seq(Client) /\ Len(t) = Len(u) + Len(v)
        /\ \A i \in 1..(Len(u) + Len(v)) :
              t[i] = IF i <= Len(u) THEN u[i] ELSE v[i - Len(u)]
    BY <1>2, <1>3, ConcatProperties
  <1> HIDE DEF t, u, v
  <1>5. Len(t) = Len(s) - 1
    BY <1>1, <1>2, <1>3, <1>4
  <1>6. ASSUME NEW i \in 1..Len(t) PROVE t[i] = IF i < k THEN s[i] ELSE s[i + 1]
    <2>1. CASE i < k
      BY <1>1, <1>2, <1>3, <1>4, <1>5, <2>1
    <2>2. CASE ~(i < k)
      <3>1. i - Len(u) \in 1..(Len(s) - k) /\ k + (i - Len(u)) = i + 1
        BY <1>1, <1>2, <1>5, <2>2
      <3> QED BY <1>1, <1>2, <1>3, <1>4, <1>5, <2>2, <3>1
    <2> QED BY <2>1, <2>2
  <1>7. NoDuplicates(t)
    BY <1>1, <1>5, <1>6 DEF NoDuplicates
  <1>8. ASSUME NEW c PROVE Among(c, t) <=> Among(c, s) /\ c # s[k]
    <2>1. ASSUME NEW i \in 1..Len(t), t[i] = c PROVE Among(c, s) /\ c # s[k]
      BY <1>1, <1>5, <1>6, <2>1 DEF Among, NoDuplicates
    <2>2. ASSUME NEW i \in 1..Len(s), s[i] = c, c # s[k] PROVE Among(c, t)
      <3>1. CASE i < k
        <4>1. i \in 1..Len(t) /\ t[i] = c
          BY <1>1, <1>5, <1>6, <2>2, <3>1
        <4> QED BY <4>1 DEF Among
      <3>2. CASE i > k
        <4>1. i - 1 \in 1..Len(t) /\ t[i - 1] = c
          BY <1>1, <1>5, <1>6, <2>2, <3>2
        <4> QED BY <4>1 DEF Among
      <3> QED BY <1>1, <2>2, <3>1, <3>2
    <2> QED BY <2>1, <2>2 DEF Among
  <1> QED BY <1>4, <1>7, <1>8 DEF t, u, v, Without

-----------------------------------------------------------------------------
(* The steps that change a list of clients, or destroy a client. *)
USE DEF clientVars, listenVars, registryVars, workerVars, mainVars, lifeVars,
        C!connVars, C!historyVars, C!readerVars, C!callerVars, L!listenVars,
        L!acceptorVars, Free, Acceptor, Worker, Main, Reader, C!Free, C!Reader,
        L!Free, L!Owner, L!Acceptor, MembersGone, C!InWindow, Running

(* OnDisconnect of a registered client, which puts it in Work. *)
LEMMA PutInWorkInv ==
    ASSUME CoreInv, NEW c \in Client, ReaderOnDisconnect(c)
    PROVE  CoreInv'
  <1> USE DEF ReaderOnDisconnect, WorkerNotified, C!ReaderUnlocks, CoreInv
  <1>1. Among(c, clients) /\ ~Among(c, work) /\ \A k \in 1..Len(work) : ~Erased(k)
    BY DEF TypeOK, LockInv, LifeInv, Erased
  <1>2. /\ work' \in Seq(Client) /\ Len(work) \in Nat /\ Len(work') = Len(work) + 1
        /\ \A k \in 1..Len(work) : work'[k] = work[k]
        /\ work'[Len(work) + 1] = c
        /\ \A x : Among(x, work') <=> Among(x, work) \/ x = c
        /\ NoDuplicates(work')
    BY <1>1, AppendToList DEF TypeOK, ListInv
  <1>3. TypeOK'
    BY <1>2 DEF TypeOK, C!ReaderState, L!AcceptorState
  <1>4. LockInv' /\ PhaseInv'
    BY DEF TypeOK, LockInv, PhaseInv
  <1>5. ListInv'
    <2>1. ASSUME NEW k \in 1..Len(work') PROVE Among(work'[k], clients)
      <3>1. CASE k = Len(work) + 1
        BY <3>1, <1>2 DEF LifeInv
      <3>2. CASE k \in 1..Len(work)
        BY <3>2, <1>1, <1>2 DEF ListInv, Erased
      <3> QED BY <1>2, <3>1, <3>2
    <2>2. ASSUME NEW k \in 1..Len(work') PROVE ~Erased(k)'
      BY <1>1 DEF LockInv, Erased
    <2>3. wpc' \in {"erasing", "destroying", "joining"} => wi' <= Len(work')
      BY <1>2 DEF TypeOK, ListInv
    <2> QED BY <2>1, <2>2, <2>3, <1>2 DEF ListInv
  <1>6. ASSUME NEW x \in Client PROVE ConnectionInv(x)' /\ LifeInv(x)'
    BY <1>1, <1>2 DEF TypeOK, LockInv, PhaseInv, ConnectionInv, LifeInv
  <1> QED BY <1>3, <1>4, <1>5, <1>6

(* accept() takes the connection at the head of the backlog. *)
LEMMA AcceptReturnsInv ==
    ASSUME CoreInv, L!AcceptReturns,
           UNCHANGED <<clientVars, registryVars, workerVars, mainVars, lifeVars, process>>
    PROVE  CoreInv'
  <1> USE ServerAssumption DEF L!AcceptReturns, CoreInv
  <1>1. CASE L!Accepts
    <2> USE <1>1 DEF L!Accepts
    <2>1. /\ Head(backlog) \in Client /\ backlog' \in Seq(Client)
          /\ Among(Head(backlog), backlog)
          /\ NoDuplicates(backlog')
          /\ \A x : Among(x, backlog') <=> Among(x, backlog) /\ x # Head(backlog)
      BY TailOfList DEF TypeOK, ListInv
    <2>2. TypeOK' /\ LockInv' /\ PhaseInv'
      BY <2>1 DEF TypeOK, L!AcceptorState, LockInv, PhaseInv
    <2>3. ListInv'
      BY <2>1 DEF TypeOK, ListInv, Erased
    <2>4. ASSUME NEW x \in Client PROVE ConnectionInv(x)' /\ LifeInv(x)'
      BY <2>1 DEF TypeOK, PhaseInv, ConnectionInv, LifeInv
    <2> QED BY <2>2, <2>3, <2>4
  <1>2. CASE L!FailsToAccept
    BY <1>2 DEF L!FailsToAccept, TypeOK, L!AcceptorState, LockInv, PhaseInv, ListInv,
       Erased, ConnectionInv, LifeInv
  <1> QED BY <1>1, <1>2

(* OnAccept registers the client it has constructed. *)
LEMMA RegistersClientInv ==
    ASSUME CoreInv, RegistersClient
    PROVE  CoreInv'
  <1> USE DEF RegistersClient, CoreInv
  <1>1. /\ accepted \in Client /\ ~Among(accepted, clients)
        /\ \A k \in 1..Len(work) : ~Erased(k)
    BY DEF TypeOK, LockInv, PhaseInv, LifeInv, Erased
  <1>2. /\ clients' \in Seq(Client) /\ NoDuplicates(clients')
        /\ \A x : Among(x, clients') <=> Among(x, clients) \/ x = accepted
    BY <1>1, AppendToList DEF TypeOK, ListInv
  <1>3. TypeOK' /\ LockInv' /\ PhaseInv'
    BY <1>1, <1>2 DEF TypeOK, L!AcceptorState, LockInv, PhaseInv
  <1>4. ListInv'
    BY <1>1, <1>2 DEF TypeOK, LockInv, PhaseInv, ListInv, Erased
  <1>5. ASSUME NEW x \in Client PROVE ConnectionInv(x)' /\ LifeInv(x)'
    BY <1>1, <1>2 DEF TypeOK, LockInv, PhaseInv, ConnectionInv, LifeInv
  <1> QED BY <1>3, <1>4, <1>5

(* The client the work thread is destroying: it is in Work and no longer   *)
(* registered, and its connection is closed.                               *)
LEMMA BeingDestroyed ==
    ASSUME CoreInv, wpc \in {"destroying", "joining"}
    PROVE  /\ wi \in 1..Len(work) /\ work[wi] \in Client /\ ~MembersGone
           /\ Among(work[wi], work) /\ ~Among(work[wi], clients)
           /\ handle[work[wi]] = 0 /\ rpc[work[wi]] # "onDisconnect"
           /\ peer[work[wi]] = "none" /\ accepted # work[wi]
  <1> USE DEF CoreInv
  <1>1. /\ wi \in 1..Len(work) /\ work[wi] \in Client /\ ~MembersGone
        /\ Among(work[wi], work) /\ ~Among(work[wi], clients)
    BY ElementAmong DEF TypeOK, PhaseInv, Erased, ListInv
  <1> QED BY <1>1 DEF TypeOK, LockInv, PhaseInv, LifeInv, ConnectionInv

(* The work thread erases from Clients the client that Work names, and no  *)
(* other.                                                                  *)
LEMMA ErasesTheClient ==
    ASSUME CoreInv, WorkerErases
    PROVE  /\ wi \in 1..Len(work) /\ work[wi] \in Client /\ ~MembersGone
           /\ Among(work[wi], clients) /\ wpc = "erasing" /\ wpc' = "destroying"
           /\ clients' \in Seq(Client) /\ NoDuplicates(clients')
           /\ \A x : Among(x, clients') <=> Among(x, clients) /\ x # work[wi]
           /\ derived' = [derived EXCEPT ![work[wi]] = FALSE]
           /\ UNCHANGED <<clientVars, listenVars, smutex, apc, work, stopWork, wi,
                          mainVars, gone, process>>
  <1> USE DEF CoreInv
  <1>1. /\ wi \in 1..Len(work) /\ work[wi] \in Client /\ ~MembersGone
        /\ Among(work[wi], clients) /\ wpc = "erasing"
    BY DEF TypeOK, LockInv, PhaseInv, Erased, ListInv, WorkerErases
  <1>2. /\ derived' = [derived EXCEPT ![work[wi]] = FALSE] /\ wpc' = "destroying"
        /\ UNCHANGED <<clientVars, listenVars, smutex, apc, work, stopWork, wi, mainVars,
                       gone, process>>
        /\ \E k \in 1..Len(clients) :
              clients[k] = work[wi] /\ clients' = Without(clients, k)
    BY <1>1 DEF WorkerErases, Without
  <1>3. /\ clients' \in Seq(Client) /\ NoDuplicates(clients')
        /\ \A x : Among(x, clients') <=> Among(x, clients) /\ x # work[wi]
    <2>1. PICK k \in 1..Len(clients) :
            clients[k] = work[wi] /\ clients' = Without(clients, k)
      BY <1>2
    <2> QED BY <2>1, RemoveFromList DEF TypeOK, ListInv
  <1> QED BY <1>1, <1>2, <1>3

(* That step keeps the invariant, and does not end the program. *)
LEMMA WorkerErasesInv ==
    ASSUME CoreInv, WorkerErases
    PROVE  CoreInv' /\ UNCHANGED process
  <1> USE DEF CoreInv
  <1>1. /\ wi \in 1..Len(work) /\ work[wi] \in Client /\ ~MembersGone
        /\ Among(work[wi], clients) /\ wpc = "erasing"
    BY ErasesTheClient
  <1>2. /\ clients' \in Seq(Client) /\ NoDuplicates(clients')
        /\ \A x : Among(x, clients') <=> Among(x, clients) /\ x # work[wi]
    BY ErasesTheClient
  <1>3. /\ derived' = [derived EXCEPT ![work[wi]] = FALSE] /\ wpc' = "destroying"
        /\ UNCHANGED <<clientVars, listenVars, smutex, apc, work, stopWork, wi, mainVars,
                       gone, process>>
    BY ErasesTheClient
  <1>4. TypeOK' /\ LockInv' /\ PhaseInv'
    BY <1>1, <1>2, <1>3 DEF TypeOK, LockInv, PhaseInv
  <1>5. ListInv'
    <2>1. ASSUME NEW k \in 1..Len(work)
          PROVE  Among(work[k], clients') <=> ~(k <= wi)
      <3>1. Among(work[k], clients) <=> ~(k < wi)
        BY <1>1 DEF ListInv, Erased
      <3>2. work[k] = work[wi] <=> k = wi
        BY <1>1 DEF ListInv, NoDuplicates
      <3>3. k \in Nat /\ wi \in Nat
        BY <1>1
      <3> QED BY <1>2, <3>1, <3>2, <3>3
    <2> QED BY <1>1, <1>2, <1>3, <2>1 DEF ListInv, Erased
  <1>6. ASSUME NEW x \in Client PROVE ConnectionInv(x)'
    BY <1>3 DEF ConnectionInv
  <1>7. ASSUME NEW x \in Client PROVE LifeInv(x)'
    BY <1>1, <1>2, <1>3 DEF TypeOK, LockInv, PhaseInv, LifeInv
  <1> QED BY <1>3, <1>4, <1>5, <1>6, <1>7

(* The destructor of the client closes its handle, which is closed, and    *)
(* tells its reading thread to stop.                                       *)
LEMMA WorkerDestroysInv ==
    ASSUME CoreInv, WorkerDestroys
    PROVE  CoreInv'
  <1> USE DEF WorkerDestroys, C!StopReader, C!CloseSocket, C!Notified, CoreInv
  <1>1. /\ wi \in 1..Len(work) /\ work[wi] \in Client /\ ~MembersGone
        /\ Among(work[wi], work) /\ ~Among(work[wi], clients)
        /\ handle[work[wi]] = 0 /\ rpc[work[wi]] # "onDisconnect"
        /\ peer[work[wi]] = "none"
    BY BeingDestroyed
  <1>2. TypeOK'
    BY <1>1, ServerAssumption DEF TypeOK, C!ReaderState
  <1>3. LockInv' /\ PhaseInv'
    BY <1>1 DEF TypeOK, LockInv, PhaseInv
  <1>4. ListInv'
    BY <1>1 DEF TypeOK, LockInv, PhaseInv, ListInv, Erased
  <1>5. ASSUME NEW x \in Client PROVE ConnectionInv(x)'
    BY <1>1 DEF TypeOK, ConnectionInv
  <1>6. ASSUME NEW x \in Client PROVE LifeInv(x)'
    BY <1>1 DEF TypeOK, LockInv, PhaseInv, ConnectionInv, LifeInv
  <1> QED BY <1>2, <1>3, <1>4, <1>5, <1>6

(* The destructor has joined the reading thread; behind the last client    *)
(* Work is cleared and the server's mutex let go.                          *)
LEMMA WorkerJoinsInv ==
    ASSUME CoreInv, WorkerJoins
    PROVE  CoreInv'
  <1> USE DEF WorkerJoins, CoreInv
  <1>1. /\ wi \in 1..Len(work) /\ work[wi] \in Client /\ ~MembersGone
        /\ Among(work[wi], work) /\ ~Among(work[wi], clients)
        /\ handle[work[wi]] = 0 /\ accepted # work[wi]
    BY BeingDestroyed
  <1>2. wi = Len(work) => \A x : Among(x, clients) => ~Among(x, work)
    BY <1>1 DEF TypeOK, ListInv, Erased, Among
  <1>3. /\ <<>> \in Seq(Client) /\ Len(<<>>) = 0 /\ NoDuplicates(<<>>)
        /\ \A x : ~Among(x, <<>>)
    BY EmptyList
  <1>4. TypeOK'
    <2>1. /\ wi' \in Nat \ {0} /\ gone' \subseteq Client
          /\ smutex' \in {Free, Acceptor, Worker, Main}
          /\ wpc' \in {"erasing", "top"}
      BY <1>1 DEF TypeOK
    <2>2. work' \in Seq(Client)
      BY <1>3 DEF TypeOK
    <2> QED BY <2>1, <2>2 DEF TypeOK
  <1>5. LockInv' /\ PhaseInv'
    BY DEF TypeOK, LockInv, PhaseInv
  <1>6. ListInv'
    BY <1>1, <1>2, <1>3 DEF TypeOK, LockInv, PhaseInv, ListInv, Erased
  <1>7. ASSUME NEW x \in Client PROVE ConnectionInv(x)' /\ LifeInv(x)'
    BY <1>1, <1>2, <1>3 DEF TypeOK, LockInv, PhaseInv, ConnectionInv, LifeInv
  <1> QED BY <1>4, <1>5, <1>6, <1>7

(* The destructor disconnects the next client and puts it in Work. *)
LEMMA MainDisconnectsInv ==
    ASSUME CoreInv, MainDisconnects
    PROVE  CoreInv'
  <1> DEFINE c == clients[mi]
  <1> USE DEF MainDisconnects, C!CloseSocket, WorkerNotified, CoreInv
  <1>1. /\ c \in Client /\ Among(c, clients) /\ ~Among(c, work)
        /\ \A k \in 1..Len(work) : ~Erased(k)
    BY ElementAmong DEF TypeOK, LockInv, LifeInv, Erased
  <1>2. /\ work' \in Seq(Client) /\ Len(work) \in Nat /\ Len(work') = Len(work) + 1
        /\ \A k \in 1..Len(work) : work'[k] = work[k]
        /\ work'[Len(work) + 1] = c
        /\ \A x : Among(x, work') <=> Among(x, work) \/ x = c
        /\ NoDuplicates(work')
    BY <1>1, AppendToList DEF TypeOK, ListInv
  <1>3. TypeOK'
    <2>1. /\ handle' \in [Client -> 0..1] /\ inbox' \in [Client -> 0..MaxInbox]
          /\ peer' \in [Client -> {"none", "open", "closed", "reset"}]
      BY <1>1, ServerAssumption DEF TypeOK
    <2>2. mi' \in Nat \ {0} /\ work' \in Seq(Client)
      BY <1>2 DEF TypeOK
    <2> QED BY <2>1, <2>2 DEF TypeOK
  <1>4. LockInv' /\ PhaseInv'
    BY <1>1 DEF TypeOK, LockInv, PhaseInv
  <1>5. ListInv'
    <2>1. ASSUME NEW k \in 1..Len(work') PROVE Among(work'[k], clients)
      BY <1>1, <1>2 DEF ListInv, PhaseInv, LockInv
    <2> QED BY <1>2, <2>1 DEF TypeOK, LockInv, PhaseInv, ListInv, Erased
  <1>6. ASSUME NEW x \in Client PROVE ConnectionInv(x)' /\ LifeInv(x)'
    BY <1>1, <1>2 DEF TypeOK, LockInv, PhaseInv, ConnectionInv, LifeInv
  <1> QED BY <1>3, <1>4, <1>5, <1>6

(* The two steps that drop the backlog. *)
LEMMA BacklogDroppedInv ==
    ASSUME CoreInv, MainCloses \/ MainStopsAccepting
    PROVE  CoreInv'
  <1> USE DEF MainCloses, MainStopsAccepting, L!StopAcceptor, L!CloseListener,
          L!AcceptorNotified, WorkerNotified, CoreInv
  <1>1. /\ backlog' \in Seq(Client) /\ NoDuplicates(backlog')
        /\ \A x : ~Among(x, backlog')
    BY EmptyList
  <1>2. TypeOK'
    <2>1. CASE MainCloses
      BY <1>1, <2>1 DEF TypeOK
    <2>2. CASE MainStopsAccepting
      BY <1>1, <2>2 DEF TypeOK, L!AcceptorState
    <2> QED BY <2>1, <2>2
  <1>3. LockInv' /\ PhaseInv'
    BY DEF TypeOK, LockInv, PhaseInv
  <1>4. ListInv'
    BY <1>1 DEF TypeOK, LockInv, PhaseInv, ListInv, Erased
  <1>5. ASSUME NEW x \in Client PROVE ConnectionInv(x)' /\ LifeInv(x)'
    <2>1. CASE MainCloses
      <3>1. ConnectionInv(x)'
        BY <1>1, <1>5, <2>1 DEF TypeOK, LockInv, PhaseInv, ConnectionInv
      <3>2. LifeInv(x)'
        BY <1>1, <1>5, <2>1 DEF TypeOK, LockInv, PhaseInv, LifeInv
      <3> QED BY <3>1, <3>2
    <2>2. CASE MainStopsAccepting
      <3>1. ConnectionInv(x)'
        BY <1>1, <1>5, <2>2 DEF TypeOK, LockInv, PhaseInv, ConnectionInv
      <3>2. LifeInv(x)'
        BY <1>1, <1>5, <2>2 DEF TypeOK, LockInv, PhaseInv, LifeInv
      <3> QED BY <3>1, <3>2
    <2> QED BY <2>1, <2>2
  <1> QED BY <1>2, <1>3, <1>4, <1>5

(* The destructor of Clients, with the elements it destroys. *)
LEMMA MainDestroysInv ==
    ASSUME CoreInv, MainDestroysClient \/ MainJoinsReader
    PROVE  CoreInv'
  <1> USE DEF CoreInv
  <1>1. /\ clients # <<>> /\ Head(clients) \in Client /\ Tail(clients) \in Seq(Client)
        /\ Among(Head(clients), clients) /\ NoDuplicates(Tail(clients))
        /\ \A x : Among(x, Tail(clients)) <=> Among(x, clients) /\ x # Head(clients)
    BY TailOfList DEF MainDestroysClient, MainJoinsReader, PhaseInv, TypeOK, ListInv
  <1>2. CASE MainDestroysClient
    <2> USE <1>2 DEF MainDestroysClient, C!StopReader, C!CloseSocket, C!Notified
    <2>1. TypeOK'
      BY <1>1, ServerAssumption DEF TypeOK, C!ReaderState
    <2>2. LockInv' /\ PhaseInv'
      BY <1>1 DEF TypeOK, LockInv, PhaseInv
    <2>3. ListInv'
      BY DEF TypeOK, PhaseInv, ListInv, Erased
    <2>4. ASSUME NEW x \in Client PROVE ConnectionInv(x)' /\ LifeInv(x)'
      BY <1>1 DEF TypeOK, LockInv, PhaseInv, ConnectionInv, LifeInv
    <2> QED BY <2>1, <2>2, <2>3, <2>4
  <1>3. CASE MainJoinsReader
    <2> USE <1>3 DEF MainJoinsReader
    <2>1. handle[Head(clients)] = 0 /\ accepted # Head(clients)
      BY <1>1 DEF LifeInv, PhaseInv, TypeOK
    <2>2. TypeOK' /\ LockInv' /\ PhaseInv'
      BY <1>1 DEF TypeOK, LockInv, PhaseInv
    <2>3. ListInv'
      BY <1>1 DEF TypeOK, PhaseInv, ListInv, Erased
    <2>4. ASSUME NEW x \in Client PROVE ConnectionInv(x)' /\ LifeInv(x)'
      BY <1>1, <2>1 DEF TypeOK, LockInv, PhaseInv, ConnectionInv, LifeInv
    <2> QED BY <2>2, <2>3, <2>4
  <1> QED BY <1>2, <1>3

(* A connection arrives in the backlog. *)
LEMMA ArrivesInv ==
    ASSUME CoreInv, NEW c \in Client, Arrives(c)
    PROVE  CoreInv'
  <1> USE DEF Arrives, L!Arrives, CoreInv
  <1>1. ~Among(c, backlog) /\ rpc[c] = "none"
    BY DEF Among, Constructed
  <1>2. /\ backlog' \in Seq(Client) /\ NoDuplicates(backlog')
        /\ \A x : Among(x, backlog') <=> Among(x, backlog) \/ x = c
    BY <1>1, AppendToList DEF TypeOK, ListInv
  <1>3. TypeOK' /\ LockInv' /\ PhaseInv'
    BY <1>2 DEF TypeOK, LockInv, PhaseInv
  <1>4. ListInv'
    BY <1>2 DEF TypeOK, ListInv, Erased
  <1>5. ASSUME NEW x \in Client PROVE ConnectionInv(x)' /\ LifeInv(x)'
    BY <1>1, <1>2 DEF TypeOK, ConnectionInv, LifeInv
  <1> QED BY <1>3, <1>4, <1>5

-----------------------------------------------------------------------------
(* A step of the reading thread that ClientSocket has too. *)
LEMMA ReaderCoreInv ==
    ASSUME CoreInv, NEW c \in Client, C!ReaderCore(c),
           UNCHANGED <<listenVars, smutex, apc, registryVars, workerVars, mainVars, lifeVars>>
    PROVE  CoreInv'
  <1> USE ServerAssumption
      DEF CoreInv, TypeOK, C!ReaderState, L!AcceptorState, LockInv, PhaseInv, ListInv,
          Erased, ConnectionInv, LifeInv
  <1>1. CASE C!ReaderTop(c)
    BY <1>1 DEF C!ReaderTop
  <1>2. CASE C!ReaderWakes(c)
    BY <1>2 DEF C!ReaderWakes
  <1>3. CASE C!ReaderFetchesHandle(c)
    <2>1. TypeOK'
      BY <1>3 DEF C!ReaderFetchesHandle
    <2>2. LockInv' /\ PhaseInv' /\ ListInv'
      BY <1>3 DEF C!ReaderFetchesHandle
    <2>3. ASSUME NEW x \in Client PROVE ConnectionInv(x)' /\ LifeInv(x)'
      BY <1>3 DEF C!ReaderFetchesHandle
    <2> QED BY ONLY <2>1, <2>2, <2>3 DEF CoreInv
  <1>4. CASE C!ReaderReturns(c)
    <2>1. TypeOK'
      <3>1. inbox' \in [Client -> 0..MaxInbox]
        BY <1>4 DEF C!ReaderReturns, C!ReadOutcome
      <3> QED BY <1>4, <3>1 DEF C!ReaderReturns
    <2>2. LockInv' /\ PhaseInv' /\ ListInv'
      BY <1>4 DEF C!ReaderReturns, C!ReadOutcome, C!Stale, C!Reaches
    <2>3. ASSUME NEW x \in Client PROVE ConnectionInv(x)' /\ LifeInv(x)'
      BY <1>4 DEF C!ReaderReturns, C!ReadOutcome, C!Stale, C!Reaches
    <2> QED BY ONLY <2>1, <2>2, <2>3 DEF CoreInv
  <1>5. CASE C!ReaderGotData(c)
    BY <1>5 DEF C!ReaderGotData, C!Forget
  <1>6. CASE C!ReaderDisconnects(c)
    BY <1>6 DEF C!ReaderDisconnects, C!CloseSocket, C!Forget
  <1>7. CASE C!ReaderIgnoresEof(c)
    BY <1>7 DEF C!ReaderIgnoresEof, C!Forget
  <1>8. CASE C!ReaderThrows(c)
    BY <1>8 DEF C!ReaderThrows, C!socketVars
  <1> QED BY <1>1, <1>2, <1>3, <1>4, <1>5, <1>6, <1>7, <1>8 DEF C!ReaderCore

(* A step of a peer. *)
LEMMA PeerInv ==
    ASSUME CoreInv, NEW c \in Client, C!PeerStep(c),
           UNCHANGED <<listenVars, smutex, apc, registryVars, workerVars, mainVars, lifeVars>>
    PROVE  CoreInv'
  <1> USE ServerAssumption
      DEF CoreInv, TypeOK, C!ReaderState, L!AcceptorState, LockInv, PhaseInv, ListInv,
          Erased, ConnectionInv, LifeInv
  <1>1. CASE C!PeerSends(c)
    BY <1>1 DEF C!PeerSends
  <1>2. CASE C!PeerCloses(c)
    BY <1>2 DEF C!PeerCloses
  <1>3. CASE C!PeerResets(c)
    <2>1. TypeOK'
      BY <1>3 DEF C!PeerResets
    <2>2. LockInv' /\ PhaseInv' /\ ListInv'
      BY <1>3 DEF C!PeerResets
    <2>3. ASSUME NEW x \in Client PROVE ConnectionInv(x)' /\ LifeInv(x)'
      BY <1>3 DEF C!PeerResets
    <2> QED BY ONLY <2>1, <2>2, <2>3 DEF CoreInv
  <1> QED BY <1>1, <1>2, <1>3 DEF C!PeerStep

(* A step of the accepting thread that ServerSocket has too. *)
LEMMA AcceptorCoreInv ==
    ASSUME CoreInv, L!AcceptorCore,
           UNCHANGED <<clientVars, registryVars, workerVars, mainVars, lifeVars, process>>
    PROVE  CoreInv'
  <1> USE ServerAssumption
      DEF CoreInv, TypeOK, C!ReaderState, L!AcceptorState, LockInv, PhaseInv, ListInv,
          Erased, ConnectionInv, LifeInv
  <1>1. CASE L!AcceptorTop
    BY <1>1 DEF L!AcceptorTop
  <1>2. CASE L!AcceptorWakes
    BY <1>2 DEF L!AcceptorWakes
  <1>3. CASE L!AcceptorFetchesHandle
    BY <1>3 DEF L!AcceptorFetchesHandle
  <1>4. CASE L!AcceptReturns
    BY <1>4, AcceptReturnsInv
  <1>5. CASE L!AcceptorStops
    BY <1>5 DEF L!AcceptorStops
  <1>6. CASE L!AcceptorRetries
    BY <1>6 DEF L!AcceptorRetries
  <1>7. CASE L!AcceptorHasClient
    BY <1>7 DEF L!AcceptorHasClient
  <1> QED BY <1>1, <1>2, <1>3, <1>4, <1>5, <1>6, <1>7 DEF L!AcceptorCore

(* The steps with the callbacks of CServer. *)
LEMMA ClientStepInv ==
    ASSUME CoreInv, NEW c \in Client, ReaderStep(c) \/ Arrives(c) \/ PeerActs(c)
    PROVE  CoreInv'
  <1> USE ServerAssumption
      DEF CoreInv, TypeOK, C!ReaderState, L!AcceptorState, LockInv, PhaseInv, ListInv,
          Erased, ConnectionInv, LifeInv
  <1>1. CASE ReaderOnRead(c)
    BY <1>1 DEF ReaderOnRead, C!ReaderUnlocks
  <1>2. CASE ReaderOnDisconnectBase(c)
    BY <1>2 DEF ReaderOnDisconnectBase, C!ReaderUnlocks
  <1>3. CASE ReaderOnDisconnect(c)
    BY <1>3, PutInWorkInv
  <1>4. CASE ReaderUsesDestroyedWork(c)
    BY <1>4 DEF ReaderUsesDestroyedWork
  <1>5. CASE ReaderOnReadThrows(c)
    BY <1>5 DEF ReaderOnReadThrows
  <1> QED BY <1>1, <1>2, <1>3, <1>4, <1>5, ReaderCoreInv, ArrivesInv, PeerInv DEF ReaderStep, PeerActs

(* A step of the accepting thread. *)
LEMMA AcceptorInv ==
    ASSUME CoreInv, AcceptorStep
    PROVE  CoreInv'
  <1> USE ServerAssumption
      DEF CoreInv, TypeOK, C!ReaderState, L!AcceptorState, LockInv, PhaseInv, ListInv,
          Erased, ConnectionInv, LifeInv
  <1>1. CASE CreatesClient
    BY <1>1 DEF CreatesClient
  <1>2. CASE AcceptsIntoDestroyedServer
    BY <1>2 DEF AcceptsIntoDestroyedServer
  <1>3. CASE RegistersClient
    BY <1>3, RegistersClientInv
  <1>4. CASE GreetsClient
    BY <1>4 DEF GreetsClient, HasRemoteEndpoint
  <1>5. CASE GreetingThrows
    BY <1>5 DEF GreetingThrows
  <1> QED BY <1>1, <1>2, <1>3, <1>4, <1>5, AcceptorCoreInv DEF AcceptorStep

(* A step of the work thread. *)
LEMMA WorkerInv ==
    ASSUME CoreInv, WorkerStep
    PROVE  CoreInv'
  <1> USE ServerAssumption
      DEF CoreInv, TypeOK, C!ReaderState, L!AcceptorState, LockInv, PhaseInv, ListInv,
          Erased, ConnectionInv, LifeInv
  <1>1. CASE WorkerTop
    BY <1>1 DEF WorkerTop
  <1>2. CASE WorkerWakes
    BY <1>2 DEF WorkerWakes
  <1> QED BY <1>1, <1>2, WorkerErasesInv, WorkerDestroysInv, WorkerJoinsInv DEF WorkerStep

(* A step of main. *)
LEMMA MainInv ==
    ASSUME CoreInv, MainOpens \/ MainHasOpened \/ MainExits \/ Destructor
    PROVE  CoreInv'
  <1> USE ServerAssumption
      DEF CoreInv, TypeOK, C!ReaderState, L!AcceptorState, LockInv, PhaseInv, ListInv,
          Erased, ConnectionInv, LifeInv
  <1>1. CASE MainOpens
    BY <1>1 DEF MainOpens, L!OpenBegins
  <1>2. CASE MainHasOpened
    BY <1>2 DEF MainHasOpened, L!OpenSucceeds, L!AcceptorNotified
  <1>3. CASE MainExits
    BY <1>3 DEF MainExits
  <1>4. CASE MainThrows
    BY <1>4 DEF MainThrows
  <1>5. CASE MainJoinsWorker
    BY <1>5 DEF MainJoinsWorker
  <1>6. CASE MainJoinsAcceptor
    BY <1>6 DEF MainJoinsAcceptor
  <1> QED BY <1>1, <1>2, <1>3, <1>4, <1>5, <1>6, MainDisconnectsInv, BacklogDroppedInv,
            MainDestroysInv DEF Destructor

(* Every step keeps the invariant. *)
LEMMA StepInv == CoreInv /\ Next => CoreInv'
  BY ClientStepInv, AcceptorInv, WorkerInv, MainInv DEF Next

(* The program ends only for one of the known reasons. *)
LEMMA EndInv ==
    ASSUME CoreInv, Next
    PROVE  EndsForAKnownReason'
  <1> USE DEF CoreInv
  <1>1. process = "running"
    BY DEF Next
  <1> SUFFICES ASSUME process' # "running" PROVE EndsForAKnownReason'
    BY DEF EndsForAKnownReason
  <1>2. ASSUME NEW c \in Client, ReaderStep(c) PROVE EndsForAKnownReason'
    <2>1. CASE C!ReaderThrows(c) /\ UNCHANGED <<listenVars, smutex, apc, registryVars,
                                               workerVars, mainVars, lifeVars>>
      BY <2>1 DEF C!ReaderThrows, C!socketVars, ConnectionInv, EndsForAKnownReason,
                  ClosedUnderRead
    <2>2. CASE ReaderUsesDestroyedWork(c)
      BY <2>2 DEF ReaderUsesDestroyedWork, EndsForAKnownReason
    <2>4. CASE ReaderOnReadThrows(c)
      BY <2>4 DEF ReaderOnReadThrows, EndsForAKnownReason
    <2>3. C!ReaderCore(c) => C!ReaderThrows(c) \/ process' = process
      BY DEF C!ReaderCore, C!ReaderTop, C!ReaderWakes, C!ReaderFetchesHandle,
             C!ReaderReturns, C!ReaderGotData, C!ReaderDisconnects, C!ReaderIgnoresEof
    <2> QED BY <1>1, <1>2, <2>1, <2>2, <2>3, <2>4
            DEF ReaderStep, ReaderOnRead, ReaderOnDisconnectBase, ReaderOnDisconnect
  <1>3. CASE AcceptorStep
    <2>1. CASE GreetingThrows
      <3>1. accepted \in Client /\ rpc[accepted] # "none"
        BY <2>1 DEF GreetingThrows, PhaseInv, LifeInv
      <3>2. peer[accepted] # "open"
        BY <2>1, <3>1 DEF GreetingThrows, HasRemoteEndpoint, ConnectionInv
      <3> QED BY <2>1, <3>2 DEF GreetingThrows, EndsForAKnownReason
    <2>2. CASE AcceptsIntoDestroyedServer
      BY <2>2 DEF AcceptsIntoDestroyedServer, EndsForAKnownReason
    <2> QED BY <1>1, <1>3, <2>1, <2>2
            DEF AcceptorStep, CreatesClient, RegistersClient, GreetsClient
  <1>4. CASE WorkerStep
    BY <1>1, <1>4, WorkerErasesInv
    DEF WorkerStep, WorkerTop, WorkerWakes, WorkerDestroys, WorkerJoins
  <1>5. CASE Destructor
    <2>1. CASE MainThrows
      <3> DEFINE c == clients[mi]
      <3>1. c \in Client /\ Among(c, clients) /\ handle[c] = 0 /\ mutex[c] # Reader
        BY <2>1, ElementAmong DEF MainThrows, TypeOK
      <3>2. apc # "greeting" /\ ~MembersGone
        BY <2>1 DEF MainThrows, LockInv
      <3>3. Among(c, work)
        BY <3>1, <3>2 DEF ConnectionInv, LifeInv
      <3> QED BY <2>1, <3>1, <3>3 DEF MainThrows, EndsForAKnownReason, LeftBefore
    <2> QED BY <1>1, <1>5, <2>1
            DEF Destructor, MainDisconnects, MainCloses, MainJoinsWorker,
                MainDestroysClient, MainJoinsReader, MainStopsAccepting, MainJoinsAcceptor
  <1> QED BY <1>1, <1>2, <1>3, <1>4, <1>5
          DEF Next, PeerActs, C!PeerStep, C!PeerSends, C!PeerCloses, C!PeerResets, Arrives,
              MainOpens, MainHasOpened, MainExits

(* The invariant holds when the server has been constructed. *)
LEMMA InitInv == Init => CoreInv /\ EndsForAKnownReason
  <1> SUFFICES ASSUME Init PROVE CoreInv /\ EndsForAKnownReason
    OBVIOUS
  <1>0. inbox \in [Client -> 0..MaxInbox]
    <2>1. inbox = [c \in Client |-> 0] /\ MaxInbox \in Nat
      BY ServerAssumption DEF Init
    <2>2. 0 \in 0..MaxInbox
      BY <2>1
    <2> QED BY <2>1, <2>2
  <1>1. TypeOK
    <2>1. /\ accepted \in Client \cup {"none", "error", "einval"} /\ gone \subseteq Client
          /\ backlog \in Seq(Client) /\ clients \in Seq(Client) /\ work \in Seq(Client)
      BY EmptyList DEF Init, L!Init
    <2>2. handle \in [Client -> 0..1] /\ seen \in [Client -> 0..1]
      BY DEF Init
    <2>3. stopReading \in [Client -> BOOLEAN] /\ derived \in [Client -> BOOLEAN]
      BY DEF Init
    <2>4. mutex \in [Client -> {Free, Reader}] /\ rpc \in [Client -> C!ReaderState]
      BY DEF Init, C!ReaderState
    <2>5. result \in [Client -> {"none", "data", "eof", "error"}]
      BY DEF Init
    <2>6. peer \in [Client -> {"none", "open", "closed", "reset"}]
      BY DEF Init
    <2>7. /\ listener \in 0..1 /\ opens \in 0..1 /\ aseen \in 0..1
          /\ wpc = "top" /\ mpc = "idle" /\ wi \in Nat \ {0} /\ mi \in Nat \ {0}
      BY DEF Init, L!Init
    <2>8. stopAccepting \in BOOLEAN /\ stopWork \in BOOLEAN
      BY DEF Init, L!Init
    <2>9. process = "running" /\ smutex = Free /\ apc \in L!AcceptorState
      BY DEF Init, L!Init, L!AcceptorState
    <2> QED BY <1>0, <2>1, <2>2, <2>3, <2>4, <2>5, <2>6, <2>7, <2>8, <2>9
           DEF TypeOK
  <1> USE EmptyList DEF Init, L!Init
  <1>2. LockInv /\ PhaseInv
    BY ServerAssumption DEF LockInv, PhaseInv
  <1>3. ListInv
    BY DEF ListInv
  <1>4. ASSUME NEW c \in Client PROVE ConnectionInv(c) /\ LifeInv(c)
    BY <1>4, ServerAssumption DEF ConnectionInv, LifeInv
  <1>5. EndsForAKnownReason
    BY DEF EndsForAKnownReason
  <1> QED BY <1>1, <1>2, <1>3, <1>4, <1>5 DEF CoreInv

(* The invariant is inductive. *)
THEOREM Inductive == Spec => []IInv
  <1>1. Init => IInv
    BY InitInv DEF IInv
  <1>2. IInv /\ [Next]_vars => IInv'
    <2>1. IInv /\ Next => IInv'
      BY StepInv, EndInv DEF IInv
    <2>2. IInv /\ UNCHANGED vars => IInv'
      <3> SUFFICES ASSUME IInv, UNCHANGED vars PROVE IInv'
        OBVIOUS
      <3> USE DEF IInv, CoreInv, vars
      <3>1. TypeOK' /\ LockInv' /\ PhaseInv' /\ ListInv'
        BY DEF TypeOK, LockInv, PhaseInv, ListInv, Erased
      <3>2. ASSUME NEW c \in Client PROVE ConnectionInv(c)' /\ LifeInv(c)'
        BY DEF ConnectionInv, LifeInv
      <3>3. EndsForAKnownReason'
        BY DEF EndsForAKnownReason, LeftBefore, ClosedUnderRead
      <3> QED BY <3>1, <3>2, <3>3
    <2> QED BY <2>1, <2>2
  <1> QED BY <1>1, <1>2, PTL DEF Spec

-----------------------------------------------------------------------------
(* Every variable keeps its type; in particular nobody but its reading     *)
(* thread is left with the mutex of a client from one step to the next.    *)
THEOREM TypeCorrect == Spec => []TypeOK
  <1>1. IInv => TypeOK
    BY DEF IInv, CoreInv
  <1> QED BY Inductive, <1>1, PTL

(* Whenever the server's mutex can be taken, Work holds clients that are   *)
(* in Clients, each once: find_if finds the client and erase removes it.   *)
THEOREM WorkRegistered == Spec => []WorkIsRegistered
  <1>1. IInv => WorkIsRegistered
    BY DEF IInv, CoreInv, LockInv, ListInv, Erased, NoDuplicates, WorkIsRegistered
  <1> QED BY Inductive, <1>1, PTL

(* A client that has been destroyed is not in Clients, its reading thread  *)
(* is over, and nobody has its mutex.                                      *)
THEOREM DestroyedUnreachable == Spec => []DestroyedIsUnreachable
  <1>1. IInv => DestroyedIsUnreachable
    BY DEF IInv, CoreInv, TypeOK, ConnectionInv, LifeInv, DestroyedIsUnreachable
  <1> QED BY Inductive, <1>1, PTL

(* The reading thread that the work thread joins, with the server's mutex  *)
(* held, is past its OnDisconnect and never needs that mutex again.        *)
THEOREM JoinIsSafe == Spec => []JoinNeedsNoServerMutex
  <1>1. IInv => JoinNeedsNoServerMutex
    <2> SUFFICES ASSUME CoreInv, wpc \in {"destroying", "joining"}
                 PROVE  rpc[work[wi]] # "onDisconnect" /\ handle[work[wi]] = 0
      BY DEF IInv, JoinNeedsNoServerMutex
    <2> QED BY BeingDestroyed
  <1> QED BY Inductive, <1>1, PTL

(* The server ends by an exception or by undefined behaviour only in the   *)
(* ways that EndsForAKnownReason lists, however many clients there are.    *)
THEOREM KnownEnds == Spec => []EndsForAKnownReason
  <1>1. IInv => EndsForAKnownReason
    BY DEF IInv
  <1> QED BY Inductive, <1>1, PTL

-----------------------------------------------------------------------------
(* The server implements the abstract registry of clients, for any number  *)
(* of them.  Seven kinds of steps move one client from one stage of its    *)
(* life to the next, one closes the registry, and all others leave it as   *)
(* it is.  That the guards of the registry hold then is what the invariant *)
(* is for.                                                                 *)
USE DEF clientVars, listenVars, registryVars, workerVars, mainVars, lifeVars,
        C!connVars, C!readerVars, L!listenVars, L!acceptorVars, Free, Acceptor, Worker,
        Main, Reader, MembersGone

(* What tells whether a client is being destroyed. *)
Destroying == wpc \in {"destroying", "joining"}
JoiningAtExit == mpc = "joinReader"

(* The lists and the place of the threads that destroy clients stay. *)
Quiet ==
    /\ UNCHANGED <<clients, work, gone>>
    /\ (Destroying <=> Destroying') /\ (Destroying => wi' = wi)
    /\ (JoiningAtExit <=> JoiningAtExit')

(* A client that the work thread is destroying has not been destroyed yet. *)
DestroyedOnce == Destroying => work[wi] \notin gone

-----------------------------------------------------------------------------
(* A quiet step leaves every client where it is in its life. *)
LEMMA QuietLife ==
    ASSUME Quiet
    PROVE  \A c : Life(c)' = Life(c)
  <1> SUFFICES ASSUME NEW c PROVE Life(c)' = Life(c)
    OBVIOUS
  <1>1. Ending(c)' <=> Ending(c)
    BY DEF Quiet, Destroying, JoiningAtExit, Ending
  <1>2. (Among(c, clients)' <=> Among(c, clients)) /\ (Among(c, work)' <=> Among(c, work))
    BY DEF Quiet, Among
  <1> QED BY <1>1, <1>2 DEF Quiet, Life

(* A step that moves one client and no other is what the registry calls    *)
(* becoming.                                                               *)
LEMMA OneBecomes ==
    ASSUME NEW c \in Client, NEW stage, Life(c)' = stage,
           \A x \in Client : x # c => Life(x)' = Life(x)
    PROVE  Registry!Becomes(c, stage)
  BY DEF Registry!Becomes

(* Nobody is being destroyed when neither the work thread nor main does.   *)
LEMMA NobodyEnding ==
    ASSUME ~Destroying, ~JoiningAtExit
    PROVE  Registry!NobodyEnds /\ \A c : ~Ending(c)
  BY DEF Destroying, JoiningAtExit, Ending, Life, Registry!NobodyEnds

(* OnAccept registers a client that is new. *)
LEMMA Registers ==
    ASSUME CoreInv, RegistersClient
    PROVE  Registry!Register(accepted) /\ UNCHANGED MembersGone
  <1> USE DEF RegistersClient, CoreInv
  <1>1. /\ accepted \in Client /\ ~Among(accepted, clients) /\ ~MembersGone
        /\ ~Destroying /\ ~JoiningAtExit /\ accepted \notin gone
        /\ \A k \in 1..Len(work) : ~Erased(k)
    BY DEF TypeOK, LockInv, PhaseInv, LifeInv, Erased, Destroying, JoiningAtExit
  <1>2. ~Among(accepted, work)
    BY <1>1 DEF ListInv, Among
  <1>3. \A x : Among(x, clients') <=> Among(x, clients) \/ x = accepted
    BY <1>1, AppendToList DEF TypeOK
  <1>4. /\ UNCHANGED <<work, gone, mpc>> /\ ~Destroying' /\ ~JoiningAtExit'
    BY <1>1 DEF Destroying, JoiningAtExit
  <1>5. \A c : ~Ending(c) /\ ~Ending(c)'
    BY <1>1, <1>4 DEF Destroying, JoiningAtExit, Ending
  <1>6. Life(accepted) = "new" /\ Life(accepted)' = "registered"
    BY <1>1, <1>2, <1>3, <1>4, <1>5 DEF Life
  <1>7. \A x \in Client : x # accepted => Life(x)' = Life(x)
    BY <1>3, <1>4, <1>5 DEF Life
  <1> QED BY <1>1, <1>4, <1>6, <1>7, OneBecomes, NobodyEnding DEF Registry!Register

(* Work gets a registered client that was not in it: the client leaves.    *)
LEMMA Leaves ==
    ASSUME CoreInv, NEW c \in Client, work' = Append(work, c),
           Among(c, clients), ~Among(c, work), ~MembersGone, ~Destroying, ~Destroying',
           UNCHANGED <<clients, gone, mpc>>
    PROVE  Registry!Leave(c) /\ UNCHANGED MembersGone
  <1> USE DEF CoreInv
  <1>1. c \notin gone /\ ~JoiningAtExit /\ ~JoiningAtExit'
    BY DEF LifeInv, JoiningAtExit
  <1>2. \A x : Among(x, work') <=> Among(x, work) \/ x = c
    BY AppendToList DEF TypeOK
  <1>3. \A x : ~Ending(x) /\ ~Ending(x)'
    BY <1>1 DEF Destroying, JoiningAtExit, Ending
  <1>4. Life(c) = "registered" /\ Life(c)' = "left"
    BY <1>1, <1>2, <1>3 DEF Life
  <1>5. \A x \in Client : x # c => Life(x)' = Life(x)
    BY <1>2, <1>3 DEF Life
  <1> QED BY <1>1, <1>4, <1>5, OneBecomes, NobodyEnding DEF Registry!Leave

(* A client leaves when its reading thread runs OnDisconnect, or when main *)
(* disconnects it at exit.                                                 *)
LEMMA ReaderLeaves ==
    ASSUME CoreInv, NEW c \in Client, ReaderOnDisconnect(c)
    PROVE  Registry!Leave(c) /\ UNCHANGED MembersGone
  <1>1. /\ Among(c, clients) /\ ~Among(c, work) /\ ~MembersGone
        /\ ~Destroying /\ ~Destroying'
    BY DEF CoreInv, ReaderOnDisconnect, WorkerNotified, LockInv, LifeInv, Destroying
  <1>2. work' = Append(work, c) /\ UNCHANGED <<clients, gone, mpc>>
    BY DEF ReaderOnDisconnect
  <1> QED BY <1>1, <1>2, Leaves

LEMMA MainLeaves ==
    ASSUME CoreInv, MainDisconnects
    PROVE  \E c \in Client : Registry!Leave(c) /\ UNCHANGED MembersGone
  <1>0. PICK c \in Client : c = clients[mi]
    BY DEF CoreInv, TypeOK, MainDisconnects
  <1>1. /\ Among(c, clients) /\ handle[c] # 0
        /\ work' = Append(work, c) /\ UNCHANGED <<clients, gone, mpc>>
    BY <1>0, ElementAmong DEF CoreInv, TypeOK, MainDisconnects
  <1>2. ~MembersGone /\ ~Destroying /\ ~Destroying'
    BY DEF CoreInv, MainDisconnects, WorkerNotified, LockInv, Destroying
  <1>3. ~Among(c, work)
    BY <1>1 DEF CoreInv, LifeInv
  <1> QED BY <1>1, <1>2, <1>3, Leaves

-----------------------------------------------------------------------------
(* The work thread takes a client that has left out of the registry.       *)
LEMMA WorkerBegins ==
    ASSUME CoreInv, WorkerErases
    PROVE  \E c \in Client : Registry!DestructionBegins(c) /\ UNCHANGED MembersGone
  <1>0. PICK c \in Client : c = work[wi]
    BY ErasesTheClient
  <1>1. /\ ~MembersGone /\ Among(c, clients) /\ Among(c, work)
        /\ wpc = "erasing" /\ wpc' = "destroying" /\ UNCHANGED <<work, wi, gone, mpc>>
        /\ \A x : Among(x, clients') <=> Among(x, clients) /\ x # c
    BY <1>0, ErasesTheClient, ElementAmong
  <1>2. c \notin gone /\ ~Destroying /\ ~JoiningAtExit /\ ~JoiningAtExit'
    BY <1>1 DEF CoreInv, LifeInv, Destroying, JoiningAtExit
  <1>3. \A x : ~Ending(x) /\ (Ending(x)' <=> x = c)
    BY <1>0, <1>1, <1>2 DEF Ending, JoiningAtExit
  <1>4. Life(c) = "left" /\ Life(c)' = "ending"
    BY <1>1, <1>2, <1>3 DEF Life
  <1>5. \A x \in Client : x # c => Life(x)' = Life(x)
    BY <1>1, <1>3 DEF Life
  <1> QED BY <1>1, <1>2, <1>4, <1>5, OneBecomes, NobodyEnding DEF Registry!DestructionBegins

(* The join in the client's destructor ends, and with the last client that *)
(* is in it Work is cleared: none of them is registered any more.          *)
LEMMA WorkerEnds ==
    ASSUME CoreInv, DestroyedOnce, WorkerJoins
    PROVE  \E c \in Client : Registry!DestructionEnds(c) /\ UNCHANGED MembersGone
  <1>0. PICK c \in Client : c = work[wi]
    BY BeingDestroyed DEF WorkerJoins
  <1>1. /\ wi \in 1..Len(work) /\ ~MembersGone
        /\ ~Among(c, clients) /\ Destroying /\ ~Destroying'
        /\ UNCHANGED <<clients, mpc>> /\ gone' = gone \cup {c}
    BY <1>0, BeingDestroyed DEF WorkerJoins, Destroying
  <1>2. ~JoiningAtExit /\ ~JoiningAtExit'
    BY <1>1 DEF JoiningAtExit
  <1>3. \A x : (Ending(x) <=> x = c) /\ ~Ending(x)'
    BY <1>0, <1>1, <1>2 DEF Ending, JoiningAtExit, Destroying
  <1>4. \A x : Among(x, clients) => (Among(x, work') <=> Among(x, work))
    <2>1. CASE wi < Len(work)
      BY <2>1 DEF WorkerJoins
    <2>2. CASE wi = Len(work)
      <3>1. work' = <<>> /\ \A x : ~Among(x, <<>>)
        BY <2>2, EmptyList DEF WorkerJoins
      <3>2. ASSUME NEW k \in 1..Len(work) PROVE ~Among(work[k], clients)
        BY <1>1, <2>2 DEF CoreInv, ListInv, Erased, WorkerJoins
      <3>3. \A x : Among(x, clients) => ~Among(x, work)
        BY <3>2 DEF Among
      <3> QED BY <3>1, <3>3
    <2>3. wi < Len(work) \/ wi = Len(work)
      BY <1>1
    <2> QED BY <2>1, <2>2, <2>3
  <1>5. c \notin gone
    BY <1>0, <1>1 DEF DestroyedOnce
  <1>6. Life(c) = "ending" /\ Life(c)' = "destroyed"
    BY <1>1, <1>3, <1>5 DEF Life
  <1>7. \A x \in Client : x # c => Life(x)' = Life(x)
    BY <1>1, <1>3, <1>4 DEF Life
  <1> QED BY <1>1, <1>6, <1>7, OneBecomes DEF Registry!DestructionEnds

-----------------------------------------------------------------------------
(* At exit main closes the registry when the work thread is over.          *)
LEMMA RegistryCloses ==
    ASSUME CoreInv, MainJoinsWorker
    PROVE  Registry!Close
  <1>1. /\ ~Destroying /\ ~Destroying' /\ ~JoiningAtExit /\ ~JoiningAtExit'
        /\ ~MembersGone /\ MembersGone' /\ UNCHANGED <<clients, work, gone>>
    BY DEF MainJoinsWorker, Destroying, JoiningAtExit
  <1>2. \A c : Life(c)' = Life(c)
    BY <1>1, QuietLife DEF Quiet
  <1> QED BY <1>1, <1>2, NobodyEnding DEF Registry!Close

(* Then it destroys the clients that are still registered, one at a time.  *)
LEMMA MainBegins ==
    ASSUME CoreInv, MainDestroysClient
    PROVE  \E c \in Client : Registry!DestructionBegins(c) /\ UNCHANGED MembersGone
  <1>0. PICK c \in Client : c = Head(clients)
    BY TailOfList DEF CoreInv, TypeOK, ListInv, MainDestroysClient
  <1>1. /\ Among(c, clients) /\ MembersGone /\ MembersGone'
        /\ ~JoiningAtExit /\ JoiningAtExit' /\ UNCHANGED <<clients, work, gone, wpc>>
    BY <1>0, TailOfList DEF CoreInv, TypeOK, ListInv, MainDestroysClient, JoiningAtExit
  <1>2. c \notin gone /\ ~Destroying /\ ~Destroying'
    BY <1>1 DEF CoreInv, PhaseInv, LifeInv, Destroying
  <1>3. \A x : ~Ending(x) /\ (Ending(x)' <=> x = c)
    BY <1>0, <1>1, <1>2 DEF Ending, JoiningAtExit, Destroying
  <1>4. Life(c) \in {"left", "registered"} /\ Life(c)' = "ending"
    BY <1>1, <1>2, <1>3 DEF Life
  <1>5. \A x \in Client : x # c => Life(x)' = Life(x)
    BY <1>1, <1>3 DEF Life
  <1> QED BY <1>1, <1>2, <1>4, <1>5, OneBecomes, NobodyEnding
          DEF Registry!DestructionBegins

(* The join in that client's destructor ends. *)
LEMMA MainEnds ==
    ASSUME CoreInv, MainJoinsReader
    PROVE  \E c \in Client : Registry!DestructionEnds(c) /\ UNCHANGED MembersGone
  <1>0. PICK c \in Client : c = Head(clients)
    BY TailOfList DEF CoreInv, TypeOK, ListInv, PhaseInv, MainJoinsReader
  <1>1. /\ Among(c, clients) /\ MembersGone /\ MembersGone'
        /\ JoiningAtExit /\ ~JoiningAtExit' /\ UNCHANGED <<work, wpc>>
        /\ gone' = gone \cup {c}
        /\ \A x : Among(x, clients') <=> Among(x, clients) /\ x # c
    BY <1>0, TailOfList DEF CoreInv, TypeOK, ListInv, PhaseInv, MainJoinsReader, JoiningAtExit
  <1>2. c \notin gone /\ ~Destroying /\ ~Destroying'
    BY <1>1 DEF CoreInv, PhaseInv, LifeInv, Destroying
  <1>3. \A x : (Ending(x) <=> x = c) /\ ~Ending(x)'
    BY <1>0, <1>1, <1>2 DEF Ending, JoiningAtExit, Destroying
  <1>4. Life(c) = "ending" /\ Life(c)' = "destroyed"
    BY <1>1, <1>2, <1>3 DEF Life
  <1>5. \A x \in Client : x # c => Life(x)' = Life(x)
    BY <1>1, <1>3 DEF Life
  <1> QED BY <1>1, <1>4, <1>5, OneBecomes DEF Registry!DestructionEnds

-----------------------------------------------------------------------------
(* The steps that the registry sees. *)
ChangesRegistry ==
    \/ RegistersClient
    \/ \E c \in Client : ReaderOnDisconnect(c)
    \/ WorkerErases \/ WorkerJoins
    \/ MainDisconnects \/ MainJoinsWorker \/ MainDestroysClient \/ MainJoinsReader

(* No other step changes the lists or destroys a client.                   *)
LEMMA OthersAreQuiet ==
    ASSUME CoreInv, Next, ~ChangesRegistry
    PROVE  Quiet /\ UNCHANGED MembersGone
  <1> USE DEF Quiet, Destroying, JoiningAtExit, ChangesRegistry
  <1>1. ASSUME NEW c \in Client, ReaderStep(c) \/ Arrives(c) \/ PeerActs(c)
        PROVE  Quiet /\ UNCHANGED MembersGone
    BY <1>1 DEF ReaderStep, ReaderOnRead, ReaderOnReadThrows, ReaderOnDisconnectBase,
       ReaderUsesDestroyedWork, Arrives, PeerActs
  <1>2. CASE AcceptorStep
    BY <1>2 DEF AcceptorStep, CreatesClient, AcceptsIntoDestroyedServer, GreetsClient,
       GreetingThrows
  <1>3. CASE WorkerTop \/ WorkerWakes \/ WorkerDestroys
    BY <1>3 DEF WorkerTop, WorkerWakes, WorkerDestroys
  <1>4. CASE MainOpens \/ MainHasOpened \/ MainExits \/ MainThrows \/ MainCloses
    BY <1>4 DEF MainOpens, MainHasOpened, MainExits, MainThrows, MainCloses,
       WorkerNotified, L!OpenSucceeds
  <1>5. CASE MainStopsAccepting \/ MainJoinsAcceptor
    BY <1>5 DEF MainStopsAccepting, MainJoinsAcceptor
  <1> QED BY <1>1, <1>2, <1>3, <1>4, <1>5 DEF Next, WorkerStep, Destructor

(* No client is destroyed twice. *)
LEMMA DestroyedOnceInv ==
    ASSUME CoreInv, DestroyedOnce, Next
    PROVE  DestroyedOnce'
  <1>1. CASE ~ChangesRegistry
    BY <1>1, OthersAreQuiet DEF Quiet, DestroyedOnce, Destroying
  <1>2. CASE WorkerErases
    BY <1>2, ErasesTheClient DEF CoreInv, LifeInv, DestroyedOnce
  <1>3. CASE ChangesRegistry /\ ~WorkerErases
    <2>1. ~Destroying'
      BY <1>3 DEF CoreInv, LockInv, PhaseInv, Destroying, ChangesRegistry, RegistersClient,
         ReaderOnDisconnect, WorkerNotified, WorkerJoins, MainDisconnects, MainJoinsWorker,
         MainDestroysClient, MainJoinsReader
    <2> QED BY <2>1 DEF DestroyedOnce
  <1> QED BY <1>1, <1>2, <1>3

(* Every step is one of the registry or leaves it as it is. *)
LEMMA RegistryStep ==
    ASSUME CoreInv, DestroyedOnce, Next
    PROVE  Registry!Next \/ UNCHANGED Registry!registryVars
  <1>1. CASE ~ChangesRegistry
    BY <1>1, OthersAreQuiet, QuietLife DEF Registry!registryVars
  <1>2. CASE MainJoinsWorker
    BY <1>2, RegistryCloses DEF Registry!Next
  <1>3. CASE ChangesRegistry /\ ~MainJoinsWorker
    <2>1. \E c \in Client :
            /\ \/ Registry!Register(c) \/ Registry!Leave(c)
               \/ Registry!DestructionBegins(c) \/ Registry!DestructionEnds(c)
            /\ UNCHANGED MembersGone
      <3>1. RegistersClient => accepted \in Client
        BY DEF CoreInv, PhaseInv, RegistersClient
      <3> QED BY <1>3, <3>1, Registers, ReaderLeaves, MainLeaves, WorkerBegins,
                 WorkerEnds, MainBegins, MainEnds DEF ChangesRegistry
    <2> QED BY <2>1 DEF Registry!Next
  <1> QED BY <1>1, <1>2, <1>3

(* The server implements the registry: clients are registered once, leave  *)
(* at most once, are destroyed once and (but at exit) only after they have *)
(* left, and the lists rest while a client is being destroyed.             *)
THEOREM Refinement == Spec => ImplementsRegistry
  <1>1. Init => DestroyedOnce /\ Registry!Init
    <2> SUFFICES ASSUME Init PROVE DestroyedOnce /\ Registry!Init
      OBVIOUS
    <2>1. ~Destroying /\ ~JoiningAtExit /\ clients = <<>> /\ gone = {} /\ ~MembersGone
      BY DEF Init, L!Init, Destroying, JoiningAtExit
    <2>2. \A c \in Client : Life(c) = "new"
      BY <2>1, EmptyList DEF Life, Ending, Destroying, JoiningAtExit
    <2> QED BY <2>1, <2>2 DEF DestroyedOnce, Registry!Init
  <1>2. IInv /\ DestroyedOnce /\ [Next]_vars => DestroyedOnce'
    <2>1. IInv /\ DestroyedOnce /\ Next => DestroyedOnce'
      BY DestroyedOnceInv DEF IInv
    <2>2. DestroyedOnce /\ UNCHANGED vars => DestroyedOnce'
      BY DEF DestroyedOnce, Destroying, vars
    <2> QED BY <2>1, <2>2
  <1>3. IInv /\ DestroyedOnce /\ [Next]_vars => [Registry!Next]_(Registry!registryVars)
    <2>1. IInv /\ DestroyedOnce /\ Next => Registry!Next \/ UNCHANGED Registry!registryVars
      BY RegistryStep DEF IInv
    <2>2. UNCHANGED vars => UNCHANGED Registry!registryVars
      <3> SUFFICES ASSUME UNCHANGED vars PROVE UNCHANGED Registry!registryVars
        OBVIOUS
      <3>1. Quiet /\ UNCHANGED MembersGone
        BY DEF vars, Quiet, Destroying, JoiningAtExit
      <3> QED BY <3>1, QuietLife DEF Registry!registryVars
    <2> QED BY <2>1, <2>2
  <1> QED BY Inductive, <1>1, <1>2, <1>3, PTL DEF Spec, ImplementsRegistry, Registry!Spec
=============================================================================
