-------------------------------- MODULE Relay --------------------------------
(***************************************************************************)
(* The three programs together: clients that send what their users type, a *)
(* process server that answers each message and passes it on, and a visual *)
(* server that shows it.  Every frame is sent by two calls of Send, its    *)
(* length and its text, here two parts; a connection holds at most         *)
(* Capacity parts in each direction, and send() blocks when it is full.    *)
(*                                                                         *)
(* A client has two threads: main, which holds the socket's mutex while it *)
(* is in send(), and the reading thread, which needs it for what it has    *)
(* read.  In the process server each client has a reading thread, which    *)
(* handles a whole message with the mutex of its own socket held, but      *)
(* takes the mutex of the one upstream socket for each Send by itself.     *)
(* Accepting, leaving, removing and exit need the mutex of the server.     *)
(***************************************************************************)
EXTENDS Naturals, Sequences

CONSTANTS
    Client,         \* the client programs
    Limits,         \* bounds on what users do, one of which is chosen
    MaxMessages,    \* the most messages of a client in Limits
    Capacity,       \* parts that fit in one direction of a connection
    None            \* no part, no message

(* A line is sent between quotes as it is (Client/main.cpp:26), and json's *)
(* parser throws in the process server at an "illegal" one: a quote, a     *)
(* control character, bytes that are not UTF-8 or a number beyond double   *)
(* can make it so (Message.tla).  The text of an "escape" makes it throw   *)
(* in the visual server: a quote or a backslash, that was escaped.         *)
TextKind == {"plain", "illegal", "escape"}

Message == [from : Client, n : Nat, text : TextKind]
Part == [of : Message, part : {"len", "text"}]

(* A limit says which clients are there, the others having left before,    *)
(* how many messages the user of each types, of which kinds, and how many  *)
(* programs are ended by their users.                                      *)
ASSUME RelayAssumption ==
    /\ Capacity \in Nat \ {0} /\ MaxMessages \in Nat
    /\ None \notin Message /\ None \notin Part /\ None \notin Client
    /\ \A l \in Limits :
          /\ l.here \subseteq Client
          /\ l.messages \in [Client -> 0..MaxMessages]
          /\ l.text \subseteq TextKind /\ l.exits \in Nat

VARIABLES
    typed,      \* the messages each client's user has typed
    cmain,      \* where the main thread of each client is
    cgot,       \* the part the client's reading thread has read, or None
    answers,    \* history: the messages whose answer each client has shown
    cend,       \* the client's end of its connection: "open" or "closed"
    req,        \* parts on their way from each client
    ans         \* parts on their way to each client

VARIABLES
    pend,       \* the process server's end: "open" or "closed"
    prd,        \* where the reading thread of each client's socket is; "backlog"
                \* before the client is accepted, "gone" when it is removed
    cur,        \* the message it has read or handles, or None
    dropped,    \* history: the clients of which a part was dropped unread
    accepted,   \* the client the accepting thread makes a socket for or greets
    pmain,      \* where the main thread of the process server is
    process,    \* "running", or how the process server has ended
    uend,       \* its end of the upstream connection
    up,         \* parts on their way to the visual server
    passed,     \* history: messages passed on, in the order of their texts
    crossed     \* history: a Send came between the two Sends of a message

VARIABLES
    vend,       \* the visual server's end, "closed" when it has ended
    vlen,       \* the message whose length it has read, or None
    shown,      \* history: the messages it has shown
    lost,       \* it has taken other bytes for a message or a length
    exits,      \* how many users have ended their programs
    limit       \* the bounds of this behaviour

clientVars == <<typed, cmain, cgot, answers>>
upVars == <<uend, up, passed, crossed>>
visualVars == <<vend, vlen, shown, lost, exits, limit>>
mainVars == <<dropped, accepted, pmain, process>>
serverVars == <<prd, cur, mainVars>>
vars == <<clientVars, cend, pend, req, ans, serverVars, upVars, visualVars>>

Running == process = "running"
UserExits == exits < limit.exits /\ exits' = exits + 1 /\ UNCHANGED limit
Room(link) == Len(link) < Capacity

-----------------------------------------------------------------------------
Init ==
    /\ typed = [c \in Client |-> <<>>]
    /\ limit \in Limits
    /\ cmain = [c \in Client |-> IF c \in limit.here THEN "typing" ELSE "exited"]
    /\ cgot = [c \in Client |-> None]
    /\ answers = [c \in Client |-> <<>>]
    /\ cend = [c \in Client |-> IF c \in limit.here THEN "open" ELSE "closed"]
    /\ pend = cend
    /\ req = [c \in Client |-> <<>>] /\ ans = [c \in Client |-> <<>>]
    /\ prd = [c \in Client |-> IF c \in limit.here THEN "backlog" ELSE "gone"]
    /\ cur = [c \in Client |-> None] /\ dropped = {} /\ accepted = None
    /\ pmain = "serving" /\ process = "running"
    /\ uend = "open" /\ up = <<>> /\ passed = <<>> /\ crossed = FALSE
    /\ vend = "open" /\ vlen = None /\ shown = <<>> /\ lost = FALSE
    /\ exits = 0

-----------------------------------------------------------------------------
(* A client.  Its main thread goes from "typing" to "sendingLen", with the *)
(* mutex, to "text", without it, to "sendingText" and back to "typing".    *)

HasMutex(c) == cmain[c] \in {"sendingLen", "sendingText"}
MainGoes(c, to) == cmain' = [cmain EXCEPT ![c] = to]

Types(c, text) ==
    /\ cmain[c] = "typing" /\ cend[c] = "open"
    /\ Len(typed[c]) < limit.messages[c]
    /\ typed' = [typed EXCEPT ![c] =
                   Append(@, [from |-> c, n |-> Len(@) + 1, text |-> text])]
    /\ MainGoes(c, "sendingLen")
    /\ UNCHANGED <<cgot, answers, cend, pend, req, ans, serverVars, upVars, visualVars>>

SecondSendBegins(c) ==
    /\ cmain[c] = "text" /\ cend[c] = "open"
    /\ MainGoes(c, "sendingText")
    /\ UNCHANGED <<typed, cgot, answers, cend, pend, req, ans, serverVars, upVars, visualVars>>

(* A send() that does not wait for room. *)
MutSendEnds(c) ==
    LET part == IF cmain[c] = "sendingLen" THEN "len" ELSE "text"
        message == typed[c][Len(typed[c])]
    IN
    /\ HasMutex(c)
    /\ req' = [req EXCEPT ![c] = Append(@, [of |-> message, part |-> part])]
    /\ MainGoes(c, IF part = "len" THEN "text" ELSE "typing")
    /\ UNCHANGED <<typed, cgot, answers, cend, pend, ans, serverVars, upVars, visualVars>>

(* The server's end being closed, what is sent is lost.                    *)
SendEnds(c) ==
    LET part == IF cmain[c] = "sendingLen" THEN "len" ELSE "text"
        message == typed[c][Len(typed[c])]
    IN
    /\ HasMutex(c)
    /\ pend[c] = "open" => Room(req[c])
    /\ req' = IF pend[c] = "closed" THEN req
              ELSE [req EXCEPT ![c] = Append(@, [of |-> message, part |-> part])]
    /\ MainGoes(c, IF part = "len" THEN "text" ELSE "typing")
    /\ UNCHANGED <<typed, cgot, answers, cend, pend, ans, serverVars, upVars, visualVars>>

(* The end of the program: the user types exit, the loop or Send finds the *)
(* socket disconnected, or send() to a closed connection raises SIGPIPE.   *)
(* Closing with answers unread may reset the connection.                   *)
ClientEnds(c) ==
    /\ \/ cmain[c] = "typing" /\ UserExits
       \/ /\ \/ cmain[c] # "exited" /\ cend[c] = "closed"
             \/ HasMutex(c) /\ pend[c] = "closed"
          /\ UNCHANGED <<exits, limit>>
    /\ MainGoes(c, "exited")
    /\ cend' = [cend EXCEPT ![c] = "closed"]
    /\ cgot' = [cgot EXCEPT ![c] = None]
    /\ \E r \in {req[c], IF ans[c] # <<>> THEN <<>> ELSE req[c]} :
          req' = [req EXCEPT ![c] = r]
    /\ ans' = [ans EXCEPT ![c] = <<>>]
    /\ UNCHANGED <<typed, answers, pend, serverVars, upVars, vend, vlen, shown, lost>>

(* The reading thread of the client. *)
ClientReads(c) ==
    /\ cmain[c] # "exited" /\ cend[c] = "open" /\ cgot[c] = None
    /\ ans[c] # <<>>
    /\ cgot' = [cgot EXCEPT ![c] = Head(ans[c])]
    /\ ans' = [ans EXCEPT ![c] = Tail(@)]
    /\ UNCHANGED <<typed, cmain, answers, cend, pend, req, serverVars, upVars, visualVars>>

(* Without LG.lock() behind the read(). *)
MutClientShows(c) ==
    /\ cgot[c] # None
    /\ answers' = [answers EXCEPT ![c] =
                     IF cgot[c].part = "text" THEN Append(@, cgot[c].of) ELSE @]
    /\ cgot' = [cgot EXCEPT ![c] = None]
    /\ UNCHANGED <<typed, cmain, cend, pend, req, ans, serverVars, upVars, visualVars>>

(* With the mutex, up to the next read(); an answer is shown when its text *)
(* is there.                                                               *)
ClientShows(c) ==
    /\ cgot[c] # None /\ ~HasMutex(c)
    /\ answers' = [answers EXCEPT ![c] =
                     IF cgot[c].part = "text" THEN Append(@, cgot[c].of) ELSE @]
    /\ cgot' = [cgot EXCEPT ![c] = None]
    /\ UNCHANGED <<typed, cmain, cend, pend, req, ans, serverVars, upVars, visualVars>>

ClientDisconnects(c) ==
    /\ cmain[c] # "exited" /\ cend[c] = "open" /\ cgot[c] = None /\ ~HasMutex(c)
    /\ pend[c] = "closed" /\ ans[c] = <<>>
    /\ cend' = [cend EXCEPT ![c] = "closed"]
    /\ UNCHANGED <<clientVars, pend, req, ans, serverVars, upVars, visualVars>>

ClientReader(c) == ClientReads(c) \/ ClientShows(c) \/ ClientDisconnects(c)

-----------------------------------------------------------------------------
(* The process server: the reading thread of the socket of client c.  It   *)
(* holds the mutex of that socket from "answerLen" to the end of passText. *)

ReaderGoes(c, to) == prd' = [prd EXCEPT ![c] = to]

Ends(how) ==
    /\ process' = how
    /\ UNCHANGED <<prd, cur, dropped, accepted, pmain, clientVars, cend, pend, req, ans, upVars,
                   visualVars>>

(* A length alone is kept by StandartParser; a text is handled, once the   *)
(* mutex is there.                                                         *)
ServerReads(c) ==
    /\ prd[c] = "read" /\ req[c] # <<>> /\ pend[c] = "open"
    /\ req' = [req EXCEPT ![c] = Tail(@)]
    /\ IF Head(req[c]).part = "len"
       THEN UNCHANGED <<prd, cur>>
       ELSE ReaderGoes(c, "got") /\ cur' = [cur EXCEPT ![c] = Head(req[c]).of]
    /\ UNCHANGED <<clientVars, cend, pend, ans, mainVars, upVars, visualVars>>

ServerHandles(c) ==
    /\ prd[c] = "got" /\ cur[c].text # "illegal"
    /\ ReaderGoes(c, "answerLen")
    /\ UNCHANGED <<clientVars, cend, pend, req, ans, cur, mainVars, upVars, visualVars>>

(* json::parse throws and nothing in the thread catches it. *)
ParseThrows(c) ==
    /\ prd[c] = "got" /\ cur[c].text = "illegal"
    /\ Ends("terminated")

(* Send of one part of the answer. *)
Answers(c, part, from, to) ==
    /\ prd[c] = from /\ pend[c] = "open"
    /\ cend[c] = "open" => Room(ans[c])
    /\ ans' = IF cend[c] = "closed" THEN ans
              ELSE [ans EXCEPT ![c] = Append(@, [of |-> cur[c], part |-> part])]
    /\ ReaderGoes(c, to)
    /\ UNCHANGED <<clientVars, cend, pend, req, cur, mainVars, upVars, visualVars>>

(* A handler that returns when it has answered. *)
MutAnswerText(c) == Answers(c, "text", "answerText", "read")

AnswerLen(c) == Answers(c, "len", "answerLen", "answerText")
AnswerText(c) == Answers(c, "text", "answerText", "passLen")

(* The client has left, and send() raises SIGPIPE once its reset is here;  *)
(* or main has disconnected the socket after the message was read.         *)
AnswerKilled(c) ==
    /\ prd[c] \in {"answerLen", "answerText"} /\ pend[c] = "open"
    /\ cend[c] = "closed"
    /\ Ends("killed")

AnswerThrows(c) ==
    /\ prd[c] \in {"answerLen", "answerText"} /\ pend[c] = "closed"
    /\ Ends("terminated")

(* The text sent before its length. *)
MutPassLen(c) ==
    /\ prd[c] = "passLen" /\ uend = "open"
    /\ vend = "open" => Room(up)
    /\ up' = IF vend = "closed" THEN up ELSE Append(up, [of |-> cur[c], part |-> "text"])
    /\ crossed' = (crossed \/ \E d \in Client : prd[d] = "passText")
    /\ ReaderGoes(c, "passText")
    /\ UNCHANGED <<clientVars, cend, pend, req, ans, cur, mainVars, uend,
                   passed, visualVars>>

(* The two Sends on the upstream socket. *)
PassLen(c) ==
    /\ prd[c] = "passLen" /\ uend = "open"
    /\ vend = "open" => Room(up)
    /\ up' = IF vend = "closed" THEN up ELSE Append(up, [of |-> cur[c], part |-> "len"])
    /\ crossed' = (crossed \/ \E d \in Client : prd[d] = "passText")
    /\ ReaderGoes(c, "passText")
    /\ UNCHANGED <<clientVars, cend, pend, req, ans, cur, mainVars, uend,
                   passed, visualVars>>

PassText(c) ==
    /\ prd[c] = "passText" /\ uend = "open"
    /\ vend = "open" => Room(up)
    /\ up' = IF vend = "closed" THEN up ELSE Append(up, [of |-> cur[c], part |-> "text"])
    /\ passed' = Append(passed, cur[c])
    /\ ReaderGoes(c, "read") /\ cur' = [cur EXCEPT ![c] = None]
    /\ UNCHANGED <<clientVars, cend, pend, req, ans, mainVars, uend,
                   crossed, visualVars>>

Passing(c) == prd[c] \in {"passLen", "passText"}

PassKilled(c) ==
    Passing(c) /\ uend = "open" /\ vend = "closed" /\ Ends("killed")

UpstreamDestroyed == pmain \in {"upDestroyed", "disconnecting", "closed"}

PassThrows(c) ==
    Passing(c) /\ uend = "closed" /\ ~UpstreamDestroyed /\ Ends("terminated")

PassUndefined(c) == Passing(c) /\ UpstreamDestroyed /\ Ends("undefined")

(* The server's mutex: the accepting thread has it while it greets, and    *)
(* main while it disconnects the clients.                                  *)
ServerMutexFree == accepted = None /\ pmain # "disconnecting"

Reading == {"read", "deaf"}
Building == {"built", "builtHalf"}

(* The reading thread runs before the constructor of the derived class:    *)
(* the OnRead of CClientSocket drops what it is given.  When that ends     *)
(* between a length and its text, the text is taken for a length, one      *)
(* beyond the read buffer, and nothing is handled until what fills that    *)
(* happens to end with a text.                                             *)
ServerDrops(c) ==
    /\ prd[c] \in Building \cup {"deaf"} /\ req[c] # <<>> /\ pend[c] = "open"
    /\ req' = [req EXCEPT ![c] = Tail(@)]
    /\ dropped' = dropped \cup {c}
    /\ \/ prd[c] = "deaf" /\ UNCHANGED prd
       \/ prd[c] = "deaf" /\ Head(req[c]).part = "text" /\ ReaderGoes(c, "read")
       \/ /\ prd[c] \in Building
          /\ ReaderGoes(c, IF Head(req[c]).part = "len" THEN "builtHalf" ELSE "built")
    /\ UNCHANGED <<clientVars, cend, pend, ans, cur, accepted, pmain, process, upVars,
                   visualVars>>

(* The end of file of a client that has left: its reading thread closes    *)
(* the socket, and waits in OnDisconnect for the server's mutex with that  *)
(* of the socket held.  The OnDisconnect of CClientSocket does not.        *)
ServerDisconnects(c) ==
    /\ prd[c] \in Reading \cup Building
    /\ req[c] = <<>> /\ cend[c] = "closed" /\ pend[c] = "open"
    /\ pend' = [pend EXCEPT ![c] = "closed"]
    /\ prd' = IF prd[c] \in Building THEN prd ELSE [prd EXCEPT ![c] = "leaving"]
    /\ UNCHANGED <<clientVars, cend, req, ans, cur, mainVars, upVars, visualVars>>

(* The client is in Work. *)
ServerLeaves(c) ==
    /\ prd[c] = "leaving" /\ ServerMutexFree
    /\ ReaderGoes(c, "left")
    /\ UNCHANGED <<clientVars, cend, pend, req, ans, cur, mainVars, upVars, visualVars>>

ServerReader(c) ==
    \/ ServerReads(c) \/ ServerDrops(c) \/ ServerHandles(c) \/ ParseThrows(c)
    \/ AnswerLen(c) \/ AnswerText(c) \/ AnswerKilled(c) \/ AnswerThrows(c)
    \/ PassLen(c) \/ PassText(c)
    \/ PassKilled(c) \/ PassThrows(c) \/ PassUndefined(c)
    \/ ServerDisconnects(c) \/ ServerLeaves(c)

-----------------------------------------------------------------------------
(* The accepting thread and the work thread of the process server. *)

(* The constructor of CClientSocket starts the reading thread. *)
Accepts(c) ==
    /\ prd[c] = "backlog" /\ ServerMutexFree /\ pmain # "closed"
    /\ ReaderGoes(c, "built") /\ accepted' = c
    /\ UNCHANGED <<clientVars, cend, pend, req, ans, cur, dropped, pmain, process, upVars,
                   visualVars>>

(* The socket is one of CProcessServer, and in Clients. *)
Registers(c) ==
    /\ prd[c] \in Building
    /\ ReaderGoes(c, IF prd[c] = "built" THEN "read" ELSE "deaf")
    /\ UNCHANGED <<clientVars, cend, pend, req, ans, cur, mainVars, upVars, visualVars>>

(* GetRemoteEndpoint needs the mutex of the client's socket; it throws if  *)
(* that is closed or, once a reset is here, if the client has left.        *)
SocketMutexFree(c) == prd[c] \in Reading \cup {"got"}

Greets(c) ==
    /\ accepted = c /\ SocketMutexFree(c) /\ pend[c] = "open"
    /\ accepted' = None
    /\ UNCHANGED <<clientVars, cend, pend, req, ans, prd, cur, dropped, pmain, process,
                   upVars, visualVars>>

GreetingThrows(c) ==
    /\ accepted = c /\ SocketMutexFree(c) /\ "closed" \in {cend[c], pend[c]}
    /\ Ends("aborted")

Acceptor ==
    \E c \in Client : Accepts(c) \/ Registers(c) \/ Greets(c) \/ GreetingThrows(c)

(* The work thread removes the clients in Work. *)
Worker ==
    /\ ServerMutexFree /\ \E c \in Client : prd[c] = "left"
    /\ prd' = [c \in Client |-> IF prd[c] = "left" THEN "gone" ELSE prd[c]]
    /\ UNCHANGED <<clientVars, cend, pend, req, ans, cur, mainVars, upVars, visualVars>>

(* A read() that a signal interrupts is taken for the end. *)
MutUpstreamDisconnects ==
    /\ uend = "open"
    /\ uend' = "closed"
    /\ UNCHANGED <<clientVars, cend, pend, req, ans, serverVars, up, passed, crossed,
                   visualVars>>

-----------------------------------------------------------------------------
(* The upstream socket's own reading thread sees the visual server leave.  *)
UpstreamDisconnects ==
    /\ uend = "open" /\ vend = "closed"
    /\ uend' = "closed"
    /\ UNCHANGED <<clientVars, cend, pend, req, ans, serverVars, up, passed, crossed,
                   visualVars>>

(* main: the base class CClientSocket is destroyed first, then CServer.    *)
(* The first closes its socket, if that is not closed already, and joins   *)
(* the upstream reading thread ...                                         *)
ExitBegins ==
    /\ pmain = "serving"
    /\ pmain' = IF uend = "open" THEN "upCut" ELSE "upClosed"
    /\ uend' = "closed"
    /\ UserExits
    /\ UNCHANGED <<clientVars, cend, pend, req, ans, prd, cur, dropped, accepted, process,
                   up, passed, crossed, vend, vlen, shown, lost>>

(* ... which may have been about to read(): it gets an error, and its      *)
(* Disconnect() throws.                                                    *)
UpstreamAborts == pmain = "upCut" /\ Ends("aborted")

MainProceeds(to) ==
    /\ pmain' = to
    /\ UNCHANGED <<clientVars, cend, pend, req, ans, prd, cur, dropped, accepted, process,
                   upVars, visualVars>>

(* A _CloseSocket() without shutdown(): the join waits in read() until the *)
(* visual server ends.                                                     *)
MutExitDestroysUpstream ==
    pmain \in {"upCut", "upClosed"} /\ vend = "closed" /\ MainProceeds("upDestroyed")

ExitDestroysUpstream == pmain \in {"upCut", "upClosed"} /\ MainProceeds("upDestroyed")

(* ~CServer takes the server's mutex ... *)
ExitLocks == pmain = "upDestroyed" /\ ServerMutexFree /\ MainProceeds("disconnecting")

(* ... and disconnects what is in Clients, each with the mutex of its      *)
(* socket.  The order does not matter: where one cannot be disconnected,   *)
(* main waits before it or behind some of the others.                      *)
ExitDisconnects(c) ==
    /\ pmain = "disconnecting" /\ prd[c] \in Reading \cup {"got"} /\ pend[c] = "open"
    /\ pend' = [pend EXCEPT ![c] = "closed"]
    /\ UNCHANGED <<clientVars, cend, req, ans, serverVars, upVars, visualVars>>

(* Disconnect() throws when the client has left and is not removed yet.    *)
ExitThrows(c) == pmain = "disconnecting" /\ prd[c] = "left" /\ Ends("aborted")

(* A reading thread that was about to read() when main closed its socket.  *)
ServerReaderAborts(c) ==
    /\ pmain \in {"disconnecting", "closed"} /\ prd[c] \in Reading /\ pend[c] = "closed"
    /\ Ends("aborted")

(* It lets go of the mutex to join the work thread. *)
ExitUnlocks ==
    /\ pmain = "disconnecting"
    /\ \A c \in Client : /\ prd[c] \notin {"leaving", "left"}
                         /\ pend[c] = "open" => prd[c] = "backlog"
    /\ MainProceeds("closed")

(* A client that accept() has returned goes into Clients while that is     *)
(* being destroyed, or is destroyed.                                       *)
AcceptsTooLate(c) == pmain = "closed" /\ prd[c] = "backlog" /\ Ends("undefined")

ExitEnds ==
    /\ pmain = "closed" /\ \A c \in Client : prd[c] \in Reading \cup {"backlog", "gone"}
    /\ Ends("exited")

ServerMain ==
    \/ ExitDestroysUpstream \/ ExitLocks
    \/ \E c \in Client : ExitDisconnects(c) \/ ExitThrows(c)
    \/ ExitUnlocks \/ ExitEnds

(* What need not happen, though it can. *)
EndedByChance ==
    UpstreamAborts \/ \E c \in Client : ServerReaderAborts(c) \/ AcceptsTooLate(c)

-----------------------------------------------------------------------------
(* The visual server. *)

(* StandartParser on the parts: a text directly behind its own length is a *)
(* message; anything else ruins the framing, and what it prints from there *)
(* on is not followed.                                                     *)
Whole == vlen # None /\ Head(up).part = "text" /\ Head(up).of = vlen

VisualReads ==
    LET p == Head(up) IN
    /\ vend = "open" /\ up # <<>>
    /\ ~lost /\ Whole => p.of.text # "escape"
    /\ up' = Tail(up)
    /\ lost' = (lost \/ ~(Whole \/ (vlen = None /\ p.part = "len")))
    /\ vlen' = IF Whole \/ lost' THEN None ELSE p.of
    /\ shown' = IF Whole /\ ~lost THEN Append(shown, p.of) ELSE shown
    /\ UNCHANGED <<clientVars, cend, pend, req, ans, serverVars, uend, passed, crossed, vend, exits, limit>>

VisualCloses ==
    /\ vend = "open" /\ vend' = "closed"
    /\ up' = <<>>
    /\ UNCHANGED <<clientVars, cend, pend, req, ans, serverVars, uend, passed, crossed,
                   vlen, shown, lost>>

(* json::parse throws in its reading thread. *)
VisualThrows ==
    /\ up # <<>> /\ ~lost /\ Whole /\ Head(up).of.text = "escape"
    /\ VisualCloses /\ UNCHANGED <<exits, limit>>

VisualReader == VisualReads \/ VisualThrows

(* Its user types exit. *)
VisualExits == UserExits /\ VisualCloses

-----------------------------------------------------------------------------
Next ==
    /\ Running
    /\ \/ \E c \in Client :
             \/ \E text \in limit.text : Types(c, text)
             \/ SecondSendBegins(c) \/ SendEnds(c) \/ ClientEnds(c)
             \/ ClientReader(c) \/ ServerReader(c)
       \/ Acceptor \/ Worker
       \/ UpstreamDisconnects \/ ExitBegins \/ ServerMain \/ EndedByChance
       \/ VisualReader \/ VisualExits

Spec == Init /\ [][Next]_vars

(* Threads that can run do run.  A client's reading thread competes with   *)
(* main for the mutex, which main lets go of between two Sends: strong     *)
(* fairness.  Users need not type, and nobody need exit.                   *)
Fairness ==
    /\ \A c \in Client :
          /\ WF_vars(Running /\ (SecondSendBegins(c) \/ SendEnds(c)))
          /\ SF_vars(Running /\ ClientReader(c))
          /\ WF_vars(Running /\ ServerReader(c))
    /\ WF_vars(Running /\ Acceptor) /\ WF_vars(Running /\ Worker)
    /\ WF_vars(Running /\ ServerMain)
    /\ WF_vars(Running /\ VisualReader)

FairSpec == Spec /\ Fairness

-----------------------------------------------------------------------------
Open == {"open", "closed"}
Handling == {"got", "answerLen", "answerText", "passLen", "passText"}

TypeOK ==
    /\ typed \in [Client -> Seq(Message)] /\ answers \in [Client -> Seq(Message)]
    /\ req \in [Client -> Seq(Part)] /\ ans \in [Client -> Seq(Part)]
    /\ \A c \in Client :
          /\ Len(typed[c]) <= limit.messages[c]
          /\ Len(req[c]) <= Capacity /\ Len(ans[c]) <= Capacity
    /\ cgot \in [Client -> Part \cup {None}]
    /\ cur \in [Client -> Message \cup {None}]
    /\ cmain \in [Client -> {"typing", "sendingLen", "text", "sendingText", "exited"}]
    /\ cend \in [Client -> Open] /\ pend \in [Client -> Open]
    /\ prd \in [Client -> {"backlog", "leaving", "left", "gone"}
                                \cup Building \cup Reading \cup Handling]
    /\ dropped \subseteq Client /\ accepted \in Client \cup {None}
    /\ pmain \in {"serving", "upCut", "upClosed", "upDestroyed", "disconnecting", "closed"}
    /\ process \in {"running", "terminated", "killed", "undefined", "aborted", "exited"}
    /\ uend \in Open /\ vend \in Open
    /\ up \in Seq(Part) /\ Len(up) <= Capacity
    /\ passed \in Seq(Message) /\ shown \in Seq(Message)
    /\ vlen \in Message \cup {None}
    /\ crossed \in BOOLEAN /\ lost \in BOOLEAN
    /\ limit \in Limits /\ exits \in 0..limit.exits

(* Only interleaved Sends ruin the framing of the upstream connection:     *)
(* until two handlers are between their two Sends at a time, the parts     *)
(* that the visual server has read and those under way to it are, in this  *)
(* order, the length and the text of each message passed on, and then at   *)
(* most the length of one more (ProcessServer.cpp:59-60).                  *)
FramedUnlessCrossed ==
    LET read == 2 * Len(shown) + (IF vlen = None THEN 0 ELSE 1) IN
    vend = "open" /\ ~crossed =>
        /\ ~lost
        /\ \A k \in 1..Len(shown) : shown[k] = passed[k]
        /\ Len(passed) = (read + Len(up)) \div 2
        /\ \A k \in 1..Len(up) :
              LET m == (read + k + 1) \div 2 IN
              /\ up[k].part = IF (read + k) % 2 = 1 THEN "len" ELSE "text"
              /\ m <= Len(passed) => up[k].of = passed[m]

(* As long as the visual server runs and nobody types exit, the process    *)
(* server outlives clients that type only lines that both servers' parsers *)
(* take, and leave only when it has greeted them and they have read their  *)
(* answers: no interleaving of its threads, no jam, no client that stays   *)
(* away from its greeting and no ruined framing upstream ends it           *)
(* (Server.cpp:8, ProcessServer.cpp:34, 49-60).                            *)
Greeted(c) == prd[c] # "backlog" /\ accepted # c

Polite(c) ==
    /\ \A k \in 1..Len(typed[c]) : typed[c][k].text = "plain"
    /\ cend[c] = "closed" => Greeted(c) /\ Len(answers[c]) = Len(typed[c])

OutlivesPoliteClients ==
    (\A c \in Client : Polite(c)) /\ vend = "open" /\ pmain = "serving" => Running

(* A client and the reading thread of its socket in the server, each       *)
(* waiting for the other: main sends with the mutex held and the server    *)
(* does not read, because it sends an answer that the client cannot take   *)
(* for want of that mutex (ClientSocket.cpp:94).                           *)
Jammed(c) ==
    /\ HasMutex(c) /\ ~Room(req[c]) /\ pend[c] = "open"
    /\ prd[c] \in {"answerLen", "answerText"} /\ ~Room(ans[c]) /\ cend[c] = "open"
    /\ cgot[c] # None

(* A jam is for ever: not even exit, of the client or the server, ends it. *)
JamIsForEver ==
    [][\A c \in Client : Jammed(c) => (Jammed(c))' \/ ~Running']_vars

(* A client that has left, whose reading thread has the mutex of its       *)
(* socket and wants the server's, and the accepting thread or main, which  *)
(* has the latter and wants the former (Server.hpp:17, Server.cpp:8, 32).  *)
Deadlocked(c) == prd[c] = "leaving" /\ (accepted = c \/ pmain = "disconnecting")

(* The messages that are typed are answered and shown, all of them since   *)
(* their number is bounded, unless the program of their user or one of the *)
(* servers ends, the framing upstream is ruined, or this client is jammed  *)
(* or had something read before the socket for it was a complete one.  The *)
(* jam or the deadlock of another client only matters when it stops the    *)
(* accepting thread and this client is not yet accepted.                   *)
MessageArrives ==
    \A c \in Client :
        []<>(\/ /\ Len(answers[c]) = Len(typed[c])
                /\ \A n \in 1..Len(typed[c]) :
                      \E k \in 1..Len(shown) : shown[k] = typed[c][n]
            \/ ~Running \/ cend[c] = "closed" \/ vend = "closed" \/ pmain # "serving"
            \/ lost \/ Jammed(c) \/ c \in dropped
            \/ /\ prd[c] = "backlog"
               /\ \E d \in Client : accepted = d /\ (Jammed(d) \/ Deadlocked(d)))

(* exit comes to an end, unless a client is jammed, which cannot be        *)
(* disconnected or greeted, or the mutexes are taken in both orders.  If   *)
(* every message has been passed on and nobody waits to be accepted, the   *)
(* end is a good one, or a Disconnect() or greeting of a socket that is    *)
(* closed already aborts it (ClientSocket.cpp:30, Server.cpp:8, 32); the   *)
(* order in which the two sockets are destroyed (ProcessServer.hpp:4) and  *)
(* SIGPIPE only hurt while a message is under way.                         *)
Unpassed ==
    \E c \in Client : \E n \in 1..Len(typed[c]) :
        \A k \in 1..Len(passed) : passed[k] # typed[c][n]

ExitComesToAnEnd ==
    (pmain # "serving") ~>
        \/ process \in {"exited", "aborted"}
        \/ ~Running /\ (Unpassed \/ \E c \in Client : prd[c] = "backlog")
        \/ \E c \in Client : Jammed(c) \/ Deadlocked(c)

(* VisualServer.cpp:16: "server received a message".  What the visual      *)
(* server takes for messages are the messages.                             *)
FramingIsKept == ~lost
=============================================================================
