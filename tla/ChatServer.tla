----------------------------- MODULE ChatServer -----------------------------
(***************************************************************************)
(* The threaded chat server of "Server-Client Relationship/SocketServer.c": *)
(* main() accepts connections and starts one detached handleClient thread  *)
(* per connection; a handler reads its client's nickname, claims an entry  *)
(* of clients[], and relays every line it receives through                 *)
(* broadcastMessage(), which writes to the descriptors listed in           *)
(* clientSockets[].  One mutex protects both tables.                       *)
(*                                                                         *)
(* The kernel as the program sees it is part of the model: the descriptor  *)
(* table (accept() returns the lowest free number, close() frees it), the  *)
(* listen queue, and one TCP connection per element of Conns, whose client *)
(* end connects, sends, reads and closes in any order.                     *)
(*                                                                         *)
(* Granularity.  A critical section that only touches memory is one step   *)
(* to take the mutex and search the table, and one step to write the entry *)
(* and drop the mutex; broadcastMessage() can block in send() while it     *)
(* holds the mutex, so each send() is a step of its own.                   *)
(***************************************************************************)
EXTENDS Integers, Sequences, FiniteSets

CONSTANTS
    Conns,        \* the connections clients open, each one once
    None,         \* no connection, no thread, no message, an unknown address
    Main,         \* the main thread, as an owner of the mutex
    MAX_CLIENTS,  \* length of clientSockets[] and of clients[]
    MAX_FD,       \* descriptors 1..MAX_FD are the ones accept() may return
    BACKLOG,      \* connections the kernel keeps for accept()
    SOCKBUF,      \* messages in flight to a client before send() blocks
    Sends,        \* how many pieces of text each client may send
    Leavers,      \* clients that may close their end
    SpawnMayFail, \* whether pthread_create() may fail
    Stalled       \* clients that need not go on reading

ASSUME ConstantsAssumption ==
    /\ None \notin Conns /\ Main \notin Conns /\ None # Main
    /\ IsFiniteSet(Conns)
    /\ MAX_CLIENTS \in Nat \ {0} /\ MAX_FD \in Nat \ {0}
    /\ BACKLOG \in Nat \ {0} /\ SOCKBUF \in Nat \ {0}
    /\ Sends \in [Conns -> Nat]
    /\ Leavers \subseteq Conns /\ Stalled \subseteq Conns
    /\ SpawnMayFail \in BOOLEAN

Slots == 0 .. (MAX_CLIENTS - 1)
Fds   == 1 .. MAX_FD

VARIABLES
    \* the kernel and the clients
    peer,          \* state of the client's end of each connection
    backlog,       \* established connections not yet accepted, oldest first
    desc,          \* the connection each descriptor refers to, or None
    inq,           \* text that reached the server and was not received yet
    nsent,         \* pieces of text each client has sent
    out,           \* messages the server has sent to each client
    nread,         \* how many of them the client has read
    \* the server process
    alive,         \* FALSE once a signal has ended the process
    clientSockets, \* descriptors broadcastMessage() writes to, 0 when unused
    clients,       \* the ClientInfo table
    mutex,         \* the thread that holds clientsMutex, or None
    \* the main thread
    mainpc, mainfd, mainslot,
    \* the handler threads, one per connection
    pc, hfd, clientIP, buffer, clientIndex, message, pos,
    \* history: the messages in the order in which their broadcasts started
    log

kernelVars  == <<peer, backlog, desc, inq, nsent, out, nread>>
tableVars   == <<clientSockets, clients, mutex>>
mainVars    == <<mainpc, mainfd, mainslot>>
handlerVars == <<pc, hfd, clientIP, buffer, clientIndex, message, pos>>
vars == <<kernelVars, alive, tableVars, mainVars, handlerVars, log>>

\* The n-th piece of text (n >= 1) a client sends.  Which piece is a nickname
\* is decided by the server, from what its first recv() returns.
Texts == Seq(Conns \X Nat)

Messages == [from : Conns, name : Texts, ip : Conns \cup {None}, body : Texts]

PeerStates    == {"idle", "open", "fin", "rst"}
MainPCs       == {"accept", "admit", "store", "spawn", "reject"}
HandlerPCs    == {"none", "start", "name", "claim", "store", "recv", "lock",
                  "send", "close", "release", "print", "reject", "done"}

\* Program points at which the handler's descriptor is open.
HoldsFd   == {"start", "name", "claim", "store", "recv", "lock", "send",
              "close", "reject"}
\* Program points between the write of clients[clientIndex] and its release.
HoldsSlot == {"recv", "lock", "send", "close", "release"}

ClientInfos == [socket : Fds \cup {0}, name : Texts, ip : Conns \cup {None}]
NoClient    == [socket |-> 0, name |-> <<>>, ip |-> None]

Init ==
    /\ peer = [c \in Conns |-> "idle"]
    /\ backlog = <<>>
    /\ desc = [f \in Fds |-> None]
    /\ inq = [c \in Conns |-> <<>>]
    /\ nsent = [c \in Conns |-> 0]
    /\ out = [c \in Conns |-> <<>>]
    /\ nread = [c \in Conns |-> 0]
    /\ alive = TRUE
    /\ clientSockets = [i \in Slots |-> 0]
    /\ clients = [i \in Slots |-> NoClient]
    /\ mutex = None
    /\ mainpc = "accept" /\ mainfd = 0 /\ mainslot = -1
    /\ pc = [c \in Conns |-> "none"]
    /\ hfd = [c \in Conns |-> 0]
    /\ clientIP = [c \in Conns |-> None]
    /\ buffer = [c \in Conns |-> <<>>]
    /\ clientIndex = [c \in Conns |-> -1]
    /\ message = [c \in Conns |-> None]
    /\ pos = [c \in Conns |-> 0]
    /\ log = <<>>

-----------------------------------------------------------------------------
(* The clients and the network. *)

InBacklog(c)  == \E i \in DOMAIN backlog : backlog[i] = c
HasServerEnd(c) == InBacklog(c) \/ \E f \in Fds : desc[f] = c

\* The handshake ends in the kernel, before and without accept().
Connect(c) ==
    /\ peer[c] = "idle" /\ Len(backlog) < BACKLOG
    /\ peer' = [peer EXCEPT ![c] = "open"]
    /\ backlog' = Append(backlog, c)
    /\ UNCHANGED <<desc, inq, nsent, out, nread>>

ClientSend(c) ==
    /\ peer[c] = "open" /\ HasServerEnd(c) /\ nsent[c] < Sends[c]
    /\ nsent' = [nsent EXCEPT ![c] = @ + 1]
    /\ inq' = [inq EXCEPT ![c] = Append(@, <<c, nsent[c] + 1>>)]
    /\ UNCHANGED <<peer, backlog, desc, out, nread>>

ClientRead(c) ==
    /\ peer[c] = "open" /\ nread[c] < Len(out[c])
    /\ nread' = [nread EXCEPT ![c] = @ + 1]
    /\ UNCHANGED <<peer, backlog, desc, inq, nsent, out>>

\* TCP answers a close with unread data by a reset instead of a FIN.
ClientClose(c) ==
    /\ c \in Leavers /\ peer[c] = "open"
    /\ peer' = [peer EXCEPT ![c] = IF nread[c] < Len(out[c]) THEN "rst" ELSE "fin"]
    /\ UNCHANGED <<backlog, desc, inq, nsent, out, nread>>

Environment ==
    /\ \E c \in Conns :
          Connect(c) \/ ClientSend(c) \/ ClientRead(c) \/ ClientClose(c)
    /\ UNCHANGED <<alive, tableVars, mainVars, handlerVars, log>>

-----------------------------------------------------------------------------
(* The searches of the two tables: the first i with a zero entry, or -1. *)

\* Mutant of FirstOf: the search leaves the loop counter as its result.
FirstOfCounter(S) ==
    IF S = {} THEN MAX_CLIENTS ELSE CHOOSE i \in S : \A j \in S : i <= j

FirstOf(S) == IF S = {} THEN -1 ELSE CHOOSE i \in S : \A j \in S : i <= j

FreeEntry  == FirstOf({i \in Slots : clientSockets[i] = 0})
FreeClient == FirstOf({i \in Slots : clients[i].socket = 0})

\* close() frees the number for the next accept(); unread text is dropped.
CloseDescriptor(f) ==
    /\ desc' = [desc EXCEPT ![f] = None]
    /\ inq' = [inq EXCEPT ![desc[f]] = <<>>]
    /\ UNCHANGED <<peer, backlog, nsent, out, nread>>

-----------------------------------------------------------------------------
(* The main thread: the loop of main(). *)

\* With no free descriptor accept() returns -1 and the loop calls it again,
\* which changes nothing: the step is simply not enabled.
Accept ==
    /\ mainpc = "accept" /\ backlog # <<>>
    /\ \E f \in Fds :
          /\ desc[f] = None /\ \A g \in 1 .. (f - 1) : desc[g] # None
          /\ desc' = [desc EXCEPT ![f] = Head(backlog)]
          /\ mainfd' = f
    /\ backlog' = Tail(backlog)
    /\ mainpc' = "admit"
    /\ UNCHANGED <<peer, inq, nsent, out, nread, alive, tableVars, mainslot,
                   handlerVars, log>>

AdmitScan ==
    /\ mainpc = "admit" /\ mutex = None
    /\ mutex' = Main
    /\ mainslot' = FreeEntry
    /\ mainpc' = "store"
    /\ UNCHANGED <<kernelVars, alive, clientSockets, clients, mainfd,
                   handlerVars, log>>

\* Mutant of AdmitStore: the unlock stands in the rejecting branch only.
AdmitStoreKeepsLock ==
    /\ mainpc = "store"
    /\ IF mainslot = -1
       THEN mainpc' = "reject" /\ mutex' = None /\ UNCHANGED clientSockets
       ELSE /\ mainpc' = "spawn" /\ UNCHANGED mutex
            /\ clientSockets' = [clientSockets EXCEPT ![mainslot] = mainfd]
    /\ UNCHANGED <<kernelVars, alive, clients, mainfd, mainslot, handlerVars, log>>

AdmitStore ==
    /\ mainpc = "store"
    /\ mutex' = None
    /\ IF mainslot = -1
       THEN mainpc' = "reject" /\ UNCHANGED clientSockets
       ELSE /\ mainpc' = "spawn"
            /\ clientSockets' = [clientSockets EXCEPT ![mainslot] = mainfd]
    /\ UNCHANGED <<kernelVars, alive, clients, mainfd, mainslot, handlerVars, log>>

MainReject ==
    /\ mainpc = "reject"
    /\ CloseDescriptor(mainfd)
    /\ mainpc' = "accept"
    /\ UNCHANGED <<alive, tableVars, mainfd, mainslot, handlerVars, log>>

\* The thread gets its own heap cell with the descriptor, so hfd never
\* changes under it.
Spawn ==
    /\ mainpc = "spawn"
    /\ pc' = [pc EXCEPT ![desc[mainfd]] = "start"]
    /\ hfd' = [hfd EXCEPT ![desc[mainfd]] = mainfd]
    /\ mainpc' = "accept"
    /\ UNCHANGED <<kernelVars, alive, tableVars, mainfd, mainslot, clientIP, buffer,
                   clientIndex, message, pos, log>>

\* The result of pthread_create() is not checked: the connection stays open
\* with nobody to read it, and pthread_detach() is given an id that was never
\* set (undefined: nothing happens, or the process dies).
SpawnFail ==
    /\ SpawnMayFail /\ mainpc = "spawn"
    /\ mainpc' = "accept"
    /\ alive' \in BOOLEAN
    /\ UNCHANGED <<kernelVars, tableVars, mainfd, mainslot, handlerVars, log>>

MainStep ==
    alive /\ (\/ Accept \/ AdmitScan \/ AdmitStore \/ MainReject
              \/ Spawn \/ SpawnFail)

-----------------------------------------------------------------------------
(* A handler thread: handleClient() and broadcastMessage(). *)

Goto(c, l) == pc' = [pc EXCEPT ![c] = l]

\* On a connection that was reset getpeername() fails, clientAddr keeps its
\* uninitialised bytes and clientIP is some unknown address.
ThreadStart(c) ==
    /\ pc[c] = "start"
    /\ clientIP' = [clientIP EXCEPT ![c] = IF peer[c] = "rst" THEN None ELSE c]
    /\ Goto(c, "name")
    /\ UNCHANGED <<kernelVars, alive, tableVars, mainVars, hfd, buffer,
                   clientIndex, message, pos, log>>

\* recv() returns some of the text that has arrived, whole or in part ...
RecvText(c, k) ==
    /\ k \in 1 .. Len(inq[c])
    /\ inq' = [inq EXCEPT ![c] = SubSeq(@, k + 1, Len(@))]
    /\ UNCHANGED <<peer, backlog, desc, nsent, out, nread>>

\* Mutant of RecvEnds: only a negative result of recv() ends the loop.
RecvEndsOnErrorOnly(c) == peer[c] = "rst" /\ UNCHANGED kernelVars

\* ... 0 after a FIN once the text is used up, and -1 after a reset.
RecvEnds(c) ==
    /\ (peer[c] = "fin" /\ inq[c] = <<>>) \/ peer[c] = "rst"
    /\ UNCHANGED kernelVars

RecvName(c) ==
    /\ pc[c] = "name"
    /\ \/ \E k \in 1 .. Len(inq[c]) :
             /\ RecvText(c, k)
             /\ buffer' = [buffer EXCEPT ![c] = SubSeq(inq[c], 1, k)]
             /\ Goto(c, "claim")
       \/ RecvEnds(c) /\ Goto(c, "reject") /\ UNCHANGED buffer
    /\ UNCHANGED <<alive, tableVars, mainVars, hfd, clientIP, clientIndex,
                   message, pos, log>>

\* Mutant of ClaimScan: the table is searched without taking the mutex.
ClaimScanUnlocked(c) ==
    /\ pc[c] = "claim"
    /\ mutex' = c
    /\ clientIndex' = [clientIndex EXCEPT ![c] = FreeClient]
    /\ Goto(c, "store")
    /\ UNCHANGED <<kernelVars, alive, clientSockets, clients, mainVars, hfd,
                   clientIP, buffer, message, pos, log>>

ClaimScan(c) ==
    /\ pc[c] = "claim" /\ mutex = None
    /\ mutex' = c
    /\ clientIndex' = [clientIndex EXCEPT ![c] = FreeClient]
    /\ Goto(c, "store")
    /\ UNCHANGED <<kernelVars, alive, clientSockets, clients, mainVars, hfd,
                   clientIP, buffer, message, pos, log>>

ClaimStore(c) ==
    /\ pc[c] = "store"
    /\ mutex' = None
    /\ IF clientIndex[c] = -1
       THEN Goto(c, "reject") /\ UNCHANGED clients
       ELSE /\ Goto(c, "recv")
            /\ clients' = [clients EXCEPT ![clientIndex[c]] =
                 [socket |-> hfd[c], name |-> buffer[c], ip |-> clientIP[c]]]
    /\ buffer' = [buffer EXCEPT ![c] = <<>>]   \* not read again
    /\ UNCHANGED <<kernelVars, alive, clientSockets, mainVars, hfd, clientIP,
                   clientIndex, message, pos, log>>

\* The line is labelled from clients[clientIndex], read without the mutex.
Labelled(c, text) ==
    [from |-> c, name |-> clients[clientIndex[c]].name,
     ip |-> clients[clientIndex[c]].ip, body |-> text]

RecvLine(c) ==
    /\ pc[c] = "recv"
    /\ \/ \E k \in 1 .. Len(inq[c]) :
             /\ RecvText(c, k)
             /\ message' = [message EXCEPT ![c] = Labelled(c, SubSeq(inq[c], 1, k))]
             /\ Goto(c, "lock")
       \/ RecvEnds(c) /\ Goto(c, "close") /\ UNCHANGED message
    /\ UNCHANGED <<alive, tableVars, mainVars, hfd, clientIP, buffer,
                   clientIndex, pos, log>>

\* Mutant of BroadcastLock: broadcastMessage() does not take the mutex.
BroadcastWithoutLock(c) ==
    /\ pc[c] = "lock"
    /\ pos' = [pos EXCEPT ![c] = 0]
    /\ log' = Append(log, message[c])
    /\ Goto(c, "send")
    /\ UNCHANGED <<kernelVars, alive, clientSockets, clients, mutex, mainVars, hfd,
                   clientIP, buffer, clientIndex, message>>

BroadcastLock(c) ==
    /\ pc[c] = "lock" /\ mutex = None
    /\ mutex' = c
    /\ pos' = [pos EXCEPT ![c] = 0]
    /\ log' = Append(log, message[c])
    /\ Goto(c, "send")
    /\ UNCHANGED <<kernelVars, alive, clientSockets, clients, mainVars, hfd,
                   clientIP, buffer, clientIndex, message>>

\* Mutant of Targets: the sender is not left out.
TargetsWithSender(c) == {i \in Slots : i >= pos[c] /\ clientSockets[i] # 0}

\* The entries the loop of broadcastMessage() has still to write to.
Targets(c) == {i \in Slots : /\ i >= pos[c]
                             /\ clientSockets[i] # 0
                             /\ clientSockets[i] # hfd[c]}

\* Mutant of Deliver: a non-blocking send() whose EAGAIN is ignored.
DeliverOrDrop(d, m) ==
    IF d # None /\ peer[d] = "open"
    THEN /\ out' = IF Len(out[d]) - nread[d] < SOCKBUF
                   THEN [out EXCEPT ![d] = Append(@, m)] ELSE out
         /\ UNCHANGED <<peer, alive>>
    ELSE UNCHANGED <<peer, out, alive>>

\* One send(), to whatever connection the descriptor refers to by now:
\* a closed descriptor is an error nobody looks at; an open connection takes
\* the message when it has room, and send() blocks until then; after a FIN the
\* data is accepted and answered by a reset; after a reset send() is an error
\* or SIGPIPE, which ends the process.
Deliver(d, m) ==
    \/ d = None /\ UNCHANGED <<peer, out, alive>>
    \/ /\ d # None /\ peer[d] = "open" /\ Len(out[d]) - nread[d] < SOCKBUF
       /\ out' = [out EXCEPT ![d] = Append(@, m)]
       /\ UNCHANGED <<peer, alive>>
    \/ /\ d # None /\ peer[d] = "fin"
       /\ peer' = [peer EXCEPT ![d] = "rst"]
       /\ UNCHANGED <<out, alive>>
    \/ /\ d # None /\ peer[d] = "rst"
       /\ alive' \in BOOLEAN
       /\ UNCHANGED <<peer, out>>

\* Mutant of SendOne: a send() that was carried out may be repeated.
SendOneAgain(c) ==
    /\ pc[c] = "send" /\ Targets(c) # {}
    /\ LET i == FirstOf(Targets(c))
       IN  /\ Deliver(desc[clientSockets[i]], message[c])
           /\ \E again \in {0, 1} : pos' = [pos EXCEPT ![c] = i + again]
    /\ UNCHANGED <<backlog, desc, inq, nsent, nread, tableVars, mainVars, pc, hfd,
                   clientIP, buffer, clientIndex, message, log>>

SendOne(c) ==
    /\ pc[c] = "send" /\ Targets(c) # {}
    /\ LET i == FirstOf(Targets(c))
       IN  /\ Deliver(desc[clientSockets[i]], message[c])
           /\ pos' = [pos EXCEPT ![c] = i + 1]
    /\ UNCHANGED <<backlog, desc, inq, nsent, nread, tableVars, mainVars, pc, hfd,
                   clientIP, buffer, clientIndex, message, log>>

\* Mutant of BroadcastUnlock: the function returns with the mutex held.
BroadcastKeepsLock(c) ==
    /\ pc[c] = "send" /\ Targets(c) = {}
    /\ message' = [message EXCEPT ![c] = None]
    /\ pos' = [pos EXCEPT ![c] = 0]
    /\ Goto(c, "recv")
    /\ UNCHANGED <<kernelVars, alive, tableVars, mainVars, hfd,
                   clientIP, buffer, clientIndex, log>>

BroadcastUnlock(c) ==
    /\ pc[c] = "send" /\ Targets(c) = {}
    /\ mutex' = None
    /\ message' = [message EXCEPT ![c] = None] \* neither is read again
    /\ pos' = [pos EXCEPT ![c] = 0]
    /\ Goto(c, "recv")
    /\ UNCHANGED <<kernelVars, alive, clientSockets, clients, mainVars, hfd,
                   clientIP, buffer, clientIndex, log>>

\* Mutant of CloseClient: the entry of clientSockets[] is freed here, before
\* the one of clients[].
CloseClientFreesEntry(c) ==
    /\ pc[c] = "close"
    /\ CloseDescriptor(hfd[c])
    /\ clientSockets' = [i \in Slots |->
                          IF clientSockets[i] = hfd[c] THEN 0 ELSE clientSockets[i]]
    /\ Goto(c, "release")
    /\ UNCHANGED <<alive, clients, mutex, mainVars, hfd, clientIP, buffer,
                   clientIndex, message, pos, log>>

CloseClient(c) ==
    /\ pc[c] = "close"
    /\ CloseDescriptor(hfd[c])
    /\ Goto(c, "release")
    /\ UNCHANGED <<alive, tableVars, mainVars, hfd, clientIP, buffer, clientIndex,
                   message, pos, log>>

\* Mutant of ReleaseClient: the descriptor number is closed a second time.
ReleaseClosesAgain(c) ==
    /\ pc[c] = "release" /\ mutex = None
    /\ clients' = [clients EXCEPT ![clientIndex[c]].socket = 0]
    /\ desc' = [desc EXCEPT ![hfd[c]] = None]
    /\ Goto(c, "print")
    /\ UNCHANGED <<peer, backlog, inq, nsent, out, nread, alive, clientSockets, mutex,
                   mainVars, hfd, clientIP, buffer, clientIndex, message, pos, log>>

\* One write under the mutex.  Nothing clears the entry of clientSockets[].
ReleaseClient(c) ==
    /\ pc[c] = "release" /\ mutex = None
    /\ clients' = [clients EXCEPT ![clientIndex[c]].socket = 0]
    /\ Goto(c, "print")
    /\ UNCHANGED <<kernelVars, alive, clientSockets, mutex, mainVars, hfd,
                   clientIP, buffer, clientIndex, message, pos, log>>

\* The last printf() reads clients[clientIndex] once more, without the mutex.
PrintLeft(c) ==
    /\ pc[c] = "print"
    /\ Goto(c, "done")
    /\ UNCHANGED <<kernelVars, alive, tableVars, mainVars, hfd, clientIP, buffer,
                   clientIndex, message, pos, log>>

RejectClient(c) ==
    /\ pc[c] = "reject"
    /\ CloseDescriptor(hfd[c])
    /\ Goto(c, "done")
    /\ UNCHANGED <<alive, tableVars, mainVars, hfd, clientIP, buffer, clientIndex,
                   message, pos, log>>

HandlerStep(c) ==
    alive /\ (\/ ThreadStart(c) \/ RecvName(c) \/ ClaimScan(c) \/ ClaimStore(c)
              \/ RecvLine(c) \/ BroadcastLock(c) \/ SendOne(c)
              \/ BroadcastUnlock(c) \/ CloseClient(c) \/ ReleaseClient(c)
              \/ PrintLeft(c) \/ RejectClient(c))

-----------------------------------------------------------------------------

Next ==
    \/ alive /\ Environment
    \/ MainStep
    \/ \E c \in Conns : HandlerStep(c)

Spec == Init /\ [][Next]_vars

(***************************************************************************)
(* Fairness.  The scheduler runs every thread that can run, so each thread *)
(* is weakly fair; a default pthread mutex promises no more than that to   *)
(* the threads that wait for it.  A client that is not in Stalled goes on  *)
(* reading, as receiveMessages() of SocketClient.c does once the user has  *)
(* entered a nickname; until then that client is a stalled one.            *)
(* Nobody has to connect, to send or to leave.                             *)
(***************************************************************************)
Fairness ==
    /\ WF_vars(MainStep)
    /\ \A c \in Conns : WF_vars(HandlerStep(c))
    /\ \A c \in Conns \ Stalled : WF_vars(alive /\ Environment /\ ClientRead(c))

FairSpec == Spec /\ Fairness

-----------------------------------------------------------------------------
(* Properties. *)

TypeOK ==
    /\ peer \in [Conns -> PeerStates]
    /\ backlog \in Seq(Conns)
    /\ desc \in [Fds -> Conns \cup {None}]
    /\ inq \in [Conns -> Texts]
    /\ nsent \in [Conns -> Nat]
    /\ out \in [Conns -> Seq(Messages)]
    /\ nread \in [Conns -> Nat]
    /\ alive \in BOOLEAN
    /\ clientSockets \in [Slots -> Fds \cup {0}]
    /\ clients \in [Slots -> ClientInfos]
    /\ mutex \in Conns \cup {Main, None}
    /\ mainpc \in MainPCs
    /\ mainfd \in Fds \cup {0}
    /\ mainslot \in Slots \cup {-1}
    /\ pc \in [Conns -> HandlerPCs]
    /\ hfd \in [Conns -> Fds \cup {0}]
    /\ clientIP \in [Conns -> Conns \cup {None}]
    /\ buffer \in [Conns -> Texts]
    /\ clientIndex \in [Conns -> Slots \cup {-1}]
    /\ message \in [Conns -> Messages \cup {None}]
    /\ pos \in [Conns -> Nat]
    /\ log \in Seq(Messages)

\* As long as a handler uses its descriptor number, that number refers to the
\* handler's own connection: although numbers are reused, no thread receives
\* from, excludes or closes somebody else's connection.
DescriptorOwned == \A c \in Conns : pc[c] \in HoldsFd => desc[hfd[c]] = c

\* No two handlers work with the same entry of clients[], and the entry a
\* handler works with holds its descriptor.
SlotExclusive ==
    \A c \in Conns : pc[c] \in HoldsSlot =>
        /\ clients[clientIndex[c]].socket = hfd[c]
        /\ \A d \in Conns \ {c} :
              pc[d] \in HoldsSlot => clientIndex[d] # clientIndex[c]

\* No client gets its own lines back, whatever stale numbers clientSockets[]
\* holds by the time the descriptor comparison is made.
NoEcho == \A d \in Conns : \A i \in DOMAIN out[d] : out[d][i].from # d

\* Every relayed message carries the nickname, the address and the text of the
\* client that sent it, though nickname and address are read from a shared table
\* without the mutex; the address may be unknown, when the client had reset its
\* connection before its handler asked for it.
LabelledBySender ==
    \A d \in Conns : \A i \in DOMAIN out[d] :
        LET m == out[d][i]
        IN  /\ m.name # <<>> /\ \A j \in DOMAIN m.name : m.name[j][1] = m.from
            /\ m.body # <<>> /\ \A j \in DOMAIN m.body : m.body[j][1] = m.from
            /\ m.ip = m.from \/ (m.ip = None /\ peer[m.from] = "rst")

\* The check of clientIndex in handleClient() never rejects: main() already
\* turned away every connection that clients[] would have no room for.
SecondTableHasRoom == \A c \in Conns : pc[c] = "store" => clientIndex[c] # -1

\* When a broadcast gives the mutex back, every other client that has a handler
\* and has not closed was given the message.
ReachesEveryone ==
    \A c \in Conns : pc[c] = "send" /\ Targets(c) = {} =>
        \A d \in Conns \ {c} : pc[d] \in HoldsFd /\ peer[d] = "open" =>
            \E i \in DOMAIN out[d] : out[d][i] = message[c]

\* A client gets no more copies of a message than clientSockets[] has entries
\* with its number: only entries of clients that left produce duplicates.
CopiesBounded ==
    \A d \in Conns : pc[d] # "none" => \A i \in DOMAIN out[d] :
        Cardinality({j \in DOMAIN out[d] : out[d][j] = out[d][i]})
            <= Cardinality({s \in Slots : clientSockets[s] = hfd[d]})

\* The mutex is always given back, unless the process ends: a broadcast waits
\* only for clients that read.
MutexReleased == (mutex # None) ~> (mutex = None \/ ~alive)

\* The thread of a client that left ends, and its descriptor is closed.
DepartureNoticed ==
    \A c \in Conns : (peer[c] \in {"fin", "rst"} /\ pc[c] # "none")
                        ~> (pc[c] = "done" \/ ~alive)

\* Every connection that reaches the listen queue gets a thread of its own or is
\* turned away: the other clients do not block it (SocketServer.c:34-37).
EveryoneServed ==
    \A c \in Conns : (HasServerEnd(c) /\ pc[c] = "none")
                        ~> (~HasServerEnd(c) \/ pc[c] # "none" \/ ~alive)

\* The server is a chat room: one log of messages, each handed to clients other
\* than its sender and only until the next one is posted, so that all clients see
\* them in the same order.
Room == INSTANCE ChatRoom WITH inbox <- out
ImplementsRoom == Room!Spec

\* The server keeps its side of the contract with each client; ChatClient keeps
\* the other side.
Contract(c) == INSTANCE ChatPeer WITH peer <- peer[c], nsent <- nsent[c],
                                      nout <- Len(out[c]), nread <- nread[c]
KeepsContract == \A c \in Conns : Contract(c)!Spec

(* What the comments and the documentation say, and the code does not do. *)

\* "Server full" is printed when MAX_CLIENTS other clients are connected.
RejectsOnlyWhenFull ==
    mainpc = "reject" => Cardinality({f \in Fds : desc[f] # None}) > MAX_CLIENTS
=============================================================================
