----------------------------- MODULE ChatClient -----------------------------
(***************************************************************************)
(* The chat client, "Server-Client Relationship/SocketClient.c": main()    *)
(* connects, reads a nickname from the terminal, starts receiveMessages()  *)
(* in a thread of its own, and then sends every line the user types until  *)
(* "exit" or the end of the input.  The thread prints what the server      *)
(* sends, and ends the process when the server is gone.                    *)
(*                                                                         *)
(* Text is a sequence of tokens; a token stands for at most 49 characters, *)
(* what the nickname's array holds.  A line of the terminal is a sequence  *)
(* of tokens, and EXIT alone is the line "exit".                           *)
(***************************************************************************)
EXTENDS Integers, Sequences, SequencesExt

CONSTANTS
    EXIT,           \* the text "exit"
    GARBAGE,        \* whatever an uninitialised array holds
    Tokens,         \* the pieces of text a user may type
    Scripts,        \* what the user may type: sequences of lines
    Incoming,       \* bound on the messages the server sends
    SOCKBUF,        \* messages in flight to the client before the server waits
    OUTBUF          \* tokens in flight to the server before send() blocks

ASSUME ClientAssumption ==
    /\ EXIT \in Tokens /\ GARBAGE \in Tokens
    /\ Scripts \subseteq Seq(Seq(Tokens))
    /\ \A s \in Scripts : \A i \in DOMAIN s : Len(s[i]) \in 0 .. OUTBUF
    /\ Incoming \in Nat /\ SOCKBUF \in Nat \ {0} /\ OUTBUF \in Nat \ {0}

VARIABLES
    typed,          \* history: all the user types
    script,         \* the lines the program has not read yet
    line,           \* nickname[] or line, on its way to the server
    wire,           \* history: the tokens sent to the server
    nrecv,          \* how many of them the server has received
    nsent,          \* history: the number of pieces they were sent in
    server,         \* the server's end of the connection: up, fin or rst
    peer,           \* the client's end: idle, open, fin or rst
    nout,           \* messages the server has sent
    nread,          \* messages the thread has received
    fd,             \* whether socketfd is open
    alive,          \* the process has not ended
    mpc, rpc        \* program points of main() and of receiveMessages()

conn == <<wire, nrecv, nsent, server, peer, nout, nread, fd>>
vars == <<typed, script, line, conn, alive, mpc, rpc>>

Init ==
    /\ typed \in Scripts /\ script = typed
    /\ line = <<>> /\ wire = <<>> /\ nrecv = 0 /\ nsent = 0
    /\ server = "up" /\ peer = "idle" /\ nout = 0 /\ nread = 0
    /\ fd = "open" /\ alive = TRUE
    /\ mpc = "connect" /\ rpc = "none"

-----------------------------------------------------------------------------
(* The server, as far as the client sees it. *)

ServerWrite ==
    /\ server = "up" /\ peer = "open"
    /\ nout < Incoming /\ nout - nread < SOCKBUF
    /\ nout' = nout + 1
    /\ UNCHANGED <<wire, nrecv, nsent, server, peer, nread, fd>>

\* A message for a client that closed its end is answered by a reset.
ServerWriteLate ==
    /\ server = "up" /\ peer = "fin"
    /\ peer' = "rst"
    /\ UNCHANGED <<wire, nrecv, nsent, server, nout, nread, fd>>

ServerRead ==
    /\ server = "up" /\ peer # "idle" /\ nrecv < Len(wire)
    /\ nrecv' = nrecv + 1
    /\ UNCHANGED <<wire, nsent, server, peer, nout, nread, fd>>

ServerClose ==
    /\ server = "up" /\ peer # "idle"
    /\ server' = IF nrecv < Len(wire) THEN "rst" ELSE "fin"
    /\ UNCHANGED <<wire, nrecv, nsent, peer, nout, nread, fd>>

Server ==
    /\ ServerWrite \/ ServerWriteLate \/ ServerRead \/ ServerClose
    /\ UNCHANGED <<typed, script, line, alive, mpc, rpc>>

-----------------------------------------------------------------------------
(* The socket calls of the program. *)

\* close(), by the program or by the kernel when the process ends; the second
\* close() of a closed descriptor fails and changes nothing.
CloseFd ==
    /\ fd' = "closed"
    /\ peer' = IF fd = "closed" \/ peer = "idle" THEN peer
               ELSE IF nread < nout THEN "rst" ELSE "fin"
    /\ UNCHANGED <<wire, nrecv, nsent, server, nout, nread>>

\* send() that succeeds: it blocks while the server does not read, and a server
\* that closed its end answers by a reset.
Sent ==
    /\ fd = "open"
    /\ \/ /\ server = "up" /\ Len(wire) - nrecv + Len(line) <= OUTBUF
          /\ wire' = wire \o line
          /\ nsent' = IF line = <<>> THEN nsent ELSE nsent + 1
          /\ UNCHANGED server
       \/ /\ server = "fin"
          /\ server' = IF line = <<>> THEN "fin" ELSE "rst"
          /\ UNCHANGED <<wire, nsent>>
    /\ UNCHANGED <<nrecv, peer, nout, nread, fd>>

NotSent == (fd = "closed" \/ server = "rst") /\ UNCHANGED conn

\* A send() after a reset raises SIGPIPE unless the error was not reported yet.
Killed ==
    /\ fd = "open" /\ server = "rst"
    /\ CloseFd /\ alive' = FALSE
    /\ UNCHANGED <<typed, script, line, mpc, rpc>>

-----------------------------------------------------------------------------
(* The main thread. *)

\* Mutant of Connect: the result of connect() is not checked.
ConnectUnchecked ==
    /\ mpc = "connect"
    /\ peer' \in {"open", "idle"} /\ mpc' = "nick"
    /\ UNCHANGED <<wire, nrecv, nsent, server, nout, nread, fd, alive>>
    /\ UNCHANGED <<typed, script, line, rpc>>

Connect ==
    /\ mpc = "connect"
    /\ \/ peer' = "open" /\ mpc' = "nick"
          /\ UNCHANGED <<wire, nrecv, nsent, server, nout, nread, fd, alive>>
       \/ CloseFd /\ mpc' = "return" /\ alive' = FALSE   \* connect() failed
    /\ UNCHANGED <<typed, script, line, rpc>>

\* fgets() takes at most 49 characters.  It leaves the rest of a longer line in
\* the input, and the newline alone of a line of 49; at the end of the input it
\* leaves nickname[] uninitialised.
ReadNickname ==
    /\ mpc = "nick"
    /\ \/ /\ script # <<>> /\ Len(Head(script)) <= 1
          /\ line' = Head(script)
          /\ script' \in {Tail(script)} \cup
                {<<<<>>>> \o Tail(script) : t \in ToSet(Head(script))}
       \/ /\ script # <<>> /\ Len(Head(script)) > 1
          /\ line' = <<Head(Head(script))>>
          /\ script' = <<Tail(Head(script))>> \o Tail(script)
       \/ /\ script = <<>> /\ line' \in {<<>>, <<GARBAGE>>} /\ UNCHANGED script
    /\ mpc' = "sendnick"
    /\ UNCHANGED <<typed, conn, alive, rpc>>

\* The result of this send() is not checked.
SendNickname ==
    /\ mpc = "sendnick"
    /\ \/ (Sent \/ NotSent) /\ mpc' = "thread" /\ line' = <<>>
          /\ UNCHANGED <<typed, script, alive, rpc>>
       \/ Killed

CreateThread ==
    /\ mpc = "thread"
    /\ \/ mpc' = "getline" /\ rpc' = "recv" /\ UNCHANGED <<conn, alive>>
       \/ mpc' = "return" /\ CloseFd /\ alive' = FALSE /\ UNCHANGED rpc
    /\ UNCHANGED <<typed, script, line>>

\* Mutant of GetLine: the line is read into a fixed array and its rest is lost.
GetLineCuts ==
    /\ mpc = "getline"
    /\ \/ /\ script # <<>> /\ Head(script) # <<EXIT>>
          /\ line' = (IF Len(Head(script)) > 1 THEN <<Head(Head(script))>>
                      ELSE Head(script))
          /\ script' = Tail(script)
          /\ mpc' = "send"
       \/ script = <<>> /\ mpc' = "close" /\ UNCHANGED <<script, line>>
    /\ UNCHANGED <<typed, conn, alive, rpc>>

GetLine ==
    /\ mpc = "getline"
    /\ \/ /\ script # <<>> /\ Head(script) # <<EXIT>>
          /\ line' = Head(script) /\ script' = Tail(script)
          /\ mpc' = "send"
       \/ /\ script # <<>> /\ Head(script) = <<EXIT>>
          /\ script' = Tail(script)
          /\ mpc' = "close" /\ UNCHANGED line
       \/ script = <<>> /\ mpc' = "close" /\ UNCHANGED <<script, line>>
    /\ UNCHANGED <<typed, conn, alive, rpc>>

SendLine ==
    /\ mpc = "send"
    /\ \/ /\ Sent /\ mpc' = "getline" /\ line' = <<>>
          /\ UNCHANGED <<typed, script, alive, rpc>>
       \/ /\ NotSent /\ mpc' = "close" /\ line' = <<>>
          /\ UNCHANGED <<typed, script, alive, rpc>>
       \/ Killed

CloseSocket ==
    /\ mpc = "close"
    /\ CloseFd /\ mpc' = "return"
    /\ UNCHANGED <<typed, script, line, alive, rpc>>

\* main() returns: the thread ends with the process.
Return ==
    /\ mpc = "return"
    /\ alive' = FALSE
    /\ UNCHANGED <<typed, script, line, conn, mpc, rpc>>

MainStep ==
    alive /\ (\/ Connect \/ ReadNickname \/ SendNickname \/ CreateThread \/ GetLine
              \/ SendLine \/ CloseSocket \/ Return)

-----------------------------------------------------------------------------
(* The thread: receiveMessages(). *)

\* Mutants of Receive: the result of recv() is not compared with 0; the loop is
\* missing, so that the thread returns after one recv().
ReceiveUnchecked ==
    /\ rpc = "recv" /\ fd = "open"
    /\ nread' = nread + 1
    /\ UNCHANGED <<wire, nrecv, nsent, server, peer, nout, fd>>
    /\ UNCHANGED <<typed, script, line, alive, mpc, rpc>>

ReceiveOnce ==
    /\ rpc = "recv" /\ fd = "open"
    /\ nread' \in (nread + 1) .. nout
    /\ rpc' = "returned"
    /\ UNCHANGED <<wire, nrecv, nsent, server, peer, nout, fd>>
    /\ UNCHANGED <<typed, script, line, alive, mpc>>

\* recv() returns everything that has arrived, or less.
Receive ==
    /\ rpc = "recv" /\ fd = "open"
    /\ nread' \in (nread + 1) .. nout
    /\ UNCHANGED <<wire, nrecv, nsent, server, peer, nout, fd>>
    /\ UNCHANGED <<typed, script, line, alive, mpc, rpc>>

\* Mutant of ReceiveEnds: a result of 0 is taken for an empty message.
ReceiveEndsOnError ==
    /\ rpc = "recv" /\ (fd = "closed" \/ server = "rst")
    /\ rpc' = "close"
    /\ UNCHANGED <<typed, script, line, conn, alive, mpc>>

ReceiveEnds ==
    /\ rpc = "recv"
    /\ fd = "closed" \/ server = "rst" \/ (server = "fin" /\ nread = nout)
    /\ rpc' = "close"
    /\ UNCHANGED <<typed, script, line, conn, alive, mpc>>

ReceiveCloses ==
    /\ rpc = "close"
    /\ CloseFd /\ rpc' = "exit"
    /\ UNCHANGED <<typed, script, line, alive, mpc>>

ReceiveExits ==
    /\ rpc = "exit"
    /\ alive' = FALSE
    /\ UNCHANGED <<typed, script, line, conn, mpc, rpc>>

ThreadStep == alive /\ (Receive \/ ReceiveEnds \/ ReceiveCloses \/ ReceiveExits)

Next == Server \/ MainStep \/ ThreadStep

Spec == Init /\ [][Next]_vars

(***************************************************************************)
(* Fairness: the threads run whenever they can, except that nobody has to  *)
(* type: ReadNickname and GetLine wait for the user.  The server owes      *)
(* nothing.                                                                *)
(***************************************************************************)
Fairness ==
    /\ WF_vars(MainStep /\ mpc \notin {"nick", "getline"})
    /\ WF_vars(ThreadStep)

FairSpec == Spec /\ Fairness

-----------------------------------------------------------------------------
(* Properties. *)

Ends == {"idle", "open", "fin", "rst"}

TypeOK ==
    /\ typed \in Seq(Seq(Tokens)) /\ script \in Seq(Seq(Tokens))
    /\ line \in Seq(Tokens) /\ wire \in Seq(Tokens)
    /\ nrecv \in 0 .. Len(wire) /\ nsent \in 0 .. Len(wire)
    /\ server \in {"up", "fin", "rst"} /\ peer \in Ends
    /\ nout \in 0 .. Incoming /\ nread \in 0 .. nout
    /\ fd \in {"open", "closed"} /\ alive \in BOOLEAN
    /\ mpc \in {"connect", "nick", "sendnick", "thread", "getline", "send", "close", "return"}
    /\ rpc \in {"none", "recv", "close", "exit"}

\* While the server is there and the program has not begun to leave, what was
\* sent, what is about to be sent and what was not read yet is what the user
\* typed: however fgets() and getline() cut it, nothing is lost, repeated or
\* sent out of turn.
TextConserved ==
    (server = "up" /\ typed # <<>> /\ mpc \in {"nick", "sendnick", "thread", "getline", "send"})
        => wire \o line \o FlattenSeq(script) = FlattenSeq(typed)

\* From the start of the thread on the client reads what the server sends, even
\* while main() waits for the user or in send(): the server's broadcasts and the
\* client's send() cannot wait for each other.
KeepsReading == (rpc # "none" /\ nread < nout) ~> (nread = nout \/ ~alive)

\* When the server leaves, the process ends although main() waits for the user.
EndsWithServer == (rpc # "none" /\ server # "up") ~> ~alive

\* The client keeps its side of the contract with the server.
Peer == INSTANCE ChatPeer
ImplementsPeer == Peer!Spec
=============================================================================
