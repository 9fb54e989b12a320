------------------------------ MODULE ChatPeer ------------------------------
(***************************************************************************)
(* One TCP connection between a chat client and the chat server, as both   *)
(* programs count on it: SocketServer.c implements the left-hand side and  *)
(* SocketClient.c the right-hand side of the same contract.  The client    *)
(* opens the connection once, sends and reads while it is open, and leaves *)
(* by a FIN, or by a reset when it leaves text unread; the server has at   *)
(* most SOCKBUF unread messages under way, and a message for a client that *)
(* left turns the FIN into a reset.                                        *)
(***************************************************************************)
EXTENDS Naturals

CONSTANT SOCKBUF    \* messages in flight to the client before send() blocks

VARIABLES
    peer,           \* state of the client's end: idle, open, fin or rst
    nsent,          \* pieces of text the client has sent
    nout,           \* messages the server has sent to the client
    nread           \* how many of them the client has read

Init == peer = "idle" /\ nsent = 0 /\ nout = 0 /\ nread = 0

Open  == peer = "idle" /\ peer' = "open" /\ UNCHANGED <<nsent, nout, nread>>

Send  == peer = "open" /\ nsent' = nsent + 1 /\ UNCHANGED <<peer, nout, nread>>

Write == /\ peer = "open" /\ nout - nread < SOCKBUF
         /\ nout' = nout + 1
         /\ UNCHANGED <<peer, nsent, nread>>

Read  == /\ peer = "open"
         /\ nread' \in (nread + 1) .. nout
         /\ UNCHANGED <<peer, nsent, nout>>

Leave == /\ peer = "open"
         /\ peer' = IF nread < nout THEN "rst" ELSE "fin"
         /\ UNCHANGED <<nsent, nout, nread>>

Reset == peer = "fin" /\ peer' = "rst" /\ UNCHANGED <<nsent, nout, nread>>

Next == Open \/ Send \/ Write \/ Read \/ Leave \/ Reset

Spec == Init /\ [][Next]_<<peer, nsent, nout, nread>>
=============================================================================
