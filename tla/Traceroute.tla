----------------------------- MODULE Traceroute -----------------------------
(***************************************************************************)
(* The loop of traceroute() in Network_Mapping/Traceroute/Traceroute.c     *)
(* (Fingerprinting/Traceroute/traceroute.c is a copy): one probe for each  *)
(* TTL, then one recvfrom() with a timeout on a raw ICMP socket.  Such a   *)
(* socket gets every ICMP message that reaches the host, and the program   *)
(* prints the source of whatever it receives first as the hop it probed.   *)
(* Its checksum() is modelled in module Checksum.                          *)
(*                                                                         *)
(* The network: the probe with TTL t dies at node t of the path, or at the *)
(* destination when that is nearer; its answer takes any time or is lost.  *)
(* Other messages of ICMP, answers to a ping for instance, come from the   *)
(* nodes in Others.  It delivers no answer twice, and the TTL is always    *)
(* set: setsockopt() of IP_TTL (line 119) is taken to succeed.             *)
(***************************************************************************)
EXTENDS Integers, Sequences, SequencesExt

CONSTANTS
    MAX_TTL,        \* the largest TTL that is tried
    Distance,       \* the destination is node Distance of the path
    Others,         \* nodes that send ICMP messages of their own
    MaxOthers,      \* bound on the number of these messages
    NoAnswer        \* what is printed when recvfrom() times out

ASSUME TracerouteAssumption ==
    /\ MAX_TTL \in Nat \ {0} /\ Distance \in Nat \ {0} /\ MaxOthers \in Nat
    /\ Others \subseteq 1 .. Distance
    /\ NoAnswer \notin Nat

VARIABLES
    at,             \* start, send, receive, close, done
    ttl,
    network,        \* answers on their way
    queue,          \* messages in the socket's buffer, oldest first
    report,         \* the lines printed, one for each TTL
    others,         \* messages of other programs so far
    sockfd          \* none, open, timed (it has a timeout), closed

traceVars == <<at, ttl, network, queue, report, others, sockfd>>

\* A message in network or queue is a record of its sender, from, and of the TTL of
\* the probe that caused it, probe, which is 0 for messages of other programs.

TraceInit ==
    /\ at = "start" /\ ttl = 1
    /\ network = {} /\ queue = <<>> /\ report = <<>> /\ others = 0
    /\ sockfd = "none"

-----------------------------------------------------------------------------
(* The network. *)

Lose    == /\ \E r \in network : network' = network \ {r}
           /\ UNCHANGED <<at, ttl, queue, report, others, sockfd>>

Arrive  == /\ sockfd \in {"open", "timed"}
           /\ \E r \in network : network' = network \ {r} /\ queue' = Append(queue, r)
           /\ UNCHANGED <<at, ttl, report, others, sockfd>>

Other   == /\ sockfd \in {"open", "timed"} /\ others < MaxOthers
           /\ \E n \in Others : queue' = Append(queue, [from |-> n, probe |-> 0])
           /\ others' = others + 1
           /\ UNCHANGED <<at, ttl, network, report, sockfd>>

-----------------------------------------------------------------------------
(* The program. *)

\* The host is not found, or the socket cannot be opened (it takes root).
Start ==
    /\ at = "start"
    /\ \/ at' = "send" /\ sockfd' = "open"
       \/ at' = "done" /\ UNCHANGED sockfd
    /\ UNCHANGED <<ttl, network, queue, report, others>>

\* create_packet() builds an IP header with this TTL and a UDP header; on this
\* socket the kernel sends both as the contents of an ICMP message with the TTL
\* set by IP_TTL.  Whether a node answers it is up to the node.
Answer(t) == [from |-> IF t < Distance THEN t ELSE Distance, probe |-> t]

\* After an error of sendto() the function returns with the socket open.  Otherwise
\* the timeout is set, before each recvfrom(), and nobody looks whether it was.
SendProbe ==
    /\ at = "send"
    /\ \/ /\ network' = network \cup {Answer(ttl)} /\ at' = "receive"
          /\ sockfd' \in {sockfd, "timed"}
       \/ at' = "done" /\ UNCHANGED <<network, sockfd>>
    /\ UNCHANGED <<ttl, queue, report, others>>

Advance == IF ttl = MAX_TTL THEN at' = "close" /\ UNCHANGED ttl
                            ELSE at' = "send" /\ ttl' = ttl + 1

\* Mutants of Receive: the message stays in the buffer (MSG_PEEK); the test of
\* the source address is the wrong way round.
ReceivePeeks ==
    /\ at = "receive" /\ queue # <<>>
    /\ report' = Append(report, Head(queue))
    /\ IF Head(queue).from = Distance THEN at' = "close" /\ UNCHANGED ttl ELSE Advance
    /\ UNCHANGED <<network, queue, others, sockfd>>

ReceiveStopsEarly ==
    /\ at = "receive" /\ queue # <<>>
    /\ report' = Append(report, Head(queue))
    /\ queue' = Tail(queue)
    /\ IF Head(queue).from # Distance THEN at' = "close" /\ UNCHANGED ttl ELSE Advance
    /\ UNCHANGED <<network, others, sockfd>>

Receive ==
    /\ at = "receive" /\ queue # <<>>
    /\ report' = Append(report, Head(queue))
    /\ queue' = Tail(queue)
    /\ IF Head(queue).from = Distance THEN at' = "close" /\ UNCHANGED ttl ELSE Advance
    /\ UNCHANGED <<network, others, sockfd>>

\* Mutant of TimeOut: recvfrom() is called again after a timeout.
TimeOutWaits ==
    /\ at = "receive" /\ queue = <<>> /\ sockfd = "timed"
    /\ UNCHANGED traceVars

TimeOut ==
    /\ at = "receive" /\ queue = <<>> /\ sockfd = "timed"
    /\ report' = Append(report, [from |-> NoAnswer, probe |-> 0])
    /\ Advance
    /\ UNCHANGED <<network, queue, others, sockfd>>

CloseTrace ==
    /\ at = "close"
    /\ at' = "done" /\ sockfd' = "closed"
    /\ UNCHANGED <<ttl, network, queue, report, others>>

Program == Start \/ SendProbe \/ Receive \/ TimeOut \/ CloseTrace

TraceNext == Lose \/ Arrive \/ Other \/ Program

TraceSpec == TraceInit /\ [][TraceNext]_traceVars

\* The program goes on: recvfrom() returns at the latest after its timeout, if
\* the socket has one.
TraceFairSpec == TraceSpec /\ WF_traceVars(Program)

-----------------------------------------------------------------------------
(* Properties. *)

\* An answer is printed at most once, and never for a TTL smaller than the one
\* that caused it: lines are late, never early.
NeverEarly ==
    \A i \in DOMAIN report : report[i].probe # 0 =>
        /\ report[i].probe <= i
        /\ \A j \in DOMAIN report : report[j].probe = report[i].probe => i = j

\* A line shows a node that is not the one at its distance only below a line where
\* the program gave up waiting or a message of another program was taken: as long
\* as every probe was answered in time, the path printed is the path.
WrongAfterSilence ==
    \A i \in DOMAIN report :
        (\A j \in 1 .. i : report[j].probe # 0) => report[i] = Answer(i)

\* The program gives up before MAX_TTL lines only when the destination's address
\* was seen or a probe could not be sent; then and only then it is the last line.
StopsAtDestination ==
    /\ at = "close" => Len(report) = MAX_TTL \/ Last(report).from = Distance
    /\ \A i \in 1 .. Len(report) - 1 : report[i].from # Distance

\* The loop ends although answers are lost, unless the timeout was never set: then
\* recvfrom() may wait for ever for an answer that does not come.
Terminates == <>(at = "done") \/ <>[](at = "receive" /\ sockfd = "open")
=============================================================================
