------------------------------ MODULE PortScan ------------------------------
(***************************************************************************)
(* scan_ports() of the scanners of Network_Mapping, and the probe that     *)
(* three of them call for every port (module RawScan has the others, and   *)
(* the fairness of all): TCP_CONNECT_SCAN and SCTP_SCAN open a             *)
(* socket, connect() and close it; UDP_SCAN sends a datagram and waits a   *)
(* second for an answer.  A port for which the probe returns 1 is printed  *)
(* as OPEN, the others as CLOSED.                                          *)
(*                                                                         *)
(* The network loses requests and answers and delays them; the kernel      *)
(* repeats the request of a connect() TRIES[tool] - 1 times.               *)
(***************************************************************************)
EXTENDS Integers, Sequences, FiniteSets

CONSTANTS
    PORTS,          \* 1024
    FREE_FDS,       \* descriptors the process may still open
    TRIES           \* requests that connect() sends before it gives up

Connecting == {"tcp", "sctp"}
Tools      == Connecting \cup {"udp"}

ASSUME PortScanAssumption ==
    /\ PORTS \in Nat /\ PORTS >= 2 /\ FREE_FDS \in Nat
    /\ TRIES \in [Tools -> Nat \ {0}]

VARIABLES
    tool,           \* the scanner
    valid,          \* whether inet_pton() takes the address
    listening,      \* the ports somebody listens on
    silent,         \* the ports whose requests the host drops
    port, pc,       \* the port, and where the scanner is
    fds,            \* sockets the process has open
    wire,           \* what is under way for the newest socket
    tries,          \* requests connect() has sent
    timed,          \* whether receiving on the newest socket has a timeout
    ret,            \* what the probe is going to return
    lines           \* the verdicts printed, for port 1, 2, ...

host == <<tool, valid, listening, silent>>
vars == <<host, port, pc, fds, wire, tries, timed, ret, lines>>

Ports    == 1 .. PORTS
LastPort == IF tool \in {"sctp", "udp"} THEN PORTS ELSE PORTS - 1
Exits    == {"exit_socket", "exit_address", "exit_send"}

Init ==
    /\ tool \in Tools /\ valid \in BOOLEAN
    /\ listening \in SUBSET Ports /\ silent \in SUBSET (Ports \ listening)
    /\ port = 1 /\ pc = "socket" /\ fds = 0
    /\ wire = "none" /\ tries = 0 /\ timed = FALSE /\ ret = 0 /\ lines = <<>>

-----------------------------------------------------------------------------
(* The network and the host that is scanned. *)

HostAnswers ==
    /\ wire = "request" /\ port \notin silent
    /\ wire' = IF port \in listening THEN "accept" ELSE "refuse"
    /\ UNCHANGED <<host, port, pc, fds, tries, timed, ret, lines>>

Lost ==
    /\ wire # "none"
    /\ wire' = "none"
    /\ UNCHANGED <<host, port, pc, fds, tries, timed, ret, lines>>

-----------------------------------------------------------------------------
(* The loop of scan_ports(). *)

\* The probe of the next port starts with the call begin.
NextPort(begin) ==
    IF port = LastPort
    THEN pc' = "done" /\ UNCHANGED port
    ELSE pc' = begin /\ port' = port + 1

Verdict(r) ==
    /\ lines' = Append(lines, IF r = 1 THEN "OPEN" ELSE "CLOSED")
    /\ NextPort("socket")

-----------------------------------------------------------------------------
(* The probe. *)

\* Mutant of Socket: one socket serves all ports, with what comes in late.
SocketKept ==
    /\ pc = "socket" /\ fds < FREE_FDS
    /\ fds' = fds + 1 /\ pc' = "address"
    /\ tries' = 0 /\ timed' = FALSE
    /\ UNCHANGED <<host, port, wire, ret, lines>>

\* What was under way for an older socket does not reach the new one.
Socket ==
    /\ pc = "socket" /\ fds < FREE_FDS
    /\ fds' = fds + 1 /\ pc' = "address"
    /\ wire' = "none" /\ tries' = 0 /\ timed' = FALSE
    /\ UNCHANGED <<host, port, ret, lines>>

\* No descriptor is left, or the kernel has no SCTP.
SocketFails ==
    /\ pc = "socket" /\ (fds = FREE_FDS \/ tool = "sctp")
    /\ IF tool = "udp"
       THEN pc' = "exit_socket" /\ UNCHANGED <<port, lines>>
       ELSE Verdict(0)
    /\ UNCHANGED <<host, fds, wire, tries, timed, ret>>

\* inet_pton(), and for SCTP the options of the socket.
Address ==
    /\ pc = "address"
    /\ \/ valid /\ pc' = "probe" /\ UNCHANGED ret
       \/ /\ ~valid \/ tool = "sctp"
          /\ tool # "udp"
          /\ pc' = "close" /\ ret' = 0
       \/ ~valid /\ tool = "udp" /\ pc' = "exit_address" /\ UNCHANGED ret
    /\ UNCHANGED <<host, port, fds, wire, tries, timed, lines>>

\* connect(): a request, and again when no answer comes in time.
Request ==
    /\ tool \in Connecting /\ pc = "probe" /\ tries < TRIES[tool]
    /\ wire' = "request" /\ tries' = tries + 1
    /\ UNCHANGED <<host, port, pc, fds, timed, ret, lines>>

Return(r) ==
    /\ tool \in Connecting /\ pc = "probe"
    /\ pc' = "close" /\ ret' = r
    /\ UNCHANGED <<host, port, fds, wire, tries, timed, lines>>

Connected  == wire = "accept" /\ Return(1)
Refused    == wire = "refuse" /\ Return(0)

\* Mutant of TimedOut: connect() is called again.
TimedOutAgain ==
    /\ pc = "probe" /\ tool \in Connecting /\ tries = TRIES[tool]
    /\ tries' = 0
    /\ UNCHANGED <<host, port, pc, fds, wire, timed, ret, lines>>

TimedOut == tries = TRIES[tool] /\ Return(0)

\* Mutant of Close: the socket of a port that is not open is forgotten.
CloseOpenOnly ==
    /\ pc = "close"
    /\ fds' = fds - ret
    /\ Verdict(ret)
    /\ UNCHANGED <<host, wire, tries, timed, ret>>

Close ==
    /\ pc = "close"
    /\ fds' = fds - 1
    /\ Verdict(ret)
    /\ UNCHANGED <<host, wire, tries, timed, ret>>

\* setsockopt() and sendto(): the result of the first is not looked at.
UdpSend ==
    /\ tool = "udp" /\ pc = "probe"
    /\ timed' \in BOOLEAN
    /\ \/ pc' = "receive" /\ wire' = "request"
       \/ pc' = "exit_send" /\ UNCHANGED wire
    /\ UNCHANGED <<host, port, fds, tries, ret, lines>>

\* recvfrom() is given the size of the address where it expects a pointer to it:
\* it fails with EFAULT when an answer is there, or with EAGAIN after the timeout,
\* if it has one; a socket that is not connected is not told of a refusal.  A
\* failure counts as open, and the socket stays open.
UdpReceive ==
    /\ tool = "udp" /\ pc = "receive" /\ (timed \/ wire = "accept")
    /\ Verdict(1)
    /\ UNCHANGED <<host, fds, wire, tries, timed, ret>>

Scanner ==
    \/ Socket \/ SocketFails \/ Address
    \/ Request \/ Connected \/ Refused \/ TimedOut \/ Close
    \/ UdpSend \/ UdpReceive

Next == HostAnswers \/ Lost \/ Scanner

Spec == Init /\ [][Next]_vars

-----------------------------------------------------------------------------
(* Properties. *)

\* Every variable has its type; no port beyond the last one is probed.
TypeOK ==
    /\ tool \in Tools /\ valid \in BOOLEAN
    /\ listening \subseteq Ports /\ silent \subseteq Ports
    /\ port \in 1 .. LastPort /\ fds \in 0 .. FREE_FDS
    /\ pc \in {"socket", "address", "probe", "receive", "close", "done"} \cup Exits
    /\ wire \in {"none", "request", "accept", "refuse"}
    /\ tries \in 0 .. TRIES[tool] /\ timed \in BOOLEAN /\ ret \in {0, 1}
    /\ lines \in Seq({"OPEN", "CLOSED"})

\* A port is reported as open by a connecting scanner only when its own host
\* accepted: an answer that comes after the scanner gave up is not credited to
\* the next port.
OpenMeansAccepted ==
    tool \in Connecting => \A k \in DOMAIN lines : lines[k] = "OPEN" => k \in listening

\* On every path through the probe the connecting scanners give the socket back:
\* no more than one is open however many ports were scanned.
SocketsReturned ==
    tool \in Connecting => fds = IF pc \in {"address", "probe", "close"} THEN 1 ELSE 0
=============================================================================
