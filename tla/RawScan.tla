------------------------------ MODULE RawScan ------------------------------
(***************************************************************************)
(* The five scanners of Network_Mapping that build their packets           *)
(* themselves and work with a raw socket: TCP_SYN_SCAN, TCP_FIN_SCAN,      *)
(* TCP_NULL_SCAN, TCP_ACK_SCAN and TCP_XMAS_SCAN.  They make the same five *)
(* calls for a port and differ in their order and in what each does when a *)
(* call fails, so a scanner is a record that says just this; the variables *)
(* and the loop over the ports are those of PortScan.                      *)
(*                                                                         *)
(* None of the five compiles: README.md lists the slips, and the reading   *)
(* of each that is modelled.                                               *)
(***************************************************************************)
EXTENDS PortScan

Calls == {"socket", "timeout", "address", "send", "receive"}

\* exits: the outcomes of calls (whether they succeed) that end the process;
\* skips: those at which the probe returns and says that it could not send;
\* prints: what it says of the port when recv() took nothing, a reset, or another segment;
\* hears: what the socket is given, which is nothing when the protocol is
\* IPPROTO_RAW; closes: whether the probe closes the socket when recv() is over.
Syn  == [order  |-> <<"socket", "timeout", "address", "send", "receive">>,
         exits  |-> {<<"socket", FALSE>>, <<"send", FALSE>>},
         skips  |-> {}, hears |-> {"reset", "segment"},
         prints |-> [nothing |-> "CLOSED", reset |-> "OPEN", segment |-> "OPEN"],
         closes |-> FALSE]

\* inet_pton() returns 1 for an address: "!= 0" refuses the addresses.  FIN, ACK
\* and XMAS compare the pointer to the received header with 4, which is false.
Fin  == [order  |-> <<"socket", "address", "send", "timeout", "receive">>,
         exits  |-> {<<"socket", FALSE>>, <<"address", TRUE>>,
                     <<"timeout", FALSE>>, <<"receive", FALSE>>},
         skips  |-> {}, hears |-> {},
         prints |-> [nothing |-> "CLOSED", reset |-> "CLOSED", segment |-> "CLOSED"],
         closes |-> FALSE]

Null == [order  |-> Syn.order,
         exits  |-> {<<"socket", FALSE>>, <<"timeout", FALSE>>, <<"address", TRUE>>},
         skips  |-> {<<"send", FALSE>>},
         hears  |-> {"reset", "segment"},
         prints |-> [nothing |-> "silent", reset |-> "CLOSED", segment |-> "OPEN"],
         closes |-> TRUE]

Ack  == [order  |-> Fin.order,
         exits  |-> {<<"address", FALSE>>, <<"send", FALSE>>},
         skips  |-> {}, hears |-> {},
         prints |-> Fin.prints,
         closes |-> FALSE]

\* Prints nothing for a port that is not open, but finds all of them open.
Xmas == [order  |-> <<"address", "socket", "send", "timeout", "receive">>,
         exits  |-> {<<"address", FALSE>>, <<"socket", FALSE>>,
                     <<"timeout", FALSE>>, <<"receive", FALSE>>},
         skips  |-> {}, hears |-> {},
         prints |-> [nothing |-> "OPEN", reset |-> "OPEN", segment |-> "OPEN"],
         closes |-> FALSE]

Scanners == [syn |-> Syn, fin |-> Fin, null |-> Null, ack |-> Ack, xmas |-> Xmas]
RawTools == DOMAIN Scanners
S        == Scanners[tool]

RawInit ==
    /\ tool \in RawTools /\ valid \in BOOLEAN
    /\ listening = {} /\ silent = {}
    /\ port = 1 /\ pc = S.order[1] /\ fds = 0
    /\ wire = "none" /\ tries = 0 /\ timed = FALSE /\ ret = 0 /\ lines = <<>>

Place(call) == CHOOSE n \in DOMAIN S.order : S.order[n] = call

\* The probe has a socket of its own.
Holds == pc \in Calls /\ Place(pc) > Place("socket") /\ wire # "unopened"

\* Likewise the probe of UDP.
UdpHolds == pc \in {"address", "probe", "receive", "exit_address", "exit_send"}

-----------------------------------------------------------------------------
(* A raw TCP socket is given every segment that reaches the host, whoever   *)
(* sent it and whatever port it is about; recv() takes the first one.       *)

Segment ==
    /\ Holds /\ wire = "none"
    /\ wire' \in S.hears
    /\ UNCHANGED <<host, port, pc, fds, tries, timed, ret, lines>>

-----------------------------------------------------------------------------

\* The probe ends with its line.
Line(line) == lines' = Append(lines, line) /\ NextPort(S.order[1])

\* What follows the call pc with this outcome.
Proceed(ok) ==
    \/ /\ <<pc, ok>> \in S.exits
       /\ pc' = "exit" /\ UNCHANGED <<port, lines>>
    \/ <<pc, ok>> \in S.skips /\ Line("unsent")
    \/ /\ <<pc, ok>> \notin S.exits \cup S.skips
       /\ pc' = S.order[Place(pc) + 1] /\ UNCHANGED <<port, lines>>

\* A raw socket takes root, and a free descriptor.
RawSocket(ok) ==
    /\ pc = "socket" /\ (ok => fds < FREE_FDS)
    /\ fds' = IF ok THEN fds + 1 ELSE fds
    /\ wire' = IF ok THEN "none" ELSE "unopened"
    /\ timed' = FALSE
    /\ Proceed(ok)
    /\ UNCHANGED <<host, tries, ret>>

SetTimeout(ok) ==
    /\ pc = "timeout" /\ (ok => wire # "unopened")
    /\ timed' = ok
    /\ Proceed(ok)
    /\ UNCHANGED <<host, fds, wire, tries, ret>>

RawAddress ==
    /\ pc = "address"
    /\ Proceed(valid)
    /\ UNCHANGED <<host, fds, wire, tries, timed, ret>>

\* With no socket sendto() fails as well.
RawSend(ok) ==
    /\ pc = "send" /\ (ok => wire # "unopened")
    /\ Proceed(ok)
    /\ UNCHANGED <<host, fds, wire, tries, timed, ret>>

\* Mutant of Closing: NULL returns from a timeout without the close().
ClosingOnAnswer == fds' = IF S.closes /\ wire # "none" THEN fds - 1 ELSE fds

Closing == fds' = IF S.closes THEN fds - 1 ELSE fds

RawReceive ==
    /\ pc = "receive" /\ wire \in S.hears
    /\ Line(S.prints[wire])
    /\ Closing
    /\ UNCHANGED <<host, wire, tries, timed, ret>>

\* Mutant of RawTimeOut: recv() is called again.
RawTimeOutAgain ==
    /\ pc = "receive" /\ wire \notin S.hears /\ timed
    /\ UNCHANGED vars

RawTimeOut ==
    /\ pc = "receive" /\ wire \notin S.hears /\ timed
    /\ IF <<pc, FALSE>> \in S.exits
       THEN pc' = "exit" /\ UNCHANGED <<port, lines>>
       ELSE Line(S.prints.nothing)
    /\ Closing
    /\ UNCHANGED <<host, wire, tries, timed, ret>>

RawScanner ==
    \/ \E ok \in BOOLEAN : RawSocket(ok) \/ SetTimeout(ok) \/ RawSend(ok)
    \/ RawAddress \/ RawReceive \/ RawTimeOut

-----------------------------------------------------------------------------
(* All eight scanners. *)

ScanInit == Init \/ RawInit

ScanNext ==
    \/ tool \in Tools /\ Next
    \/ tool \in RawTools /\ (Segment \/ RawScanner)

\* The scanner goes on, except where it waits for an answer without a timeout.
ScanSpec ==
    /\ ScanInit /\ [][ScanNext]_vars
    /\ WF_vars(tool \in Tools /\ Scanner)
    /\ WF_vars(tool \in RawTools /\ RawScanner)

-----------------------------------------------------------------------------
(* Properties. *)

\* UDP, SYN and ACK lose one descriptor for each line they print, so that a scan
\* of more ports than descriptors ends at the limit; NULL loses one for each port it
\* could not send to, and only there, whether or not an answer comes.
SocketsLeak ==
    LET own    == IF tool = "udp" THEN UdpHolds ELSE Holds
        unused == fds - (IF own THEN 1 ELSE 0)
    IN  pc # "exit" =>
        /\ tool \in {"udp", "syn", "ack"} => unused = Len(lines)
        /\ tool = "null" => unused = Cardinality({m \in DOMAIN lines : lines[m] = "unsent"})

\* A connecting scanner comes to its last port.  Another one comes there or ends
\* with exit(), unless setsockopt() failed, its result was not looked at, and the
\* scanner waits for an answer without a timeout.
ScanEnds ==
    LET Finished == pc = "done" /\ Len(lines) = LastPort
        Stopped  == pc \in {"exit"} \cup Exits
    IN  /\ tool \in Connecting => <>Finished
        /\ \/ <>(Finished \/ Stopped)
           \/ <>[](pc = "receive" /\ ~timed)

\* What udp_scan.c:46 says of its loop: all the ports are scanned.
UdpScansAllPorts ==
    tool = "udp" /\ pc \in {"done", "exit_socket"} => Len(lines) = PORTS
=============================================================================
