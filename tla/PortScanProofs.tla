--------------------------- MODULE PortScanProofs ---------------------------
(***************************************************************************)
(* What TLAPS proves of the eight scanners, for every number of ports,     *)
(* every host and every number of tries.  Each of the two families has an  *)
(* invariant of its own (Inv and RawInv), and ScanInv is that a scan is    *)
(* within the one of its family:                                           *)
(*   - the connecting scanners give each socket back, and report a port as *)
(*     open only when its own host accepted;                               *)
(*   - UDP and the raw scanners lose exactly the descriptors that are      *)
(*     counted.                                                            *)
(***************************************************************************)
EXTENDS RawScan, FiniteSetTheorems, TLAPS

\* What an acceptance that is under way, or was received, says of the port.  A
\* stale one may still be on its way when the next port begins; Socket drops it.
Credited ==
    /\ tool = "udp" => pc # "close"
    /\ tool \in Connecting =>
        /\ (wire = "accept" /\ pc \in {"address", "probe", "close"}) => port \in listening
        /\ (pc = "close" /\ ret = 1) => port \in listening
        /\ Len(lines) = IF pc = "done" THEN port ELSE port - 1

Inv == TypeOK /\ Credited /\ OpenMeansAccepted /\ SocketsReturned

-----------------------------------------------------------------------------

\* The invariant holds when the scan starts.
LEMMA InitInv == Init => Inv
<1> SUFFICES ASSUME Init PROVE Inv OBVIOUS
<1>1. LastPort \in Nat /\ LastPort >= 1 /\ FREE_FDS \in Nat /\ TRIES[tool] \in Nat
  BY PortScanAssumption DEF LastPort, Init
<1>2. timed \in BOOLEAN BY DEF Init
<1>3. lines \in Seq({"OPEN", "CLOSED"}) BY DEF Init
<1>4. TypeOK BY <1>1, <1>2, <1>3 DEF Init, TypeOK
<1> QED BY <1>4 DEF Inv, Init, Credited, OpenMeansAccepted, SocketsReturned

\* A verdict adds a line for this port.
LEMMA VerdictInv ==
    ASSUME Inv, NEW r \in {0, 1}, Verdict(r), UNCHANGED host,
           pc \in {"socket", "close", "receive"},
           (tool \in Connecting /\ r = 1) => port \in listening
    PROVE  /\ port' \in 1 .. LastPort /\ LastPort' = LastPort
           /\ pc' \in {"socket", "done"}
           /\ lines' \in Seq({"OPEN", "CLOSED"})
           /\ tool \in Connecting => Len(lines') = IF pc' = "done" THEN port' ELSE port' - 1
           /\ OpenMeansAccepted'
<1>1. /\ LastPort \in Nat /\ port \in 1 .. LastPort /\ lines \in Seq({"OPEN", "CLOSED"})
  BY PortScanAssumption DEF Inv, TypeOK, LastPort
<1>2. LastPort' = LastPort /\ listening' = listening /\ tool' = tool BY DEF host, LastPort
<1>3. PICK v \in {"OPEN", "CLOSED"} :
        lines' = Append(lines, v) /\ (v = "OPEN" => r = 1)
  BY DEF Verdict
<1>4. /\ lines' \in Seq({"OPEN", "CLOSED"}) /\ Len(lines') = Len(lines) + 1
      /\ Len(lines) \in Nat
      /\ \A j \in 1 .. Len(lines) : lines'[j] = lines[j]
      /\ lines'[Len(lines) + 1] = v
  BY <1>1, <1>3
<1>5. port' \in 1 .. LastPort /\ pc' \in {"socket", "done"}
      /\ port' = IF pc' = "done" THEN port ELSE port + 1
  BY <1>1 DEF Verdict, NextPort
<1>6. ASSUME tool \in Connecting
      PROVE  Len(lines') = (IF pc' = "done" THEN port' ELSE port' - 1) /\ Len(lines) = port - 1
  BY <1>1, <1>4, <1>5, <1>6 DEF Inv, Credited
<1>7. ASSUME tool \in Connecting, NEW j \in DOMAIN lines', lines'[j] = "OPEN"
      PROVE  j \in listening
  <2>1. j \in 1 .. (Len(lines) + 1) BY <1>4
  <2>2. CASE j = Len(lines) + 1 BY <2>2, <1>1, <1>3, <1>4, <1>6, <1>7
  <2>3. CASE j # Len(lines) + 1
    <3>1. j \in 1 .. Len(lines) BY <2>1, <2>3, <1>4
    <3>2. j \in DOMAIN lines /\ lines[j] = "OPEN" BY <3>1, <1>1, <1>4, <1>7
    <3> QED BY <3>2, <1>7 DEF Inv, OpenMeansAccepted
  <2> QED BY <2>2, <2>3
<1>8. OpenMeansAccepted' BY <1>2, <1>7 DEF OpenMeansAccepted
<1> QED BY <1>2, <1>4, <1>5, <1>6, <1>8

\* Every step of the scanner and of the network preserves the invariant.
LEMMA NextInv == Inv /\ [Next]_vars => Inv'
<1> SUFFICES ASSUME Inv, [Next]_vars PROVE Inv' OBVIOUS
<1>1. /\ LastPort \in Nat /\ FREE_FDS \in Nat /\ TRIES[tool] \in Nat \ {0}
      /\ fds \in 0 .. FREE_FDS /\ port \in Nat /\ tries \in 0 .. TRIES[tool]
  BY PortScanAssumption DEF Inv, TypeOK, LastPort
<1>2. CASE HostAnswers
  BY <1>2 DEF HostAnswers, host, Inv, TypeOK, Credited, OpenMeansAccepted, SocketsReturned,
     LastPort
<1>3. CASE Lost
  BY <1>3 DEF Lost, host, Inv, TypeOK, Credited, OpenMeansAccepted, SocketsReturned,
     LastPort
<1>4. CASE Socket
  <2>1. timed' \in BOOLEAN BY <1>4 DEF Socket
  <2>2. /\ pc = "socket" /\ pc' = "address" /\ fds < FREE_FDS /\ fds' = fds + 1
        /\ wire' = "none" /\ tries' = 0 /\ UNCHANGED <<host, port, ret, lines>>
    BY <1>4 DEF Socket
  <2> QED BY <1>1, <2>1, <2>2 DEF host, Inv, TypeOK, Credited, OpenMeansAccepted, SocketsReturned,
     LastPort
<1>5. CASE SocketFails
  <2>1. CASE tool = "udp"
    BY <2>1, <1>5 DEF SocketFails, host, Inv, TypeOK, Credited, OpenMeansAccepted,
       SocketsReturned, LastPort, Exits
  <2>2. CASE tool \in Connecting
    <3>1. Verdict(0) /\ UNCHANGED host /\ pc = "socket" /\ UNCHANGED <<fds, wire, tries, timed, ret>>
      BY <2>2, <1>5 DEF Tools, Connecting, SocketFails
    <3>2. /\ port' \in 1 .. LastPort' /\ pc' \in {"socket", "done"} /\ OpenMeansAccepted'
          /\ lines' \in Seq({"OPEN", "CLOSED"})
          /\ Len(lines') = IF pc' = "done" THEN port' ELSE port' - 1
      BY <2>2, <3>1, VerdictInv
    <3> QED BY <2>2, <3>1, <3>2 DEF host, Inv, TypeOK, Credited, SocketsReturned
  <2> QED BY <2>1, <2>2, <1>5 DEF SocketFails, Inv, TypeOK, Tools, Connecting
<1>6. CASE Address
  BY <1>6 DEF Tools, Connecting, Address, host, Inv, TypeOK, Credited, OpenMeansAccepted, SocketsReturned,
     LastPort, Exits
<1>7. CASE Request
  <2>1. tries + 1 \in 0 .. TRIES[tool] BY <1>1, <1>7 DEF Request
  <2> QED BY <2>1, <1>7 DEF Request, host, Inv, TypeOK, Credited, OpenMeansAccepted,
     SocketsReturned, LastPort
<1>8. CASE Connected
  BY <1>8 DEF Tools, Connecting, Connected, Return, host, Inv, TypeOK, Credited, OpenMeansAccepted,
     SocketsReturned, LastPort
<1>9. CASE Refused \/ TimedOut
  BY <1>9 DEF Tools, Connecting, Refused, TimedOut, Return, host, Inv, TypeOK, Credited, OpenMeansAccepted,
     SocketsReturned, LastPort
<1>10. CASE Close
  <2>1. tool \in Connecting /\ ret \in {0, 1} /\ fds = 1 /\ (ret = 1 => port \in listening)
    BY <1>10 DEF Tools, Connecting, Close, Inv, TypeOK, Credited, SocketsReturned
  <2>2. /\ Verdict(ret) /\ UNCHANGED host /\ pc = "close" /\ fds' = 0
        /\ UNCHANGED <<wire, tries, timed, ret>>
    BY <2>1, <1>10 DEF Close
  <2>3. /\ port' \in 1 .. LastPort' /\ pc' \in {"socket", "done"} /\ OpenMeansAccepted'
        /\ lines' \in Seq({"OPEN", "CLOSED"})
        /\ Len(lines') = IF pc' = "done" THEN port' ELSE port' - 1
    BY <2>1, <2>2, VerdictInv
  <2> QED BY <2>1, <2>2, <2>3, <1>1 DEF host, Inv, TypeOK, Credited, SocketsReturned
<1>11. CASE UdpSend
  BY <1>11 DEF Tools, Connecting, UdpSend, host, Inv, TypeOK, Credited, OpenMeansAccepted, SocketsReturned,
     LastPort, Exits
<1>12. CASE UdpReceive
  <2>1. Verdict(1) /\ UNCHANGED host /\ tool = "udp" /\ pc = "receive"
        /\ UNCHANGED <<fds, wire, tries, timed, ret>>
    BY <1>12 DEF UdpReceive
  <2>2. /\ port' \in 1 .. LastPort' /\ pc' \in {"socket", "done"} /\ OpenMeansAccepted'
        /\ lines' \in Seq({"OPEN", "CLOSED"})
    BY <2>1, VerdictInv DEF Connecting
  <2> QED BY <2>1, <2>2 DEF Tools, Connecting, host, Inv, TypeOK, Credited, SocketsReturned
<1>13. CASE UNCHANGED vars
  BY <1>13 DEF vars, host, Inv, TypeOK, Credited, OpenMeansAccepted, SocketsReturned, LastPort
<1> QED
  BY <1>2, <1>3, <1>4, <1>5, <1>6, <1>7, <1>8, <1>9, <1>10, <1>11, <1>12, <1>13
     DEF Next, Scanner

-----------------------------------------------------------------------------

\* The invariant holds throughout the scan: types, the port that an acceptance
\* under way stands for, and the socket of the probe.
THEOREM Invariant == Spec => []Inv
<1>1. Init => Inv BY InitInv
<1>2. Inv /\ [Next]_vars => Inv' BY NextInv
<1> QED BY <1>1, <1>2, PTL DEF Spec

\* The connecting scanners print OPEN for a port only when its own host accepted
\* the connection, however many answers are late, lost or repeated.
THEOREM OpensCredited == Spec => []OpenMeansAccepted
<1>1. Inv => OpenMeansAccepted BY DEF Inv
<1> QED BY <1>1, Invariant, PTL

\* The connecting scanners give back the socket of every probe, whatever path it
\* takes, so that a scan of any length needs one descriptor.
THEOREM SocketsGivenBack == Spec => []SocketsReturned
<1>1. Inv => SocketsReturned BY DEF Inv
<1> QED BY <1>1, Invariant, PTL

-----------------------------------------------------------------------------
(***************************************************************************)
(* The raw scanners.  They differ in the order of their calls: Place finds *)
(* a call in it, and what follows from the record of each scanner is       *)
(* stated once, per scanner, before the steps are looked at.               *)
(***************************************************************************)

\* Each of the five calls has one place.
LEMMA PlaceOf ==
    ASSUME tool \in RawTools, NEW n \in 1 .. 5
    PROVE  S.order[n] \in Calls /\ Place(S.order[n]) = n
<1> DEFINE o == S.order
<1>1. /\ DOMAIN o = 1 .. 5
      /\ \A j \in 1 .. 5 : o[j] \in Calls
      /\ \A j, m \in 1 .. 5 : o[j] = o[m] => j = m
  <2>1. CASE tool \in {"syn", "null"}
    BY <2>1 DEF S, Scanners, Syn, Null, Calls
  <2>2. CASE tool \in {"fin", "ack"}
    BY <2>2 DEF S, Scanners, Fin, Ack, Calls
  <2>3. CASE tool = "xmas"
    BY <2>3 DEF S, Scanners, Xmas, Calls
  <2> QED BY <2>1, <2>2, <2>3 DEF RawTools, Scanners
<1> HIDE DEF o
<1>2. (CHOOSE j \in DOMAIN o : o[j] = o[n]) = n
  BY <1>1
<1> QED BY <1>1, <1>2 DEF Place, o

\* SYN and NULL go through their calls in one order, FIN and ACK in another.
SynOrder == [socket |-> "timeout", timeout |-> "address", address |-> "send", send |-> "receive"]
FinOrder == [socket |-> "address", address |-> "send", send |-> "timeout", timeout |-> "receive"]

\* What follows a call, for the scanners that begin with the socket.
LEMMA Order ==
    ASSUME tool \in RawTools, tool # "xmas"
    PROVE  /\ S.order[1] = "socket"
           /\ \A call \in Calls \ {"receive"} :
                S.order[Place(call) + 1] = IF tool \in {"syn", "null"} THEN SynOrder[call]
                                                                        ELSE FinOrder[call]
           /\ Holds <=> pc \in Calls \ {"socket"} /\ wire # "unopened"
<1>1. \A n \in 1 .. 5 : Place(S.order[n]) = n
  BY PlaceOf
<1>2. CASE tool \in {"syn", "null"}
  <2>1. S.order = <<"socket", "timeout", "address", "send", "receive">>
    BY <1>2 DEF S, Scanners, Syn, Null
  <2>2. /\ Place("socket") = 1 /\ Place("timeout") = 2 /\ Place("address") = 3
        /\ Place("send") = 4 /\ Place("receive") = 5
    <3> HIDE DEF S
    <3> QED BY <1>1, <2>1
  <2> QED BY <1>2, <2>1, <2>2 DEF Calls, Holds, SynOrder
<1>3. CASE tool \in {"fin", "ack"}
  <2>1. S.order = <<"socket", "address", "send", "timeout", "receive">>
    BY <1>3 DEF S, Scanners, Fin, Ack
  <2>2. /\ Place("socket") = 1 /\ Place("address") = 2 /\ Place("send") = 3
        /\ Place("timeout") = 4 /\ Place("receive") = 5
    <3> HIDE DEF S
    <3> QED BY <1>1, <2>1
  <2> QED BY <1>3, <2>1, <2>2 DEF Calls, Holds, FinOrder
<1> QED BY <1>2, <1>3 DEF RawTools, Scanners

Said == {"OPEN", "CLOSED", "silent", "unsent"}

RawTypes ==
    /\ valid \in BOOLEAN /\ pc \in Calls \cup {"done", "exit"}
    /\ fds \in Int /\ lines \in Seq(Said)
    /\ wire \in {"none", "unopened", "reset", "segment"}

\* Only ACK goes on without a socket, and no further than to its send().
Socketless == wire = "unopened" => pc = "exit" \/ (tool = "ack" /\ pc \in {"address", "send"})

\* How many lines say that nothing could be sent.
Unsent == Cardinality({m \in DOMAIN lines : lines[m] = "unsent"})

\* SocketsLeak, with the socket of the probe written out.
Leak ==
    LET held == IF pc \in Calls \ {"socket"} /\ wire # "unopened" THEN 1 ELSE 0
    IN  pc # "exit" =>
        /\ tool \in {"syn", "ack"} => fds = Len(lines) + held
        /\ tool = "null" => fds = Unsent + held

RawInv == RawTypes /\ Socketless /\ Leak

-----------------------------------------------------------------------------

\* A line that is added to those before.
LEMMA LineAdded ==
    ASSUME lines \in Seq(Said), NEW line \in Said, lines' = Append(lines, line)
    PROVE  /\ lines' \in Seq(Said) /\ Len(lines) \in Nat /\ Len(lines') = Len(lines) + 1
           /\ \A m \in DOMAIN lines : lines'[m] = lines[m]
           /\ DOMAIN lines' = DOMAIN lines \cup {Len(lines) + 1}
           /\ Len(lines) + 1 \notin DOMAIN lines /\ lines'[Len(lines) + 1] = line
OBVIOUS

\* The lines that say nothing was sent can be counted.
LEMMA UnsentFinite ==
    ASSUME lines \in Seq(Said)
    PROVE  IsFiniteSet({m \in DOMAIN lines : lines[m] = "unsent"}) /\ Unsent \in Nat
<1>1. IsFiniteSet({m \in DOMAIN lines : lines[m] = "unsent"})
  <2>1. IsFiniteSet(1 .. Len(lines)) BY FS_Interval
  <2>2. {m \in DOMAIN lines : lines[m] = "unsent"} \subseteq 1 .. Len(lines) OBVIOUS
  <2> QED BY <2>1, <2>2, FS_Subset
<1> QED BY <1>1, FS_CardinalityType DEF Unsent

\* It counts in Unsent if that is what it says.
LEMMA UnsentAdded ==
    ASSUME lines \in Seq(Said), NEW line \in Said, lines' = Append(lines, line)
    PROVE  Unsent' = IF line = "unsent" THEN Unsent + 1 ELSE Unsent
<1> DEFINE U == {m \in DOMAIN lines : lines[m] = "unsent"}
           V == {m \in DOMAIN lines' : lines'[m] = "unsent"}
<1>1. V = IF line = "unsent" THEN U \cup {Len(lines) + 1} ELSE U
  BY LineAdded
<1>2. Len(lines) + 1 \notin U
  BY LineAdded
<1>3. Cardinality(V) = IF line = "unsent" THEN Cardinality(U) + 1 ELSE Cardinality(U)
  BY <1>1, <1>2, UnsentFinite, FS_AddElement
<1> QED BY <1>3 DEF Unsent

\* SocketsLeak follows from the invariant.
LEMMA LeakIsSocketsLeak == tool \in RawTools /\ RawInv => SocketsLeak
<1> SUFFICES ASSUME tool \in RawTools, RawInv PROVE SocketsLeak
  OBVIOUS
<1>1. Unsent \in Nat /\ Len(lines) \in Nat /\ fds \in Int /\ Leak
  BY UnsentFinite DEF RawInv, RawTypes
<1>2. CASE tool = "xmas"
  BY <1>2 DEF SocketsLeak
<1>3. CASE tool # "xmas"
  <2>1. Holds <=> pc \in Calls \ {"socket"} /\ wire # "unopened"
    BY <1>3, Order
  <2>2. tool # "udp" BY DEF RawTools, Scanners
  <2>3. CASE Holds
    BY <1>1, <2>1, <2>2, <2>3 DEF SocketsLeak, Leak, Unsent
  <2>4. CASE ~Holds
    BY <1>1, <2>1, <2>2, <2>4 DEF SocketsLeak, Leak, Unsent
  <2> QED BY <2>3, <2>4
<1> QED BY <1>2, <1>3

-----------------------------------------------------------------------------
\* The calls at which each scanner gives up.
LEMMA GivesUp ==
    ASSUME tool \in RawTools
    PROVE  /\ <<"socket", TRUE>> \notin S.exits
           /\ tool # "ack" => <<"socket", FALSE>> \in S.exits
           /\ tool \in {"syn", "ack"} => <<"send", FALSE>> \in S.exits
           /\ <<"receive", FALSE>> \in S.exits <=> tool \in {"fin", "xmas"}
<1>1. CASE tool = "syn"  BY <1>1 DEF S, Scanners, Syn
<1>2. CASE tool = "fin"  BY <1>2 DEF S, Scanners, Fin
<1>3. CASE tool = "null" BY <1>3 DEF S, Scanners, Null
<1>4. CASE tool = "ack"  BY <1>4 DEF S, Scanners, Ack
<1>5. CASE tool = "xmas" BY <1>5 DEF S, Scanners, Xmas
<1> QED BY <1>1, <1>2, <1>3, <1>4, <1>5 DEF RawTools, Scanners

\* Only NULL says that it could not send, and only NULL closes its socket.
LEMMA Skips ==
    ASSUME tool \in RawTools
    PROVE  /\ S.skips = IF tool = "null" THEN {<<"send", FALSE>>} ELSE {}
           /\ S.closes <=> tool = "null"
<1>1. CASE tool = "syn"  BY <1>1 DEF S, Scanners, Syn
<1>2. CASE tool = "fin"  BY <1>2 DEF S, Scanners, Fin
<1>3. CASE tool = "null" BY <1>3 DEF S, Scanners, Null
<1>4. CASE tool = "ack"  BY <1>4 DEF S, Scanners, Ack
<1>5. CASE tool = "xmas" BY <1>5 DEF S, Scanners, Xmas
<1> QED BY <1>1, <1>2, <1>3, <1>4, <1>5 DEF RawTools, Scanners

\* Only SYN and NULL hear anything.
LEMMA Hears ==
    ASSUME tool \in RawTools
    PROVE  /\ S.hears = IF tool \in {"syn", "null"} THEN {"reset", "segment"} ELSE {}
           /\ \A what \in {"nothing", "reset", "segment"} : S.prints[what] \in Said \ {"unsent"}
<1>1. CASE tool = "syn"  BY <1>1 DEF S, Scanners, Syn, Said
<1>2. CASE tool = "fin"  BY <1>2 DEF S, Scanners, Fin, Said
<1>3. CASE tool = "null" BY <1>3 DEF S, Scanners, Null, Said
<1>4. CASE tool = "ack"  BY <1>4 DEF S, Scanners, Ack, Fin, Said
<1>5. CASE tool = "xmas" BY <1>5 DEF S, Scanners, Xmas, Said
<1> QED BY <1>1, <1>2, <1>3, <1>4, <1>5 DEF RawTools, Scanners

\* After a call the process ends, or NULL says that it could not send, or the
\* probe goes on with the next call.
LEMMA Proceeds ==
    ASSUME tool \in RawTools, NEW ok \in BOOLEAN, pc \in Calls \ {"receive"}, Proceed(ok)
    PROVE  \/ pc' = "exit" /\ UNCHANGED lines
           \/ /\ tool = "null" /\ pc = "send" /\ ~ok
              /\ lines' = Append(lines, "unsent") /\ pc' \in {"socket", "done"}
           \/ /\ <<pc, ok>> \notin S.exits /\ <<pc, ok>> \notin S.skips
              /\ pc' \in Calls /\ UNCHANGED lines
              /\ tool \in {"syn", "null"} => pc' = SynOrder[pc]
              /\ tool \in {"fin", "ack"} => pc' = FinOrder[pc]
<1>1. CASE <<pc, ok>> \in S.exits /\ pc' = "exit" /\ UNCHANGED <<port, lines>>
  BY <1>1
<1>2. CASE <<pc, ok>> \in S.skips /\ Line("unsent")
  <2>1. <<pc, ok>> = <<"send", FALSE>> /\ tool = "null"
    BY <1>2, Skips
  <2>2. pc' \in {"socket", "done"} /\ lines' = Append(lines, "unsent")
    BY <1>2, <2>1, Order DEF Line, NextPort
  <2> QED BY <2>1, <2>2
<1>3. CASE <<pc, ok>> \notin S.exits \cup S.skips
           /\ pc' = S.order[Place(pc) + 1] /\ UNCHANGED <<port, lines>>
  <2>1. CASE tool # "xmas"
    <3>1. \A call \in Calls \ {"receive"} : SynOrder[call] \in Calls /\ FinOrder[call] \in Calls
      BY DEF SynOrder, FinOrder, Calls
    <3> QED BY <1>3, <2>1, <3>1, Order
  <2>2. CASE tool = "xmas"
    <3>1. S.order = <<"address", "socket", "send", "timeout", "receive">>
      BY <2>2 DEF S, Scanners, Xmas
    <3>2. PICK n \in 1 .. 4 : pc = S.order[n]
      BY <3>1 DEF Calls
    <3>3. Place(pc) = n /\ S.order[n + 1] \in Calls
      BY <3>2, PlaceOf
    <3> QED BY <1>3, <2>2, <3>3
  <2> QED BY <2>1, <2>2
<1> QED BY <1>1, <1>2, <1>3 DEF Proceed

\* The end of the process leaves nothing to show.
LEMMA ExitInv ==
    ASSUME tool \in RawTools, RawInv, UNCHANGED host, pc' = "exit", UNCHANGED lines,
           fds' \in Int, wire' \in {"none", "unopened", "reset", "segment"}
    PROVE  RawInv'
<1>1. UNCHANGED <<tool, valid>> BY DEF host
<1> QED
  BY <1>1 DEF RawInv, RawTypes, Socketless, Leak


\* So does a call that succeeds with the socket there, and one of ACK without it.
LEMMA CallInv ==
    ASSUME tool \in RawTools, RawInv, UNCHANGED host, UNCHANGED <<lines, fds>>,
           pc \in Calls \ {"receive", "socket"}, pc' \in Calls,
           tool \in {"syn", "null"} => pc' = SynOrder[pc],
           tool \in {"fin", "ack"} => pc' = FinOrder[pc],
           wire' = wire, tool = "ack" /\ wire = "unopened" => pc # "send"
    PROVE  RawInv'
<1>1. UNCHANGED <<tool, valid>> BY DEF host
<1>2. UNCHANGED Unsent BY DEF Unsent
<1>3. RawTypes'
  BY <1>1 DEF RawInv, RawTypes, SynOrder, Calls
<1>4. Socketless'
  BY <1>1 DEF RawInv, RawTypes, Socketless, FinOrder, Calls
<1>5. Leak'
  BY <1>1, <1>2 DEF RawInv, Leak, SynOrder, FinOrder, Calls
<1> QED BY <1>3, <1>4, <1>5 DEF RawInv

\* The socket: ACK goes on without it, the others only with it.
LEMMA RawSocketInv ==
    ASSUME tool \in RawTools, RawInv, NEW ok \in BOOLEAN, RawSocket(ok)
    PROVE  RawInv'
<1>1. UNCHANGED <<tool, valid>> /\ UNCHANGED host BY DEF RawSocket, host
<1>2. \/ pc' = "exit" /\ UNCHANGED lines
      \/ /\ <<pc, ok>> \notin S.exits /\ pc' \in Calls /\ UNCHANGED lines
         /\ tool \in {"syn", "null"} => pc' = SynOrder[pc]
         /\ tool \in {"fin", "ack"} => pc' = FinOrder[pc]
  BY Proceeds DEF RawSocket, Calls
<1>3. /\ pc = "socket" /\ fds' = (IF ok THEN fds + 1 ELSE fds) /\ fds \in Int
      /\ wire' = IF ok THEN "none" ELSE "unopened"
  BY DEF RawSocket, RawInv, RawTypes
<1>4. CASE pc' = "exit" /\ UNCHANGED lines
  BY <1>1, <1>3, <1>4, ExitInv
<1>5. CASE /\ <<pc, ok>> \notin S.exits /\ pc' \in Calls /\ UNCHANGED lines
           /\ tool \in {"syn", "null"} => pc' = SynOrder[pc]
           /\ tool \in {"fin", "ack"} => pc' = FinOrder[pc]
  <2>1. tool # "ack" => ok
    BY <1>3, <1>5, GivesUp
  <2>2. UNCHANGED Unsent BY <1>5 DEF Unsent
  <2>3. tool \in {"syn", "null"} => pc' = "timeout"
    BY <1>3, <1>5 DEF SynOrder
  <2>4. tool \in {"fin", "ack"} => pc' = "address"
    BY <1>3, <1>5 DEF FinOrder
  <2>5. RawTypes' /\ Socketless'
    BY <1>1, <1>3, <1>5, <2>1, <2>3, <2>4
       DEF RawInv, RawTypes, Socketless, Calls
  <2>6. Leak'
    BY <1>1, <1>3, <1>5, <2>1, <2>2, <2>3, <2>4, UnsentFinite DEF RawInv, RawTypes, Leak, Calls
  <2> QED BY <2>5, <2>6 DEF RawInv
<1> QED BY <1>2, <1>4, <1>5

\* setsockopt(), inet_pton() and sendto().
LEMMA RawCallInv ==
    ASSUME tool \in RawTools, RawInv, NEW ok \in BOOLEAN,
           SetTimeout(ok) \/ RawSend(ok) \/ (RawAddress /\ ok = valid)
    PROVE  RawInv'
<1>1. /\ UNCHANGED <<tool, valid>> /\ UNCHANGED host /\ UNCHANGED <<fds, wire>> /\ Proceed(ok)
      /\ pc \in {"timeout", "address", "send"} /\ valid \in BOOLEAN
      /\ pc = "address" => ok = valid
      /\ pc = "send" /\ wire = "unopened" => ~ok
  BY DEF SetTimeout, RawSend, RawAddress, host, RawInv, RawTypes
<1>2. CASE pc' = "exit" /\ UNCHANGED lines
  BY <1>1, <1>2, ExitInv DEF RawInv, RawTypes
<1>3. CASE /\ tool = "null" /\ pc = "send" /\ ~ok
           /\ lines' = Append(lines, "unsent") /\ pc' \in {"socket", "done"}
  <2>1. lines \in Seq(Said) /\ "unsent" \in Said /\ wire # "unopened"
    BY <1>1, <1>3 DEF RawInv, RawTypes, Socketless, Said
  <2>2. lines' \in Seq(Said) /\ Unsent \in Nat /\ Unsent' = Unsent + 1
    BY <1>3, <2>1, LineAdded, UnsentAdded, UnsentFinite
  <2>3. RawTypes' /\ Socketless'
    BY <1>1, <1>3, <2>1, <2>2
       DEF RawInv, RawTypes, Socketless, Calls
  <2>4. Leak'
    BY <1>1, <1>3, <2>1, <2>2 DEF RawInv, Leak, Calls
  <2> QED BY <2>3, <2>4 DEF RawInv
<1>4. CASE /\ <<pc, ok>> \notin S.exits /\ <<pc, ok>> \notin S.skips
           /\ pc' \in Calls /\ UNCHANGED lines
           /\ tool \in {"syn", "null"} => pc' = SynOrder[pc]
           /\ tool \in {"fin", "ack"} => pc' = FinOrder[pc]
  <2>1. tool = "ack" /\ wire = "unopened" => pc # "send"
    BY <1>1, <1>4, GivesUp
  <2> QED BY <1>1, <1>4, <2>1, CallInv DEF Calls
<1> QED BY <1>1, <1>2, <1>3, <1>4, Proceeds DEF Calls

\* recv(): only SYN and NULL are given a segment, FIN and XMAS end at the timeout.
LEMMA RawReceiveInv ==
    ASSUME tool \in RawTools, RawInv, RawReceive \/ RawTimeOut
    PROVE  RawInv'
<1>1. /\ UNCHANGED <<tool, valid>> /\ UNCHANGED host /\ UNCHANGED wire
      /\ pc = "receive" /\ fds \in Int /\ lines \in Seq(Said)
      /\ wire \in {"none", "unopened", "reset", "segment"} /\ wire # "unopened"
      /\ fds' = IF tool = "null" THEN fds - 1 ELSE fds
  BY Skips DEF RawReceive, RawTimeOut, Closing, host, RawInv, RawTypes, Socketless
<1>2. CASE pc' = "exit" /\ UNCHANGED lines
  BY <1>1, <1>2, ExitInv
<1>3. ASSUME NEW line \in Said \ {"unsent"}, Line(line),
             tool \notin {"fin", "xmas"}
      PROVE  RawInv'
  <2>1. pc' \in {"socket", "done"} /\ lines' = Append(lines, line)
    BY <1>3, Order DEF Line, NextPort
  <2>2. /\ lines' \in Seq(Said) /\ Len(lines) \in Nat /\ Len(lines') = Len(lines) + 1
        /\ Unsent \in Nat /\ Unsent' = Unsent
        /\ \A m \in DOMAIN lines : lines'[m] = lines[m]
        /\ DOMAIN lines' = DOMAIN lines \cup {Len(lines) + 1}
        /\ lines'[Len(lines) + 1] = line
    BY <1>1, <1>3, <2>1, LineAdded, UnsentAdded, UnsentFinite
  <2>3. RawTypes' /\ Socketless'
    BY <1>1, <2>1, <2>2 DEF RawInv, RawTypes, Socketless, Calls
  <2>4. Leak'
    BY <1>1, <2>1, <2>2 DEF RawInv, Leak, Calls
  <2> QED BY <2>3, <2>4 DEF RawInv
<1>4. CASE RawReceive
  <2>1. tool \in {"syn", "null"} /\ wire \in {"reset", "segment"}
    BY <1>4, Hears DEF RawReceive
  <2>2. S.prints[wire] \in Said \ {"unsent"}
    BY <2>1, Hears
  <2> QED BY <1>3, <1>4, <2>1, <2>2 DEF RawReceive
<1>5. CASE RawTimeOut
  <2>1. CASE tool \in {"fin", "xmas"}
    BY <1>1, <1>2, <1>5, <2>1, GivesUp DEF RawTimeOut
  <2>2. CASE tool \notin {"fin", "xmas"}
    <3>1. Line(S.prints.nothing)
      BY <1>1, <1>5, <2>2, GivesUp DEF RawTimeOut
    <3>2. S.prints.nothing \in Said \ {"unsent"}
      BY Hears
    <3> QED BY <1>3, <2>2, <3>1, <3>2
  <2> QED BY <2>1, <2>2
<1> QED BY <1>4, <1>5

\* A segment comes only where it is heard, which is not where ACK, FIN and XMAS are.
LEMMA SegmentInv ==
    ASSUME tool \in RawTools, RawInv, Segment
    PROVE  RawInv'
<1>1. /\ UNCHANGED <<tool, valid, pc, fds, lines>> /\ wire = "none"
      /\ wire' \in {"reset", "segment"}
  BY Hears DEF Segment, host
<1>2. UNCHANGED Unsent BY <1>1 DEF Unsent
<1> QED
  BY <1>1, <1>2 DEF RawInv, RawTypes, Socketless, Leak

\* Every step of a raw scanner keeps its invariant.
LEMMA RawNextInv ==
    ASSUME tool \in RawTools, RawInv, Segment \/ RawScanner \/ UNCHANGED vars
    PROVE  RawInv' /\ tool' \in RawTools
<1>1. RawInv'
  <2>1. CASE UNCHANGED vars
    <3>1. UNCHANGED <<tool, valid, pc, fds, lines, wire>> BY <2>1 DEF vars, host
    <3>2. UNCHANGED Unsent BY <3>1 DEF Unsent
    <3> QED
      BY <3>1, <3>2 DEF RawInv, RawTypes, Socketless, Leak
  <2>2. CASE RawAddress
    BY <2>2, RawCallInv DEF RawInv, RawTypes
  <2> QED
    BY <2>1, <2>2, SegmentInv, RawSocketInv, RawCallInv, RawReceiveInv DEF RawScanner
<1>2. tool' = tool
  BY DEF Segment, RawScanner, RawSocket, SetTimeout, RawSend, RawAddress, RawReceive,
     RawTimeOut, vars, host
<1> QED BY <1>1, <1>2

-----------------------------------------------------------------------------
(* All eight scanners. *)

\* The socket of each probe of UDP stays: one for each line, and one for this probe.
UdpLeak == tool = "udp" => fds = Len(lines) + (IF UdpHolds THEN 1 ELSE 0)

ScanInv ==
    \/ tool \in Tools /\ Inv /\ UdpLeak
    \/ tool \in RawTools /\ RawInv

\* The two families have no scanner in common.
LEMMA Families == Tools \cap RawTools = {}
BY DEF Tools, Connecting, RawTools, Scanners

\* Both families begin within their invariants.
LEMMA ScanInitInv == ScanInit => ScanInv
<1>1. CASE Init
  <2>1. fds = 0 /\ Len(lines) = 0 /\ pc = "socket" /\ tool \in Tools
    BY <1>1 DEF Init
  <2>2. UdpLeak BY <2>1 DEF UdpLeak, UdpHolds
  <2> QED BY <1>1, <2>1, <2>2, InitInv DEF ScanInv
<1>2. CASE RawInit
  <2>1. S.order[1] \in Calls /\ S.order[1] # "receive"
    <3>1. CASE tool # "xmas" BY <1>2, <3>1, Order DEF RawInit, Calls
    <3>2. CASE tool = "xmas" BY <3>2 DEF S, Scanners, Xmas, Calls
    <3> QED BY <3>1, <3>2
  <2>2. tool \in RawTools /\ (tool # "xmas" => pc = "socket")
    BY <1>2, Order DEF RawInit
  <2>3. Unsent = 0
    <3>1. {m \in DOMAIN lines : lines[m] = "unsent"} = {} BY <1>2 DEF RawInit
    <3> QED BY <3>1, FS_EmptySet DEF Unsent
  <2>4. RawInv
    BY <1>2, <2>1, <2>2, <2>3
       DEF RawInit, RawInv, RawTypes, Socketless, Leak
  <2> QED BY <2>2, <2>4 DEF ScanInv
<1> QED BY <1>1, <1>2 DEF ScanInit

\* UDP opens a socket for each port, and closes none.
LEMMA UdpStep ==
    ASSUME Inv, UdpLeak, [Next]_vars
    PROVE  UdpLeak' /\ tool' = tool
<1>1. tool' = tool
  BY DEF Next, Scanner, HostAnswers, Lost, Socket, SocketFails, Address, Request, Connected,
     Refused, TimedOut, Return, Close, UdpSend, UdpReceive, vars, host
<1>2. SUFFICES ASSUME tool = "udp" PROVE UdpLeak'
  BY <1>1 DEF UdpLeak
<1>3. /\ lines \in Seq({"OPEN", "CLOSED"}) /\ Len(lines) \in Nat /\ fds \in Int
      /\ pc # "close" /\ tool \notin Connecting
  BY <1>2, PortScanAssumption DEF Inv, TypeOK, Credited, Connecting
<1>4. \/ UNCHANGED <<fds, lines, pc>>
      \/ pc = "socket" /\ pc' = "address" /\ fds' = fds + 1 /\ UNCHANGED lines
      \/ pc = "socket" /\ pc' = "exit_socket" /\ UNCHANGED <<fds, lines>>
      \/ /\ pc \in {"address", "probe"} /\ UNCHANGED <<fds, lines>>
         /\ pc' \in {"probe", "receive", "exit_address", "exit_send"}
      \/ /\ pc = "receive" /\ pc' \in {"socket", "done"} /\ fds' = fds
         /\ lines' = Append(lines, "OPEN")
  BY <1>2, <1>3 DEF Next, Scanner, HostAnswers, Lost, Socket, SocketFails, Address, Request,
     Connected, Refused, TimedOut, Return, Close, UdpSend, UdpReceive, vars, Verdict, NextPort,
     Connecting
<1>5. lines' = Append(lines, "OPEN") => Len(lines') = Len(lines) + 1
  BY <1>3
<1> QED BY <1>1, <1>2, <1>3, <1>4, <1>5 DEF UdpLeak, UdpHolds

\* And each stays within its own.
LEMMA ScanNextInv == ScanInv /\ [ScanNext]_vars => ScanInv'
<1> SUFFICES ASSUME ScanInv, [ScanNext]_vars PROVE ScanInv'
  OBVIOUS
<1>1. CASE tool \in Tools /\ Inv /\ UdpLeak
  <2>1. [Next]_vars
    BY <1>1, Families DEF ScanNext, vars
  <2> QED BY <1>1, <2>1, NextInv, UdpStep DEF ScanInv
<1>2. CASE tool \in RawTools /\ RawInv
  <2>1. Segment \/ RawScanner \/ UNCHANGED vars
    BY <1>2, Families DEF ScanNext
  <2> QED BY <1>2, <2>1, RawNextInv DEF ScanInv
<1> QED BY <1>1, <1>2 DEF ScanInv

\* The invariant of each family holds throughout its scans.
THEOREM ScanInvariant == ScanSpec => []ScanInv
<1>1. ScanInit => ScanInv BY ScanInitInv
<1>2. ScanInv /\ [ScanNext]_vars => ScanInv' BY ScanNextInv
<1> QED BY <1>1, <1>2, PTL DEF ScanSpec

\* Of all eight scanners the connecting ones never credit a port with the answer
\* for another, and give every socket back.
THEOREM ConnectingScans == ScanSpec => [](OpenMeansAccepted /\ SocketsReturned)
<1>1. ScanInv => OpenMeansAccepted /\ SocketsReturned
  BY Families DEF ScanInv, Inv, OpenMeansAccepted, SocketsReturned, Tools
<1> QED BY <1>1, ScanInvariant, PTL

\* The scanners lose descriptors exactly as counted: UDP, SYN and ACK one for each
\* line they print, NULL one for each port it could not send to.
THEOREM DescriptorsLost == ScanSpec => []SocketsLeak
<1>1. ScanInv => SocketsLeak
  <2>1. tool \in Tools /\ UdpLeak /\ Inv => SocketsLeak
    <3> SUFFICES ASSUME tool \in Tools, UdpLeak, Inv PROVE SocketsLeak
      OBVIOUS
    <3>1. fds \in Int /\ Len(lines) \in Nat
      BY PortScanAssumption DEF Inv, TypeOK
    <3> QED BY <3>1 DEF Tools, Connecting, SocketsLeak, UdpLeak
  <2> QED BY <2>1, LeakIsSocketsLeak DEF ScanInv
<1> QED BY <1>1, ScanInvariant, PTL
===============================================================================
