-------------------------- MODULE TracerouteProofs --------------------------
(***************************************************************************)
(* For every number of hops, every distance and however many answers are   *)
(* late, lost or foreign: no line is early, the lines are right as long as *)
(* every probe was answered in time, and only the destination stops the    *)
(* trace before MAX_TTL.                                                   *)
(*                                                                         *)
(* The argument: the answer to a probe exists once, in the network, in the *)
(* socket's buffer or in the report, and not before its probe was sent;    *)
(* when line i is printed, i probes were sent.                             *)
(***************************************************************************)
EXTENDS Traceroute, TLAPS

Replies == [from : 1 .. Distance, probe : 0 .. MAX_TTL]
Lines   == [from : (1 .. Distance) \cup {NoAnswer}, probe : 0 .. MAX_TTL]
Going   == {"start", "send", "receive"}

TypeInv ==
    /\ at \in Going \cup {"close", "done"}
    /\ ttl \in 1 .. MAX_TTL
    /\ network \subseteq Replies
    /\ queue \in Seq(Replies) /\ report \in Seq(Lines)

\* While the loop runs, there is a line for every TTL before this one.
Progress ==
    /\ at \in Going => Len(report) = ttl - 1
    /\ Len(report) <= MAX_TTL

\* The probes sent so far.
Sent == IF at = "receive" THEN ttl ELSE Len(report)

\* r is the answer to one of the first m probes.
AnswerTo(r, m) == r.probe \in 1 .. m /\ r = Answer(r.probe)

Genuine ==
    /\ \A r \in network : AnswerTo(r, Sent)
    /\ \A q \in DOMAIN queue : queue[q].probe # 0 => AnswerTo(queue[q], Sent)
    /\ \A i \in DOMAIN report : report[i].probe # 0 => AnswerTo(report[i], i)

\* An answer is in one place only.
Once ==
    /\ \A r \in network, q \in DOMAIN queue : queue[q].probe # r.probe
    /\ \A r \in network, i \in DOMAIN report : report[i].probe # r.probe
    /\ \A q, s \in DOMAIN queue :
          queue[q].probe # 0 /\ queue[q].probe = queue[s].probe => q = s
    /\ \A q \in DOMAIN queue, i \in DOMAIN report :
          queue[q].probe # 0 => queue[q].probe # report[i].probe

Onward == at \in Going => \A i \in DOMAIN report : report[i].from # Distance

InFlight == TypeInv /\ Progress /\ Genuine /\ Once

Inv == InFlight /\ Onward /\ NeverEarly /\ WrongAfterSilence /\ StopsAtDestination

-----------------------------------------------------------------------------

\* The assumptions on the constants, one by one.
LEMMA Sizes ==
    /\ MAX_TTL \in Nat \ {0} /\ Distance \in Nat \ {0}
    /\ Others \subseteq 1 .. Distance /\ NoAnswer # Distance
BY TracerouteAssumption

\* An answer is a reply to the probe it answers.
LEMMA AnswerFacts ==
    ASSUME NEW t \in 1 .. MAX_TTL
    PROVE  Answer(t) \in Replies /\ Answer(t).probe = t
BY Sizes DEF Answer, Replies

\* What it takes to keep what is said of the report, when a line was added to it.
LEMMA NewLine ==
    ASSUME Inv, at = "receive", NEW line \in Lines, report' = Append(report, line),
           line.probe # 0 => AnswerTo(line, ttl),
           \A i \in DOMAIN report : line.probe # 0 => line.probe # report[i].probe,
           \/ line.from = Distance /\ at' = "close" /\ ttl' = ttl
           \/ line.from # Distance /\ Advance
    PROVE  /\ report' \in Seq(Lines) /\ Len(report') = ttl /\ ttl' \in 1 .. MAX_TTL
           /\ at' \in {"send", "close"} /\ Sent' = ttl
           /\ Progress' /\ Onward' /\ NeverEarly' /\ WrongAfterSilence' /\ StopsAtDestination'
           /\ \A i \in DOMAIN report' : report'[i].probe # 0 => AnswerTo(report'[i], i)
           /\ \A i \in DOMAIN report' : \/ i \in DOMAIN report /\ report'[i] = report[i]
                                        \/ report'[i] = line
<1>1. /\ report \in Seq(Lines) /\ Len(report) = ttl - 1 /\ ttl \in 1 .. MAX_TTL
      /\ MAX_TTL \in Nat
  BY Sizes DEF Inv, InFlight, TypeInv, Progress, Going
<1>2. /\ report' \in Seq(Lines) /\ Len(report') = ttl /\ report'[ttl] = line
      /\ \A i \in 1 .. (ttl - 1) : report'[i] = report[i]
      /\ DOMAIN report = 1 .. (ttl - 1) /\ DOMAIN report' = 1 .. ttl
  BY <1>1
<1>3. /\ at' \in {"send", "close"} /\ ttl' \in 1 .. MAX_TTL
      /\ at' = "send" => ttl' = ttl + 1 /\ line.from # Distance
      /\ at' = "close" => ttl = MAX_TTL \/ line.from = Distance
  BY <1>1 DEF Advance
<1>4. Sent' = ttl BY <1>2, <1>3 DEF Sent
<1>5. Progress'
  <2>1. CASE at' = "send"
    <3>1. Len(report') = ttl' - 1 /\ Len(report') <= MAX_TTL BY <2>1, <1>1, <1>2, <1>3
    <3> QED BY <3>1 DEF Progress
  <2>2. CASE at' = "close"
    <3>1. at' \notin Going /\ Len(report') <= MAX_TTL BY <2>2, <1>1, <1>2 DEF Going
    <3> QED BY <3>1 DEF Progress
  <2> QED BY <2>1, <2>2, <1>3
<1>6. \A i \in 1 .. (ttl - 1) : report[i].from # Distance
  BY <1>2 DEF Inv, Onward, Going
<1>7. Onward' BY <1>1, <1>2, <1>3, <1>6 DEF Onward, Going
<1>8. \A i \in DOMAIN report' : report'[i].probe # 0 => AnswerTo(report'[i], i)
  BY <1>1, <1>2 DEF Inv, InFlight, Genuine
<1>9. NeverEarly'
  <2>1. \A i \in 1 .. ttl : report'[i].probe # 0 => report'[i].probe <= i
    BY <1>2, <1>8, <1>1 DEF AnswerTo
  <2>2. \A i, j \in 1 .. (ttl - 1) :
            report[i].probe # 0 /\ report[j].probe = report[i].probe => i = j
    BY <1>2 DEF Inv, NeverEarly
  <2>3. ASSUME NEW i \in 1 .. ttl, NEW j \in 1 .. ttl, report'[i].probe # 0,
               report'[j].probe = report'[i].probe
        PROVE  i = j
    <3>1. CASE i = ttl /\ j = ttl BY <3>1
    <3>2. CASE i # ttl /\ j # ttl
      <4>1. i \in 1 .. (ttl - 1) /\ j \in 1 .. (ttl - 1) BY <3>2, <1>1
      <4> QED BY <4>1, <2>2, <2>3, <1>2
    <3>3. CASE i # ttl /\ j = ttl
      <4>1. i \in 1 .. (ttl - 1) BY <3>3, <1>1
      <4> QED BY <4>1, <3>3, <2>3, <1>2
    <3>4. CASE i = ttl /\ j # ttl
      <4>1. j \in 1 .. (ttl - 1) BY <3>4, <1>1
      <4> QED BY <4>1, <3>4, <2>3, <1>2
    <3> QED BY <3>1, <3>2, <3>3, <3>4
  <2> QED BY <2>1, <2>3, <1>2 DEF NeverEarly
<1>10. WrongAfterSilence'
  <2> SUFFICES ASSUME NEW i \in 1 .. ttl, \A j \in 1 .. i : report'[j].probe # 0
               PROVE  report'[i] = Answer(i)
    BY <1>2 DEF WrongAfterSilence, Answer
  <2>1. ASSUME NEW j \in 1 .. (ttl - 1), j <= i PROVE report[j] = Answer(j)
    <3>1. \A k \in 1 .. j : report[k].probe # 0 BY <2>1, <1>1, <1>2
    <3> QED BY <3>1, <1>2 DEF Inv, WrongAfterSilence
  <2>2. CASE i < ttl
    <3>1. i \in 1 .. (ttl - 1) BY <2>2, <1>1
    <3> QED BY <3>1, <2>1, <1>2, <1>1
  <2>3. CASE i = ttl
    <3>1. line.probe \in 1 .. ttl /\ line = Answer(line.probe)
      BY <2>3, <1>1, <1>2 DEF AnswerTo
    <3>2. ASSUME NEW j \in 1 .. (ttl - 1) PROVE line.probe # j
      <4>1. report[j].probe = j
        BY <2>1, <2>3, <1>1 DEF Answer
      <4>2. line.probe # 0 BY <3>1, <1>1
      <4> QED BY <4>1, <4>2, <1>2
    <3>3. line.probe = ttl BY <3>1, <3>2, <1>1
    <3> QED BY <3>1, <3>3, <2>3, <1>2
  <2> QED BY <2>2, <2>3, <1>1
<1>11. StopsAtDestination'
  <2>1. Last(report)' = line BY <1>2, <1>1 DEF Last
  <2> QED BY <2>1, <1>1, <1>2, <1>3, <1>6 DEF StopsAtDestination
<1>12. \A i \in DOMAIN report' : \/ i \in DOMAIN report /\ report'[i] = report[i]
                                 \/ report'[i] = line
  BY <1>1, <1>2
<1> QED BY <1>2, <1>3, <1>4, <1>5, <1>7, <1>8, <1>9, <1>10, <1>11, <1>12

\* The steps that print nothing.
LEMMA SameReport ==
    ASSUME Inv, UNCHANGED report, at' = at \/ at' # "close", at' \in Going => at \in Going
    PROVE  Onward' /\ NeverEarly' /\ WrongAfterSilence' /\ StopsAtDestination'
<1>2. Onward' BY DEF Inv, Onward
<1>3. NeverEarly' BY DEF Inv, NeverEarly
<1>4. WrongAfterSilence' BY DEF Inv, WrongAfterSilence, Answer
<1>5. StopsAtDestination' BY DEF Inv, StopsAtDestination, Last
<1> QED BY <1>2, <1>3, <1>4, <1>5

\* Nothing was sent or reported at the beginning.
LEMMA InitInv == TraceInit => Inv
<1> SUFFICES ASSUME TraceInit PROVE Inv OBVIOUS
<1>1. TypeInv BY Sizes DEF TraceInit, TypeInv, Going
<1>2. Progress /\ Genuine /\ Once BY Sizes DEF TraceInit, Progress, Genuine, Once
<1>3. Onward /\ NeverEarly /\ WrongAfterSilence /\ StopsAtDestination
  BY DEF TraceInit, Onward, NeverEarly, WrongAfterSilence, StopsAtDestination
<1> QED BY <1>1, <1>2, <1>3 DEF Inv, InFlight

-----------------------------------------------------------------------------

\* The network loses an answer, delivers it, or delivers a message of others.
LEMMA NetworkInv == ASSUME Inv, Lose \/ Arrive \/ Other PROVE Inv'
<1>1. TypeInv /\ Progress /\ Genuine /\ Once BY DEF Inv, InFlight
<1>2. UNCHANGED <<at, ttl, report>> BY DEF Lose, Arrive, Other
<1>3. Sent' = Sent /\ \A r, m : AnswerTo(r, m)' = AnswerTo(r, m)
  BY <1>2 DEF Sent, AnswerTo, Answer
<1>4. Progress' BY <1>1, <1>2 DEF Progress
<1>5. TypeInv' /\ Genuine' /\ Once'
  <2>1. CASE Lose
    <3>1. queue' = queue /\ network' \subseteq network BY <2>1 DEF Lose
    <3> QED BY <3>1, <1>1, <1>2, <1>3 DEF TypeInv, Genuine, Once
  <2>2. CASE Arrive
    <3>1. PICK r \in network : network' = network \ {r} /\ queue' = Append(queue, r)
      BY <2>2 DEF Arrive
    <3>2. queue \in Seq(Replies) /\ r \in Replies /\ AnswerTo(r, Sent)
      BY <1>1 DEF TypeInv, Genuine
    <3>3. TypeInv' BY <3>1, <3>2, <1>1, <1>2 DEF TypeInv
    <3>4. \A q \in DOMAIN queue' :
              \/ q \in DOMAIN queue /\ queue'[q] = queue[q] /\ q # Len(queue')
              \/ q = Len(queue') /\ queue'[q] = r
      BY <3>1, <3>2
    <3>5. Genuine' BY <3>1, <3>2, <3>4, <1>1, <1>2, <1>3 DEF Genuine
    <3>6. ASSUME NEW x \in network' PROVE x.probe # r.probe
      <4>1. x = Answer(x.probe) /\ r = Answer(r.probe) /\ x # r
        BY <3>1, <3>6, <1>1 DEF Genuine, AnswerTo
      <4> QED BY <4>1
    <3>7. Once' BY <3>1, <3>4, <3>6, <1>1, <1>2 DEF Once
    <3> QED BY <3>3, <3>5, <3>7
  <2>3. CASE Other
    <3>1. PICK n \in Others : queue' = Append(queue, [from |-> n, probe |-> 0])
      BY <2>3 DEF Other
    <3> DEFINE r == [from |-> n, probe |-> 0]
    <3>2. network' = network /\ queue \in Seq(Replies) BY <2>3, <1>1 DEF Other, TypeInv
    <3>3. r \in Replies /\ r.probe = 0 BY Sizes DEF Replies
    <3>4. TypeInv' BY <3>1, <3>2, <3>3, <1>1, <1>2 DEF TypeInv
    <3>5. \A q \in DOMAIN queue' :
              \/ q \in DOMAIN queue /\ queue'[q] = queue[q] /\ q # Len(queue')
              \/ q = Len(queue') /\ queue'[q] = r
      BY <3>1, <3>2, <3>3
    <3> HIDE DEF r
    <3>6. Genuine' BY <3>2, <3>3, <3>5, <1>1, <1>2, <1>3 DEF Genuine
    <3>7. \A x \in network : x.probe # 0 BY <1>1 DEF Genuine, AnswerTo
    <3>8. Once' BY <3>2, <3>3, <3>5, <3>7, <1>1, <1>2 DEF Once
    <3> QED BY <3>4, <3>6, <3>8
  <2> QED BY <2>1, <2>2, <2>3
<1>6. Onward' /\ NeverEarly' /\ WrongAfterSilence' /\ StopsAtDestination' BY <1>2, SameReport
<1> QED BY <1>4, <1>5, <1>6 DEF Inv, InFlight

\* The steps that neither print nor send.
LEMMA PlainInv ==
    ASSUME Inv, UNCHANGED <<ttl, network, queue, report>>,
           at' \in Going => at \in Going, at' \in Going \cup {"done"}, at' # "receive",
           at # "receive"
    PROVE  Inv'
<1>1. TypeInv /\ Progress /\ Genuine /\ Once BY DEF Inv, InFlight
<1>2. Sent' = Sent BY DEF Sent
<1>3. TypeInv' BY <1>1 DEF TypeInv
<1>4. Progress' BY <1>1 DEF Progress
<1>5. Genuine' BY <1>1, <1>2 DEF Genuine, AnswerTo, Answer
<1>6. Once' BY <1>1 DEF Once
<1>7. at' # "close" BY DEF Going
<1>8. Onward' /\ NeverEarly' /\ WrongAfterSilence' /\ StopsAtDestination' BY <1>7, SameReport
<1> QED BY <1>3, <1>4, <1>5, <1>6, <1>8 DEF Inv, InFlight

\* The answer to a new probe is not that to an older one.
LEMMA SendProbeInv == ASSUME Inv, SendProbe PROVE Inv'
<1>1. TypeInv /\ Progress /\ Genuine /\ Once BY DEF Inv, InFlight
<1>2. at = "send" /\ UNCHANGED <<ttl, queue, report>> BY DEF SendProbe
<1>3. CASE at' = "done" /\ UNCHANGED network BY <1>2, <1>3, PlainInv DEF Going
<1>4. CASE at' = "receive" /\ network' = network \cup {Answer(ttl)}
  <2>1. /\ ttl \in 1 .. MAX_TTL /\ Len(report) = ttl - 1 /\ Sent = ttl - 1 /\ Sent' = ttl
        /\ report \in Seq(Lines) /\ DOMAIN report = 1 .. (ttl - 1)
        /\ Answer(ttl) \in Replies /\ Answer(ttl).probe = ttl
    BY <1>1, <1>2, <1>4, AnswerFacts DEF TypeInv, Progress, Going, Sent
  <2>2. \A r : AnswerTo(r, Sent) => AnswerTo(r, ttl) /\ r.probe # ttl
    BY <2>1, <1>2, Sizes DEF AnswerTo
  <2>3. AnswerTo(Answer(ttl), ttl) BY <2>1, Sizes DEF AnswerTo
  <2>4. \A i \in DOMAIN report : report[i].probe # ttl
    BY <2>1, <1>1, Sizes DEF Genuine, AnswerTo
  <2>5. TypeInv' BY <1>1, <1>2, <1>4, <2>1 DEF TypeInv, Going
  <2>6. Progress' BY <1>1, <1>2, <1>4 DEF Progress, Going
  <2>7. Genuine'
    <3>1. \A r \in network' : AnswerTo(r, ttl) BY <2>2, <2>3, <1>1, <1>4 DEF Genuine
    <3>2. \A q \in DOMAIN queue : queue[q].probe # 0 => AnswerTo(queue[q], ttl)
      BY <2>2, <1>1 DEF Genuine
    <3>3. \A i \in DOMAIN report : report[i].probe # 0 => AnswerTo(report[i], i)
      BY <1>1 DEF Genuine
    <3> QED BY <3>1, <3>2, <3>3, <2>1, <1>2 DEF Genuine, AnswerTo, Answer
  <2>8. Once'
    <3>1. \A q \in DOMAIN queue : queue[q].probe # ttl
      BY <2>1, <2>2, <1>1, Sizes DEF Genuine
    <3> QED BY <3>1, <2>1, <2>4, <1>1, <1>2, <1>4 DEF Once
  <2>9. Onward' /\ NeverEarly' /\ WrongAfterSilence' /\ StopsAtDestination'
    BY <1>2, <1>4, SameReport DEF Going
  <2> QED BY <2>5, <2>6, <2>7, <2>8, <2>9 DEF Inv, InFlight
<1> QED BY <1>3, <1>4 DEF SendProbe

\* The message that is printed leaves the socket's buffer.
LEMMA ReceiveInv == ASSUME Inv, Receive PROVE Inv'
<1>1. TypeInv /\ Progress /\ Genuine /\ Once BY DEF Inv, InFlight
<1> DEFINE line == Head(queue)
<1>2. /\ at = "receive" /\ queue # <<>> /\ network' = network
      /\ report' = Append(report, line) /\ queue' = Tail(queue)
      /\ \/ line.from = Distance /\ at' = "close" /\ ttl' = ttl
         \/ line.from # Distance /\ Advance
  BY DEF Receive
<1>3. queue \in Seq(Replies) /\ queue' \in Seq(Replies) /\ line = queue[1] /\ 1 \in DOMAIN queue
  BY <1>1, <1>2 DEF TypeInv
<1>4. line \in Replies /\ line \in Lines
  <2>1. line \in Replies BY <1>3
  <2> HIDE DEF line
  <2> QED BY <2>1 DEF Replies, Lines
<1>5. Sent = ttl BY <1>2 DEF Sent
<1>6. line.probe # 0 => AnswerTo(line, ttl) BY <1>1, <1>3, <1>5 DEF Genuine
<1>7. \A i \in DOMAIN report : line.probe # 0 => line.probe # report[i].probe
  BY <1>1, <1>3 DEF Once
<1>8. \A q \in DOMAIN queue' : /\ q + 1 \in DOMAIN queue /\ q + 1 # 1
                               /\ queue'[q] = queue[q + 1] /\ q \in Nat
  BY <1>2, <1>3
<1> HIDE DEF line
<1>9. /\ report' \in Seq(Lines) /\ Len(report') = ttl /\ ttl' \in 1 .. MAX_TTL
      /\ at' \in {"send", "close"} /\ Sent' = ttl
      /\ Progress' /\ Onward' /\ NeverEarly' /\ WrongAfterSilence' /\ StopsAtDestination'
      /\ \A i \in DOMAIN report' : report'[i].probe # 0 => AnswerTo(report'[i], i)
      /\ \A i \in DOMAIN report' : \/ i \in DOMAIN report /\ report'[i] = report[i]
                                   \/ report'[i] = line
  BY <1>2, <1>4, <1>6, <1>7, NewLine
<1>10. TypeInv' BY <1>1, <1>2, <1>3, <1>9 DEF TypeInv, Going
<1>11. \A r, m : AnswerTo(r, m)' = AnswerTo(r, m') BY DEF AnswerTo, Answer
<1>12. Genuine'
  <2>1. \A r \in network' : AnswerTo(r, Sent') BY <1>1, <1>2, <1>5, <1>9 DEF Genuine
  <2>2. \A q \in DOMAIN queue' : queue'[q].probe # 0 => AnswerTo(queue'[q], Sent')
    BY <1>1, <1>5, <1>8, <1>9 DEF Genuine
  <2> QED BY <2>1, <2>2, <1>9 DEF Genuine, AnswerTo, Answer
<1>13. Once'
  <2>1. \A r \in network', q \in DOMAIN queue' : queue'[q].probe # r.probe
    BY <1>1, <1>2, <1>8 DEF Once
  <2>2. \A r \in network', i \in DOMAIN report' : report'[i].probe # r.probe
    BY <1>1, <1>2, <1>3, <1>9 DEF Once
  <2>3. ASSUME NEW q \in DOMAIN queue', NEW s \in DOMAIN queue', queue'[q].probe # 0,
               queue'[q].probe = queue'[s].probe
        PROVE  q = s
    <3>1. q + 1 = s + 1 BY <2>3, <1>1, <1>8 DEF Once
    <3> QED BY <3>1, <1>8
  <2>4. ASSUME NEW q \in DOMAIN queue', NEW i \in DOMAIN report', queue'[q].probe # 0
        PROVE  queue'[q].probe # report'[i].probe
    <3>1. queue'[q].probe # line.probe BY <2>4, <1>1, <1>3, <1>8 DEF Once
    <3> QED BY <3>1, <2>4, <1>1, <1>8, <1>9 DEF Once
  <2> QED BY <2>1, <2>2, <2>3, <2>4 DEF Once
<1> QED BY <1>9, <1>10, <1>12, <1>13 DEF Inv, InFlight

\* recvfrom() gives up: a line without an address.
LEMMA TimeOutInv == ASSUME Inv, TimeOut PROVE Inv'
<1>1. TypeInv /\ Progress /\ Genuine /\ Once BY DEF Inv, InFlight
<1> DEFINE line == [from |-> NoAnswer, probe |-> 0]
<1>2. /\ at = "receive" /\ UNCHANGED <<network, queue>> /\ Advance
      /\ report' = Append(report, line)
  BY DEF TimeOut
<1>3. line \in Lines /\ line.from # Distance /\ line.probe = 0 BY Sizes DEF Lines
<1> HIDE DEF line
<1>4. /\ report' \in Seq(Lines) /\ Len(report') = ttl /\ ttl' \in 1 .. MAX_TTL
      /\ at' \in {"send", "close"} /\ Sent' = ttl
      /\ Progress' /\ Onward' /\ NeverEarly' /\ WrongAfterSilence' /\ StopsAtDestination'
      /\ \A i \in DOMAIN report' : report'[i].probe # 0 => AnswerTo(report'[i], i)
      /\ \A i \in DOMAIN report' : \/ i \in DOMAIN report /\ report'[i] = report[i]
                                   \/ report'[i] = line
  BY <1>2, <1>3, NewLine
<1>5. TypeInv' BY <1>1, <1>2, <1>4 DEF TypeInv, Going
<1>6. Sent' = Sent BY <1>2, <1>4 DEF Sent
<1>7. Genuine' BY <1>1, <1>2, <1>4, <1>6 DEF Genuine, AnswerTo, Answer
<1>8. Once'
  <2>1. \A r \in network : r.probe # 0 BY <1>1 DEF Genuine, AnswerTo
  <2> QED BY <2>1, <1>1, <1>2, <1>3, <1>4 DEF Once
<1> QED BY <1>4, <1>5, <1>7, <1>8 DEF Inv, InFlight

-----------------------------------------------------------------------------

\* The inductive invariant.
THEOREM Invariant == TraceSpec => []Inv
<1>1. Inv /\ [TraceNext]_traceVars => Inv'
  <2> SUFFICES ASSUME Inv, [TraceNext]_traceVars PROVE Inv' OBVIOUS
  <2>1. CASE Lose \/ Arrive \/ Other BY <2>1, NetworkInv
  <2>2. CASE Start BY <2>2, PlainInv DEF Start, Going
  <2>3. CASE SendProbe BY <2>3, SendProbeInv
  <2>4. CASE Receive BY <2>4, ReceiveInv
  <2>5. CASE TimeOut BY <2>5, TimeOutInv
  <2>6. CASE CloseTrace BY <2>6, PlainInv DEF CloseTrace, Going
  <2>7. CASE UNCHANGED traceVars
    <3>1. UNCHANGED <<at, ttl, network, queue, report>> BY <2>7 DEF traceVars
    <3>2. TypeInv' /\ Progress' /\ Once' BY <3>1 DEF Inv, InFlight, TypeInv, Progress, Once
    <3>3. Genuine' BY <3>1 DEF Inv, InFlight, Genuine, AnswerTo, Answer, Sent
    <3>4. Onward' /\ NeverEarly' /\ WrongAfterSilence' /\ StopsAtDestination'
      BY <3>1, SameReport
    <3> QED BY <3>2, <3>3, <3>4 DEF Inv, InFlight
  <2> QED BY <2>1, <2>2, <2>3, <2>4, <2>5, <2>6, <2>7 DEF TraceNext, Program
<1> QED BY <1>1, InitInv, PTL DEF TraceSpec

\* A line of traceroute() never shows the answer to a later probe, and no answer
\* is shown twice.
THEOREM LateNeverEarly == TraceSpec => []NeverEarly
<1>1. Inv => NeverEarly BY DEF Inv
<1> QED BY <1>1, Invariant, PTL

\* The lines are the path up to the first timeout or foreign message.
THEOREM RightUntilSilence == TraceSpec => []WrongAfterSilence
<1>1. Inv => WrongAfterSilence BY DEF Inv
<1> QED BY <1>1, Invariant, PTL

\* The break of the loop at Traceroute.c:141, and nothing else, ends it early.
THEOREM StopsThere == TraceSpec => []StopsAtDestination
<1>1. Inv => StopsAtDestination BY DEF Inv
<1> QED BY <1>1, Invariant, PTL
===============================================================================
