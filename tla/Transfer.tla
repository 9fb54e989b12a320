------------------------------ MODULE Transfer ------------------------------
(***************************************************************************)
(* The two tools of Fingerprinting whose answer comes in pieces, next to   *)
(* those of DnsAnswer: AXFR sends one query over UDP and prints datagrams  *)
(* until one is shorter than its buffer; Whois sends one line over TCP and *)
(* prints what arrives until the server closes the connection.             *)
(*                                                                         *)
(* The variables are those of DnsAnswer.  A byte is known by its place:    *)
(* byte c of datagram j is 1000 * j + c, byte j of the text of Whois is j, *)
(* or 0 where the server sends a NUL.                                      *)
(***************************************************************************)
EXTENDS DnsAnswer

CONSTANTS
    BUF,            \* BUFFER_SIZE: 512 and 1024
    MaxPieces,      \* bound on the datagrams of a transfer
    MaxCopies,      \* how often the network may deliver one
    MaxText         \* bound on the bytes of a text

ASSUME TransferAssumption ==
    /\ BUF \in Nat /\ BUF >= 2 /\ MaxText \in Nat
    /\ MaxPieces \in Nat /\ MaxCopies \in Nat \ {0}

\* What recv() of this many bytes writes over, and what stays behind it.
Over(bytes) == bytes \o SubSeq(buffer, Len(bytes) + 1, Len(buffer))

-----------------------------------------------------------------------------
(* AXFR.  answers has the sizes of the datagrams; wire is the set of those *)
(* under way, each in one or more copies, as pairs of a datagram and the   *)
(* number of the copy: they are lost or overtake each other.               *)

Query  == <<0, 0>>
Copies == (DOMAIN answers) \X (1 .. MaxCopies)

Domain == <<101, 120, 97, 109, 112, 108, 101, 46, 99, 111, 109>>    \* example.com

AxfrInit ==
    /\ tool = "axfr"
    /\ answers \in UNION {[1 .. m -> 0 .. (BUF + 1)] : m \in 0 .. MaxPieces}
    /\ pc = "send" /\ wire = {}
    /\ buffer = <<>> /\ reader = 0 /\ k = 0 /\ printed = <<>>

\* strcpy() of the domain into zeroes, then type and class over its beginning.
AxfrQuery == <<0, 252, 0, 1>> \o SubSeq(Domain \o <<0, 0, 0, 0, 0>>, 5, Len(Domain) + 5)

AxfrSend ==
    /\ pc = "send"
    /\ buffer' = AxfrQuery
    /\ wire' = {Query} /\ pc' = "receive"
    /\ UNCHANGED <<tool, answers, reader, k, printed>>

AxfrSendFails ==
    /\ pc = "send"
    /\ buffer' = AxfrQuery
    /\ pc' = "failed"
    /\ UNCHANGED <<tool, answers, wire, reader, k, printed>>

AxfrAnswers ==
    /\ Query \in wire
    /\ wire' = Copies
    /\ UNCHANGED <<tool, answers, pc, buffer, reader, k, printed>>

AxfrLost(w) ==
    /\ wire' = wire \ {w}
    /\ UNCHANGED <<tool, answers, pc, buffer, reader, k, printed>>

\* What recv() returns of the copy w of a datagram.
Cut(w) == [c \in 1 .. Min({answers[w[1]], BUF}) |-> 1000 * w[1] + c]

\* Mutant of AxfrReceive: the loop prints the buffer, not the bytes received.
AxfrReceiveAll(w) ==
    /\ pc = "receive"
    /\ buffer' = Over(Cut(w))
    /\ printed' = printed \o SubSeq(buffer', 1, BUF)
    /\ pc' = IF Len(Cut(w)) < BUF THEN "done" ELSE "receive"
    /\ wire' = wire \ {w}
    /\ UNCHANGED <<tool, answers, reader, k>>

AxfrReceive(w) ==
    /\ pc = "receive"
    /\ buffer' = Over(Cut(w))
    /\ printed' = printed \o SubSeq(buffer', 1, Len(Cut(w)))
    /\ pc' = IF Len(Cut(w)) < BUF THEN "done" ELSE "receive"
    /\ wire' = wire \ {w}
    /\ UNCHANGED <<tool, answers, reader, k>>

AxfrProgram == AxfrSend \/ \E w \in wire \ {Query} : AxfrReceive(w)

AxfrNext ==
    \/ AxfrProgram \/ AxfrSendFails \/ ReceiveFails
    \/ AxfrAnswers \/ \E w \in wire : AxfrLost(w)

-----------------------------------------------------------------------------
(* Whois.  answers is the text; k bytes of it have arrived, and reader of  *)
(* them were received.                                                     *)

Junk == 255     \* what nobody initialised: not a zero

WhoisInit ==
    /\ tool = "whois"
    /\ answers \in {[j \in 1 .. m |-> IF j \in nuls THEN 0 ELSE j] :
                       m \in 0 .. MaxText, nuls \in SUBSET (1 .. MaxText)}
    /\ pc = "connect" /\ wire = "none"
    /\ buffer = [i \in 1 .. BUF |-> Junk]
    /\ reader = 0 /\ k = 0 /\ printed = <<>>

\* socket(), gethostbyname() and connect().
WhoisConnect(ok) ==
    /\ pc = "connect"
    /\ pc' = IF ok THEN "send" ELSE "failed"
    /\ wire' = IF ok THEN "open" ELSE wire
    /\ UNCHANGED <<tool, answers, buffer, reader, k, printed>>

WhoisSend(ok) ==
    /\ pc = "send"
    /\ pc' = IF ok THEN "receive" ELSE "failed"
    /\ wire' = IF ok THEN "asked" ELSE wire
    /\ UNCHANGED <<tool, answers, buffer, reader, k, printed>>

Arrives ==
    /\ wire = "asked"
    /\ \E n \in (k + 1) .. Len(answers) : k' = n
    /\ UNCHANGED <<tool, answers, pc, wire, buffer, reader, printed>>

ServerCloses ==
    /\ wire = "asked" /\ k = Len(answers)
    /\ wire' = "closed"
    /\ UNCHANGED <<tool, answers, pc, buffer, reader, k, printed>>

Breaks ==
    /\ wire = "asked" /\ wire' = "broken"
    /\ UNCHANGED <<tool, answers, pc, buffer, reader, k, printed>>

\* What recv() of BUF - 1 bytes returns.
Piece == SubSeq(answers, reader + 1, Min({k, reader + BUF - 1}))

\* What printf("%s") prints.
UpToNul(b) == SubSeq(b, 1, Min({i \in DOMAIN b : b[i] = 0} \cup {Len(b) + 1}) - 1)

\* Mutant of WhoisReceive: no zero is written behind the piece.
WhoisReceiveOpen ==
    /\ pc = "receive" /\ reader < k
    /\ buffer' = Over(Piece)
    /\ printed' = printed \o UpToNul(buffer')
    /\ reader' = reader + Len(Piece)
    /\ UNCHANGED <<tool, answers, pc, wire, k>>

WhoisReceive ==
    /\ pc = "receive" /\ reader < k
    /\ buffer' = Over(Append(Piece, 0))
    /\ printed' = printed \o UpToNul(buffer')
    /\ reader' = reader + Len(Piece)
    /\ UNCHANGED <<tool, answers, pc, wire, k>>

\* Mutant of WhoisEnds: the loop goes on while recv() returns 0 as well.
WhoisEndsNever ==
    /\ pc = "receive" /\ reader = k /\ wire = "closed"
    /\ UNCHANGED vars

WhoisEnds ==
    /\ pc = "receive" /\ reader = k /\ wire = "closed"
    /\ pc' = "done"
    /\ UNCHANGED <<tool, answers, wire, buffer, reader, k, printed>>

\* The kernel may report the end of the connection before it gives the rest.
WhoisFails ==
    /\ pc = "receive" /\ wire = "broken"
    /\ pc' = "failed"
    /\ UNCHANGED <<tool, answers, wire, buffer, reader, k, printed>>

WhoisProgram ==
    \/ \E ok \in BOOLEAN : WhoisConnect(ok) \/ WhoisSend(ok)
    \/ WhoisReceive \/ WhoisEnds \/ WhoisFails

WhoisNext == WhoisProgram \/ Arrives \/ ServerCloses \/ Breaks

-----------------------------------------------------------------------------
(* All five tools. *)

TransferInit == Init \/ AxfrInit \/ WhoisInit

TransferNext ==
    \/ tool \in Tools /\ Next
    \/ tool = "axfr"  /\ AxfrNext
    \/ tool = "whois" /\ WhoisNext

\* A tool goes on whenever there is something to go on with; servers and the
\* network need not.
TransferSpec ==
    /\ TransferInit /\ [][TransferNext]_vars
    /\ WF_vars(tool \in Tools /\ Program)
    /\ WF_vars(tool = "axfr"  /\ AxfrProgram)
    /\ WF_vars(tool = "whois" /\ WhoisProgram)

-----------------------------------------------------------------------------
(* Properties. *)

\* What AXFR prints is made of datagrams that are no longer under way, whole up to
\* the size of the buffer, each no more often than the network delivered it, in any
\* order; the transfer goes on exactly as long as none was shorter than the buffer.
AxfrDatagrams ==
    tool = "axfr" =>
        \E ws \in SUBSET (Copies \ wire) : \E order \in SetToSeqs(ws) :
            /\ \A i \in DOMAIN order :
                answers[order[i][1]] < BUF => i = Len(order) /\ pc = "done"
            /\ pc = "done" => order # <<>> /\ answers[Last(order)[1]] < BUF
            /\ printed = FlattenSeq([i \in DOMAIN order |-> Cut(order[i])])

\* However the text is cut into pieces, Whois prints each byte of it once and in
\* order, all of them unless there is a NUL, and the whole text at the end; a NUL
\* hides what follows it in its piece, never more.  The zero that is written behind
\* a piece lies in the buffer.
WhoisText ==
    tool = "whois" =>
        /\ \A i, j \in DOMAIN printed : i < j => printed[i] < printed[j]
        /\ \A j \in 1 .. reader :
            (\A i \in Max({1, j - BUF + 2}) .. j : answers[i] # 0) => j \in ToSet(printed)
        /\ ToSet(printed) \subseteq 1 .. reader
        /\ pc = "done" => reader = Len(answers)
        /\ Len(buffer) = BUF

NothingToReceive ==
    CASE tool \in Tools -> wire # "answer"
      [] tool = "axfr"  -> wire \subseteq {Query}
      [] tool = "whois" -> reader = k /\ wire = "asked"

\* Each of the five ends, or waits for good in its only recv() because nothing
\* comes: a query or an answer was lost, no datagram of the transfer was short,
\* or the server of Whois says nothing more.
EndsOrWaits ==
    <>(pc \in {"done", "failed", "beyond"}) \/ <>[](pc = "receive" /\ NothingToReceive)

(* What the comments say, and the code does not do. *)

\* axfr.c:46-48: the question is the domain, the type AXFR, which is 252, and the
\* class IN.  Who reads the query finds the type and the class behind the name.
AxfrQuestion ==
    (tool = "axfr" /\ Query \in wire) =>
        /\ EndOfName >= Len(Domain)
        /\ Word(EndOfName + 1) = 252 /\ Word(EndOfName + 3) = 1

\* axfr.c:80: the transfer stops when all records are sent, so that of what is still
\* under way when it is over everything was received before.
AxfrStops ==
    (tool = "axfr" /\ pc = "done") =>
        \A w \in wire : ToSet(Cut(w)) \subseteq ToSet(printed)
=============================================================================
