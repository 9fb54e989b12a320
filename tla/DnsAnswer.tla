----------------------------- MODULE DnsAnswer -----------------------------
(***************************************************************************)
(* The DNS tools after the query is built: they send it once, wait for one *)
(* datagram without a timeout, and read it.  Nslookup walks through all    *)
(* resource records of the answer, Dig (and Host, a copy of it) looks at   *)
(* the place where it expects the first record, Dnsenum prints the bytes.  *)
(*                                                                         *)
(* The answer is a sequence of bytes behind the header; a record has a     *)
(* name, a type, a class, a time to live, the length of its data and the   *)
(* data.  A name is labels with a zero or a pointer behind them, or just a *)
(* pointer: the only name of two bytes.  The zone transfer and Whois,      *)
(* which wait for more than one piece, are in module Transfer.             *)
(*                                                                         *)
(* recvfrom() has room for 512 bytes.  Over UDP a server sends no more     *)
(* than that to a query without EDNS, which these are, so that the answer  *)
(* is never cut; it repeats the question.                                  *)
(***************************************************************************)
EXTENDS Integers, Sequences, SequencesExt

CONSTANTS
    Names,          \* the names of the records, byte by byte
    TTLs,           \* their times to live, four bytes each
    MaxRecords      \* bound on the records of an answer

Byte == 0 .. 255

\* No name is that of the root, and only the last byte of a name may be zero.
ASSUME DnsAnswerAssumption ==
    /\ \A n \in Names : /\ n \in Seq(Byte) /\ Len(n) >= 2
                        /\ \A i \in 1 .. (Len(n) - 1) : n[i] # 0
    /\ \A t \in TTLs : t \in Seq(Byte) /\ Len(t) = 4
    /\ MaxRecords \in Nat

Tools   == {"nslookup", "dig", "dnsenum"}
Types   == [A |-> 1, CNAME |-> 5]
Records == [name : Names, type : DOMAIN Types, ttl : TTLs]

VARIABLES
    tool, answers,  \* the program, and the records the server has for it
    pc,             \* send, receive, skip, parse, dump, done, failed, beyond
    wire,           \* none, query, answer
    buffer,         \* the bytes received, behind the header
    reader,         \* the pointer of parse_dns_response(), from 0
    k,              \* the records that were read
    printed         \* the addresses printed, or the bytes

vars == <<tool, answers, pc, wire, buffer, reader, k, printed>>

-----------------------------------------------------------------------------
(* The datagram.  Record j has the address 10.0.0.j, or a name as its data. *)

Label   == <<1, 120, 0>>
Pointer == <<192, 12>>
Address(j) == <<10, 0, 0, j>>

Data(j) == IF answers[j].type = "A" THEN Address(j) ELSE Pointer

RecordBytes(j) ==
    answers[j].name \o <<0, Types[answers[j].type], 0, 1>> \o answers[j].ttl
        \o <<0, Len(Data(j))>> \o Data(j)

Datagram ==
    Label \o <<0, 1, 0, 1>> \o FlattenSeq([j \in DOMAIN answers |-> RecordBytes(j)])

Init ==
    /\ tool \in Tools
    /\ answers \in UNION {[1 .. m -> Records] : m \in 0 .. MaxRecords}
    /\ pc = "send" /\ wire = "none"
    /\ buffer = <<>> /\ reader = 0 /\ k = 0 /\ printed = <<>>

\* The server answers once; the network may lose the query or the answer.
ServerAnswers ==
    /\ wire = "query" /\ wire' = "answer"
    /\ UNCHANGED <<tool, answers, pc, buffer, reader, k, printed>>

Lost ==
    /\ wire # "none" /\ wire' = "none"
    /\ UNCHANGED <<tool, answers, pc, buffer, reader, k, printed>>

-----------------------------------------------------------------------------

Send ==
    /\ pc = "send"
    /\ wire' = "query" /\ pc' = "receive"
    /\ UNCHANGED <<tool, answers, buffer, reader, k, printed>>

\* Nslookup does not look at the result of sendto(), and waits for good.
SendFails ==
    /\ pc = "send"
    /\ pc' = IF tool = "nslookup" THEN "receive" ELSE "failed"
    /\ UNCHANGED <<tool, answers, wire, buffer, reader, k, printed>>

Receive ==
    /\ pc = "receive"
    /\ wire = "answer"
    /\ buffer' = Datagram /\ wire' = "none"
    /\ pc' = IF tool = "dnsenum" THEN "dump" ELSE "skip"
    /\ UNCHANGED <<tool, answers, reader, k, printed>>

ReceiveFails ==
    /\ pc = "receive"
    /\ pc' = "failed"
    /\ UNCHANGED <<tool, answers, wire, buffer, reader, k, printed>>

\* The bytes of C's buffer[r .. r + m - 1], and two bytes as a number.
Part(r, m) == SubSeq(buffer, r + 1, r + m)
Word(r)    == 256 * buffer[r + 1] + buffer[r + 2]

\* Where the name of the question ends: strlen(), or the loop of Nslookup.
EndOfName == CHOOSE z \in 0 .. Len(buffer) :
                /\ buffer[z + 1] = 0
                /\ \A y \in 0 .. (z - 1) : buffer[y + 1] # 0

Skip ==
    /\ tool = "nslookup" /\ pc = "skip"
    /\ reader' = EndOfName + 5
    /\ pc' = "parse"
    /\ UNCHANGED <<tool, answers, wire, buffer, k, printed>>

\* One turn of the loop, if this tells whether the record has an address and this
\* is where the next one is taken to be.  What lies behind the answer is not modelled.
Turn(address, next) ==
    /\ tool = "nslookup" /\ pc = "parse" /\ k < Len(answers)
    /\ IF reader + 12 > Len(buffer) \/ (address /\ reader + 16 > Len(buffer))
       THEN pc' = "beyond" /\ UNCHANGED <<reader, k, printed>>
       ELSE /\ printed' = IF address THEN Append(printed, Part(reader + 12, 4)) ELSE printed
            /\ reader' = next
            /\ k' = k + 1
            /\ UNCHANGED pc
    /\ UNCHANGED <<tool, answers, wire, buffer>>

\* Two bytes for the name, eight for type, class and time to live, two for the
\* length of the data.
IsAddress  == Word(reader + 2) = Types.A
NextRecord == reader + 12 + Word(reader + 10)

\* Mutant of Record: the data of other types is not skipped.
RecordSkipsAddressOnly == Turn(IsAddress, IF IsAddress THEN NextRecord ELSE reader + 12)

\* Mutant of Record: the class, which is read as well, is taken for the type.
RecordByClass == Turn(Word(reader + 4) = Types.A, NextRecord)

Record == Turn(IsAddress, NextRecord)

ParseEnds ==
    /\ tool = "nslookup" /\ pc = "parse" /\ k = Len(answers)
    /\ pc' = "done"
    /\ UNCHANGED <<tool, answers, wire, buffer, reader, k, printed>>

\* Four bytes of the buffer that are not all part of the answer.
Unreceived == <<-1, -1, -1, -1>>

\* Dig looks for the type six bytes behind the end of the name.  It does not ask
\* how long the answer is: behind it the buffer has the rest of the query, or what
\* nobody wrote, which may be the type of an address.
DigParse ==
    /\ tool = "dig" /\ pc = "skip"
    /\ LET rr      == EndOfName + 6
           address == IF rr + 16 <= Len(buffer) THEN Part(rr + 12, 4) ELSE Unreceived
       IN  \E found \in (IF rr + 2 <= Len(buffer) THEN {Word(rr) = Types.A} ELSE BOOLEAN) :
              printed' = IF found THEN Append(printed, address) ELSE printed
    /\ pc' = "done"
    /\ UNCHANGED <<tool, answers, wire, buffer, reader, k>>

Dump ==
    /\ tool = "dnsenum" /\ pc = "dump"
    /\ printed' = buffer /\ pc' = "done"
    /\ UNCHANGED <<tool, answers, wire, buffer, reader, k>>

Program == Send \/ Receive \/ Skip \/ Record \/ ParseEnds \/ DigParse \/ Dump

Next == ServerAnswers \/ Lost \/ Program \/ SendFails \/ ReceiveFails

Spec == Init /\ [][Next]_vars

-----------------------------------------------------------------------------
(* Properties. *)

\* The addresses among the first m records.
Addresses(m) ==
    FlattenSeq([j \in 1 .. m |-> IF answers[j].type = "A" THEN <<Address(j)>> ELSE <<>>])

\* The names of the first m records are pointers.
Pointers(m) == \A j \in 1 .. m : Len(answers[j].name) = 2

Walks == /\ pc \in {"parse", "done"} => printed = Addresses(k)
         /\ pc = "done" => k = Len(answers)
         /\ pc # "beyond"

\* When servers write names as pointers, the walk of Nslookup stays in step with
\* the records, whatever their types, and prints each address once.
NslookupWalks == (tool = "nslookup" /\ Pointers(Len(answers))) => Walks

\* Whatever the names, what Nslookup prints first is the addresses of the records
\* before the first other name, each once and in order; of the record with that name
\* it prints nothing, even if it has an address, and nothing that is none.  Dig, which
\* looks for the type a byte too early, takes nothing in a record for an address: it
\* prints one only when the answer has no record, of bytes that were not received.
RightUpToName ==
    /\ tool = "nslookup" =>
        \A i \in 0 .. k : Pointers(i) =>
            /\ IsPrefix(Addresses(i), printed)
            /\ i = k \/ (i = k - 1 /\ ~Pointers(k)) => printed = Addresses(i)
    /\ tool = "dig" => \/ printed = <<>>
                       \/ answers = <<>> /\ printed = <<Unreceived>>
=============================================================================
