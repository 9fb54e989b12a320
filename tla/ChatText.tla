------------------------------ MODULE ChatText ------------------------------
(***************************************************************************)
(* The characters of one entry of clients[] in SocketServer.c.  Handlers   *)
(* own the entry one after the other: each writes its nickname into        *)
(* name[] with strncpy() under the mutex, prints it, puts it in front of   *)
(* every line it relays, and prints it once more after it has given the    *)
(* entry back, when the next handler may be writing.  ChatServer does each *)
(* of these in one step.                                                   *)
(*                                                                         *)
(* A character is known by the handler that wrote it.  strncpy() writes in *)
(* any order; "%s" first looks for the zero and then copies what is before *)
(* it.  The address of the client is a length only.                        *)
(***************************************************************************)
EXTENDS Integers, Sequences, SequencesExt

CONSTANTS
    Handlers,       \* threads that may get the entry, each one once
    None,           \* no thread, and the zero character
    NAME,           \* sizeof(clients[i].name): 50
    Addresses,      \* the lengths of an address as text: 7 .. 15
    BUFFER,         \* BUFFER_SIZE: 1024
    MESSAGE         \* sizeof(message): BUFFER_SIZE + 50

ASSUME ChatTextAssumption ==
    /\ None \notin Handlers
    /\ NAME \in Nat \ {0} /\ Addresses \subseteq Nat
    /\ BUFFER \in Nat /\ BUFFER > 1 /\ MESSAGE \in Nat /\ MESSAGE > BUFFER
    /\ \A a \in Addresses : NAME + a + 5 < MESSAGE

VARIABLES
    nick, ip,       \* the lengths of each client's nickname and address
    name,           \* clients[i].name
    owner,          \* clients[i].socket, or None
    mutex,
    pc,             \* claim, copy, greet, recv, format, broadcast, release, goodbye, done
    todo,           \* the characters strncpy() has still to write
    at, len,        \* how far the search for the zero is, and its result or -1
    seen,           \* the characters copied from name[]
    text,           \* the length of the line received
    message,        \* the line made of it: its label, and the characters lost
    claims          \* history: the owners of the entry so far

texts  == <<nick, ip>>
reader == <<at, len, seen>>
vars   == <<texts, name, owner, mutex, pc, todo, reader, text, message, claims>>

Places    == 0 .. (NAME - 1)
Reads     == {"greet", "format", "goodbye"}
Unlabelled == [label |-> <<>>, lost |-> 0]

Init ==
    /\ nick \in [Handlers -> 0 .. (BUFFER - 1)] /\ ip \in [Handlers -> Addresses]
    /\ name = [i \in Places |-> None]
    /\ owner = None /\ mutex = None
    /\ pc = [c \in Handlers |-> "claim"]
    /\ todo = [c \in Handlers |-> {}]
    /\ at = [c \in Handlers |-> 0] /\ len = [c \in Handlers |-> -1]
    /\ seen = [c \in Handlers |-> <<>>]
    /\ text = [c \in Handlers |-> 0]
    /\ message = [c \in Handlers |-> Unlabelled]
    /\ claims = <<>>

Goto(c, l) == pc' = [pc EXCEPT ![c] = l]

\* The locals of a "%s" start afresh, for the next time that name[] is printed.
Read(c, l) ==
    /\ Goto(c, l)
    /\ at' = [at EXCEPT ![c] = 0] /\ len' = [len EXCEPT ![c] = -1]
    /\ seen' = [seen EXCEPT ![c] = <<>>]

-----------------------------------------------------------------------------
(* The entry is claimed and written. *)

\* Mutant of Written: sizeof(name), without the last place left out.
WrittenWhole == Places

\* The places strncpy() writes.
Written == Places \ {NAME - 1}

\* Mutant of Claim: the entry is not looked at.
ClaimAny(c) ==
    /\ pc[c] = "claim" /\ mutex = None
    /\ owner' = c /\ mutex' = c
    /\ todo' = [todo EXCEPT ![c] = Written]
    /\ claims' = Append(claims, c)
    /\ Goto(c, "copy")
    /\ UNCHANGED <<texts, name, reader, text, message>>

Claim(c) ==
    /\ pc[c] = "claim" /\ mutex = None /\ owner = None
    /\ owner' = c /\ mutex' = c
    /\ todo' = [todo EXCEPT ![c] = Written]
    /\ claims' = Append(claims, c)
    /\ Goto(c, "copy")
    /\ UNCHANGED <<texts, name, reader, text, message>>

\* The handler takes another entry, or finds none.
ClaimElsewhere(c) ==
    /\ pc[c] = "claim" /\ mutex = None /\ owner # None
    /\ Goto(c, "done")
    /\ UNCHANGED <<texts, name, owner, mutex, todo, reader, text, message, claims>>

\* Mutant of CopyByte: strcpy(), which writes one zero.
CopyByteNoPadding(c, i) ==
    /\ pc[c] = "copy" /\ i \in todo[c]
    /\ name' = IF i > nick[c] THEN name
               ELSE [name EXCEPT ![i] = IF i < nick[c] THEN c ELSE None]
    /\ todo' = [todo EXCEPT ![c] = @ \ {i}]
    /\ UNCHANGED <<texts, owner, mutex, pc, reader, text, message, claims>>

\* strncpy() fills up with zeroes what the nickname leaves.
CopyByte(c, i) ==
    /\ pc[c] = "copy" /\ i \in todo[c]
    /\ name' = [name EXCEPT ![i] = IF i < nick[c] THEN c ELSE None]
    /\ todo' = [todo EXCEPT ![c] = @ \ {i}]
    /\ UNCHANGED <<texts, owner, mutex, pc, reader, text, message, claims>>

CopyEnds(c) ==
    /\ pc[c] = "copy" /\ todo[c] = {}
    /\ mutex' = None
    /\ Read(c, "greet")
    /\ UNCHANGED <<texts, name, owner, todo, text, message, claims>>

-----------------------------------------------------------------------------
(* The entry is read, without the mutex. *)

\* One character of the search for the zero.
Measure(c) ==
    /\ pc[c] \in Reads /\ len[c] = -1 /\ at[c] \in Places
    /\ IF name[at[c]] = None
       THEN len' = [len EXCEPT ![c] = at[c]] /\ UNCHANGED at
       ELSE at'  = [at EXCEPT ![c] = @ + 1]  /\ UNCHANGED len
    /\ UNCHANGED <<texts, name, owner, mutex, pc, todo, seen, text, message, claims>>

Fetch(c) ==
    /\ pc[c] \in Reads /\ Len(seen[c]) < len[c]
    /\ seen' = [seen EXCEPT ![c] = Append(@, name[Len(@)])]
    /\ UNCHANGED <<texts, name, owner, mutex, pc, todo, at, len, text, message, claims>>

Fetched(c) == Len(seen[c]) = len[c]

Greet(c) ==
    /\ pc[c] = "greet" /\ Fetched(c)
    /\ Read(c, "recv")
    /\ UNCHANGED <<texts, name, owner, mutex, todo, text, message, claims>>

RecvLine(c) ==
    /\ pc[c] = "recv"
    /\ \E n \in 1 .. (BUFFER - 1) : text' = [text EXCEPT ![c] = n]
    /\ Read(c, "format")
    /\ UNCHANGED <<texts, name, owner, mutex, todo, message, claims>>

\* Mutant of Room: message[] is as long as buffer[].
RoomOfBuffer == BUFFER - 1

\* The characters snprintf() writes into message[], without the zero.
Room == MESSAGE - 1

\* "%s (%s): %s": five characters around name, address and text.
Format(c) ==
    /\ pc[c] = "format" /\ Fetched(c)
    /\ LET length == len[c] + ip[c] + 5 + text[c]
       IN  message' = [message EXCEPT ![c] =
                        [label |-> seen[c],
                         lost  |-> IF length > Room THEN length - Room ELSE 0]]
    /\ Read(c, "broadcast")
    /\ text' = [text EXCEPT ![c] = 0]     \* not read again
    /\ UNCHANGED <<texts, name, owner, mutex, todo, claims>>

Broadcast(c) ==
    /\ pc[c] = "broadcast" /\ mutex = None
    /\ message' = [message EXCEPT ![c] = Unlabelled]
    /\ Goto(c, "recv")
    /\ UNCHANGED <<texts, name, owner, mutex, todo, reader, text, claims>>

-----------------------------------------------------------------------------
(* The client is gone. *)

Leave(c) ==
    /\ pc[c] = "recv"
    /\ Goto(c, "release")
    /\ UNCHANGED <<texts, name, owner, mutex, todo, reader, text, message, claims>>

Release(c) ==
    /\ pc[c] = "release" /\ mutex = None
    /\ owner' = None
    /\ Read(c, "goodbye")
    /\ UNCHANGED <<texts, name, mutex, todo, text, message, claims>>

Goodbye(c) ==
    /\ pc[c] = "goodbye" /\ Fetched(c)
    /\ Goto(c, "done")
    /\ UNCHANGED <<texts, name, owner, mutex, todo, reader, text, message, claims>>

Handler(c) ==
    \/ Claim(c) \/ ClaimElsewhere(c) \/ CopyEnds(c)
    \/ \E i \in Places : CopyByte(c, i)
    \/ Measure(c) \/ Fetch(c)
    \/ Greet(c) \/ RecvLine(c) \/ Format(c) \/ Broadcast(c)
    \/ Leave(c) \/ Release(c) \/ Goodbye(c)

Next == \E c \in Handlers : Handler(c)

Spec == Init /\ [][Next]_vars

-----------------------------------------------------------------------------
(* Properties. *)

\* Every variable has its type, and the search for the zero never leaves name[],
\* not even the one of a handler that prints the entry while the next one writes
\* it: there is a zero in name[] at every moment.
TypeOK ==
    /\ nick \in [Handlers -> Nat] /\ ip \in [Handlers -> Addresses]
    /\ name \in [Places -> Handlers \cup {None}]
    /\ owner \in Handlers \cup {None} /\ mutex \in Handlers \cup {None}
    /\ pc \in [Handlers -> Reads \cup {"claim", "copy", "recv", "broadcast", "release", "done"}]
    /\ todo \in [Handlers -> SUBSET Places]
    /\ at \in [Handlers -> Places] /\ len \in [Handlers -> Places \cup {-1}]
    /\ seen \in [Handlers -> Seq(Handlers \cup {None})]
    /\ text \in [Handlers -> 0 .. (BUFFER - 1)]
    /\ message \in [Handlers -> [label : Seq(Handlers \cup {None}), lost : Nat]]
    /\ claims \in Seq(Handlers)

Shown(c) == IF nick[c] < NAME - 1 THEN nick[c] ELSE NAME - 1

\* The label of a line is the beginning of its own sender's nickname, as much of
\* it as fits name[]: no character of an earlier owner of the entry is left behind
\* a shorter nickname, and no later owner has begun to write.
OwnName ==
    \A c \in Handlers : pc[c] = "broadcast" =>
        message[c].label = [i \in 1 .. Shown(c) |-> c]

\* A line loses characters only at its end, where only the text is, and it is whole
\* when name and address have no more than MESSAGE - BUFFER - 5 characters together,
\* which is 45 of the 64 that they may have.
LineLost ==
    \A c \in Handlers : pc[c] = "broadcast" =>
        /\ message[c].lost < BUFFER - 1
        /\ Shown(c) + ip[c] <= MESSAGE - BUFFER - 5 => message[c].lost = 0

\* d had the entry after c, or c is d.
Later(c, d) == \E j, m \in DOMAIN claims : j <= m /\ claims[j] = c /\ claims[m] = d

\* The last line a handler prints may be mixed, but only of its own nickname and
\* those of handlers that had the entry after it, or have it by now.
MixedWithLater ==
    \A c \in Handlers : pc[c] \in {"goodbye", "done"} =>
        \A i \in DOMAIN seen[c] : seen[c][i] # None => Later(c, seen[c][i])
=============================================================================
