------------------------------ MODULE ChatRoom ------------------------------
(***************************************************************************)
(* What the chat server promises, without threads, tables, descriptors or  *)
(* locks: messages are posted one after the other, and a message is handed *)
(* to members other than its author until the next one is posted.  So all  *)
(* members see the messages in the order of the log.  A member may be      *)
(* handed a message more than once, or not at all: the server does repeat  *)
(* messages when a descriptor number is listed twice.                      *)
(***************************************************************************)
EXTENDS Naturals, Sequences

CONSTANT Conns      \* the members of the room

VARIABLES
    log,            \* the messages posted so far
    inbox           \* what each member was handed

Init ==
    /\ log = <<>>
    /\ inbox = [c \in Conns |-> <<>>]

Newest == log[Len(log)]

\* Member c posts a message.
Post(c) ==
    /\ log' # <<>> /\ Newest'.from = c
    /\ log' = Append(log, Newest')
    /\ UNCHANGED inbox

\* Member d is handed the newest message, which somebody else wrote.
Hand(d) ==
    /\ log # <<>> /\ Newest.from # d
    /\ inbox' = [inbox EXCEPT ![d] = Append(@, Newest)]
    /\ UNCHANGED log

Next == \E c \in Conns : Post(c) \/ Hand(c)

Spec == Init /\ [][Next]_<<log, inbox>>
=============================================================================
