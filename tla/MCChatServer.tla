--------------------------- MODULE MCChatServer ---------------------------
(* Values of the constants for TLC, and the symmetry between clients. *)
EXTENDS ChatServer, TLC

CONSTANTS c1, c2, c3

\* Every client sends a nickname and one line.
SendsTwo == [c \in Conns |-> 2]

\* All clients name themselves, and one of them chats.
SendsLive == [c \in Conns |-> IF c = c1 THEN 2 ELSE 1]

\* One client sends a nickname and two lines, the others only listen.
SendsStalled == [c \in Conns |-> IF c = c1 THEN 3 ELSE 0]

SymmetryReuse == Permutations(Conns \ {c1})
=============================================================================
