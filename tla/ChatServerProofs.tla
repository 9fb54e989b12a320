--------------------------- MODULE ChatServerProofs ---------------------------
(***************************************************************************)
(* What TLAPS proves of ChatServer, for every number of clients, every     *)
(* size of the tables and every behaviour of the clients.                  *)
(*                                                                         *)
(* The invariants, each inductive together with the ones before it:        *)
(*   TypeInv    TypeOK, and what a message and a table index need to have  *)
(*              a type at the points where they are used;                  *)
(*   Ownership  who uses which descriptor number;                          *)
(*   Locking    who holds the mutex, and what that protects;               *)
(*   Labelling  nickname, address and text of a message are its sender's:  *)
(*              they are followed from the client's text through buffer,   *)
(*              clients[] and message to the receivers;                    *)
(*   TableRoom  there are never more handlers than entries of clients[];   *)
(*   Reach      what the loop of a broadcast has passed has the message;   *)
(*   Newness    no message is like an earlier one;                         *)
(*   Copying    no client has more copies of a message than there are      *)
(*              entries with its number.                                   *)
(* The properties of ChatServer and its implementation of ChatRoom follow  *)
(* from them.                                                              *)
(***************************************************************************)
EXTENDS ChatServer, SequenceTheorems, FiniteSetTheorems, WellFoundedInduction, TLAPS

-----------------------------------------------------------------------------
(* The table searches. *)

\* A non-empty set of natural numbers has a least element.
LEMMA LeastElement ==
    ASSUME NEW S, S \subseteq Nat, S # {}
    PROVE  \E i \in S : \A j \in S : i <= j
<1> DEFINE R == {p \in Nat \X Nat : p[1] < p[2]}
<1>1. \E i \in S : \A j \in S : <<j, i>> \notin R
  <2>1. IsWellFoundedOn(R, Nat)
    BY NatLessThanWellFounded DEF OpToRel
  <2> HIDE DEF R
  <2> QED BY <2>1, WFMin
<1>2. \A i, j \in S : <<j, i>> \notin R => i <= j
  OBVIOUS
<1> QED BY <1>1, <1>2

\* The search of a table finds one of the entries it looks for, if there is one.
LEMMA FirstOfType ==
    ASSUME NEW S, S \subseteq Nat
    PROVE  /\ S = {} => FirstOf(S) = -1
           /\ S # {} => FirstOf(S) \in S
BY LeastElement DEF FirstOf

\* A free entry is an index of its table and the entry is zero, or it is -1.
LEMMA FreeTypes ==
    /\ FreeEntry \in Slots \cup {-1}
    /\ FreeEntry # -1 => clientSockets[FreeEntry] = 0
    /\ FreeClient \in Slots \cup {-1}
    /\ FreeClient # -1 => clients[FreeClient].socket = 0
<1>1. {i \in Slots : clientSockets[i] = 0} \subseteq Nat
  BY ConstantsAssumption DEF Slots
<1>2. {i \in Slots : clients[i].socket = 0} \subseteq Nat
  BY ConstantsAssumption DEF Slots
<1> QED
  BY <1>1, <1>2, FirstOfType DEF FreeEntry, FreeClient

-----------------------------------------------------------------------------
(***************************************************************************)
(* Types.  TypeOK alone is not inductive: a broadcast needs its message to *)
(* be one, and a line is labelled from an entry that has to exist.         *)
(***************************************************************************)
HasMessage == \A c \in Conns : pc[c] \in {"lock", "send"} =>
                  message[c] \in Messages /\ message[c].from = c
HasEntry   == \A c \in Conns : pc[c] \in HoldsSlot => clientIndex[c] \in Slots

TypeInv == TypeOK /\ HasMessage /\ HasEntry

\* What recv() returns, and what it leaves, is text.
LEMMA ReceivedType ==
    ASSUME TypeOK, NEW c \in Conns, NEW k \in 1 .. Len(inq[c])
    PROVE  /\ SubSeq(inq[c], 1, k) \in Texts
           /\ SubSeq(inq[c], k + 1, Len(inq[c])) \in Texts
<1>1. inq[c] \in Seq(Conns \X Nat) /\ Len(inq[c]) \in Nat
  BY LenProperties DEF TypeOK, Texts
<1>2. /\ \A i \in 1 .. k : inq[c][i] \in Conns \X Nat
      /\ \A i \in (k + 1) .. Len(inq[c]) : inq[c][i] \in Conns \X Nat
  BY <1>1, ElementOfSeq, SMTT(60)
<1> QED BY <1>1, <1>2, SubSeqProperties DEF Texts

\* A received line becomes a message of its sender.
LEMMA LabelledType ==
    ASSUME TypeInv, NEW c \in Conns, pc[c] = "recv", NEW k \in 1 .. Len(inq[c])
    PROVE  /\ Labelled(c, SubSeq(inq[c], 1, k)) \in Messages
           /\ Labelled(c, SubSeq(inq[c], 1, k)).from = c
<1>1. SubSeq(inq[c], 1, k) \in Texts
  BY ReceivedType DEF TypeInv
<1>2. clients[clientIndex[c]] \in ClientInfos
  BY DEF TypeInv, TypeOK, HasEntry, HoldsSlot
<1> QED BY <1>1, <1>2 DEF Labelled, Messages, ClientInfos

\* close() leaves a descriptor table and the unread text well-typed.
LEMMA ClosedType ==
    ASSUME TypeOK, NEW f, CloseDescriptor(f)
    PROVE  desc' \in [Fds -> Conns \cup {None}] /\ inq' \in [Conns -> Texts]
<1>1. <<>> \in Texts
  BY EmptySeq DEF Texts
<1> QED BY <1>1 DEF TypeOK, CloseDescriptor

\* The initial state is well-typed.
LEMMA TypeInit == Init => TypeInv
BY ConstantsAssumption
DEF Init, TypeInv, TypeOK, HasMessage, HasEntry, HoldsSlot, PeerStates, MainPCs, HandlerPCs,
    Texts, Messages, ClientInfos, NoClient, Slots, Fds

\* Every step keeps the variables well-typed.
LEMMA TypeNext == TypeInv /\ [Next]_vars => TypeOK'
<1> SUFFICES ASSUME TypeInv, [Next]_vars PROVE TypeOK'
  OBVIOUS
<1> USE ConstantsAssumption DEF TypeInv, TypeOK, PeerStates, MainPCs, HandlerPCs
<1> USE DEF kernelVars, tableVars, mainVars, handlerVars, Goto
<1>1. ASSUME Environment PROVE TypeOK'
  <2>1. PICK c \in Conns : Connect(c) \/ ClientSend(c) \/ ClientRead(c) \/ ClientClose(c)
    BY <1>1 DEF Environment
  <2>2. CASE Connect(c)
    <3>1. backlog' \in Seq(Conns)
      BY <2>2, AppendProperties DEF Connect
    <3>2. peer' \in [Conns -> PeerStates]
      BY <2>2 DEF Connect
    <3> QED BY <1>1, <2>2, <3>1, <3>2 DEF Environment, Connect
  <2>3. CASE ClientSend(c)
    <3>1. <<c, nsent[c] + 1>> \in Conns \X Nat
      BY <2>3
    <3>2. Append(inq[c], <<c, nsent[c] + 1>>) \in Texts
      BY <3>1, AppendProperties DEF Texts
    <3>3. inq' \in [Conns -> Texts] /\ nsent' \in [Conns -> Nat]
      BY <2>3, <3>2 DEF ClientSend
    <3> QED BY <1>1, <2>3, <3>3 DEF Environment, ClientSend
  <2>4. CASE ClientRead(c)
    <3>1. nread' \in [Conns -> Nat]
      BY <2>4 DEF ClientRead
    <3> QED BY <1>1, <2>4, <3>1 DEF Environment, ClientRead
  <2>5. CASE ClientClose(c)
    BY <1>1, <2>5 DEF Environment, ClientClose
  <2> QED BY <2>1, <2>2, <2>3, <2>4, <2>5
<1>2. CASE Accept
  <2>1. backlog' \in Seq(Conns) /\ Head(backlog) \in Conns
    BY <1>2, HeadTailProperties DEF Accept
  <2>2. mainfd' \in Fds /\ desc' \in [Fds -> Conns \cup {None}]
    BY <1>2, <2>1 DEF Accept
  <2> QED BY <1>2, <2>1, <2>2 DEF Accept
<1>3. CASE AdmitScan
  BY <1>3, FreeTypes DEF AdmitScan
<1>4. CASE AdmitStore
  <2>1. clientSockets' \in [Slots -> Fds \cup {0}]
    BY <1>4 DEF AdmitStore
  <2> QED BY <1>4, <2>1 DEF AdmitStore
<1>5. CASE MainReject
  <2>1. desc' \in [Fds -> Conns \cup {None}] /\ inq' \in [Conns -> Texts]
    BY <1>5, ClosedType DEF MainReject
  <2> QED BY <1>5, <2>1 DEF MainReject, CloseDescriptor
<1>6. CASE Spawn
  BY <1>6 DEF Spawn
<1>7. CASE SpawnFail
  BY <1>7 DEF SpawnFail
<1>8. ASSUME NEW c \in Conns, ThreadStart(c) PROVE TypeOK'
  BY <1>8 DEF ThreadStart
<1>9. ASSUME NEW c \in Conns, RecvName(c) PROVE TypeOK'
  <2>1. ASSUME NEW k \in 1 .. Len(inq[c]), RecvText(c, k),
               buffer' = [buffer EXCEPT ![c] = SubSeq(inq[c], 1, k)], Goto(c, "claim")
        PROVE  TypeOK'
    <3>1. buffer' \in [Conns -> Texts] /\ inq' \in [Conns -> Texts]
      BY <2>1, ReceivedType DEF RecvText
    <3> QED BY <1>9, <2>1, <3>1 DEF RecvName, RecvText
  <2>2. CASE RecvEnds(c) /\ Goto(c, "reject") /\ UNCHANGED buffer
    BY <1>9, <2>2 DEF RecvName, RecvEnds
  <2> QED BY <1>9, <2>1, <2>2 DEF RecvName
<1>10. ASSUME NEW c \in Conns, ClaimScan(c) PROVE TypeOK'
  BY <1>10, FreeTypes DEF ClaimScan
<1>11. ASSUME NEW c \in Conns, ClaimStore(c) PROVE TypeOK'
  <2>1. <<>> \in Texts
    BY EmptySeq DEF Texts
  <2>2. buffer' \in [Conns -> Texts]
    BY <1>11, <2>1 DEF ClaimStore
  <2>3. clients' \in [Slots -> ClientInfos]
    <3>1. [socket |-> hfd[c], name |-> buffer[c], ip |-> clientIP[c]] \in ClientInfos
      BY DEF ClientInfos
    <3>2. CASE clientIndex[c] = -1
      BY <1>11, <3>2 DEF ClaimStore
    <3>3. CASE clientIndex[c] # -1
      <4> DEFINE r == [socket |-> hfd[c], name |-> buffer[c], ip |-> clientIP[c]]
      <4>1. clients' = [clients EXCEPT ![clientIndex[c]] = r]
        BY <1>11, <3>3 DEF ClaimStore
      <4> HIDE DEF r
      <4> QED BY <3>1, <4>1 DEF r
    <3> QED BY <3>2, <3>3
  <2>4. /\ UNCHANGED <<kernelVars, alive, clientSockets, mainVars, hfd, clientIP,
                      clientIndex, message, pos, log>>
        /\ mutex' = None /\ pc' \in [Conns -> HandlerPCs]
    BY <1>11, ZenonT(60) DEF ClaimStore
  <2> QED BY <2>2, <2>3, <2>4
<1>12. ASSUME NEW c \in Conns, RecvLine(c) PROVE TypeOK'
  <2>1. ASSUME NEW k \in 1 .. Len(inq[c]), RecvText(c, k), Goto(c, "lock"),
               message' = [message EXCEPT ![c] = Labelled(c, SubSeq(inq[c], 1, k))]
        PROVE  TypeOK'
    <3>1. inq' \in [Conns -> Texts]
      BY <2>1, ReceivedType DEF RecvText
    <3>2. Labelled(c, SubSeq(inq[c], 1, k)) \in Messages
      BY <1>12, LabelledType DEF RecvLine
    <3>3. message' \in [Conns -> Messages \cup {None}]
      BY <2>1, <3>2
    <3> QED BY <1>12, <2>1, <3>1, <3>3 DEF RecvLine, RecvText
  <2>2. CASE RecvEnds(c) /\ Goto(c, "close") /\ UNCHANGED message
    BY <1>12, <2>2 DEF RecvLine, RecvEnds
  <2> QED BY <1>12, <2>1, <2>2 DEF RecvLine
<1>13. ASSUME NEW c \in Conns, BroadcastLock(c) PROVE TypeOK'
  <2>1. log' \in Seq(Messages)
    BY <1>13, AppendProperties DEF BroadcastLock, HasMessage
  <2> QED BY <1>13, <2>1 DEF BroadcastLock
<1>14. ASSUME NEW c \in Conns, SendOne(c) PROVE TypeOK'
  <2>1. Targets(c) \subseteq Nat
    BY DEF Targets, Slots
  <2>2. FirstOf(Targets(c)) \in Nat
    BY <1>14, <2>1, FirstOfType DEF SendOne
  <2>3. pos' \in [Conns -> Nat]
    BY <1>14, <2>2, SMTT(60) DEF SendOne
  <2>4. PICK d : Deliver(d, message[c])
    BY <1>14 DEF SendOne
  <2>5. /\ alive' \in BOOLEAN
        /\ peer' \in [Conns -> PeerStates]
        /\ out' \in [Conns -> Seq(Messages)]
    <3>1. message[c] \in Messages
      BY <1>14 DEF SendOne, HasMessage
    <3>2. CASE d \in Conns
      <4>1. Append(out[d], message[c]) \in Seq(Messages)
        BY <3>1, <3>2, AppendProperties
      <4>2. out' \in [Conns -> Seq(Messages)]
        BY <2>4, <4>1, ZenonT(60) DEF Deliver
      <4> QED BY <2>4, <3>2, <4>2 DEF Deliver
    <3>3. CASE d \notin Conns
      BY <2>4, <3>3 DEF Deliver
    <3> QED BY <3>2, <3>3
  <2> QED BY <1>14, <2>3, <2>5 DEF SendOne
<1>15. ASSUME NEW c \in Conns, BroadcastUnlock(c) PROVE TypeOK'
  BY <1>15 DEF BroadcastUnlock
<1>16. ASSUME NEW c \in Conns, CloseClient(c) PROVE TypeOK'
  <2>1. desc' \in [Fds -> Conns \cup {None}] /\ inq' \in [Conns -> Texts]
    BY <1>16, ClosedType DEF CloseClient
  <2> QED BY <1>16, <2>1 DEF CloseClient, CloseDescriptor
<1>17. ASSUME NEW c \in Conns, ReleaseClient(c) PROVE TypeOK'
  <2>1. clients' \in [Slots -> ClientInfos]
    <3>2. clientIndex[c] \in Slots
      BY <1>17 DEF ReleaseClient, HasEntry, HoldsSlot
    <3>3. ASSUME NEW r \in ClientInfos PROVE [r EXCEPT !.socket = 0] \in ClientInfos
      BY DEF ClientInfos
    <3> QED BY <1>17, <3>2, <3>3 DEF ReleaseClient
  <2> QED BY <1>17, <2>1 DEF ReleaseClient
<1>18. ASSUME NEW c \in Conns, PrintLeft(c) PROVE TypeOK'
  BY <1>18 DEF PrintLeft
<1>19. ASSUME NEW c \in Conns, RejectClient(c) PROVE TypeOK'
  <2>1. desc' \in [Fds -> Conns \cup {None}] /\ inq' \in [Conns -> Texts]
    BY <1>19, ClosedType DEF RejectClient
  <2> QED BY <1>19, <2>1 DEF RejectClient, CloseDescriptor
<1>20. CASE UNCHANGED vars
  BY <1>20 DEF vars
<1> QED
  BY <1>1, <1>2, <1>3, <1>4, <1>5, <1>6, <1>7, <1>8, <1>9, <1>10, <1>11, <1>12, <1>13,
     <1>14, <1>15, <1>16, <1>17, <1>18, <1>19, <1>20
  DEF Next, MainStep, HandlerStep

\* The two additions to TypeOK are preserved: the message is set on the way to
\* the broadcast, and the index before the handler enters its loop.
LEMMA LinksNext == TypeInv /\ [Next]_vars => (HasMessage /\ HasEntry)'
<1> SUFFICES ASSUME TypeInv, [Next]_vars PROVE (HasMessage /\ HasEntry)'
  OBVIOUS
<1> USE DEF TypeInv, HasMessage, HasEntry, HoldsSlot
<1>1. /\ pc \in [Conns -> HandlerPCs]
      /\ message \in [Conns -> Messages \cup {None}]
      /\ clientIndex \in [Conns -> Slots \cup {-1}]
  BY DEF TypeOK
<1>2. CASE UNCHANGED <<pc, message, clientIndex>>
  BY <1>2
<1>3. CASE Spawn
  BY <1>1, <1>3 DEF Spawn
<1>4. ASSUME NEW c \in Conns, ThreadStart(c) PROVE (HasMessage /\ HasEntry)'
  BY <1>1, <1>4 DEF ThreadStart, Goto
<1>5. ASSUME NEW c \in Conns, RecvName(c) PROVE (HasMessage /\ HasEntry)'
  BY <1>1, <1>5 DEF RecvName, Goto
<1>6. ASSUME NEW c \in Conns, ClaimScan(c) PROVE (HasMessage /\ HasEntry)'
  BY <1>1, <1>6, FreeTypes DEF ClaimScan, Goto
<1>7. ASSUME NEW c \in Conns, ClaimStore(c) PROVE (HasMessage /\ HasEntry)'
  BY <1>1, <1>7 DEF ClaimStore, Goto
<1>8. ASSUME NEW c \in Conns, RecvLine(c) PROVE (HasMessage /\ HasEntry)'
  <2>1. ASSUME NEW k \in 1 .. Len(inq[c]), Goto(c, "lock"),
               message' = [message EXCEPT ![c] = Labelled(c, SubSeq(inq[c], 1, k))]
        PROVE  (HasMessage /\ HasEntry)'
    <3>1. pc[c] = "recv"
      BY <1>8 DEF RecvLine
    <3>2. message'[c] \in Messages /\ message'[c].from = c
      BY <1>1, <2>1, <3>1, LabelledType
    <3> QED BY <1>1, <1>8, <2>1, <3>2 DEF RecvLine, Goto
  <2>2. CASE Goto(c, "close") /\ UNCHANGED message
    BY <1>1, <1>8, <2>2 DEF RecvLine, Goto
  <2> QED BY <1>8, <2>1, <2>2 DEF RecvLine
<1>9. ASSUME NEW c \in Conns, BroadcastLock(c) PROVE (HasMessage /\ HasEntry)'
  BY <1>1, <1>9 DEF BroadcastLock, Goto
<1>10. ASSUME NEW c \in Conns, BroadcastUnlock(c) PROVE (HasMessage /\ HasEntry)'
  BY <1>1, <1>10 DEF BroadcastUnlock, Goto
<1>11. ASSUME NEW c \in Conns, CloseClient(c) PROVE (HasMessage /\ HasEntry)'
  BY <1>1, <1>11 DEF CloseClient, Goto
<1>12. ASSUME NEW c \in Conns, ReleaseClient(c) PROVE (HasMessage /\ HasEntry)'
  BY <1>1, <1>12 DEF ReleaseClient, Goto
<1>13. ASSUME NEW c \in Conns, PrintLeft(c) PROVE (HasMessage /\ HasEntry)'
  BY <1>1, <1>13 DEF PrintLeft, Goto
<1>14. ASSUME NEW c \in Conns, RejectClient(c) PROVE (HasMessage /\ HasEntry)'
  BY <1>1, <1>14 DEF RejectClient, Goto
<1> QED
  BY <1>2, <1>3, <1>4, <1>5, <1>6, <1>7, <1>8, <1>9, <1>10, <1>11, <1>12, <1>13, <1>14
  DEF Next, Environment, MainStep, HandlerStep, Accept, AdmitScan, AdmitStore, MainReject,
      SpawnFail, SendOne, vars, handlerVars

\* TypeInv is an invariant of the server.
THEOREM TypeInvariant == Spec => []TypeInv
<1>1. TypeInv /\ [Next]_vars => TypeInv'
  BY TypeNext, LinksNext DEF TypeInv
<1> QED BY TypeInit, <1>1, PTL DEF Spec

\* The type invariant, for every value of the constants.
THEOREM TypeCorrect == Spec => []TypeOK
<1>1. TypeInv => TypeOK
  BY DEF TypeInv
<1> QED BY TypeInvariant, <1>1, PTL

-----------------------------------------------------------------------------
(***************************************************************************)
(* Descriptors.  A number is bound to one connection at a time, and every  *)
(* open number has one user: the listen queue does not know it, the main   *)
(* thread uses it until it starts the handler, and the handler until it    *)
(* closes it.  DescriptorOwned follows although the program itself keeps   *)
(* closed numbers in clientSockets[].                                      *)
(***************************************************************************)
DescInjective == \A f, g \in Fds : desc[f] \in Conns /\ desc[f] = desc[g] => f = g
HandlerOwns   == \A c \in Conns : pc[c] \in HoldsFd => hfd[c] \in Fds /\ desc[hfd[c]] = c
MainOwns      == mainpc # "accept" =>
                    /\ mainfd \in Fds /\ desc[mainfd] \in Conns
                    /\ pc[desc[mainfd]] = "none"
QueueFresh    == \A i \in DOMAIN backlog :
                    /\ pc[backlog[i]] = "none" /\ peer[backlog[i]] # "idle"
                    /\ \A f \in Fds : desc[f] # backlog[i]
                    /\ \A j \in DOMAIN backlog : backlog[i] = backlog[j] => i = j
IdleUnknown   == \A c \in Conns : peer[c] = "idle" =>
                    pc[c] = "none" /\ \A f \in Fds : desc[f] # c

Ownership == DescInjective /\ HandlerOwns /\ MainOwns /\ QueueFresh /\ IdleUnknown

\* Initially no descriptor is open and the listen queue is empty.
LEMMA OwnershipInit == Init => Ownership
BY ConstantsAssumption
DEF Init, Ownership, DescInjective, HandlerOwns, MainOwns, QueueFresh, IdleUnknown, HoldsFd

\* Every step keeps the bindings of descriptors to connections and their users.
LEMMA OwnershipNext == TypeInv /\ Ownership /\ [Next]_vars => Ownership'
<1> SUFFICES ASSUME TypeInv, Ownership, [Next]_vars PROVE Ownership'
  OBVIOUS
<1> USE ConstantsAssumption
<1> USE DEF Ownership, DescInjective, HandlerOwns, MainOwns, QueueFresh, IdleUnknown, HoldsFd
<1>1. /\ pc \in [Conns -> HandlerPCs] /\ hfd \in [Conns -> Fds \cup {0}]
      /\ desc \in [Fds -> Conns \cup {None}] /\ peer \in [Conns -> PeerStates]
      /\ backlog \in Seq(Conns)
  BY DEF TypeInv, TypeOK
<1>2. CASE UNCHANGED <<pc, hfd, desc, peer, backlog, mainpc, mainfd>>
  BY <1>2
<1>3. ASSUME NEW c \in Conns, Connect(c), UNCHANGED <<pc, hfd, mainpc, mainfd>>
      PROVE  Ownership'
  BY <1>1, <1>3, SMTT(60) DEF Connect
<1>4. ASSUME NEW c \in Conns, ClientClose(c), UNCHANGED <<pc, hfd, mainpc, mainfd>>
      PROVE  Ownership'
  BY <1>1, <1>4 DEF ClientClose
<1>5. CASE Accept
  BY <1>1, <1>5, HeadTailProperties, SMTT(60) DEF Accept, handlerVars
<1>6. CASE AdmitScan \/ AdmitStore \/ SpawnFail
  BY <1>1, <1>6 DEF AdmitScan, AdmitStore, SpawnFail, kernelVars, handlerVars
<1>7. CASE MainReject
  BY <1>1, <1>7 DEF MainReject, CloseDescriptor, handlerVars
<1>8. CASE Spawn
  BY <1>1, <1>8 DEF Spawn, kernelVars
<1>9. ASSUME NEW c \in Conns,
             \/ ThreadStart(c) \/ RecvName(c) \/ ClaimScan(c) \/ ClaimStore(c)
             \/ RecvLine(c) \/ BroadcastLock(c) \/ BroadcastUnlock(c)
             \/ ReleaseClient(c) \/ PrintLeft(c)
      PROVE Ownership'
  <2>1. UNCHANGED <<hfd, desc, peer, backlog, mainpc, mainfd>>
    BY <1>9 DEF ThreadStart, RecvName, RecvText, RecvEnds, ClaimScan, ClaimStore, RecvLine,
      BroadcastLock, BroadcastUnlock, ReleaseClient, PrintLeft, kernelVars, mainVars
  <2>2. /\ pc[c] # "none" /\ pc'[c] # "none"
        /\ pc'[c] \in HoldsFd => pc[c] \in HoldsFd
        /\ \A d \in Conns \ {c} : pc'[d] = pc[d]
    BY <1>1, <1>9 DEF ThreadStart, RecvName, ClaimScan, ClaimStore, RecvLine,
      BroadcastLock, BroadcastUnlock, ReleaseClient, PrintLeft, Goto
  <2>3. DescInjective' /\ HandlerOwns'
    BY <2>1, <2>2
  <2>4. MainOwns' /\ IdleUnknown'
    BY <2>1, <2>2
  <2>5. QueueFresh'
    <3>1. \A i \in DOMAIN backlog : backlog[i] \in Conns
      BY <1>1
    <3> QED BY <2>1, <2>2, <3>1
  <2> QED BY <2>3, <2>4, <2>5
<1>10. ASSUME NEW c \in Conns, SendOne(c) PROVE Ownership'
  BY <1>1, <1>10 DEF SendOne, Deliver, mainVars
<1>11. ASSUME NEW c \in Conns, CloseClient(c) \/ RejectClient(c) PROVE Ownership'
  <2>1. /\ UNCHANGED <<hfd, peer, backlog, mainpc, mainfd>>
        /\ hfd[c] \in Fds /\ desc[hfd[c]] = c
        /\ desc' = [desc EXCEPT ![hfd[c]] = None]
        /\ pc[c] # "none" /\ pc'[c] # "none" /\ pc'[c] \notin HoldsFd
        /\ \A d \in Conns \ {c} : pc'[d] = pc[d]
    BY <1>1, <1>11 DEF CloseClient, RejectClient, CloseDescriptor, mainVars, Goto
  <2>2. DescInjective' /\ HandlerOwns'
    BY <1>1, <2>1
  <2>3. MainOwns' /\ IdleUnknown'
    BY <1>1, <2>1
  <2>4. QueueFresh'
    <3>1. \A i \in DOMAIN backlog : backlog[i] \in Conns
      BY <1>1
    <3> QED BY <1>1, <2>1, <3>1
  <2> QED BY <2>2, <2>3, <2>4
<1> QED
  BY <1>2, <1>3, <1>4, <1>5, <1>6, <1>7, <1>8, <1>9, <1>10, <1>11
  DEF Next, Environment, ClientSend, ClientRead, MainStep, HandlerStep, vars, kernelVars,
      mainVars, handlerVars

\* Ownership is an invariant of the server.
THEOREM OwnershipInvariant == Spec => []Ownership
<1>1. TypeInv /\ Ownership /\ [Next]_vars => Ownership'
  BY OwnershipNext
<1> QED BY OwnershipInit, <1>1, TypeInvariant, PTL DEF Spec

\* A handler's descriptor number always refers to its own connection.
THEOREM DescriptorsOwned == Spec => []DescriptorOwned
<1>1. Ownership => DescriptorOwned
  BY DEF Ownership, HandlerOwns, DescriptorOwned
<1> QED BY OwnershipInvariant, <1>1, PTL
-----------------------------------------------------------------------------
(***************************************************************************)
(* The mutex, and what the tables hold while it is held.                   *)
(***************************************************************************)
MutexHeld == /\ mutex = Main <=> mainpc = "store"
             /\ \A c \in Conns : mutex = c <=> pc[c] \in {"store", "send"}

EntryHeld == /\ \A c \in Conns : pc[c] \in HoldsSlot =>
                    hfd[c] \in Fds /\ clients[clientIndex[c]].socket = hfd[c]
             /\ \A c, d \in Conns :
                    /\ c # d /\ pc[c] \in HoldsSlot /\ pc[d] \in HoldsSlot
                    => clientIndex[c] # clientIndex[d]
             /\ \A c \in Conns : pc[c] = "store" /\ clientIndex[c] # -1 =>
                    clients[clientIndex[c]].socket = 0

NewestIsSent == \A c \in Conns : pc[c] = "send" =>
                    log # <<>> /\ log[Len(log)] = message[c]

Locking == MutexHeld /\ EntryHeld /\ NewestIsSent

\* Initially the mutex is free and no handler runs.
LEMMA LockingInit == Init => Locking
BY ConstantsAssumption
DEF Init, Locking, MutexHeld, EntryHeld, NewestIsSent, HoldsSlot

\* Every lock is taken when nobody holds it, and given back by its holder.
LEMMA MutexNext == TypeInv /\ Ownership /\ MutexHeld /\ [Next]_vars => MutexHeld'
<1> SUFFICES ASSUME TypeInv, Ownership, MutexHeld, [Next]_vars PROVE MutexHeld'
  OBVIOUS
<1> USE ConstantsAssumption DEF MutexHeld
<1>1. /\ pc \in [Conns -> HandlerPCs] /\ mutex \in Conns \cup {Main, None}
      /\ mainpc \in MainPCs
  BY DEF TypeInv, TypeOK
<1>2. CASE UNCHANGED <<pc, mutex, mainpc>>
  BY <1>2
<1>3. CASE Accept \/ AdmitScan \/ AdmitStore \/ MainReject \/ SpawnFail
  BY <1>1, <1>3
  DEF Accept, AdmitScan, AdmitStore, MainReject, SpawnFail, tableVars, handlerVars
<1>4. CASE Spawn
  <2>1. UNCHANGED mutex /\ mainpc = "spawn" /\ mainpc' = "accept"
    BY <1>4 DEF Spawn, tableVars
  <2>2. pc[desc[mainfd]] = "none" /\ pc' = [pc EXCEPT ![desc[mainfd]] = "start"]
    BY <1>4 DEF Spawn, Ownership, MainOwns
  <2> QED BY <1>1, <2>1, <2>2
<1>5. ASSUME NEW c \in Conns,
             \/ ThreadStart(c) \/ RecvName(c) \/ RecvLine(c) \/ CloseClient(c)
             \/ ReleaseClient(c) \/ PrintLeft(c) \/ RejectClient(c) \/ SendOne(c)
      PROVE  MutexHeld'
  <2>1. UNCHANGED <<mutex, mainpc>>
    BY <1>5 DEF ThreadStart, RecvName, RecvLine, CloseClient, ReleaseClient, PrintLeft,
      RejectClient, SendOne, tableVars, mainVars
  <2>2. /\ pc[c] \in {"store", "send"} <=> pc'[c] \in {"store", "send"}
        /\ \A d \in Conns \ {c} : pc'[d] = pc[d]
    BY <1>1, <1>5 DEF ThreadStart, RecvName, RecvLine, CloseClient, ReleaseClient,
      PrintLeft, RejectClient, SendOne, Goto
  <2> QED BY <1>1, <2>1, <2>2
<1>6. ASSUME NEW c \in Conns,
             ClaimScan(c) \/ ClaimStore(c) \/ BroadcastLock(c) \/ BroadcastUnlock(c)
      PROVE  MutexHeld'
  BY <1>1, <1>6
  DEF ClaimScan, ClaimStore, BroadcastLock, BroadcastUnlock, Goto, mainVars
<1> QED
  BY <1>2, <1>3, <1>4, <1>5, <1>6
  DEF Next, Environment, MainStep, HandlerStep, vars, tableVars, mainVars, handlerVars

\* A handler keeps its entry of clients[] from the claim to the release.
LEMMA EntryNext ==
    TypeInv /\ Ownership /\ MutexHeld /\ EntryHeld /\ [Next]_vars => EntryHeld'
<1> SUFFICES ASSUME TypeInv, Ownership, MutexHeld, EntryHeld, [Next]_vars
             PROVE  EntryHeld'
  OBVIOUS
<1> USE ConstantsAssumption DEF EntryHeld, HoldsSlot
<1>1. /\ pc \in [Conns -> HandlerPCs] /\ mutex \in Conns \cup {Main, None}
      /\ clients \in [Slots -> ClientInfos]
      /\ hfd \in [Conns -> Fds \cup {0}]
      /\ clientIndex \in [Conns -> Slots \cup {-1}]
      /\ \A c \in Conns : pc[c] \in HoldsSlot => clientIndex[c] \in Slots
      /\ 0 \notin Fds
  BY DEF TypeInv, TypeOK, HasEntry, Fds
<1>2. CASE UNCHANGED <<pc, hfd, clients, clientIndex>>
  BY <1>2
<1>3. CASE Spawn
  BY <1>1, <1>3 DEF Spawn, tableVars, Ownership, MainOwns
<1>4. ASSUME NEW c \in Conns,
             \/ ThreadStart(c) \/ RecvName(c) \/ RecvLine(c) \/ BroadcastLock(c)
             \/ BroadcastUnlock(c) \/ CloseClient(c) \/ PrintLeft(c) \/ RejectClient(c)
      PROVE  EntryHeld'
  <2>1. UNCHANGED <<hfd, clients, clientIndex>>
    BY <1>4 DEF ThreadStart, RecvName, RecvLine, BroadcastLock, BroadcastUnlock,
      CloseClient, PrintLeft, RejectClient, tableVars
  <2>2. /\ pc'[c] \in HoldsSlot => pc[c] \in HoldsSlot
        /\ pc'[c] # "store"
        /\ \A d \in Conns \ {c} : pc'[d] = pc[d]
    BY <1>1, <1>4 DEF ThreadStart, RecvName, RecvLine, BroadcastLock, BroadcastUnlock,
      CloseClient, PrintLeft, RejectClient, Goto
  <2> QED BY <1>1, <2>1, <2>2
<1>5. ASSUME NEW c \in Conns, ClaimScan(c) PROVE EntryHeld'
  BY <1>1, <1>5, FreeTypes DEF ClaimScan, Goto
<1>6. ASSUME NEW c \in Conns, ClaimStore(c) PROVE EntryHeld'
  <2> DEFINE i == clientIndex[c]
  <2>1. pc[c] = "store" /\ hfd[c] \in Fds /\ UNCHANGED <<hfd, clientIndex>>
    BY <1>6 DEF ClaimStore, Ownership, HandlerOwns, HoldsFd
  <2>2. \A d \in Conns \ {c} : pc'[d] = pc[d] /\ pc[d] # "store"
    BY <1>1, <1>6 DEF ClaimStore, Goto, MutexHeld
  <2>3. CASE i = -1
    <3>1. pc'[c] = "reject" /\ UNCHANGED clients
      BY <1>1, <1>6, <2>3 DEF ClaimStore, Goto
    <3> QED BY <2>1, <2>2, <3>1
  <2>4. CASE i # -1
    <3>1. i \in Slots /\ clients[i].socket = 0 /\ pc'[c] = "recv"
      BY <1>1, <1>6, <2>1, <2>4 DEF ClaimStore, Goto
    <3>2. /\ clients'[i].socket = hfd[c]
          /\ \A j \in Slots \ {i} : clients'[j] = clients[j]
      BY <1>1, <1>6, <2>4, <3>1 DEF ClaimStore
    <3>3. \A d \in Conns : pc[d] \in HoldsSlot => clientIndex[d] # i
      BY <1>1, <3>1
    <3> QED BY <1>1, <2>1, <2>2, <3>1, <3>2, <3>3
  <2> QED BY <2>3, <2>4
<1>7. ASSUME NEW c \in Conns, ReleaseClient(c) PROVE EntryHeld'
  BY <1>1, <1>7 DEF ReleaseClient, Goto, MutexHeld, ClientInfos
<1> QED
  BY <1>2, <1>3, <1>4, <1>5, <1>6, <1>7
  DEF Next, Environment, MainStep, HandlerStep, vars, tableVars, handlerVars, Accept,
      AdmitScan, AdmitStore, MainReject, SpawnFail, SendOne

\* While a handler sends, its message is the newest of the log: nobody else can
\* start a broadcast.
LEMMA NewestNext ==
    TypeInv /\ MutexHeld /\ NewestIsSent /\ [Next]_vars => NewestIsSent'
<1> SUFFICES ASSUME TypeInv, MutexHeld, NewestIsSent, [Next]_vars PROVE NewestIsSent'
  OBVIOUS
<1> USE ConstantsAssumption DEF NewestIsSent
<1>1. /\ pc \in [Conns -> HandlerPCs] /\ log \in Seq(Messages)
      /\ message \in [Conns -> Messages \cup {None}]
  BY DEF TypeInv, TypeOK
<1>2. CASE UNCHANGED <<pc, message, log>>
  BY <1>2
<1>3. CASE Spawn
  BY <1>1, <1>3 DEF Spawn
<1>4. ASSUME NEW c \in Conns,
             \/ ThreadStart(c) \/ RecvName(c) \/ ClaimScan(c) \/ ClaimStore(c)
             \/ CloseClient(c) \/ ReleaseClient(c) \/ PrintLeft(c) \/ RejectClient(c)
             \/ RecvLine(c) \/ BroadcastUnlock(c)
      PROVE  NewestIsSent'
  <2>1. /\ UNCHANGED log /\ pc'[c] # "send"
        /\ \A d \in Conns \ {c} : pc'[d] = pc[d] /\ message'[d] = message[d]
    BY <1>1, <1>4 DEF ThreadStart, RecvName, ClaimScan, ClaimStore, CloseClient, RecvLine,
      ReleaseClient, PrintLeft, RejectClient, BroadcastUnlock, Goto
  <2> QED BY <2>1
<1>5. ASSUME NEW c \in Conns, BroadcastLock(c) PROVE NewestIsSent'
  <2>1. message[c] \in Messages
    BY <1>5 DEF BroadcastLock, TypeInv, HasMessage
  <2>2. \A d \in Conns \ {c} : pc'[d] # "send"
    BY <1>1, <1>5 DEF BroadcastLock, MutexHeld, Goto
  <2>3. log' # <<>> /\ log'[Len(log')] = message[c] /\ UNCHANGED message
    BY <1>1, <1>5, <2>1, AppendProperties DEF BroadcastLock
  <2> QED BY <2>2, <2>3
<1> QED
  BY <1>2, <1>3, <1>4, <1>5
  DEF Next, Environment, MainStep, HandlerStep, vars, handlerVars, Accept, AdmitScan,
      AdmitStore, MainReject, SpawnFail, SendOne

\* Locking is an invariant of the server.
THEOREM LockingInvariant == Spec => []Locking
<1>1. TypeInv /\ Ownership /\ Locking /\ [Next]_vars => Locking'
  BY MutexNext, EntryNext, NewestNext DEF Locking
<1> QED BY LockingInit, <1>1, TypeInvariant, OwnershipInvariant, PTL DEF Spec

\* No two handlers work with the same entry of clients[].
THEOREM SlotsExclusive == Spec => []SlotExclusive
<1>1. Locking => SlotExclusive
  BY DEF Locking, EntryHeld, SlotExclusive
<1> QED BY LockingInvariant, <1>1, PTL

-----------------------------------------------------------------------------
(* What reaches the clients. *)

\* Steps other than a broadcast's start and a send() neither post nor hand.
LEMMA QuietSteps ==
    [Next]_vars => \/ UNCHANGED <<log, out>>
                   \/ \E c \in Conns : BroadcastLock(c) \/ SendOne(c)
<1> SUFFICES ASSUME [Next]_vars, \A c \in Conns : ~BroadcastLock(c) /\ ~SendOne(c)
             PROVE  UNCHANGED <<log, out>>
  OBVIOUS
<1> USE DEF kernelVars
<1>1. CASE Environment
  BY <1>1 DEF Environment, Connect, ClientSend, ClientRead, ClientClose
<1>2. CASE MainStep
  BY <1>2 DEF MainStep, Accept, AdmitScan, AdmitStore, MainReject, CloseDescriptor, Spawn,
    SpawnFail
<1>3. ASSUME NEW c \in Conns, HandlerStep(c) PROVE UNCHANGED <<log, out>>
  BY <1>3 DEF HandlerStep, ThreadStart, RecvName, RecvText, RecvEnds, ClaimScan, ClaimStore,
    RecvLine, BroadcastUnlock, CloseClient, CloseDescriptor, ReleaseClient, PrintLeft,
    RejectClient
<1>4. CASE UNCHANGED vars
  BY <1>4 DEF vars
<1> QED BY <1>1, <1>2, <1>3, <1>4 DEF Next

\* A send() hands the message to at most one client, and not to its sender:
\* the comparison of descriptor numbers compares connections, because the
\* sender's own number is bound to nobody else.
LEMMA SendHands ==
    ASSUME TypeInv, Ownership, NEW c \in Conns, SendOne(c)
    PROVE  \/ UNCHANGED out
           \/ \E d \in Conns \ {c} : out' = [out EXCEPT ![d] = Append(@, message[c])]
<1> DEFINE i == FirstOf(Targets(c))
           d == desc[clientSockets[i]]
<1>1. i \in Targets(c)
  <2>1. Targets(c) \subseteq Nat
    BY ConstantsAssumption DEF Targets, Slots
  <2> QED BY <2>1, FirstOfType DEF SendOne
<1>2. clientSockets[i] \in Fds /\ clientSockets[i] # hfd[c]
  BY <1>1 DEF Targets, TypeInv, TypeOK
<1>3. hfd[c] \in Fds /\ desc[hfd[c]] = c
  BY DEF SendOne, Ownership, HandlerOwns, HoldsFd
<1>4. d \in Conns \cup {None} /\ d # c
  BY <1>2, <1>3 DEF Ownership, DescInjective, TypeInv, TypeOK
<1>5. Deliver(d, message[c])
  BY DEF SendOne
<1> HIDE DEF d
<1> QED BY <1>4, <1>5 DEF Deliver

\* Every step leaves the clients without a line of their own.
LEMMA NoEchoNext == TypeInv /\ Ownership /\ NoEcho /\ [Next]_vars => NoEcho'
<1> SUFFICES ASSUME TypeInv, Ownership, NoEcho, [Next]_vars PROVE NoEcho'
  OBVIOUS
<1>1. CASE UNCHANGED out
  BY <1>1 DEF NoEcho
<1>2. ASSUME NEW c \in Conns, SendOne(c) PROVE NoEcho'
  <2>1. CASE UNCHANGED out
    BY <2>1 DEF NoEcho
  <2>2. ASSUME NEW d \in Conns \ {c}, out' = [out EXCEPT ![d] = Append(@, message[c])]
        PROVE  NoEcho'
    <3>1. message[c] \in Messages /\ message[c].from = c
      BY <1>2 DEF SendOne, TypeInv, HasMessage
    <3>2. out \in [Conns -> Seq(Messages)]
      BY DEF TypeInv, TypeOK
    <3>3. \A i \in DOMAIN out'[d] : out'[d][i].from # d
      BY <2>2, <3>1, <3>2, AppendProperties, LenProperties DEF NoEcho
    <3>4. \A e \in Conns \ {d} : out'[e] = out[e]
      BY <2>2, <3>2
    <3> QED BY <3>3, <3>4 DEF NoEcho
  <2> QED BY <1>2, <2>1, <2>2, SendHands
<1>3. ASSUME NEW c \in Conns, BroadcastLock(c) PROVE NoEcho'
  BY <1>3 DEF BroadcastLock, kernelVars, NoEcho
<1> QED BY <1>1, <1>2, <1>3, QuietSteps

\* No client gets its own lines back.
THEOREM NobodyHearsItself == Spec => []NoEcho
<1>1. Init => NoEcho
  BY DEF Init, NoEcho
<1> QED BY <1>1, NoEchoNext, TypeInvariant, OwnershipInvariant, PTL DEF Spec

\* Every step of the server is a step of the chat room, or leaves it unchanged.
LEMMA RoomNext ==
    TypeInv /\ Ownership /\ Locking /\ [Next]_vars => [Room!Next]_<<log, out>>
<1> SUFFICES ASSUME TypeInv, Ownership, Locking, [Next]_vars
             PROVE  [Room!Next]_<<log, out>>
  OBVIOUS
<1>1. ASSUME NEW c \in Conns, BroadcastLock(c) PROVE Room!Post(c)
  <2>1. message[c] \in Messages /\ message[c].from = c
    BY <1>1 DEF BroadcastLock, TypeInv, HasMessage
  <2>2. log' = Append(log, message[c]) /\ log \in Seq(Messages) /\ UNCHANGED out
    BY <1>1 DEF BroadcastLock, kernelVars, TypeInv, TypeOK
  <2>3. log' # <<>> /\ log'[Len(log')] = message[c]
    BY <2>1, <2>2, AppendProperties
  <2> QED BY <2>1, <2>2, <2>3 DEF Room!Post, Room!Newest
<1>2. ASSUME NEW c \in Conns, SendOne(c), NEW d \in Conns \ {c},
             out' = [out EXCEPT ![d] = Append(@, message[c])]
      PROVE  Room!Hand(d)
  <2>1. message[c].from = c
    BY <1>2 DEF SendOne, TypeInv, HasMessage
  <2>2. log # <<>> /\ log[Len(log)] = message[c] /\ UNCHANGED log
    BY <1>2 DEF SendOne, Locking, NewestIsSent
  <2> QED BY <1>2, <2>1, <2>2 DEF Room!Hand, Room!Newest
<1>3. ASSUME NEW c \in Conns, SendOne(c), UNCHANGED out PROVE UNCHANGED <<log, out>>
  BY <1>3 DEF SendOne
<1> QED BY <1>1, <1>2, <1>3, QuietSteps, SendHands DEF Room!Next

\* The server implements the chat room: whatever the threads, the tables and
\* the descriptor numbers do, the clients are handed the messages of one log,
\* in its order and each before the next one is posted.
THEOREM ServerImplementsRoom == Spec => ImplementsRoom
<1>1. Init => Room!Init
  BY DEF Init, Room!Init
<1> QED
  BY <1>1, RoomNext, TypeInvariant, OwnershipInvariant, LockingInvariant, PTL
  DEF Spec, ImplementsRoom, Room!Spec

-----------------------------------------------------------------------------
(* The connection to one client. *)

\* Steps other than the client's own and a send() leave the connections alone.
LEMMA ConnectionSteps ==
    [Next]_vars =>
        \/ UNCHANGED <<peer, nsent, nread, out>>
        \/ \E d \in Conns : \/ Connect(d) \/ ClientSend(d) \/ ClientRead(d)
                            \/ ClientClose(d) \/ SendOne(d)
<1> SUFFICES ASSUME [Next]_vars, ~Environment, \A d \in Conns : ~SendOne(d)
             PROVE  UNCHANGED <<peer, nsent, nread, out>>
  BY DEF Environment
<1> USE DEF kernelVars
<1>1. CASE MainStep
  BY <1>1 DEF MainStep, Accept, AdmitScan, AdmitStore, MainReject, CloseDescriptor, Spawn,
    SpawnFail
<1>2. ASSUME NEW c \in Conns, HandlerStep(c) PROVE UNCHANGED <<peer, nsent, nread, out>>
  BY <1>2 DEF HandlerStep, ThreadStart, RecvName, RecvText, RecvEnds, ClaimScan, ClaimStore,
    RecvLine, BroadcastLock, BroadcastUnlock, CloseClient, CloseDescriptor, ReleaseClient,
    PrintLeft, RejectClient
<1>3. CASE UNCHANGED vars
  BY <1>3 DEF vars
<1> QED BY <1>1, <1>2, <1>3 DEF Next

\* Every step changes a connection as ChatPeer allows it, or leaves it alone.
LEMMA ContractNext ==
    ASSUME NEW c \in Conns, TypeInv, [Next]_vars
    PROVE  [Contract(c)!Next]_<<peer[c], nsent[c], Len(out[c]), nread[c]>>
<1> DEFINE Same == UNCHANGED <<peer[c], nsent[c], Len(out[c]), nread[c]>>
<1>1. /\ peer \in [Conns -> PeerStates] /\ nsent \in [Conns -> Nat]
      /\ nread \in [Conns -> Nat] /\ out \in [Conns -> Seq(Messages)]
      /\ Len(out[c]) \in Nat
  BY DEF TypeInv, TypeOK
<1>2. CASE UNCHANGED <<peer, nsent, nread, out>>
  BY <1>2
<1>3. ASSUME NEW d \in Conns, Connect(d) PROVE Contract(c)!Open \/ Same
  BY <1>1, <1>3 DEF Connect, Contract!Open
<1>4. ASSUME NEW d \in Conns, ClientSend(d) PROVE Contract(c)!Send \/ Same
  BY <1>1, <1>4 DEF ClientSend, Contract!Send
<1>5. ASSUME NEW d \in Conns, ClientRead(d) PROVE Contract(c)!Read \/ Same
  BY <1>1, <1>5 DEF ClientRead, Contract!Read
<1>6. ASSUME NEW d \in Conns, ClientClose(d) PROVE Contract(c)!Leave \/ Same
  BY <1>1, <1>6 DEF ClientClose, Contract!Leave
<1>7. ASSUME NEW d \in Conns, SendOne(d)
      PROVE  Contract(c)!Write \/ Contract(c)!Reset \/ Same
  <2>1. /\ message[d] \in Messages
        /\ UNCHANGED <<nsent, nread>>
    BY <1>7 DEF SendOne, TypeInv, HasMessage
  <2>2. Len(Append(out[c], message[d])) = Len(out[c]) + 1
    BY <1>1, <2>1, AppendProperties
  <2>3. PICK e : Deliver(e, message[d])
    BY <1>7 DEF SendOne
  <2>4. CASE e = c
    BY <1>1, <2>1, <2>2, <2>3, <2>4 DEF Deliver, Contract!Write, Contract!Reset
  <2>5. CASE e # c
    BY <1>1, <2>1, <2>3, <2>5 DEF Deliver
  <2> QED BY <2>4, <2>5
<1> QED
  BY <1>2, <1>3, <1>4, <1>5, <1>6, <1>7, ConnectionSteps DEF Contract!Next

\* The server keeps the contract of ChatPeer with every client.
THEOREM ServerKeepsContract == Spec => KeepsContract
<1> SUFFICES ASSUME NEW c \in Conns PROVE Spec => Contract(c)!Spec
  BY DEF KeepsContract
<1>1. Init => Contract(c)!Init
  BY DEF Init, Contract!Init
<1>2. TypeInv /\ [Next]_vars
        => [Contract(c)!Next]_<<peer[c], nsent[c], Len(out[c]), nread[c]>>
  BY ContractNext
<1> QED BY <1>1, <1>2, TypeInvariant, PTL DEF Spec, Contract!Spec

-----------------------------------------------------------------------------
(***************************************************************************)
(* Labels.  Every place nickname, address and text pass through holds what *)
(* the client of that handler sent.                                        *)
(***************************************************************************)
TextOf(c, t)    == t # <<>> /\ \A j \in DOMAIN t : t[j][1] = c
AddressOf(c, a) == a = c \/ (a = None /\ peer[c] = "rst")
Genuine(m)      == /\ TextOf(m.from, m.name) /\ TextOf(m.from, m.body)
                   /\ AddressOf(m.from, m.ip)

Arrived  == \A c \in Conns : \A j \in DOMAIN inq[c] : inq[c][j][1] = c
Received == \A c \in Conns :
              /\ pc[c] \in {"claim", "store"} => TextOf(c, buffer[c])
              /\ pc[c] \in {"name", "claim", "store"} => AddressOf(c, clientIP[c])
Stored   == \A c \in Conns : pc[c] \in HoldsSlot =>
              /\ TextOf(c, clients[clientIndex[c]].name)
              /\ AddressOf(c, clients[clientIndex[c]].ip)
Composed == \A c \in Conns : pc[c] \in {"lock", "send"} => Genuine(message[c])
Handed   == \A d \in Conns : \A i \in DOMAIN out[d] : Genuine(out[d][i])

Labelling == Arrived /\ Received /\ Stored /\ Composed /\ Handed

\* Initially there is neither text nor a handler.
LEMMA LabellingInit == Init => Labelling
BY DEF Init, Labelling, Arrived, Received, Stored, Composed, Handed, HoldsSlot

\* A connection that was reset stays so, and an address stays known.
LEMMA AddressStays ==
    ASSUME TypeInv, [Next]_vars, NEW c \in Conns, NEW a, AddressOf(c, a)
    PROVE  AddressOf(c, a)'
<1>1. peer \in [Conns -> PeerStates]
  BY DEF TypeInv, TypeOK
<1>2. ASSUME NEW d \in Conns, SendOne(d) PROVE peer[c] = "rst" => peer'[c] = "rst"
  <2>1. PICK e : Deliver(e, message[d])
    BY <1>2 DEF SendOne
  <2> QED BY <1>1, <2>1 DEF Deliver
<1>3. peer[c] = "rst" => peer'[c] = "rst"
  BY <1>1, <1>2, ConnectionSteps DEF Connect, ClientSend, ClientRead, ClientClose
<1> QED BY <1>3 DEF AddressOf

\* So what a message says stays true of it.
LEMMA GenuineStays ==
    ASSUME TypeInv, [Next]_vars, NEW m \in Messages, Genuine(m)
    PROVE  Genuine(m)'
<1>1. m.from \in Conns
  BY DEF Messages
<1>2. AddressOf(m.from, m.ip)'
  BY <1>1, AddressStays DEF Genuine
<1> QED BY <1>2 DEF Genuine, TextOf

\* What recv() returns is text of that client.
LEMMA ReceivedText ==
    ASSUME TypeInv, Arrived, NEW c \in Conns, NEW k \in 1 .. Len(inq[c])
    PROVE  TextOf(c, SubSeq(inq[c], 1, k))
<1>1. inq[c] \in Seq(Conns \X Nat) /\ Len(inq[c]) \in Nat
  BY LenProperties DEF TypeInv, TypeOK, Texts
<1>2. Len(SubSeq(inq[c], 1, k)) = k /\ \A j \in 1 .. k : SubSeq(inq[c], 1, k)[j] = inq[c][j]
  BY <1>1
<1>3. DOMAIN SubSeq(inq[c], 1, k) = 1 .. k /\ DOMAIN inq[c] = 1 .. Len(inq[c])
  BY <1>1
<1> QED BY <1>1, <1>2, <1>3 DEF TextOf, Arrived

\* The queue of a client gets only its own text, and loses text at its front.
LEMMA ArrivedNext == TypeInv /\ Arrived /\ [Next]_vars => Arrived'
<1> SUFFICES ASSUME TypeInv, Arrived, [Next]_vars PROVE Arrived'
  OBVIOUS
<1> USE DEF Arrived
<1>1. inq \in [Conns -> Seq(Conns \X Nat)] /\ nsent \in [Conns -> Nat]
  BY DEF TypeInv, TypeOK, Texts
<1>2. CASE UNCHANGED inq
  BY <1>2
<1>3. ASSUME NEW c \in Conns, ClientSend(c) PROVE Arrived'
  <2> DEFINE t == <<c, nsent[c] + 1>>
  <2>1. t \in Conns \X Nat /\ inq'[c] = Append(inq[c], t)
        /\ \A d \in Conns \ {c} : inq'[d] = inq[d]
    BY <1>1, <1>3 DEF ClientSend
  <2>2. \A j \in DOMAIN inq'[c] : inq'[c][j][1] = c
    <3>1. inq[c] \in Seq(Conns \X Nat) /\ t[1] = c
      BY <1>1
    <3> HIDE DEF t
    <3> QED BY <2>1, <3>1, AppendProperties
  <2> HIDE DEF t
  <2> QED BY <2>1, <2>2
<1>4. ASSUME NEW c \in Conns, NEW k, RecvText(c, k) PROVE Arrived'
  <2>1. inq'[c] = SubSeq(inq[c], k + 1, Len(inq[c])) /\ k \in 1 .. Len(inq[c])
        /\ \A d \in Conns \ {c} : inq'[d] = inq[d]
    BY <1>1, <1>4 DEF RecvText
  <2>2. \A j \in DOMAIN inq'[c] : \E i \in DOMAIN inq[c] : inq'[c][j] = inq[c][i]
    <3>1. inq[c] \in Seq(Conns \X Nat) /\ Len(inq[c]) \in Nat
      BY <1>1, LenProperties
    <3> DEFINE q == inq[c]
               n == Len(inq[c])
    <3>2. \A j \in 1 .. (n - k) : SubSeq(q, k + 1, n)[j] = q[k + j]
      BY <2>1, <3>1
    <3>3. DOMAIN SubSeq(q, k + 1, n) = 1 .. (n - k) /\ DOMAIN q = 1 .. n
      BY <2>1, <3>1
    <3>4. \A j \in 1 .. (n - k) : k + j \in 1 .. n
      BY <2>1, <3>1
    <3> QED BY <2>1, <3>2, <3>3, <3>4
  <2>3. \A d \in Conns \ {c} : inq'[d] = inq[d]
    BY <2>1
  <2> QED BY <2>2, <2>3
<1>5. ASSUME NEW f, CloseDescriptor(f) PROVE Arrived'
  <2>1. \A d \in Conns : inq'[d] = inq[d] \/ inq'[d] = <<>>
    BY <1>1, <1>5 DEF CloseDescriptor
  <2> QED BY <2>1
<1> QED
  BY <1>2, <1>3, <1>4, <1>5, ZenonT(60)
  DEF Next, Environment, Connect, ClientRead, ClientClose, MainStep, Accept, AdmitScan,
      AdmitStore, MainReject, Spawn, SpawnFail, HandlerStep, ThreadStart, RecvName,
      RecvEnds, ClaimScan, ClaimStore, RecvLine, BroadcastLock, SendOne, BroadcastUnlock,
      CloseClient, ReleaseClient, PrintLeft, RejectClient, vars, kernelVars
\* A handler's buffer holds the first text of its client, and clientIP its
\* address or, after a reset, an unknown one.
LEMMA ReceivedNext ==
    TypeInv /\ Ownership /\ Arrived /\ Received /\ [Next]_vars => Received'
<1> SUFFICES ASSUME TypeInv, Ownership, Arrived, Received, [Next]_vars PROVE Received'
  OBVIOUS
<1> USE DEF Received
<1>1. /\ pc \in [Conns -> HandlerPCs] /\ buffer \in [Conns -> Texts]
      /\ clientIP \in [Conns -> Conns \cup {None}]
  BY DEF TypeInv, TypeOK
<1>2. \A c \in Conns : AddressOf(c, clientIP[c]) /\ clientIP'[c] = clientIP[c]
                           => AddressOf(c, clientIP[c])'
  <2> SUFFICES ASSUME NEW c \in Conns, AddressOf(c, clientIP[c]), clientIP'[c] = clientIP[c]
               PROVE  AddressOf(c, clientIP[c])'
    OBVIOUS
  <2>1. PICK a : a = clientIP[c]
    OBVIOUS
  <2>2. AddressOf(c, a)'
    BY <2>1, AddressStays
  <2> QED BY <2>1, <2>2 DEF AddressOf
<1>3. CASE UNCHANGED <<pc, buffer, clientIP>>
  BY <1>2, <1>3 DEF TextOf
<1>4. CASE Spawn
  BY <1>1, <1>2, <1>4 DEF Spawn, TextOf
<1>5. ASSUME NEW c \in Conns, ThreadStart(c) PROVE Received'
  <2>1. pc' = [pc EXCEPT ![c] = "name"] /\ UNCHANGED <<buffer, peer>>
        /\ clientIP'[c] = (IF peer[c] = "rst" THEN None ELSE c)
        /\ \A d \in Conns \ {c} : clientIP'[d] = clientIP[d]
    BY <1>1, <1>5 DEF ThreadStart, Goto, kernelVars
  <2>2. AddressOf(c, clientIP[c])'
    BY <2>1 DEF AddressOf
  <2> QED BY <1>1, <1>2, <2>1, <2>2 DEF TextOf
<1>6. ASSUME NEW c \in Conns, RecvName(c) PROVE Received'
  <2>1. /\ pc[c] = "name" /\ UNCHANGED clientIP
        /\ \A d \in Conns \ {c} : pc'[d] = pc[d] /\ buffer'[d] = buffer[d]
        /\ \/ \E k \in 1 .. Len(inq[c]) : buffer'[c] = SubSeq(inq[c], 1, k)
           \/ pc'[c] = "reject"
    BY <1>1, <1>6 DEF RecvName, Goto
  <2>2. ASSUME NEW k \in 1 .. Len(inq[c]), buffer'[c] = SubSeq(inq[c], 1, k)
        PROVE  TextOf(c, buffer[c])'
    <3>1. PICK t : t = SubSeq(inq[c], 1, k)
      OBVIOUS
    <3>2. TextOf(c, t)
      BY <3>1, ReceivedText
    <3>3. buffer'[c] = t
      BY <2>2, <3>1
    <3> QED BY <3>2, <3>3 DEF TextOf
  <2> QED BY <1>2, <2>1, <2>2 DEF TextOf
<1>7. ASSUME NEW c \in Conns,
             \/ ClaimScan(c) \/ ClaimStore(c) \/ RecvLine(c) \/ BroadcastLock(c)
             \/ BroadcastUnlock(c) \/ CloseClient(c) \/ ReleaseClient(c) \/ PrintLeft(c)
             \/ RejectClient(c)
      PROVE  Received'
  <2>1. /\ UNCHANGED clientIP
        /\ \A d \in Conns \ {c} : pc'[d] = pc[d] /\ buffer'[d] = buffer[d]
        /\ \/ pc[c] = "claim" /\ pc'[c] = "store" /\ buffer'[c] = buffer[c]
           \/ pc'[c] \notin {"name", "claim", "store"}
    BY <1>1, <1>7 DEF ClaimScan, ClaimStore, RecvLine, BroadcastLock, BroadcastUnlock,
      CloseClient, ReleaseClient, PrintLeft, RejectClient, Goto
  <2> QED BY <1>2, <2>1 DEF TextOf
<1> QED
  BY <1>3, <1>4, <1>5, <1>6, <1>7
  DEF Next, Environment, MainStep, HandlerStep, vars, handlerVars, Accept, AdmitScan,
      AdmitStore, MainReject, SpawnFail, SendOne

\* The entry of a handler holds its client's nickname and address: between the
\* claim and the release nobody else writes them, and the other handlers' entries
\* are different ones.
LEMMA StoredNext ==
    TypeInv /\ Ownership /\ Locking /\ Received /\ Stored /\ [Next]_vars => Stored'
<1> SUFFICES ASSUME TypeInv, Ownership, Locking, Received, Stored, [Next]_vars
             PROVE  Stored'
  OBVIOUS
<1> USE DEF Stored, HoldsSlot
<1>1. /\ pc \in [Conns -> HandlerPCs] /\ clients \in [Slots -> ClientInfos]
      /\ clientIndex \in [Conns -> Slots \cup {-1}]
      /\ \A c \in Conns : pc[c] \in HoldsSlot => clientIndex[c] \in Slots
  BY DEF TypeInv, TypeOK, HasEntry
<1>2. ASSUME NEW c \in Conns, NEW i \in Slots, AddressOf(c, clients[i].ip),
             clients'[i].ip = clients[i].ip
      PROVE  AddressOf(c, clients[i].ip)'
  <2>1. PICK a : a = clients[i].ip
    OBVIOUS
  <2>2. AddressOf(c, a)'
    BY <1>2, <2>1, AddressStays
  <2> QED BY <1>2, <2>1, <2>2 DEF AddressOf
<1>3. ASSUME NEW c \in Conns, pc[c] \in HoldsSlot, clientIndex'[c] = clientIndex[c],
             clients'[clientIndex[c]].name = clients[clientIndex[c]].name,
             clients'[clientIndex[c]].ip = clients[clientIndex[c]].ip
      PROVE  /\ TextOf(c, clients[clientIndex[c]].name)'
             /\ AddressOf(c, clients[clientIndex[c]].ip)'
  <2>1. PICK i \in Slots : i = clientIndex[c]
    BY <1>1, <1>3
  <2>2. AddressOf(c, clients[i].ip)'
    BY <1>2, <1>3, <2>1
  <2> QED BY <1>3, <2>1, <2>2 DEF TextOf, AddressOf
<1>4. CASE UNCHANGED <<pc, clients, clientIndex>>
  BY <1>3, <1>4
<1>5. CASE Spawn
  BY <1>1, <1>3, <1>5 DEF Spawn, tableVars
<1>6. ASSUME NEW c \in Conns,
             \/ ThreadStart(c) \/ RecvName(c) \/ ClaimScan(c) \/ RecvLine(c)
             \/ BroadcastLock(c) \/ BroadcastUnlock(c) \/ CloseClient(c) \/ PrintLeft(c)
             \/ RejectClient(c)
      PROVE  Stored'
  <2>1. /\ UNCHANGED clients
        /\ pc'[c] \in HoldsSlot => pc[c] \in HoldsSlot
        /\ pc[c] # "claim" => clientIndex'[c] = clientIndex[c]
        /\ \A d \in Conns \ {c} : pc'[d] = pc[d] /\ clientIndex'[d] = clientIndex[d]
    BY <1>1, <1>6 DEF ThreadStart, RecvName, ClaimScan, RecvLine, BroadcastLock,
      BroadcastUnlock, CloseClient, PrintLeft, RejectClient, Goto, tableVars
  <2> QED BY <1>3, <2>1
<1>7. ASSUME NEW c \in Conns, ClaimStore(c) PROVE Stored'
  <2> DEFINE i == clientIndex[c]
  <2>1. /\ pc[c] = "store" /\ UNCHANGED <<clientIndex, clientIP, peer>>
        /\ \A d \in Conns \ {c} : pc'[d] = pc[d]
        /\ TextOf(c, buffer[c]) /\ AddressOf(c, clientIP[c])
    BY <1>1, <1>7 DEF ClaimStore, Goto, Received, kernelVars
  <2>2. CASE i = -1
    <3>1. pc'[c] = "reject" /\ UNCHANGED clients
      BY <1>1, <1>7, <2>2 DEF ClaimStore, Goto
    <3> QED BY <1>3, <2>1, <3>1
  <2>3. CASE i # -1
    <3>1. /\ i \in Slots /\ clients[i].socket = 0
          /\ clients' = [clients EXCEPT ![i] =
                [socket |-> hfd[c], name |-> buffer[c], ip |-> clientIP[c]]]
      BY <1>1, <1>7, <2>1, <2>3 DEF ClaimStore, Locking, EntryHeld
    <3>2. clients'[i].name = buffer[c] /\ clients'[i].ip = clientIP[c]
      BY <1>1, <3>1
    <3>3. \A j \in Slots \ {i} : clients'[j] = clients[j]
      BY <1>1, <3>1
    <3>4. \A d \in Conns : pc[d] \in HoldsSlot => clientIndex[d] # i
      BY <3>1 DEF Locking, EntryHeld, Fds
    <3>5. /\ TextOf(c, clients[clientIndex[c]].name)'
          /\ AddressOf(c, clients[clientIndex[c]].ip)'
      BY <2>1, <3>2 DEF TextOf, AddressOf
    <3> QED BY <1>1, <1>3, <2>1, <3>3, <3>4, <3>5
  <2> QED BY <2>2, <2>3
<1>8. ASSUME NEW c \in Conns, ReleaseClient(c) PROVE Stored'
  <2>1. /\ UNCHANGED clientIndex /\ pc'[c] = "print"
        /\ \A d \in Conns \ {c} : pc'[d] = pc[d]
        /\ \A j \in Slots : clients'[j].name = clients[j].name
                             /\ clients'[j].ip = clients[j].ip
    BY <1>1, <1>8 DEF ReleaseClient, Goto, ClientInfos
  <2> QED BY <1>1, <1>3, <2>1
<1> QED
  BY <1>4, <1>5, <1>6, <1>7, <1>8
  DEF Next, Environment, MainStep, HandlerStep, vars, tableVars, handlerVars, Accept,
      AdmitScan, AdmitStore, MainReject, SpawnFail, SendOne
\* A line is labelled from the handler's own entry, and keeps its label while the
\* broadcast lasts.
LEMMA ComposedNext ==
    /\ TypeInv /\ Ownership /\ Arrived /\ Stored /\ Composed
    /\ [Next]_vars
    => Composed'
<1> SUFFICES ASSUME TypeInv, Ownership, Arrived, Stored, Composed, [Next]_vars
             PROVE  Composed'
  OBVIOUS
<1> USE DEF Composed
<1>1. pc \in [Conns -> HandlerPCs] /\ message \in [Conns -> Messages \cup {None}]
  BY DEF TypeInv, TypeOK
<1>2. ASSUME NEW c \in Conns, pc[c] \in {"lock", "send"}, message'[c] = message[c]
      PROVE  Genuine(message[c])'
  <2>1. PICK m \in Messages : m = message[c]
    BY <1>2 DEF TypeInv, HasMessage
  <2>2. Genuine(m)'
    BY <1>2, <2>1, GenuineStays
  <2> QED BY <1>2, <2>1, <2>2 DEF Genuine, TextOf, AddressOf
<1>3. CASE UNCHANGED <<pc, message>>
  BY <1>2, <1>3
<1>4. CASE Spawn
  BY <1>1, <1>2, <1>4 DEF Spawn, Ownership, MainOwns
<1>5. ASSUME NEW c \in Conns,
             \/ ThreadStart(c) \/ RecvName(c) \/ ClaimScan(c) \/ ClaimStore(c)
             \/ BroadcastLock(c) \/ BroadcastUnlock(c) \/ CloseClient(c)
             \/ ReleaseClient(c) \/ PrintLeft(c) \/ RejectClient(c)
      PROVE  Composed'
  <2>1. /\ \A d \in Conns \ {c} : pc'[d] = pc[d] /\ message'[d] = message[d]
        /\ \/ pc'[c] \notin {"lock", "send"}
           \/ pc[c] = "lock" /\ message'[c] = message[c]
    BY <1>1, <1>5 DEF ThreadStart, RecvName, ClaimScan, ClaimStore, BroadcastLock,
      BroadcastUnlock, CloseClient, ReleaseClient, PrintLeft, RejectClient, Goto
  <2> QED BY <1>2, <2>1
<1>6. ASSUME NEW c \in Conns, RecvLine(c) PROVE Composed'
  <2>1. pc[c] = "recv" /\ \A d \in Conns \ {c} : pc'[d] = pc[d] /\ message'[d] = message[d]
    BY <1>1, <1>6 DEF RecvLine, Goto
  <2>2. CASE pc'[c] = "close"
    BY <1>2, <2>1, <2>2
  <2>3. ASSUME NEW k \in 1 .. Len(inq[c]), RecvText(c, k),
               message' = [message EXCEPT ![c] = Labelled(c, SubSeq(inq[c], 1, k))]
        PROVE  Composed'
    <3>1. PICK t : t = SubSeq(inq[c], 1, k)
      OBVIOUS
    <3>2. TextOf(c, t)
      BY <3>1, ReceivedText
    <3>3. PICK m : m = Labelled(c, t)
      OBVIOUS
    <3>4. m \in Messages /\ message'[c] = m
      BY <1>1, <2>1, <2>3, <3>1, <3>3, LabelledType
    <3>5. Genuine(m)
      BY <2>1, <3>2, <3>3 DEF Labelled, Genuine, Stored, HoldsSlot
    <3>6. Genuine(m)'
      BY <3>4, <3>5, GenuineStays
    <3>7. Genuine(message[c])'
      BY <3>4, <3>6 DEF Genuine, TextOf, AddressOf
    <3> QED BY <1>2, <2>1, <3>7
  <2> QED
    BY <1>1, <1>6, <2>2, <2>3 DEF RecvLine, Goto
<1> QED
  BY <1>3, <1>4, <1>5, <1>6
  DEF Next, Environment, MainStep, HandlerStep, vars, handlerVars, Accept, AdmitScan,
      AdmitStore, MainReject, SpawnFail, SendOne

\* What was handed to the clients stays genuine, and what send() adds is.
LEMMA HandedNext ==
    TypeInv /\ Ownership /\ Composed /\ Handed /\ [Next]_vars => Handed'
<1> SUFFICES ASSUME TypeInv, Ownership, Composed, Handed, [Next]_vars PROVE Handed'
  OBVIOUS
<1> USE DEF Handed
<1>1. out \in [Conns -> Seq(Messages)]
  BY DEF TypeInv, TypeOK
<1>2. ASSUME NEW d \in Conns, NEW i \in DOMAIN out[d], out'[d][i] = out[d][i]
      PROVE  Genuine(out[d][i])'
  <2>1. PICK m \in Messages : m = out[d][i]
    BY <1>1
  <2>2. Genuine(m)'
    BY <2>1, GenuineStays
  <2> QED BY <1>2, <2>1, <2>2 DEF Genuine, TextOf, AddressOf
<1>3. CASE UNCHANGED out
  BY <1>2, <1>3
<1>4. ASSUME NEW c \in Conns, SendOne(c), NEW d \in Conns,
             out' = [out EXCEPT ![d] = Append(@, message[c])]
      PROVE  Handed'
  <2>1. PICK m \in Messages : m = message[c]
    BY <1>4 DEF SendOne, TypeInv, HasMessage
  <2>2. Genuine(m)'
    BY <1>4, <2>1, GenuineStays DEF SendOne, Composed
  <2>3. PICK n \in Nat : n = Len(out[d])
    BY <1>1, LenProperties
  <2>4. /\ DOMAIN out'[d] = 1 .. (n + 1) /\ DOMAIN out[d] = 1 .. n
        /\ out'[d][n + 1] = m
        /\ \A i \in 1 .. n : out'[d][i] = out[d][i]
        /\ \A e \in Conns \ {d} : out'[e] = out[e]
    BY <1>1, <1>4, <2>1, <2>3, AppendProperties, LenProperties
  <2>5. Genuine(out[d][n + 1])'
    BY <2>2, <2>4 DEF Genuine, TextOf, AddressOf
  <2>6. \A e \in Conns : \A i \in DOMAIN out'[e] :
           \/ e = d /\ i = n + 1
           \/ i \in DOMAIN out[e] /\ out'[e][i] = out[e][i]
    BY <2>4
  <2>7. ASSUME NEW e \in Conns, NEW i \in DOMAIN out'[e] PROVE Genuine(out[e][i])'
    BY <1>2, <2>5, <2>6
  <2> QED BY <2>7
<1> QED
  BY <1>3, <1>4, QuietSteps, SendHands DEF BroadcastLock, kernelVars

\* Labelling is an invariant of the server.
THEOREM LabellingInvariant == Spec => []Labelling
<1>1. TypeInv /\ Ownership /\ Locking /\ Labelling /\ [Next]_vars => Labelling'
  BY ArrivedNext, ReceivedNext, StoredNext, ComposedNext, HandedNext DEF Labelling
<1> QED
  BY LabellingInit, <1>1, TypeInvariant, OwnershipInvariant, LockingInvariant, PTL DEF Spec

\* Nickname, address and text of every relayed message are the sender's, although
\* SocketServer.c:94 reads the table without the mutex.
THEOREM LabelsAreSenders == Spec => []LabelledBySender
<1>1. Labelling => LabelledBySender
  BY DEF Labelling, Handed, Genuine, TextOf, AddressOf, LabelledBySender
<1> QED BY LabellingInvariant, <1>1, PTL
-----------------------------------------------------------------------------
(***************************************************************************)
(* Room in the second table.  Each handler stands for an entry of          *)
(* clientSockets[] that was given out and never taken back, so there are   *)
(* at most MAX_CLIENTS handlers, ever; each used entry of clients[]        *)
(* belongs to one of them; and the one that searches has none yet.         *)
(***************************************************************************)
Started == {c \in Conns : pc[c] # "none"}
Given   == {s \in Slots : clientSockets[s] # 0}

FoundFree == mainpc = "store" /\ mainslot # -1 => clientSockets[mainslot] = 0
Counted   == Cardinality(Started) + (IF mainpc = "spawn" THEN 1 ELSE 0)
                <= Cardinality(Given)
Belongs   == \A s \in Slots : clients[s].socket # 0 =>
                \E c \in Conns : pc[c] \in HoldsSlot /\ clientIndex[c] = s

TableRoom == FoundFree /\ Counted /\ Belongs /\ SecondTableHasRoom

\* Both sets are finite, and MAX_CLIENTS entries are all there are.
LEMMA Finite ==
    /\ IsFiniteSet(Started) /\ Cardinality(Started) \in Nat
    /\ IsFiniteSet(Given) /\ Cardinality(Given) \in Nat
    /\ IsFiniteSet(Slots) /\ Cardinality(Slots) = MAX_CLIENTS
    /\ Cardinality(Given) <= Cardinality(Slots)
<1>1. IsFiniteSet(Slots) /\ Cardinality(Slots) = MAX_CLIENTS
  BY ConstantsAssumption, FS_Interval DEF Slots
<1>2. Started \in SUBSET Conns /\ Given \in SUBSET Slots
  BY DEF Started, Given
<1>3. IsFiniteSet(Started) /\ IsFiniteSet(Given) /\ Cardinality(Given) <= Cardinality(Slots)
  BY <1>1, <1>2, FS_Subset, ConstantsAssumption
<1> QED BY <1>1, <1>3, FS_CardinalityType

\* Initially nothing was given out and nobody was started.
LEMMA TableRoomInit == Init => TableRoom
<1> SUFFICES ASSUME Init PROVE TableRoom
  OBVIOUS
<1>1. Started = {} /\ Given = {}
  BY DEF Init, Started, Given
<1>2. Counted
  BY <1>1, FS_EmptySet DEF Init, Counted
<1> QED
  BY <1>2 DEF Init, TableRoom, FoundFree, Belongs, SecondTableHasRoom, NoClient

\* A search of clients[] finds a free entry.
LEMMA SearchFinds ==
    ASSUME TypeInv, Locking, Counted, Belongs, NEW c \in Conns, pc[c] = "claim"
    PROVE  FreeClient # -1
<1> SUFFICES ASSUME FreeClient = -1 PROVE FALSE
  OBVIOUS
<1>1. \A s \in Slots : clients[s].socket # 0
  <2>1. {i \in Slots : clients[i].socket = 0} \subseteq Nat
    BY ConstantsAssumption DEF Slots
  <2>2. -1 \notin Slots
    BY DEF Slots
  <2> QED BY <2>1, <2>2, FirstOfType DEF FreeClient
<1> DEFINE Working == {d \in Conns : pc[d] \in HoldsSlot}
           index   == [d \in Working |-> clientIndex[d]]
<1>2. IsFiniteSet(Working) /\ Cardinality(Working) \in Nat
  BY ConstantsAssumption, FS_Subset, FS_CardinalityType
<1>3. Cardinality(Slots) <= Cardinality(Working)
  <2>1. \A d \in Working : clientIndex[d] \in Slots
    BY DEF TypeInv, HasEntry
  <2>2. \A s \in Slots : \E d \in Working : index[d] = s
    BY <1>1 DEF Belongs
  <2>3. index \in Surjection(Working, Slots)
    BY <2>1, <2>2 DEF Surjection
  <2> HIDE DEF Working, index
  <2> QED BY <1>2, <2>3, FS_Surjection
<1>4. Cardinality(Working) + 1 <= Cardinality(Started)
  <2>1. c \notin Working /\ Working \cup {c} \in SUBSET Started
    BY DEF HoldsSlot, Started
  <2>2. Cardinality(Working \cup {c}) = Cardinality(Working) + 1
    BY <1>2, <2>1, FS_AddElement
  <2>3. Cardinality(Working \cup {c}) <= Cardinality(Started)
    BY <2>1, Finite, FS_Subset
  <2> QED BY <2>2, <2>3
<1> HIDE DEF Working
<1>5. Cardinality(Started) <= Cardinality(Given)
  BY Finite DEF Counted
<1> QED BY <1>2, <1>3, <1>4, <1>5, Finite, ConstantsAssumption

\* The entry AdmitScan found stays free until AdmitStore writes it, and the count
\* of given entries grows before the thread that uses one is started.
LEMMA CountedNext ==
    /\ TypeInv /\ Ownership /\ FoundFree /\ Counted
    /\ [Next]_vars
    => FoundFree' /\ Counted'
<1> SUFFICES ASSUME TypeInv, Ownership, FoundFree, Counted, [Next]_vars
             PROVE  FoundFree' /\ Counted'
  OBVIOUS
<1> USE DEF FoundFree, Counted
<1>1. /\ pc \in [Conns -> HandlerPCs] /\ clientSockets \in [Slots -> Fds \cup {0}]
      /\ mainslot \in Slots \cup {-1}
  BY DEF TypeInv, TypeOK
<1>2. ASSUME Started' = Started, UNCHANGED <<clientSockets, mainpc, mainslot>>
      PROVE  FoundFree' /\ Counted'
  BY <1>2 DEF Given
<1>3. CASE Accept \/ AdmitScan \/ MainReject \/ SpawnFail
  <2>1. UNCHANGED <<pc, clientSockets>>
    BY <1>3 DEF Accept, AdmitScan, MainReject, SpawnFail, tableVars, handlerVars
  <2>2. mainpc' # "spawn" /\ (mainpc' = "store" => mainslot' = FreeEntry)
    BY <1>3 DEF Accept, AdmitScan, MainReject, SpawnFail
  <2>3. Started' = Started /\ Given' = Given
    BY <2>1 DEF Started, Given
  <2> QED BY <2>1, <2>2, <2>3, FreeTypes, Finite
<1>4. CASE AdmitStore
  <2>1. Started' = Started /\ mainpc = "store" /\ mainpc' # "store"
    BY <1>4 DEF AdmitStore, handlerVars, Started
  <2>2. CASE mainslot = -1
    <3>1. mainpc' = "reject" /\ Given' = Given
      BY <1>4, <2>2 DEF AdmitStore, Given
    <3> QED BY <2>1, <3>1
  <2>3. CASE mainslot # -1
    <3>1. mainslot \in Slots /\ mainslot \notin Given /\ mainpc' = "spawn"
      BY <1>1, <1>4, <2>1, <2>3 DEF AdmitStore, Given
    <3>2. mainfd # 0 /\ clientSockets' = [clientSockets EXCEPT ![mainslot] = mainfd]
      BY <1>4, <2>1, <2>3 DEF AdmitStore, Ownership, MainOwns, Fds
    <3>3. Given' = Given \cup {mainslot}
      BY <1>1, <3>1, <3>2 DEF Given
    <3>4. Cardinality(Given') = Cardinality(Given) + 1
      BY <3>1, <3>3, Finite, FS_AddElement
    <3> QED BY <2>1, <3>1, <3>4, Finite
  <2> QED BY <2>2, <2>3
<1>5. CASE Spawn
  <2>1. Given' = Given /\ mainpc = "spawn" /\ mainpc' = "accept" /\ desc[mainfd] \in Conns
    BY <1>5 DEF Spawn, tableVars, Given, Ownership, MainOwns
  <2>2. Started' = Started \cup {desc[mainfd]}
    BY <1>1, <1>5, <2>1 DEF Spawn, Started
  <2>3. Cardinality(Started') <= Cardinality(Started) + 1
    <3>1. Cardinality(Started \cup {desc[mainfd]})
             = IF desc[mainfd] \in Started THEN Cardinality(Started) ELSE Cardinality(Started) + 1
      BY Finite, FS_AddElement
    <3>2. Cardinality(Started) <= Cardinality(Started) + 1
      BY Finite
    <3>3. Cardinality(Started) + 1 <= Cardinality(Started) + 1
      BY Finite
    <3> QED BY <2>2, <3>1, <3>2, <3>3
  <2>4. Cardinality(Started') \in Nat
    BY <2>2, Finite, FS_AddElement, FS_CardinalityType
  <2> QED BY <2>1, <2>3, <2>4, Finite
<1>6. ASSUME NEW c \in Conns, HandlerStep(c)
      PROVE  Started' = Started /\ UNCHANGED <<clientSockets, mainpc, mainslot>>
  <2>1. UNCHANGED <<clientSockets, mainpc, mainslot>>
    BY <1>6 DEF HandlerStep, ThreadStart, RecvName, ClaimScan, ClaimStore, RecvLine,
      BroadcastLock, SendOne, BroadcastUnlock, CloseClient, ReleaseClient, PrintLeft,
      RejectClient, tableVars, mainVars
  <2>2. pc[c] # "none" /\ pc'[c] # "none" /\ \A d \in Conns \ {c} : pc'[d] = pc[d]
    BY <1>1, <1>6 DEF HandlerStep, ThreadStart, RecvName, ClaimScan, ClaimStore, RecvLine,
      BroadcastLock, SendOne, BroadcastUnlock, CloseClient, ReleaseClient, PrintLeft,
      RejectClient, Goto
  <2> QED BY <2>1, <2>2 DEF Started
<1>7. CASE Environment \/ UNCHANGED vars
  BY <1>2, <1>7 DEF Environment, vars, tableVars, mainVars, handlerVars, Started
<1> QED BY <1>2, <1>3, <1>4, <1>5, <1>6, <1>7 DEF Next, MainStep

\* Only a handler makes an entry of clients[] used, and it frees it when it leaves.
LEMMA BelongsNext ==
    TypeInv /\ Ownership /\ Locking /\ Belongs /\ [Next]_vars => Belongs'
<1> SUFFICES ASSUME TypeInv, Ownership, Locking, Belongs, [Next]_vars PROVE Belongs'
  OBVIOUS
<1> USE DEF Belongs
<1>1. /\ pc \in [Conns -> HandlerPCs] /\ clients \in [Slots -> ClientInfos]
      /\ clientIndex \in [Conns -> Slots \cup {-1}]
      /\ \A c \in Conns : pc[c] \in HoldsSlot => clientIndex[c] \in Slots
  BY DEF TypeInv, TypeOK, HasEntry
<1>2. CASE UNCHANGED <<pc, clients, clientIndex>>
  BY <1>2
<1>3. CASE Spawn
  BY <1>1, <1>3 DEF Spawn, tableVars, Ownership, MainOwns, HoldsSlot
<1>4. ASSUME NEW c \in Conns,
             \/ ThreadStart(c) \/ RecvName(c) \/ ClaimScan(c) \/ RecvLine(c)
             \/ BroadcastLock(c) \/ BroadcastUnlock(c) \/ CloseClient(c) \/ PrintLeft(c)
             \/ RejectClient(c)
      PROVE  Belongs'
  <2>1. /\ UNCHANGED clients
        /\ pc[c] \in HoldsSlot => pc'[c] \in HoldsSlot /\ clientIndex'[c] = clientIndex[c]
        /\ \A d \in Conns \ {c} : pc'[d] = pc[d] /\ clientIndex'[d] = clientIndex[d]
    BY <1>1, <1>4 DEF ThreadStart, RecvName, ClaimScan, RecvLine, BroadcastLock,
      BroadcastUnlock, CloseClient, PrintLeft, RejectClient, Goto, tableVars, HoldsSlot
  <2> QED BY <2>1
<1>5. ASSUME NEW c \in Conns, ClaimStore(c) PROVE Belongs'
  <2>1. /\ UNCHANGED clientIndex /\ pc[c] \notin HoldsSlot
        /\ \A d \in Conns \ {c} : pc'[d] = pc[d]
    BY <1>1, <1>5 DEF ClaimStore, Goto, HoldsSlot
  <2>2. CASE clientIndex[c] = -1
    BY <1>5, <2>1, <2>2 DEF ClaimStore
  <2>3. CASE clientIndex[c] # -1
    <3>1. pc'[c] \in HoldsSlot
      BY <1>1, <1>5, <2>3 DEF ClaimStore, Goto, HoldsSlot
    <3>2. \A s \in Slots \ {clientIndex[c]} : clients'[s] = clients[s]
      BY <1>1, <1>5, <2>3 DEF ClaimStore
    <3> QED BY <2>1, <3>1, <3>2
  <2> QED BY <2>2, <2>3
<1>6. ASSUME NEW c \in Conns, ReleaseClient(c) PROVE Belongs'
  <2>1. /\ UNCHANGED clientIndex /\ clientIndex[c] \in Slots
        /\ \A d \in Conns \ {c} : pc'[d] = pc[d]
    BY <1>1, <1>6 DEF ReleaseClient, Goto, HoldsSlot
  <2>2. /\ clients'[clientIndex[c]].socket = 0
        /\ \A s \in Slots \ {clientIndex[c]} : clients'[s] = clients[s]
    BY <1>1, <1>6, <2>1 DEF ReleaseClient, ClientInfos
  <2> QED BY <2>1, <2>2
<1> QED
  BY <1>2, <1>3, <1>4, <1>5, <1>6
  DEF Next, Environment, MainStep, HandlerStep, vars, tableVars, handlerVars, Accept,
      AdmitScan, AdmitStore, MainReject, SpawnFail, SendOne

\* The result of a search of clients[] is an entry, and stays one.
LEMMA RoomLeftNext ==
    /\ TypeInv /\ Ownership /\ Locking /\ TableRoom
    /\ [Next]_vars
    => SecondTableHasRoom'
<1> SUFFICES ASSUME TypeInv, Ownership, Locking, TableRoom, [Next]_vars
             PROVE  SecondTableHasRoom'
  OBVIOUS
<1> USE DEF SecondTableHasRoom
<1>1. /\ pc \in [Conns -> HandlerPCs] /\ clientIndex \in [Conns -> Slots \cup {-1}]
      /\ SecondTableHasRoom
  BY DEF TypeInv, TypeOK, TableRoom
<1>2. CASE UNCHANGED <<pc, clientIndex>>
  BY <1>1, <1>2
<1>3. CASE Spawn
  BY <1>1, <1>3 DEF Spawn
<1>4. ASSUME NEW c \in Conns, ClaimScan(c) PROVE SecondTableHasRoom'
  <2>1. FreeClient # -1
    BY <1>4, SearchFinds DEF ClaimScan, TableRoom
  <2> QED BY <1>1, <1>4, <2>1 DEF ClaimScan, Goto
<1>5. ASSUME NEW c \in Conns,
             \/ ThreadStart(c) \/ RecvName(c) \/ ClaimStore(c) \/ RecvLine(c)
             \/ BroadcastLock(c) \/ BroadcastUnlock(c) \/ CloseClient(c)
             \/ ReleaseClient(c) \/ PrintLeft(c) \/ RejectClient(c)
      PROVE  SecondTableHasRoom'
  <2>1. /\ UNCHANGED clientIndex /\ pc'[c] # "store"
        /\ \A d \in Conns \ {c} : pc'[d] = pc[d]
    BY <1>1, <1>5 DEF ThreadStart, RecvName, ClaimStore, RecvLine, BroadcastLock,
      BroadcastUnlock, CloseClient, ReleaseClient, PrintLeft, RejectClient, Goto
  <2> QED BY <1>1, <2>1
<1> QED
  BY <1>2, <1>3, <1>4, <1>5
  DEF Next, Environment, MainStep, HandlerStep, vars, handlerVars, Accept, AdmitScan,
      AdmitStore, MainReject, SpawnFail, SendOne

\* The counting argument is an invariant of the server.
THEOREM TableRoomInvariant == Spec => []TableRoom
<1>1. TypeInv /\ Ownership /\ Locking /\ TableRoom /\ [Next]_vars => TableRoom'
  BY CountedNext, BelongsNext, RoomLeftNext DEF TableRoom
<1> QED
  BY TableRoomInit, <1>1, TypeInvariant, OwnershipInvariant, LockingInvariant, PTL DEF Spec

\* The "Server full" check of handleClient(), SocketServer.c:78, is never true.
THEOREM SecondCheckIdle == Spec => []SecondTableHasRoom
<1>1. TableRoom => SecondTableHasRoom
  BY DEF TableRoom
<1> QED BY TableRoomInvariant, <1>1, PTL
-----------------------------------------------------------------------------
(***************************************************************************)
(* Reach.  A handler's number is in clientSockets[] from before it is      *)
(* started; what the loop of broadcastMessage() has passed has the         *)
(* message.  The one number this is not true of is that of a connection    *)
(* accepted during the broadcast: it may be an old number the loop passed, *)
(* but main() waits for the mutex before it starts a handler for it.       *)
(***************************************************************************)
Has(d, m) == \E i \in DOMAIN out[d] : out[d][i] = m

Listed(f) == \E s \in Slots : clientSockets[s] = f
AllListed == /\ mainpc = "spawn" => Listed(mainfd)
             /\ \A c \in Conns : pc[c] \in HoldsFd => Listed(hfd[c])

JustAccepted(f) == mainpc = "admit" /\ mainfd = f

Passed(c, s) == /\ pc[c] = "send" /\ s < pos[c]
                /\ clientSockets[s] \in Fds \ {hfd[c]}
                /\ ~JustAccepted(clientSockets[s])
Covered == \A c, d \in Conns : \A s \in Slots :
              Passed(c, s) /\ desc[clientSockets[s]] = d /\ peer[d] = "open"
                 => Has(d, message[c])

Reach == AllListed /\ Covered

\* Initially there is no handler.
LEMMA ReachInit == Init => Reach
BY DEF Init, Reach, AllListed, Covered, Passed, HoldsFd

\* Nothing takes a message away from a client.
LEMMA HasStays ==
    ASSUME TypeInv, Ownership, [Next]_vars, NEW d \in Conns, NEW m, Has(d, m)
    PROVE  Has(d, m)'
<1>1. out[d] \in Seq(Messages) /\ out \in [Conns -> Seq(Messages)]
  BY DEF TypeInv, TypeOK
<1>2. CASE out'[d] = out[d]
  BY <1>2 DEF Has
<1>3. ASSUME NEW c \in Conns, SendOne(c), out'[d] = Append(out[d], message[c])
      PROVE  Has(d, m)'
  <2>1. PICK n \in Messages : n = message[c]
    BY <1>3 DEF SendOne, TypeInv, HasMessage
  <2>2. \A i \in DOMAIN out[d] : i \in DOMAIN Append(out[d], n) /\ Append(out[d], n)[i] = out[d][i]
    BY <1>1, AppendProperties
  <2> QED BY <1>3, <2>1, <2>2 DEF Has
<1> QED
  BY <1>1, <1>2, <1>3, QuietSteps, SendHands, SMTT(60) DEF BroadcastLock, kernelVars

\* Only main() writes clientSockets[].
LEMMA TableSteps == [Next]_vars => AdmitStore \/ UNCHANGED clientSockets
BY DEF Next, Environment, MainStep, HandlerStep, vars, tableVars, Accept, AdmitScan,
  MainReject, Spawn, SpawnFail, ThreadStart, RecvName, ClaimScan, ClaimStore, RecvLine,
  BroadcastLock, SendOne, BroadcastUnlock, CloseClient, ReleaseClient, PrintLeft,
  RejectClient

\* Entries of clientSockets[] are written once and never cleared.
LEMMA ListedStays ==
    ASSUME TypeInv, FoundFree, [Next]_vars, NEW f \in Fds, Listed(f)
    PROVE  Listed(f)'
<1>1. CASE UNCHANGED clientSockets
  BY <1>1 DEF Listed
<1>2. CASE AdmitStore
  <2>1. clientSockets \in [Slots -> Fds \cup {0}] /\ f # 0
    BY DEF TypeInv, TypeOK, Fds
  <2>2. \A s \in Slots : clientSockets[s] # 0 => clientSockets'[s] = clientSockets[s]
    BY <1>2, <2>1 DEF AdmitStore, FoundFree
  <2> QED BY <2>1, <2>2 DEF Listed
<1> QED BY <1>1, <1>2, TableSteps

\* main() lists a number before it starts the handler that uses it.
LEMMA ListedNext ==
    TypeInv /\ Ownership /\ FoundFree /\ AllListed /\ [Next]_vars => AllListed'
<1> SUFFICES ASSUME TypeInv, Ownership, FoundFree, AllListed, [Next]_vars PROVE AllListed'
  OBVIOUS
<1> USE DEF AllListed
<1>1. /\ pc \in [Conns -> HandlerPCs] /\ hfd \in [Conns -> Fds \cup {0}]
      /\ clientSockets \in [Slots -> Fds \cup {0}] /\ mainslot \in Slots \cup {-1}
  BY DEF TypeInv, TypeOK
<1>2. ASSUME NEW c \in Conns, pc[c] \in HoldsFd, hfd'[c] = hfd[c] PROVE Listed(hfd[c])'
  <2>1. PICK f \in Fds : f = hfd[c]
    BY <1>2 DEF Ownership, HandlerOwns
  <2>2. Listed(f)'
    BY <1>2, <2>1, ListedStays
  <2> QED BY <1>2, <2>1, <2>2 DEF Listed
<1>3. ASSUME mainpc = "spawn", mainfd' = mainfd PROVE Listed(mainfd)'
  <2>1. PICK f \in Fds : f = mainfd
    BY <1>3 DEF Ownership, MainOwns
  <2>2. Listed(f)'
    BY <1>3, <2>1, ListedStays
  <2> QED BY <1>3, <2>1, <2>2 DEF Listed
<1>4. CASE UNCHANGED <<pc, hfd, mainpc, mainfd>>
  BY <1>2, <1>3, <1>4
<1>5. CASE Accept \/ AdmitScan \/ MainReject \/ SpawnFail
  <2>1. UNCHANGED <<pc, hfd>> /\ mainpc' # "spawn"
    BY <1>5 DEF Accept, AdmitScan, MainReject, SpawnFail, handlerVars
  <2> QED BY <1>2, <2>1
<1>6. CASE AdmitStore
  <2>1. UNCHANGED <<pc, hfd, mainfd>>
    BY <1>6 DEF AdmitStore, handlerVars
  <2>2. mainpc' = "spawn" => Listed(mainfd)'
    BY <1>1, <1>6 DEF AdmitStore, Listed
  <2> QED BY <1>2, <2>1, <2>2
<1>7. CASE Spawn
  <2>1. /\ mainpc = "spawn" /\ mainpc' = "accept" /\ mainfd' = mainfd
        /\ pc[desc[mainfd]] = "none" /\ desc[mainfd] \in Conns
        /\ hfd'[desc[mainfd]] = mainfd
        /\ \A d \in Conns \ {desc[mainfd]} : pc'[d] = pc[d] /\ hfd'[d] = hfd[d]
    BY <1>1, <1>7 DEF Spawn, Ownership, MainOwns
  <2> QED BY <1>2, <1>3, <2>1
<1>8. ASSUME NEW c \in Conns, HandlerStep(c) PROVE AllListed'
  <2>1. UNCHANGED <<mainpc, mainfd, hfd>>
    BY <1>8 DEF HandlerStep, ThreadStart, RecvName, ClaimScan, ClaimStore, RecvLine,
      BroadcastLock, SendOne, BroadcastUnlock, CloseClient, ReleaseClient, PrintLeft,
      RejectClient, mainVars
  <2>2. /\ pc'[c] \in HoldsFd => pc[c] \in HoldsFd
        /\ \A d \in Conns \ {c} : pc'[d] = pc[d]
    BY <1>1, <1>8 DEF HandlerStep, ThreadStart, RecvName, ClaimScan, ClaimStore, RecvLine,
      BroadcastLock, SendOne, BroadcastUnlock, CloseClient, ReleaseClient, PrintLeft,
      RejectClient, Goto, HoldsFd
  <2> QED BY <1>2, <1>3, <2>1, <2>2
<1>9. CASE Environment \/ UNCHANGED vars
  BY <1>4, <1>9 DEF Environment, vars, mainVars, handlerVars
<1> QED BY <1>4, <1>5, <1>6, <1>7, <1>8, <1>9 DEF Next, MainStep

\* During a broadcast main() neither searches nor writes a table, and nobody else
\* sends.
LEMMA AloneWithMutex ==
    ASSUME TypeInv, MutexHeld, NEW c \in Conns, pc[c] = "send"
    PROVE  /\ ~AdmitScan /\ ~AdmitStore
           /\ \A d \in Conns : ~BroadcastLock(d) /\ (SendOne(d) => d = c)
BY ConstantsAssumption
DEF MutexHeld, AdmitScan, AdmitStore, BroadcastLock, SendOne, TypeInv, TypeOK
\* A handler that sends was sending before, or has just taken the mutex for it.
LEMMA SendingBefore ==
    ASSUME TypeInv, [Next]_vars, NEW c \in Conns, pc'[c] = "send"
    PROVE  pc[c] = "send" \/ BroadcastLock(c)
<1>1. pc \in [Conns -> HandlerPCs]
  BY DEF TypeInv, TypeOK
<1>2. CASE Environment \/ MainStep \/ UNCHANGED vars
  BY <1>1, <1>2 DEF Environment, MainStep, Accept, AdmitScan, AdmitStore, MainReject,
    Spawn, SpawnFail, vars, handlerVars
<1>3. ASSUME NEW e \in Conns, HandlerStep(e) PROVE pc[c] = "send" \/ BroadcastLock(c)
  BY <1>1, <1>3 DEF HandlerStep, ThreadStart, RecvName, ClaimScan, ClaimStore, RecvLine,
    BroadcastLock, SendOne, BroadcastUnlock, CloseClient, ReleaseClient, PrintLeft,
    RejectClient, Goto
<1> QED BY <1>2, <1>3 DEF Next

\* What a step leaves alone while c sends, its own send() included.
LEMMA WhileSending ==
    ASSUME TypeInv, Ownership, MutexHeld, [Next]_vars,
           NEW c \in Conns, pc[c] = "send", pc'[c] = "send"
    PROVE  /\ UNCHANGED clientSockets
           /\ hfd'[c] = hfd[c] /\ message'[c] = message[c]
           /\ ~SendOne(c) => pos'[c] = pos[c]
           /\ \A f \in Fds : JustAccepted(f) => JustAccepted(f)'
           /\ \A f \in Fds, d \in Conns : desc'[f] = d /\ ~JustAccepted(f)' => desc[f] = d
           /\ \A d \in Conns : peer'[d] = "open" => peer[d] \in {"open", "idle"}
<1> USE DEF JustAccepted
<1>1. /\ pc \in [Conns -> HandlerPCs] /\ hfd \in [Conns -> Fds \cup {0}]
      /\ desc \in [Fds -> Conns \cup {None}] /\ peer \in [Conns -> PeerStates]
      /\ message \in [Conns -> Messages \cup {None}] /\ pos \in [Conns -> Nat]
      /\ None \notin Conns
  BY ConstantsAssumption DEF TypeInv, TypeOK
<1>2. /\ ~AdmitScan /\ ~AdmitStore
      /\ \A d \in Conns : ~BroadcastLock(d) /\ (SendOne(d) => d = c)
  BY AloneWithMutex
<1>3. ASSUME NEW d \in Conns, peer'[d] = "open" PROVE peer[d] \in {"open", "idle"}
  <2>1. ASSUME NEW e \in Conns, SendOne(e) PROVE peer[d] \in {"open", "idle"}
    BY <1>1, <1>3, <2>1 DEF SendOne, Deliver
  <2> QED
    BY <1>1, <1>3, <2>1, ConnectionSteps DEF Connect, ClientSend, ClientRead, ClientClose
<1>4. CASE Environment \/ UNCHANGED vars
  BY <1>1, <1>3, <1>4 DEF Environment, Connect, ClientSend, ClientRead, ClientClose, vars,
    kernelVars, tableVars, mainVars, handlerVars
<1>5. CASE Accept
  <2>1. /\ UNCHANGED <<clientSockets, hfd, message, pos>>
        /\ mainpc = "accept" /\ mainpc' = "admit"
        /\ desc' = [desc EXCEPT ![mainfd'] = Head(backlog)]
    BY <1>5 DEF Accept, tableVars, handlerVars
  <2>2. \A f \in Fds : f # mainfd' => desc'[f] = desc[f]
    BY <1>1, <2>1
  <2> QED BY <1>3, <2>1, <2>2
<1>6. CASE MainReject \/ SpawnFail
  <2>1. /\ UNCHANGED <<clientSockets, hfd, message, pos>> /\ mainpc # "admit"
        /\ \/ desc' = [desc EXCEPT ![mainfd] = None]
           \/ desc' = desc
    BY <1>6 DEF MainReject, SpawnFail, CloseDescriptor, kernelVars, tableVars, handlerVars
  <2> QED BY <1>1, <1>3, <2>1
<1>7. CASE Spawn
  <2>1. pc[desc[mainfd]] = "none"
    BY <1>7 DEF Spawn, Ownership, MainOwns
  <2> QED BY <1>1, <1>3, <1>7, <2>1 DEF Spawn, kernelVars, tableVars
<1>8. ASSUME NEW d \in Conns, HandlerStep(d), d # c
      PROVE  /\ UNCHANGED <<clientSockets, hfd, mainpc, mainfd>>
             /\ message'[c] = message[c] /\ pos'[c] = pos[c]
             /\ \A f \in Fds : desc'[f] \in {desc[f], None}
  <2>1. ~SendOne(d) /\ ~BroadcastLock(d)
    BY <1>2, <1>8
  <2> QED
    BY <1>1, <1>8, <2>1 DEF HandlerStep, ThreadStart, RecvName, RecvText, RecvEnds, ClaimScan,
      ClaimStore, RecvLine, BroadcastUnlock, CloseClient, CloseDescriptor, ReleaseClient,
      PrintLeft, RejectClient, kernelVars, tableVars, mainVars
<1>9. CASE SendOne(c)
  BY <1>3, <1>9 DEF SendOne, tableVars, mainVars
<1>10. CASE BroadcastUnlock(c)
  BY <1>1, <1>10 DEF BroadcastUnlock, Goto
<1>11. HandlerStep(c) => SendOne(c) \/ BroadcastUnlock(c)
  BY DEF HandlerStep, ThreadStart, RecvName, ClaimScan, ClaimStore, RecvLine, BroadcastLock,
    CloseClient, ReleaseClient, PrintLeft, RejectClient
<1>12. ASSUME NEW d \in Conns, HandlerStep(d), d # c, ~SendOne(c)
       PROVE  /\ \A f \in Fds : JustAccepted(f) => JustAccepted(f)'
              /\ \A f \in Fds, e \in Conns : desc'[f] = e /\ ~JustAccepted(f)' => desc[f] = e
  BY <1>1, <1>8, <1>12
<1> QED
  BY <1>2, <1>3, <1>4, <1>5, <1>6, <1>7, <1>8, <1>9, <1>10, <1>11, <1>12 DEF Next, MainStep

\* One send() adds the message to the client the number stands for, when that
\* client has not closed; the entries the loop skips are empty or the sender's.
LEMMA SendCovers ==
    ASSUME TypeInv, Ownership, Covered, [Next]_vars, NEW c \in Conns, SendOne(c),
           NEW s \in Slots, NEW d \in Conns,
           s < pos'[c], clientSockets[s] \in Fds \ {hfd[c]}, ~JustAccepted(clientSockets[s]),
           desc[clientSockets[s]] = d, peer[d] = "open"
    PROVE  Has(d, message[c])'
<1> DEFINE i == FirstOf(Targets(c))
<1>1. /\ pos \in [Conns -> Nat] /\ out[d] \in Seq(Messages) /\ pos'[c] = i + 1
      /\ out \in [Conns -> Seq(Messages)] /\ 0 \notin Fds /\ s \in Nat
      /\ UNCHANGED message
  BY ConstantsAssumption, SMTT(60) DEF TypeInv, TypeOK, SendOne, Fds, Slots
<1>2. i \in Targets(c) /\ i \in Nat /\ \A j \in Targets(c) : i <= j
  <2>1. Targets(c) \subseteq Nat /\ Targets(c) # {}
    BY ConstantsAssumption DEF Targets, Slots, SendOne
  <2> QED BY <2>1, LeastElement DEF FirstOf
<1>3. CASE s < pos[c]
  <2>1. Has(d, message[c])
    BY <1>3 DEF Covered, Passed, SendOne
  <2>2. PICK m : m = message[c]
    OBVIOUS
  <2>3. Has(d, m)'
    BY <2>1, <2>2, HasStays
  <2> QED BY <1>1, <2>2, <2>3 DEF Has
<1>4. CASE ~(s < pos[c])
  <2>1. s \in Targets(c)
    BY <1>1, <1>4 DEF Targets
  <2>2. s = i
    <3> HIDE DEF i
    <3> QED BY <1>1, <1>2, <2>1
  <2>3. Deliver(d, message[c])
    BY <2>2 DEF SendOne
  <2>4. out' = [out EXCEPT ![d] = Append(@, message[c])]
    BY <2>3, ConstantsAssumption DEF Deliver
  <2>5. PICK m \in Messages : m = message[c]
    BY DEF SendOne, TypeInv, HasMessage
  <2>6. out'[d] = Append(out[d], m)
    BY <1>1, <2>4, <2>5
  <2>7. PICK n \in Nat : n = Len(out[d])
    BY <1>1, LenProperties
  <2>8. n + 1 \in DOMAIN out'[d] /\ out'[d][n + 1] = m
    BY <1>1, <2>6, <2>7, AppendProperties
  <2> QED BY <1>1, <2>5, <2>8 DEF Has
<1> QED BY <1>3, <1>4

\* Every step keeps what the loop has passed covered.
LEMMA CoveredNext ==
    TypeInv /\ Ownership /\ MutexHeld /\ Covered /\ [Next]_vars => Covered'
<1> SUFFICES ASSUME TypeInv, Ownership, MutexHeld, Covered, [Next]_vars,
                    NEW c \in Conns, NEW d \in Conns, NEW s \in Slots,
                    Passed(c, s)', desc'[clientSockets'[s]] = d, peer'[d] = "open"
             PROVE  Has(d, message[c])'
  BY DEF Covered
<1>1. pc'[c] = "send" /\ s < pos'[c]
  BY DEF Passed
<1>2. pc[c] = "send"
  <2>1. ~(s < 0)
    BY ConstantsAssumption DEF Slots
  <2>2. ~BroadcastLock(c)
    BY <1>1, <2>1 DEF BroadcastLock, TypeInv, TypeOK
  <2> QED BY <1>1, <2>2, SendingBefore
<1>3. PICK f \in Fds : f = clientSockets[s] /\ f # hfd[c] /\ ~JustAccepted(f)'
  BY <1>1, <1>2, WhileSending DEF Passed, JustAccepted
<1>4. ~JustAccepted(f) /\ desc[f] = d
  BY <1>1, <1>2, <1>3, WhileSending
<1>5. peer[d] = "open"
  BY <1>1, <1>2, <1>4, WhileSending DEF Ownership, IdleUnknown
<1>6. CASE SendOne(c)
  BY <1>1, <1>3, <1>4, <1>5, <1>6, SendCovers
<1>7. CASE ~SendOne(c)
  <2>1. pos'[c] = pos[c] /\ message'[c] = message[c]
    BY <1>1, <1>2, <1>7, WhileSending
  <2>2. Has(d, message[c])
    BY <1>1, <1>2, <1>3, <1>4, <1>5, <2>1 DEF Covered, Passed
  <2>3. PICK m : m = message[c]
    OBVIOUS
  <2>4. Has(d, m)'
    BY <2>2, <2>3, HasStays
  <2> QED BY <2>1, <2>3, <2>4 DEF Has
<1> QED BY <1>6, <1>7

\* Reach is an invariant of the server.
THEOREM ReachInvariant == Spec => []Reach
<1>1. /\ TypeInv /\ Ownership /\ Locking /\ TableRoom /\ Reach /\ [Next]_vars
      => Reach'
  BY ListedNext, CoveredNext DEF Reach, Locking, TableRoom
<1> QED
  BY ReachInit, <1>1, TypeInvariant, OwnershipInvariant, LockingInvariant,
     TableRoomInvariant, PTL DEF Spec

\* At the end of a broadcast every other client with a handler that has not closed
\* has the message, whatever connected or left while it lasted.
THEOREM EveryoneReached == Spec => []ReachesEveryone
<1>1. TypeInv /\ Ownership /\ Reach => ReachesEveryone
  <2> SUFFICES ASSUME TypeInv, Ownership, Reach, NEW c \in Conns, pc[c] = "send",
                      Targets(c) = {}, NEW d \in Conns \ {c}, pc[d] \in HoldsFd,
                      peer[d] = "open"
               PROVE  Has(d, message[c])
    BY DEF ReachesEveryone, Has
  <2>1. hfd[d] \in Fds /\ desc[hfd[d]] = d /\ hfd[d] # hfd[c]
    BY DEF Ownership, HandlerOwns, HoldsFd
  <2>2. PICK s \in Slots : clientSockets[s] = hfd[d]
    BY DEF Reach, AllListed, Listed
  <2>3. s < pos[c]
    <3>1. s \in Nat /\ pos[c] \in Nat /\ 0 \notin Fds
      BY ConstantsAssumption DEF Slots, Fds, TypeInv, TypeOK
    <3> QED BY <2>1, <2>2, <3>1 DEF Targets
  <2>4. ~JustAccepted(hfd[d])
    BY <2>1 DEF JustAccepted, Ownership, MainOwns, HoldsFd
  <2> QED BY <2>1, <2>2, <2>3, <2>4 DEF Reach, Covered, Passed
<1> QED BY <1>1, TypeInvariant, OwnershipInvariant, ReachInvariant, PTL
-----------------------------------------------------------------------------
(***************************************************************************)
(* Copies.  No message is like an earlier one: the pieces of text a client *)
(* sends are received in order, so the first piece of a message is newer   *)
(* than those of all before it.  Hence a broadcast starts without copies,  *)
(* and the loop makes one more only where it passes one more entry with    *)
(* the client's number.                                                    *)
(***************************************************************************)
Stamp(m) == m.body[1][2]

\* Nothing that client m.from has sent and the server has not received is as old
\* as m.
Older(m) == /\ Stamp(m) <= nsent[m.from]
            /\ \A j \in DOMAIN inq[m.from] : Stamp(m) < inq[m.from][j][2]

Ordered == \A c \in Conns : \A j \in DOMAIN inq[c] :
              /\ inq[c][j][2] <= nsent[c]
              /\ \A i \in DOMAIN inq[c] : i < j => inq[c][i][2] < inq[c][j][2]
Used    == /\ \A c \in Conns : pc[c] \in {"lock", "send"} => Older(message[c])
           /\ \A d \in Conns : \A i \in DOMAIN out[d] : Older(out[d][i])
New     == \A c \in Conns : pc[c] = "lock" =>
              \A d \in Conns : \A i \in DOMAIN out[d] : out[d][i] # message[c]

Newness == Ordered /\ Used /\ New

\* Initially nothing was sent.
LEMMA NewnessInit == Init => Newness
BY DEF Init, Newness, Ordered, Used, New

\* How a queue of unread text changes: text is dropped at its front, or its newest
\* piece is added.
LEMMA QueueSteps ==
    ASSUME TypeInv, [Next]_vars, NEW c \in Conns
    PROVE  /\ nsent'[c] \in {nsent[c], nsent[c] + 1}
           /\ \E k \in Nat : \A j \in DOMAIN inq'[c] :
                 \/ k + j \in DOMAIN inq[c] /\ inq'[c][j] = inq[c][k + j]
                 \/ /\ inq'[c][j][2] = nsent[c] + 1 /\ nsent'[c] = nsent[c] + 1
                    /\ \A i \in DOMAIN inq'[c] : i <= j
<1>1. /\ inq \in [Conns -> Seq(Conns \X Nat)] /\ nsent \in [Conns -> Nat]
      /\ inq[c] \in Seq(Conns \X Nat) /\ DOMAIN inq[c] \subseteq Nat
  <2>1. inq \in [Conns -> Seq(Conns \X Nat)] /\ nsent \in [Conns -> Nat]
    BY DEF TypeInv, TypeOK, Texts
  <2>2. inq[c] \in Seq(Conns \X Nat)
    BY <2>1
  <2>3. DOMAIN inq[c] \subseteq Nat
    BY <2>2
  <2> QED BY <2>1, <2>2, <2>3
<1>2. ASSUME inq'[c] = inq[c] \/ inq'[c] = <<>>
      PROVE  \A j \in DOMAIN inq'[c] : 0 + j \in DOMAIN inq[c] /\ inq'[c][j] = inq[c][0 + j]
  BY <1>1, <1>2
<1>3. ASSUME NEW d \in Conns, ClientSend(d), d = c
      PROVE  /\ nsent'[c] = nsent[c] + 1
             /\ \A j \in DOMAIN inq'[c] :
                   \/ 0 + j \in DOMAIN inq[c] /\ inq'[c][j] = inq[c][0 + j]
                   \/ inq'[c][j][2] = nsent[c] + 1 /\ \A i \in DOMAIN inq'[c] : i <= j
  <2>1. nsent'[c] = nsent[c] + 1
    BY <1>1, <1>3 DEF ClientSend
  <2>2. PICK t \in Conns \X Nat : t[2] = nsent[c] + 1 /\ inq'[c] = Append(inq[c], t)
    <3>1. <<c, nsent[c] + 1>> \in Conns \X Nat
      BY <1>1
    <3> QED BY <1>1, <1>3, <3>1 DEF ClientSend
  <2>3. PICK n \in Nat : n = Len(inq[c]) /\ DOMAIN inq[c] = 1 .. n
    BY <1>1, LenProperties
  <2>4. /\ DOMAIN inq'[c] = 1 .. (n + 1) /\ inq'[c][n + 1] = t
        /\ \A i \in 1 .. n : inq'[c][i] = inq[c][i]
    BY <1>1, <2>2, <2>3, AppendProperties
  <2> QED BY <2>1, <2>2, <2>3, <2>4
<1>4. ASSUME NEW k, RecvText(c, k)
      PROVE  k \in Nat /\ \A j \in DOMAIN inq'[c] :
                 k + j \in DOMAIN inq[c] /\ inq'[c][j] = inq[c][k + j]
  <2>1. inq'[c] = SubSeq(inq[c], k + 1, Len(inq[c])) /\ k \in 1 .. Len(inq[c])
    BY <1>1, <1>4 DEF RecvText
  <2> DEFINE q == inq[c]
             n == Len(inq[c])
  <2>2. n \in Nat /\ DOMAIN q = 1 .. n
    BY <1>1, LenProperties
  <2>3. \A j \in 1 .. (n - k) : SubSeq(q, k + 1, n)[j] = q[k + j]
    BY <1>1, <2>1, <2>2
  <2>4. DOMAIN SubSeq(q, k + 1, n) = 1 .. (n - k)
    BY <1>1, <2>1, <2>2
  <2>5. k \in Nat /\ \A j \in 1 .. (n - k) : k + j \in 1 .. n
    BY <2>1, <2>2
  <2> QED BY <2>1, <2>2, <2>3, <2>4, <2>5
<1>5. ASSUME NEW f, CloseDescriptor(f)
      PROVE  (inq'[c] = inq[c] \/ inq'[c] = <<>>) /\ nsent' = nsent
  BY <1>1, <1>5 DEF CloseDescriptor
<1>6. ASSUME NEW d \in Conns, RecvName(d) \/ RecvLine(d)
      PROVE  /\ nsent' = nsent
             /\ inq'[c] = inq[c] \/ \E k : RecvText(c, k)
  BY <1>1, <1>6 DEF RecvName, RecvLine, RecvText, RecvEnds, kernelVars
<1>7. \/ (inq'[c] = inq[c] \/ inq'[c] = <<>>) /\ nsent'[c] = nsent[c]
      \/ ClientSend(c)
      \/ nsent'[c] = nsent[c] /\ \E k : RecvText(c, k)
  <2>1. CASE Environment
    BY <1>1, <2>1 DEF Environment, Connect, ClientSend, ClientRead, ClientClose
  <2>2. CASE MainStep
    BY <1>5, <2>2 DEF MainStep, Accept, AdmitScan, AdmitStore, MainReject, Spawn, SpawnFail,
      kernelVars
  <2>3. ASSUME NEW d \in Conns, HandlerStep(d)
        PROVE  \/ (inq'[c] = inq[c] \/ inq'[c] = <<>>) /\ nsent'[c] = nsent[c]
               \/ nsent'[c] = nsent[c] /\ \E k : RecvText(c, k)
    BY <1>5, <1>6, <2>3 DEF HandlerStep, ThreadStart, ClaimScan, ClaimStore, BroadcastLock,
      SendOne, BroadcastUnlock, CloseClient, ReleaseClient, PrintLeft, RejectClient,
      kernelVars
  <2>4. CASE UNCHANGED vars
    BY <2>4 DEF vars, kernelVars
  <2> QED BY <2>1, <2>2, <2>3, <2>4 DEF Next
<1> QED BY <1>1, <1>2, <1>3, <1>4, <1>7

\* Unread text stays in the order in which it was sent.
LEMMA OrderedNext == TypeInv /\ Ordered /\ [Next]_vars => Ordered'
<1> SUFFICES ASSUME TypeInv, Ordered, [Next]_vars, NEW c \in Conns,
                    NEW j \in DOMAIN inq'[c], NEW i \in DOMAIN inq'[c]
             PROVE  /\ inq'[c][j][2] <= nsent'[c]
                    /\ i < j => inq'[c][i][2] < inq'[c][j][2]
  BY DEF Ordered
<1>1. /\ nsent[c] \in Nat /\ inq[c] \in Seq(Conns \X Nat) /\ inq'[c] \in Seq(Conns \X Nat)
      /\ \A h \in DOMAIN inq[c] : inq[c][h][2] \in Nat
      /\ i \in Nat /\ j \in Nat
  <2>1. inq'[c] \in Seq(Conns \X Nat)
    BY TypeNext DEF TypeOK, Texts
  <2>2. inq[c] \in Seq(Conns \X Nat) /\ nsent[c] \in Nat
    BY DEF TypeInv, TypeOK, Texts
  <2>3. \A h \in DOMAIN inq[c] : inq[c][h] \in Conns \X Nat
    BY <2>2
  <2>4. i \in Nat /\ j \in Nat
    BY <2>1
  <2> QED BY <2>1, <2>2, <2>3, <2>4
<1>2. nsent'[c] \in {nsent[c], nsent[c] + 1}
  BY QueueSteps
<1>3. PICK k \in Nat : \A h \in DOMAIN inq'[c] :
         \/ k + h \in DOMAIN inq[c] /\ inq'[c][h] = inq[c][k + h]
         \/ /\ inq'[c][h][2] = nsent[c] + 1 /\ nsent'[c] = nsent[c] + 1
            /\ \A g \in DOMAIN inq'[c] : g <= h
  BY QueueSteps
<1>4. \A h \in DOMAIN inq[c] : inq[c][h][2] <= nsent[c]
  BY DEF Ordered
<1>5. k + i \in DOMAIN inq[c] /\ k + j \in DOMAIN inq[c] /\ i < j
         => inq[c][k + i][2] < inq[c][k + j][2]
  BY <1>1 DEF Ordered
<1>6. i < j => k + i \in DOMAIN inq[c] /\ inq'[c][i] = inq[c][k + i]
  <2>1. i \in Nat /\ j \in Nat
    BY <1>1
  <2>2. i < j => ~(j <= i)
    BY <2>1
  <2> QED BY <1>3, <2>2
<1>7. CASE k + j \in DOMAIN inq[c] /\ inq'[c][j] = inq[c][k + j]
  <2>1. inq'[c][j][2] <= nsent[c] /\ inq'[c][j][2] \in Nat
    BY <1>1, <1>4, <1>7
  <2>2. nsent[c] <= nsent'[c]
    BY <1>1, <1>2
  <2>3. inq'[c][j][2] <= nsent'[c]
    BY <1>1, <1>2, <2>1
  <2>4. i < j => inq'[c][i][2] < inq'[c][j][2]
    BY <1>5, <1>7, <1>6
  <2> QED BY <2>3, <2>4
<1>8. CASE inq'[c][j][2] = nsent[c] + 1 /\ nsent'[c] = nsent[c] + 1
  <2>1. i < j => inq'[c][i][2] <= nsent[c] /\ inq'[c][i][2] \in Nat
    BY <1>1, <1>4, <1>6
  <2> QED BY <1>1, <1>8, <2>1
<1> QED BY <1>3, <1>7, <1>8

\* A message stays older than the text its client's queue holds.
LEMMA OlderStays ==
    ASSUME TypeInv, [Next]_vars, NEW m \in Messages, m.body # <<>>, Older(m)
    PROVE  Older(m)'
<1>1. m.from \in Conns /\ Stamp(m) \in Nat /\ nsent[m.from] \in Nat
  <2>1. m.from \in Conns /\ m.body \in Seq(Conns \X Nat)
    BY DEF Messages, Texts
  <2>2. m.body[1] \in Conns \X Nat
    BY <2>1
  <2> QED BY <2>1, <2>2 DEF Stamp, TypeInv, TypeOK
<1>2. nsent'[m.from] \in {nsent[m.from], nsent[m.from] + 1}
  BY <1>1, QueueSteps
<1>3. PICK k \in Nat : \A h \in DOMAIN inq'[m.from] :
         \/ k + h \in DOMAIN inq[m.from] /\ inq'[m.from][h] = inq[m.from][k + h]
         \/ inq'[m.from][h][2] = nsent[m.from] + 1
  BY <1>1, QueueSteps
<1>4. Stamp(m)' = Stamp(m)
  BY DEF Stamp
<1>5. Stamp(m) < nsent[m.from] + 1 /\ Stamp(m) <= nsent'[m.from]
  BY <1>1, <1>2 DEF Older
<1>6. \A h \in DOMAIN inq'[m.from] : Stamp(m) < inq'[m.from][h][2]
  BY <1>3, <1>5 DEF Older
<1> QED BY <1>4, <1>5, <1>6 DEF Older
\* The first piece of a new line is the oldest one not yet received.
LEMMA LineIsNew ==
    ASSUME TypeInv, Ordered, NEW c \in Conns, pc[c] = "recv", NEW k, RecvText(c, k),
           NEW m, m = Labelled(c, SubSeq(inq[c], 1, k))
    PROVE  /\ m \in Messages /\ m.from = c
           /\ 1 \in DOMAIN inq[c] /\ Stamp(m) = inq[c][1][2]
           /\ Older(m)'
<1> DEFINE q == inq[c]
           n == Len(inq[c])
<1>1. /\ inq \in [Conns -> Seq(Conns \X Nat)] /\ q \in Seq(Conns \X Nat)
      /\ n \in Nat /\ DOMAIN q = 1 .. n
  <2>1. inq \in [Conns -> Seq(Conns \X Nat)]
    BY DEF TypeInv, TypeOK, Texts
  <2>2. q \in Seq(Conns \X Nat)
    BY <2>1
  <2> QED BY <2>1, <2>2, LenProperties
<1>2. /\ k \in 1 .. n /\ nsent' = nsent
      /\ inq'[c] = SubSeq(q, k + 1, n)
  BY <1>1 DEF RecvText
<1>3. m \in Messages /\ m.from = c
  BY <1>2, LabelledType
<1>4. 1 \in DOMAIN q
  BY <1>1, <1>2
<1>5. Stamp(m) = q[1][2]
  <2>1. SubSeq(q, 1, k)[1] = q[1]
    BY <1>1, <1>2
  <2>2. m.body = SubSeq(q, 1, k)
    BY DEF Labelled
  <2> QED BY <2>1, <2>2 DEF Stamp
<1>6. \A h \in DOMAIN inq'[c] : inq'[c][h] = q[k + h] /\ k + h \in DOMAIN q /\ 1 < k + h
  <2>1. \A h \in 1 .. (n - k) : SubSeq(q, k + 1, n)[h] = q[k + h]
    BY <1>1, <1>2
  <2>2. DOMAIN SubSeq(q, k + 1, n) = 1 .. (n - k)
    BY <1>1, <1>2
  <2>3. \A h \in 1 .. (n - k) : k + h \in 1 .. n /\ 1 < k + h
    BY <1>1, <1>2
  <2> QED BY <1>1, <1>2, <2>1, <2>2, <2>3
<1>7. q[1][2] <= nsent[c] /\ \A h \in DOMAIN inq'[c] : q[1][2] < inq'[c][h][2]
  BY <1>4, <1>6 DEF Ordered
<1> QED BY <1>2, <1>3, <1>4, <1>5, <1>7 DEF Older, Stamp

\* What a step does to the messages of one client: nothing, or it adds the one that
\* somebody else is sending.
LEMMA WhatIsAdded ==
    ASSUME TypeInv, Ownership, [Next]_vars, NEW d \in Conns, out'[d] # out[d]
    PROVE  \E c \in Conns \ {d}, n \in Nat :
              /\ SendOne(c) /\ message[c] \in Messages
              /\ DOMAIN out[d] = 1 .. n /\ DOMAIN out'[d] = 1 .. (n + 1)
              /\ out'[d][n + 1] = message[c]
              /\ \A h \in 1 .. n : out'[d][h] = out[d][h]
<1>1. out \in [Conns -> Seq(Messages)]
  BY DEF TypeInv, TypeOK
<1>2. PICK c \in Conns : SendOne(c)
  BY QuietSteps DEF BroadcastLock, kernelVars
<1>3. c # d /\ out'[d] = Append(out[d], message[c])
  BY <1>1, <1>2, SendHands
<1>4. PICK m \in Messages : m = message[c]
  BY <1>2 DEF SendOne, TypeInv, HasMessage
<1>5. PICK n \in Nat : n = Len(out[d]) /\ DOMAIN out[d] = 1 .. n
  BY <1>1, LenProperties
<1>6. /\ DOMAIN out'[d] = 1 .. (n + 1) /\ out'[d][n + 1] = m
      /\ \A h \in 1 .. n : out'[d][h] = out[d][h]
  BY <1>1, <1>3, <1>4, <1>5, AppendProperties
<1> QED BY <1>2, <1>3, <1>4, <1>5, <1>6

\* A message a handler composes is the sender's newest, and grows old with it.
LEMMA UsedNext ==
    TypeInv /\ Ownership /\ Labelling /\ Ordered /\ Used /\ [Next]_vars => Used'
<1> SUFFICES ASSUME TypeInv, Ownership, Labelling, Ordered, Used, [Next]_vars PROVE Used'
  OBVIOUS
<1>1. /\ pc \in [Conns -> HandlerPCs] /\ message \in [Conns -> Messages \cup {None}]
      /\ out \in [Conns -> Seq(Messages)]
  BY DEF TypeInv, TypeOK
<1>2. ASSUME NEW c \in Conns, pc[c] \in {"lock", "send"}
      PROVE  \E m \in Messages : m = message[c] /\ Older(m)'
  <2>1. PICK m \in Messages : m = message[c]
    BY <1>2 DEF TypeInv, HasMessage
  <2>2. Older(m) /\ m.body # <<>>
    BY <1>2, <2>1 DEF Used, Labelling, Composed, Genuine, TextOf
  <2> QED BY <2>1, <2>2, OlderStays
<1>3. ASSUME NEW c \in Conns, pc'[c] \in {"lock", "send"} PROVE Older(message[c])'
  <2>1. CASE pc[c] \in {"lock", "send"} /\ message'[c] = message[c]
    BY <1>2, <2>1 DEF Older, Stamp
  <2>2. ASSUME RecvLine(c) PROVE Older(message[c])'
    <3>1. PICK k : RecvText(c, k)
                   /\ message' = [message EXCEPT ![c] = Labelled(c, SubSeq(inq[c], 1, k))]
      BY <1>1, <1>3, <2>2 DEF RecvLine, Goto
    <3>2. PICK m : m = Labelled(c, SubSeq(inq[c], 1, k))
      OBVIOUS
    <3>3. Older(m)' /\ message'[c] = m
      BY <1>1, <2>2, <3>1, <3>2, LineIsNew DEF RecvLine, Labelling
    <3> QED BY <3>3 DEF Older, Stamp
  <2>3. CASE Environment \/ MainStep \/ UNCHANGED vars
    <3>1. message' = message /\ (pc[c] = pc'[c] \/ pc'[c] = "start")
      BY <1>1, <2>3 DEF Environment, MainStep, Accept, AdmitScan, AdmitStore, MainReject,
        Spawn, SpawnFail, vars, handlerVars
    <3> QED BY <1>3, <2>1, <3>1
  <2>4. ASSUME NEW e \in Conns, HandlerStep(e), ~RecvLine(c)
        PROVE  pc[c] \in {"lock", "send"} /\ message'[c] = message[c]
    BY <1>1, <1>3, <2>4 DEF HandlerStep, ThreadStart, RecvName, ClaimScan, ClaimStore, RecvLine,
      BroadcastLock, SendOne, BroadcastUnlock, CloseClient, ReleaseClient, PrintLeft,
      RejectClient, Goto
  <2> QED BY <2>1, <2>2, <2>3, <2>4 DEF Next
<1>4. ASSUME NEW d \in Conns, NEW i \in DOMAIN out'[d] PROVE Older(out[d][i])'
  <2>1. \/ i \in DOMAIN out[d] /\ out'[d][i] = out[d][i]
        \/ \E c \in Conns : pc[c] = "send" /\ out'[d][i] = message[c]
    <3>1. ASSUME NEW n \in Nat, i \in 1 .. (n + 1) PROVE i \in 1 .. n \/ i = n + 1
      BY <3>1
    <3> QED BY <3>1, WhatIsAdded DEF SendOne
  <2>2. CASE i \in DOMAIN out[d] /\ out'[d][i] = out[d][i]
    <3>1. PICK m \in Messages : m = out[d][i]
      BY <1>1, <2>2
    <3>2. Older(m) /\ m.body # <<>>
      BY <2>2, <3>1 DEF Used, Labelling, Handed, Genuine, TextOf
    <3>3. Older(m)'
      BY <3>2, OlderStays
    <3> QED BY <2>2, <3>1, <3>3 DEF Older, Stamp
  <2>3. ASSUME NEW c \in Conns, pc[c] = "send", out'[d][i] = message[c]
        PROVE  Older(out[d][i])'
    BY <1>2, <2>3 DEF Older, Stamp
  <2> QED BY <2>1, <2>2, <2>3
<1> QED BY <1>3, <1>4 DEF Used
\* A message whose broadcast has not begun is nowhere among those handed out.
LEMMA NewNext ==
    TypeInv /\ Ownership /\ Ordered /\ Used /\ New /\ [Next]_vars => New'
<1> SUFFICES ASSUME TypeInv, Ownership, Ordered, Used, New, [Next]_vars,
                    NEW c \in Conns, pc'[c] = "lock",
                    NEW d \in Conns, NEW i \in DOMAIN out'[d]
             PROVE  out'[d][i] # message'[c]
  BY DEF New
<1>1. /\ pc \in [Conns -> HandlerPCs] /\ message \in [Conns -> Messages \cup {None}]
      /\ out \in [Conns -> Seq(Messages)]
  BY DEF TypeInv, TypeOK
<1>2. CASE pc[c] = "lock" /\ message'[c] = message[c]
  <2>1. CASE out'[d] = out[d]
    BY <1>2, <2>1 DEF New
  <2>2. ASSUME NEW e \in Conns, NEW n \in Nat, SendOne(e), DOMAIN out[d] = 1 .. n,
               i \in 1 .. (n + 1), out'[d][n + 1] = message[e],
               \A h \in 1 .. n : out'[d][h] = out[d][h]
        PROVE  out'[d][i] # message'[c]
    <3>1. message[e].from = e /\ message[c].from = c /\ e # c
      BY <1>2, <2>2 DEF SendOne, TypeInv, HasMessage
    <3>2. CASE i \in 1 .. n
      BY <1>2, <2>2, <3>2 DEF New
    <3>3. CASE i = n + 1
      BY <1>2, <2>2, <3>1, <3>3
    <3> QED BY <2>2, <3>2, <3>3
  <2> QED BY <2>1, <2>2, WhatIsAdded
<1>3. ASSUME RecvLine(c) PROVE out'[d][i] # message'[c]
  <2>1. PICK k : /\ RecvText(c, k)
                 /\ message' = [message EXCEPT ![c] = Labelled(c, SubSeq(inq[c], 1, k))]
    BY <1>1, <1>3 DEF RecvLine, Goto
  <2>2. PICK m : m = Labelled(c, SubSeq(inq[c], 1, k))
    OBVIOUS
  <2>3. /\ message'[c] = m /\ m.from = c
        /\ 1 \in DOMAIN inq[c] /\ Stamp(m) = inq[c][1][2]
    BY <1>1, <1>3, <2>1, <2>2, LineIsNew DEF RecvLine
  <2>4. out' = out
    BY <1>3, <2>1 DEF RecvLine, RecvText
  <2>5. PICK o \in Messages : o = out[d][i]
    BY <1>1, <2>4
  <2>6. Older(o)
    BY <2>4, <2>5 DEF Used
  <2>7. CASE o.from = c
    <3>1. Stamp(o) < Stamp(m)
      BY <2>3, <2>6, <2>7 DEF Older
    <3>2. inq[c][1][2] \in Nat
      <4>1. inq[c] \in Seq(Conns \X Nat)
        BY DEF TypeInv, TypeOK, Texts
      <4>2. inq[c][1] \in Conns \X Nat
        BY <2>3, <4>1
      <4> QED BY <4>2
    <3>3. ~(Stamp(m) < Stamp(m))
      BY <2>3, <3>2
    <3> QED BY <2>3, <2>4, <2>5, <3>1, <3>3
  <2>8. CASE o.from # c
    BY <2>3, <2>4, <2>5, <2>8
  <2> QED BY <2>7, <2>8
<1>4. CASE Environment \/ MainStep \/ UNCHANGED vars
  <2>1. message' = message /\ (pc[c] = pc'[c] \/ pc'[c] = "start")
    BY <1>1, <1>4 DEF Environment, MainStep, Accept, AdmitScan, AdmitStore, MainReject,
      Spawn, SpawnFail, vars, handlerVars
  <2> QED BY <1>2, <2>1
<1>5. ASSUME NEW e \in Conns, HandlerStep(e), ~RecvLine(c)
      PROVE  pc[c] = "lock" /\ message'[c] = message[c]
  BY <1>1, <1>5 DEF HandlerStep, ThreadStart, RecvName, ClaimScan, ClaimStore, RecvLine,
    BroadcastLock, SendOne, BroadcastUnlock, CloseClient, ReleaseClient, PrintLeft,
    RejectClient, Goto
<1> QED BY <1>2, <1>3, <1>4, <1>5 DEF Next

\* Newness is an invariant of the server.
THEOREM NewnessInvariant == Spec => []Newness
<1>1. /\ TypeInv /\ Ownership /\ Labelling /\ Newness /\ [Next]_vars
      => Newness'
  BY OrderedNext, UsedNext, NewNext DEF Newness, Labelling
<1> QED
  BY NewnessInit, <1>1, TypeInvariant, OwnershipInvariant, LabellingInvariant, PTL DEF Spec

\* f is the number of client d: the one its handler was given, or is going to be.
Number(d, f) == IF pc[d] = "none" THEN desc[f] = d ELSE hfd[d] = f

Copies(d, m) == {j \in DOMAIN out[d] : out[d][j] = m}
Entries(f)   == {s \in Slots : clientSockets[s] = f}
Behind(f, n) == {s \in Slots : s < n /\ clientSockets[s] = f}

Untouched == /\ \A d \in Conns : peer[d] = "idle" => out[d] = <<>>
             /\ \A i \in DOMAIN backlog : out[backlog[i]] = <<>>
Numbered  == \A d \in Conns : pc[d] # "none" =>
                hfd[d] \in Fds /\ \A f \in Fds : desc[f] = d => hfd[d] = f
Bounded   == \A d \in Conns, f \in Fds : Number(d, f) =>
                \A i \in DOMAIN out[d] :
                   Cardinality(Copies(d, out[d][i])) <= Cardinality(Entries(f))
Halfway   == \A c \in Conns : pc[c] = "send" =>
                \A d \in Conns, f \in Fds : Number(d, f) =>
                   Cardinality(Copies(d, message[c])) <= Cardinality(Behind(f, pos[c]))

Copying == Untouched /\ Numbered /\ Bounded /\ Halfway

\* Initially nothing was handed out.
LEMMA CopyingInit == Init => Copying
BY ConstantsAssumption
DEF Init, Copying, Untouched, Numbered, Bounded, Halfway, Number

\* The counted sets are finite, and grow with the loop and with the table.
LEMMA CountedSets ==
    ASSUME TypeInv, NEW d \in Conns, NEW m, NEW f, NEW n
    PROVE  /\ IsFiniteSet(Copies(d, m)) /\ Cardinality(Copies(d, m)) \in Nat
           /\ IsFiniteSet(Entries(f)) /\ Cardinality(Entries(f)) \in Nat
           /\ IsFiniteSet(Behind(f, n)) /\ Cardinality(Behind(f, n)) \in Nat
           /\ Cardinality(Behind(f, n)) <= Cardinality(Entries(f))
<1>1. IsFiniteSet(DOMAIN out[d])
  <2>1. PICK h \in Nat : DOMAIN out[d] = 1 .. h
    BY LenProperties DEF TypeInv, TypeOK
  <2> QED BY <2>1, FS_Interval
<1>2. IsFiniteSet(Copies(d, m))
  BY <1>1, FS_Subset DEF Copies
<1>3. IsFiniteSet(Entries(f))
  BY Finite, FS_Subset DEF Entries
<1>4. Behind(f, n) \in SUBSET Entries(f)
  BY DEF Behind, Entries
<1>5. IsFiniteSet(Behind(f, n)) /\ Cardinality(Behind(f, n)) <= Cardinality(Entries(f))
  BY <1>3, <1>4, FS_Subset
<1> QED BY <1>2, <1>3, <1>5, FS_CardinalityType
\* Where a send() that adds a message writes to: to the first entry with a number
\* of that client that the loop has not passed.
LEMMA WhereItGoes ==
    ASSUME TypeInv, Ownership, NEW c \in Conns, SendOne(c), NEW d \in Conns,
           out'[d] # out[d]
    PROVE  /\ peer[d] = "open"
           /\ \E s \in Slots :
                 /\ ~(s < pos[c]) /\ pos'[c] = s + 1
                 /\ clientSockets[s] \in Fds /\ desc[clientSockets[s]] = d
<1> DEFINE i == FirstOf(Targets(c))
<1>1. i \in Targets(c)
  <2>1. Targets(c) \subseteq Nat /\ Targets(c) # {}
    BY ConstantsAssumption DEF Targets, Slots, SendOne
  <2> QED BY <2>1, FirstOfType
<1>2. /\ i \in Slots /\ ~(i < pos[c]) /\ clientSockets[i] \in Fds
  <2>1. i \in Slots /\ i >= pos[c] /\ clientSockets[i] # 0
    BY <1>1 DEF Targets
  <2>2. clientSockets[i] \in Fds
    BY <2>1 DEF TypeInv, TypeOK
  <2>3. \A h \in Slots : h \in Nat
    BY ConstantsAssumption DEF Slots
  <2>4. pos[c] \in Nat
    BY DEF TypeInv, TypeOK
  <2> HIDE DEF i
  <2> QED BY <2>1, <2>2, <2>3, <2>4
<1>3. pos'[c] = i + 1
  BY DEF SendOne, TypeInv, TypeOK
<1>4. PICK e : e = desc[clientSockets[i]] /\ Deliver(e, message[c])
  BY DEF SendOne
<1>5. e = d /\ peer[d] = "open"
  <2>1. out \in [Conns -> Seq(Messages)]
    BY DEF TypeInv, TypeOK
  <2> QED BY <1>4, <2>1 DEF Deliver
<1> QED BY <1>2, <1>3, <1>4, <1>5

\* What is added is added to a client that is connected.
LEMMA UntouchedNext == TypeInv /\ Ownership /\ Untouched /\ [Next]_vars => Untouched'
<1> SUFFICES ASSUME TypeInv, Ownership, Untouched, [Next]_vars PROVE Untouched'
  OBVIOUS
<1>1. /\ peer \in [Conns -> PeerStates] /\ backlog \in Seq(Conns)
      /\ out \in [Conns -> Seq(Messages)]
  BY DEF TypeInv, TypeOK
<1>2. ASSUME NEW d \in Conns, out'[d] # out[d]
      PROVE  peer[d] = "open" /\ \E f \in Fds : desc[f] = d
  BY <1>2, WhatIsAdded, WhereItGoes
<1>3. ASSUME NEW d \in Conns, peer'[d] = "idle" PROVE peer[d] = "idle"
  <2>1. ASSUME NEW e \in Conns, SendOne(e) PROVE peer[d] = "idle"
    BY <1>1, <1>3, <2>1 DEF SendOne, Deliver
  <2> QED
    BY <1>1, <1>3, <2>1, ConnectionSteps DEF Connect, ClientSend, ClientRead, ClientClose
<1>4. \A d \in Conns : peer'[d] = "idle" => out'[d] = <<>>
  BY <1>2, <1>3 DEF Untouched
<1>5. \A h \in DOMAIN backlog' :
         \/ \E i \in DOMAIN backlog : backlog'[h] = backlog[i]
         \/ \E d \in Conns : Connect(d) /\ backlog'[h] = d
  <2>1. CASE backlog' = backlog
    BY <2>1
  <2>2. ASSUME NEW d \in Conns, Connect(d)
        PROVE  \A h \in DOMAIN backlog' :
                  (\E i \in DOMAIN backlog : backlog'[h] = backlog[i]) \/ backlog'[h] = d
    BY <1>1, <2>2, AppendProperties DEF Connect
  <2>3. CASE Accept
    BY <1>1, <2>3, HeadTailProperties DEF Accept
  <2>4. backlog' = backlog \/ Accept \/ \E d \in Conns : Connect(d)
    BY ZenonT(60) DEF Next, Environment, ClientSend, ClientRead, ClientClose, MainStep, AdmitScan,
      AdmitStore, MainReject, CloseDescriptor, Spawn, SpawnFail, HandlerStep, ThreadStart,
      RecvName, RecvText, RecvEnds, ClaimScan, ClaimStore, RecvLine, BroadcastLock, SendOne,
      BroadcastUnlock, CloseClient, ReleaseClient, PrintLeft, RejectClient, vars, kernelVars
  <2> QED BY <2>1, <2>2, <2>3, <2>4
<1>6. \A i \in DOMAIN backlog : backlog[i] \in Conns
  BY <1>1
<1>7. \A i \in DOMAIN backlog : out'[backlog[i]] = <<>>
  BY <1>2, <1>6 DEF Untouched, Ownership, QueueFresh
<1>8. ASSUME NEW d \in Conns, Connect(d) PROVE out'[d] = <<>>
  BY <1>1, <1>8 DEF Connect, Untouched
<1>9. \A h \in DOMAIN backlog' : out'[backlog'[h]] = <<>>
  BY <1>5, <1>7, <1>8
<1> QED BY <1>4, <1>9 DEF Untouched

\* The handler of a connection uses the number of that connection.
LEMMA NumberedNext == TypeInv /\ Ownership /\ Numbered /\ [Next]_vars => Numbered'
<1> SUFFICES ASSUME TypeInv, Ownership, Numbered, [Next]_vars PROVE Numbered'
  OBVIOUS
<1> USE DEF Numbered
<1>1. /\ pc \in [Conns -> HandlerPCs] /\ hfd \in [Conns -> Fds \cup {0}]
      /\ desc \in [Fds -> Conns \cup {None}] /\ None \notin Conns
  BY ConstantsAssumption DEF TypeInv, TypeOK
<1>2. CASE UNCHANGED <<pc, hfd, desc>>
  BY <1>2
<1>3. CASE Accept
  <2>1. Head(backlog) \in Conns /\ pc[Head(backlog)] = "none"
    BY <1>3, HeadTailProperties DEF Accept, Ownership, QueueFresh, TypeInv, TypeOK
  <2> QED BY <1>1, <1>3, <2>1 DEF Accept, handlerVars
<1>4. CASE AdmitScan \/ AdmitStore \/ SpawnFail \/ MainReject
  BY <1>1, <1>4 DEF AdmitScan, AdmitStore, SpawnFail, MainReject, CloseDescriptor, kernelVars,
    handlerVars
<1>5. CASE Spawn
  BY <1>1, <1>5 DEF Spawn, kernelVars, Ownership, DescInjective, MainOwns
<1>6. ASSUME NEW c \in Conns, HandlerStep(c) PROVE Numbered'
  <2>1. UNCHANGED hfd /\ \A f \in Fds : desc'[f] \in {desc[f], None}
    BY <1>1, <1>6 DEF HandlerStep, ThreadStart, RecvName, RecvText, RecvEnds, ClaimScan,
      ClaimStore, RecvLine, BroadcastLock, SendOne, BroadcastUnlock, CloseClient,
      CloseDescriptor, ReleaseClient, PrintLeft, RejectClient, kernelVars
  <2>2. pc[c] # "none" /\ \A d \in Conns \ {c} : pc'[d] = pc[d]
    BY <1>1, <1>6 DEF HandlerStep, ThreadStart, RecvName, ClaimScan, ClaimStore, RecvLine,
      BroadcastLock, SendOne, BroadcastUnlock, CloseClient, ReleaseClient, PrintLeft,
      RejectClient, Goto
  <2> QED BY <1>1, <2>1, <2>2
<1> QED
  BY <1>2, <1>3, <1>4, <1>5, <1>6
  DEF Next, Environment, Connect, ClientSend, ClientRead, ClientClose, MainStep, vars,
      kernelVars, handlerVars

\* A client keeps its number, and gets one when it is accepted.
LEMMA NumberBefore ==
    ASSUME TypeInv, Ownership, Untouched, [Next]_vars, NEW d \in Conns, NEW f \in Fds,
           Number(d, f)'
    PROVE  Number(d, f) \/ (out[d] = <<>> /\ out'[d] = <<>>)
<1> USE DEF Number
<1>1. /\ pc \in [Conns -> HandlerPCs] /\ hfd \in [Conns -> Fds \cup {0}]
      /\ desc \in [Fds -> Conns \cup {None}] /\ None \notin Conns
  BY ConstantsAssumption DEF TypeInv, TypeOK
<1>2. CASE UNCHANGED <<pc, hfd, desc>>
  BY <1>2
<1>3. CASE Accept
  <2>1. /\ backlog \in Seq(Conns) /\ backlog # <<>>
        /\ Head(backlog) = backlog[1] /\ 1 \in DOMAIN backlog
    BY <1>3, HeadTailProperties DEF Accept, TypeInv, TypeOK
  <2>2. out[Head(backlog)] = <<>> /\ UNCHANGED <<out, pc, hfd>>
    BY <1>3, <2>1 DEF Accept, Untouched, handlerVars
  <2>3. desc'[f] = desc[f] \/ desc'[f] = Head(backlog)
    BY <1>1, <1>3 DEF Accept
  <2> QED BY <2>2, <2>3
<1>4. CASE AdmitScan \/ AdmitStore \/ SpawnFail \/ MainReject
  BY <1>1, <1>4 DEF AdmitScan, AdmitStore, SpawnFail, MainReject, CloseDescriptor, kernelVars,
    handlerVars
<1>5. CASE Spawn
  BY <1>1, <1>5 DEF Spawn, kernelVars, Ownership, MainOwns
<1>6. ASSUME NEW c \in Conns, HandlerStep(c) PROVE Number(d, f)
  <2>1. UNCHANGED hfd /\ \A g \in Fds : desc'[g] \in {desc[g], None}
    BY <1>1, <1>6 DEF HandlerStep, ThreadStart, RecvName, RecvText, RecvEnds, ClaimScan,
      ClaimStore, RecvLine, BroadcastLock, SendOne, BroadcastUnlock, CloseClient,
      CloseDescriptor, ReleaseClient, PrintLeft, RejectClient, kernelVars
  <2>2. /\ pc[c] # "none" /\ pc'[c] # "none"
        /\ \A e \in Conns \ {c} : pc'[e] = pc[e]
    BY <1>1, <1>6 DEF HandlerStep, ThreadStart, RecvName, ClaimScan, ClaimStore, RecvLine,
      BroadcastLock, SendOne, BroadcastUnlock, CloseClient, ReleaseClient, PrintLeft,
      RejectClient, Goto
  <2> QED BY <1>1, <2>1, <2>2
<1> QED
  BY <1>2, <1>3, <1>4, <1>5, <1>6
  DEF Next, Environment, Connect, ClientSend, ClientRead, ClientClose, MainStep, vars,
      kernelVars, handlerVars
\* One more copy, one more entry passed.
LEMMA CopyAdded ==
    ASSUME TypeInv, Ownership, MutexHeld, Numbered, Halfway, [Next]_vars,
           NEW c \in Conns, SendOne(c), NEW d \in Conns, out'[d] # out[d],
           NEW f \in Fds, Number(d, f), NEW m, m = message[c],
           NEW p, p = pos'[c]
    PROVE  Cardinality(Copies(d, m)') <= Cardinality(Behind(f, p))
<1>1. PICK n \in Nat : /\ DOMAIN out[d] = 1 .. n /\ DOMAIN out'[d] = 1 .. (n + 1)
                       /\ out'[d][n + 1] = m
                       /\ \A h \in 1 .. n : out'[d][h] = out[d][h]
  <2>1. \A e \in Conns : SendOne(e) => message[e] = m
    BY AloneWithMutex DEF SendOne
  <2> QED BY <2>1, WhatIsAdded
<1>2. PICK s \in Slots : /\ ~(s < pos[c]) /\ p = s + 1
                         /\ clientSockets[s] \in Fds /\ desc[clientSockets[s]] = d
  BY WhereItGoes
<1>3. clientSockets[s] = f
  BY <1>2 DEF Number, Numbered, Ownership, DescInjective
<1>4. Copies(d, m)' = Copies(d, m) \cup {n + 1} /\ n + 1 \notin Copies(d, m)
  <2>1. \A h \in 1 .. (n + 1) : h \in 1 .. n \/ h = n + 1
    OBVIOUS
  <2>2. n + 1 \in 1 .. (n + 1) /\ n + 1 \notin 1 .. n /\ \A h \in 1 .. n : h \in 1 .. (n + 1)
    OBVIOUS
  <2> QED BY <1>1, <2>1, <2>2 DEF Copies
<1>5. Cardinality(Copies(d, m)') = Cardinality(Copies(d, m)) + 1
  BY <1>4, CountedSets, FS_AddElement
<1>6. Cardinality(Behind(f, pos[c])) + 1 <= Cardinality(Behind(f, p))
  <2> DEFINE B == Behind(f, pos[c])
  <2>1. s \notin B /\ IsFiniteSet(B)
    BY <1>2, CountedSets DEF Behind
  <2>2. B \cup {s} \in SUBSET Behind(f, p)
    <3>1. pos[c] \in Nat /\ \A h \in Slots : h \in Nat
      BY ConstantsAssumption DEF TypeInv, TypeOK, Slots
    <3>2. \A h \in Slots : h < pos[c] => h < p
      BY <1>2, <3>1
    <3>3. s < p
      BY <1>2, <3>1
    <3> QED BY <1>2, <1>3, <3>2, <3>3 DEF Behind
  <2>3. Cardinality(B \cup {s}) = Cardinality(B) + 1
    BY <2>1, FS_AddElement
  <2>4. Cardinality(B \cup {s}) <= Cardinality(Behind(f, p))
    BY <2>2, CountedSets, FS_Subset
  <2> QED BY <2>3, <2>4
<1>7. Cardinality(Copies(d, m)) <= Cardinality(Behind(f, pos[c]))
  BY DEF Halfway, SendOne
<1>8. /\ Cardinality(Copies(d, m)) \in Nat /\ Cardinality(Behind(f, pos[c])) \in Nat
      /\ Cardinality(Behind(f, p)) \in Nat
  BY CountedSets
<1> QED BY <1>5, <1>6, <1>7, <1>8

\* No client has more copies of a message than there are entries with its number.
LEMMA BoundedNext ==
    /\ TypeInv /\ Ownership /\ MutexHeld /\ FoundFree
    /\ Untouched /\ Numbered /\ Halfway /\ Bounded
    /\ [Next]_vars
    => Bounded'
<1> SUFFICES ASSUME TypeInv, Ownership, MutexHeld, FoundFree, Untouched, Numbered, Halfway, Bounded,
                    [Next]_vars, NEW d \in Conns, NEW f \in Fds, Number(d, f)',
                    NEW i \in DOMAIN out'[d], NEW m, m = out'[d][i]
             PROVE  Cardinality(Copies(d, m)') <= Cardinality(Entries(f)')
  BY DEF Bounded, Copies
<1>1. Number(d, f)
  BY NumberBefore
<1>2. Cardinality(Entries(f)) <= Cardinality(Entries(f)')
  <2>1. CASE UNCHANGED clientSockets
    <3>1. Entries(f)' = Entries(f)
      BY <2>1 DEF Entries
    <3> QED BY <3>1, CountedSets
  <2>2. CASE AdmitStore
    <3>1. clientSockets \in [Slots -> Fds \cup {0}] /\ f # 0
      BY DEF TypeInv, TypeOK, Fds
    <3>2. \A s \in Slots : clientSockets[s] # 0 => clientSockets'[s] = clientSockets[s]
      BY <2>2, <3>1 DEF AdmitStore, FoundFree
    <3>3. Entries(f) \in SUBSET (Entries(f)') /\ Entries(f)' \in SUBSET Slots
      BY <3>1, <3>2 DEF Entries
    <3>4. IsFiniteSet(Entries(f)')
      BY <3>3, Finite, FS_Subset
    <3> QED BY <3>3, <3>4, FS_Subset
  <2> QED BY <2>1, <2>2, TableSteps
<1>3. Cardinality(Copies(d, m)') <= Cardinality(Entries(f))
  <2>1. CASE out'[d] = out[d]
    <3>1. Copies(d, m)' = Copies(d, m)
      BY <2>1 DEF Copies
    <3>2. i \in DOMAIN out[d] /\ out[d][i] = m
      BY <2>1
    <3> QED BY <1>1, <3>1, <3>2 DEF Bounded
  <2>2. ASSUME NEW c \in Conns, NEW n \in Nat, SendOne(c), out'[d] # out[d],
               DOMAIN out[d] = 1 .. n, DOMAIN out'[d] = 1 .. (n + 1),
               out'[d][n + 1] = message[c], \A h \in 1 .. n : out'[d][h] = out[d][h]
        PROVE  Cardinality(Copies(d, m)') <= Cardinality(Entries(f))
    <3>1. CASE m = message[c]
      <4>1. PICK p : p = pos'[c]
        OBVIOUS
      <4>2. Cardinality(Copies(d, m)') <= Cardinality(Behind(f, p))
        BY <1>1, <2>2, <3>1, <4>1, CopyAdded
      <4>3. Cardinality(Behind(f, p)) <= Cardinality(Entries(f))
        BY CountedSets
      <4>4. Cardinality(Copies(d, m)') \in Nat
        <5>1. IsFiniteSet(1 .. (n + 1)) /\ Copies(d, m)' \in SUBSET (1 .. (n + 1))
          BY <2>2, FS_Interval DEF Copies
        <5> QED BY <5>1, FS_Subset, FS_CardinalityType
      <4>5. Cardinality(Behind(f, p)) \in Nat /\ Cardinality(Entries(f)) \in Nat
        BY CountedSets
      <4> QED BY <4>2, <4>3, <4>4, <4>5
    <3>2. CASE m # message[c]
      <4>1. \A h \in 1 .. (n + 1) : h \in 1 .. n \/ h = n + 1
        OBVIOUS
      <4>2. i \in 1 .. n /\ out[d][i] = m
        BY <2>2, <3>2, <4>1
      <4>3. \A h \in 1 .. n : h \in 1 .. (n + 1)
        OBVIOUS
      <4>4. Copies(d, m)' = Copies(d, m)
        BY <2>2, <3>2, <4>1, <4>3 DEF Copies
      <4> QED BY <1>1, <2>2, <4>2, <4>4 DEF Bounded
    <3> QED BY <3>1, <3>2
  <2> QED BY <2>1, <2>2, WhatIsAdded
<1>4. Cardinality(Copies(d, m)') \in Nat /\ Cardinality(Entries(f)) \in Nat
      /\ Cardinality(Entries(f)') \in Nat
  <2>1. Entries(f)' \in SUBSET Slots
    BY DEF Entries
  <2>2. Cardinality(Entries(f)') \in Nat
    BY <2>1, Finite, FS_Subset, FS_CardinalityType
  <2>3. out' \in [Conns -> Seq(Messages)]
    BY TypeNext DEF TypeOK
  <2>4. PICK n \in Nat : DOMAIN out'[d] = 1 .. n
    BY <2>3, LenProperties
  <2>5. Copies(d, m)' \in SUBSET (1 .. n) /\ IsFiniteSet(1 .. n)
    BY <2>4, FS_Interval DEF Copies
  <2>6. Cardinality(Copies(d, m)') \in Nat
    BY <2>5, FS_Subset, FS_CardinalityType
  <2> QED BY <2>2, <2>6, CountedSets
<1> QED BY <1>2, <1>3, <1>4

\* Half-way through a broadcast, the copies are at most the entries passed.
LEMMA HalfwayNext ==
    /\ TypeInv /\ Ownership /\ MutexHeld /\ New /\ Untouched /\ Numbered /\ Halfway
    /\ [Next]_vars
    => Halfway'
<1> SUFFICES ASSUME TypeInv, Ownership, MutexHeld, New, Untouched, Numbered, Halfway,
                    [Next]_vars, NEW c \in Conns, pc'[c] = "send",
                    NEW d \in Conns, NEW f \in Fds, Number(d, f)',
                    NEW m, m = message'[c], NEW p, p = pos'[c]
             PROVE  Cardinality(Copies(d, m)') <= Cardinality(Behind(f, p)')
  BY DEF Halfway, Copies, Behind
<1>1. CASE BroadcastLock(c)
  <2>1. m = message[c] /\ out' = out /\ pc[c] = "lock" /\ clientSockets' = clientSockets
    BY <1>1 DEF BroadcastLock, kernelVars
  <2>2. Copies(d, m)' = {} /\ Behind(f, p)' = Behind(f, p)
    BY <2>1 DEF Copies, New, Behind
  <2> QED BY <2>2, CountedSets, FS_EmptySet
<1>2. CASE pc[c] = "send"
  <2>1. /\ clientSockets' = clientSockets /\ message'[c] = message[c]
        /\ ~SendOne(c) => pos'[c] = pos[c]
    BY <1>2, WhileSending
  <2>2. Behind(f, p)' = Behind(f, p)
    BY <2>1 DEF Behind
  <2>3. CASE ~Number(d, f)
    <3>1. out'[d] = <<>>
      BY <2>3, NumberBefore
    <3>2. Copies(d, m)' = {}
      BY <3>1 DEF Copies
    <3> QED BY <2>2, <3>2, CountedSets, FS_EmptySet
  <2>4. CASE Number(d, f) /\ out'[d] # out[d]
    <3>1. SendOne(c)
      BY <1>2, <2>4, WhatIsAdded, AloneWithMutex
    <3> QED BY <2>1, <2>2, <2>4, <3>1, CopyAdded
  <2>5. CASE Number(d, f) /\ out'[d] = out[d]
    <3>1. Copies(d, m)' = Copies(d, m)
      BY <2>5 DEF Copies
    <3>2. Cardinality(Copies(d, m)) <= Cardinality(Behind(f, pos[c]))
      BY <1>2, <2>1, <2>5 DEF Halfway
    <3>3. pos[c] <= p /\ pos[c] \in Nat /\ p \in Nat
      <4>1. pos[c] \in Nat /\ \A h \in Slots : h \in Nat
        BY ConstantsAssumption DEF TypeInv, TypeOK, Slots
      <4>2. CASE SendOne(c)
        <5>1. Targets(c) \subseteq Nat /\ Targets(c) # {} /\ \A h \in Targets(c) : h >= pos[c]
          BY <4>1, <4>2 DEF Targets, SendOne
        <5>2. PICK h \in Nat : h >= pos[c] /\ p = h + 1
          BY <4>2, <5>1, FirstOfType DEF SendOne, TypeInv, TypeOK
        <5> QED BY <4>1, <5>2
      <4> QED BY <2>1, <4>1, <4>2
    <3>4. Behind(f, pos[c]) \in SUBSET Behind(f, p)
      <4>1. \A h \in Slots : h \in Nat
        BY ConstantsAssumption DEF Slots
      <4>2. \A h \in Slots : h < pos[c] => h < p
        BY <3>3, <4>1
      <4> QED BY <4>2 DEF Behind
    <3>5. Cardinality(Behind(f, pos[c])) <= Cardinality(Behind(f, p))
      BY <3>4, CountedSets, FS_Subset
    <3>6. /\ Cardinality(Copies(d, m)) \in Nat /\ Cardinality(Behind(f, pos[c])) \in Nat
          /\ Cardinality(Behind(f, p)) \in Nat
      BY CountedSets
    <3> QED BY <2>2, <3>1, <3>2, <3>5, <3>6
  <2> QED BY <2>3, <2>4, <2>5
<1> QED BY <1>1, <1>2, SendingBefore

\* Copying is an invariant of the server.
THEOREM CopyingInvariant == Spec => []Copying
<1>1. /\ TypeInv /\ Ownership /\ Locking /\ TableRoom /\ Newness /\ Copying
      /\ [Next]_vars
      => Copying'
  BY UntouchedNext, NumberedNext, BoundedNext, HalfwayNext
  DEF Copying, Locking, TableRoom, Newness
<1> QED
  BY CopyingInit, <1>1, TypeInvariant, OwnershipInvariant, LockingInvariant,
     TableRoomInvariant, NewnessInvariant, PTL DEF Spec

\* A client gets a message as often as clientSockets[] holds its number, at most:
\* once, unless clients left before it came.
THEOREM CopiesAreEntries == Spec => []CopiesBounded
<1>1. TypeInv /\ Ownership /\ Copying => CopiesBounded
  <2> SUFFICES ASSUME TypeInv, Copying, NEW d \in Conns, pc[d] # "none",
                      NEW i \in DOMAIN out[d]
               PROVE  Cardinality(Copies(d, out[d][i])) <= Cardinality(Entries(hfd[d]))
    BY DEF CopiesBounded, Copies, Entries
  <2> QED BY DEF Copying, Numbered, Bounded, Number
<1> QED BY <1>1, TypeInvariant, OwnershipInvariant, CopyingInvariant, PTL
================================================================================
