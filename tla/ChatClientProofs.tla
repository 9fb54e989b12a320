--------------------------- MODULE ChatClientProofs ---------------------------
(***************************************************************************)
(* What TLAPS proves of ChatClient, for everything the user may type and   *)
(* every size of the buffers:                                              *)
(*   - the client's half of the contract with the server (ChatServerProofs *)
(*     has the server's half), from the invariant Connected;               *)
(*   - the types of its variables;                                         *)
(*   - that the text reaches the server whole and in order, from the       *)
(*     invariant TextInv.                                                  *)
(* The text is a sequence of lines, which FlattenSeq joins; what that      *)
(* recursive definition computes is proved in the section before the last. *)
(***************************************************************************)
EXTENDS ChatClient, SequenceTheorems, WellFoundedInduction, TLAPS

\* The process uses its descriptor only between connect() and the first close(),
\* whichever thread closes it, and while it is open so is its end.
Connected ==
    /\ fd \in {"open", "closed"}
    /\ mpc = "connect" => peer = "idle" /\ fd = "open" /\ rpc = "none"
    /\ mpc # "connect" /\ fd = "open" => peer = "open"

PeerVars == <<peer, nsent, nout, nread>>

\* Steps that do not touch the connection or the program points keep Connected.
LEMMA ConnectedStays ==
    ASSUME Connected, UNCHANGED <<peer, fd, mpc, rpc>>
    PROVE  Connected'
BY DEF Connected

\* close() leaves the connection as ChatPeer allows it, the second one leaves it
\* alone.
LEMMA CloseLeaves ==
    ASSUME Connected, CloseFd, mpc # "connect"
    PROVE  [Peer!Leave]_PeerVars /\ fd' = "closed"
BY DEF CloseFd, Connected, Peer!Leave, PeerVars

\* A send() is one piece of text, or none when there is nothing to send or nobody
\* to receive it.
LEMMA SentSends ==
    ASSUME Connected, Sent, mpc # "connect"
    PROVE  [Peer!Send]_PeerVars /\ UNCHANGED <<fd, peer>>
BY DEF Sent, Connected, Peer!Send, PeerVars

\* The server's steps, as the client's model has them, are the contract's.
LEMMA ServerContract ==
    Connected /\ Server => Connected' /\ [Peer!Next]_PeerVars
<1> SUFFICES ASSUME Connected, Server PROVE Connected' /\ [Peer!Next]_PeerVars
  OBVIOUS
<1> USE DEF Connected, PeerVars, Peer!Next
<1>1. UNCHANGED <<mpc, rpc>>
  BY DEF Server
<1>2. CASE ServerWrite
  BY <1>1, <1>2 DEF ServerWrite, Peer!Write
<1>3. CASE ServerWriteLate
  BY <1>1, <1>3 DEF ServerWriteLate, Peer!Reset
<1>4. CASE ServerRead
  BY <1>1, <1>4 DEF ServerRead
<1>5. CASE ServerClose
  BY <1>1, <1>5 DEF ServerClose
<1> QED BY <1>2, <1>3, <1>4, <1>5 DEF Server

\* main() opens the connection once, and then sends and closes.
LEMMA MainContract ==
    Connected /\ MainStep => Connected' /\ [Peer!Next]_PeerVars
<1> SUFFICES ASSUME Connected, MainStep PROVE Connected' /\ [Peer!Next]_PeerVars
  OBVIOUS
<1> USE DEF conn
<1>1. CASE Connect
  <2>1. CASE peer' = "open" /\ mpc' = "nick" /\ UNCHANGED <<nsent, nout, nread, fd>>
    BY <1>1, <2>1 DEF Connect, Connected, PeerVars, Peer!Next, Peer!Open
  <2>2. CASE CloseFd /\ mpc' = "return"
    BY <1>1, <2>2 DEF Connect, CloseFd, Connected, PeerVars
  <2> QED BY <1>1, <2>1, <2>2 DEF Connect
<1>2. CASE ReadNickname \/ GetLine \/ Return
  BY <1>2 DEF ReadNickname, GetLine, Return, Connected, PeerVars
<1>3. ASSUME mpc # "connect", Sent, mpc' # "connect" PROVE Connected' /\ [Peer!Next]_PeerVars
  BY <1>3, SentSends DEF Connected, Peer!Next
<1>4. ASSUME mpc # "connect", CloseFd, mpc' # "connect"
      PROVE  Connected' /\ [Peer!Next]_PeerVars
  BY <1>4, CloseLeaves DEF Connected, Peer!Next
<1>5. ASSUME mpc # "connect", UNCHANGED conn, mpc' # "connect"
      PROVE  Connected' /\ [Peer!Next]_PeerVars
  BY <1>5 DEF Connected, PeerVars
<1>6. CASE SendNickname
  BY <1>3, <1>4, <1>5, <1>6 DEF SendNickname, NotSent, Killed
<1>7. CASE CreateThread
  BY <1>4, <1>5, <1>7 DEF CreateThread
<1>8. CASE SendLine
  BY <1>3, <1>4, <1>5, <1>8 DEF SendLine, NotSent, Killed
<1>9. CASE CloseSocket
  BY <1>4, <1>9 DEF CloseSocket
<1> QED
  BY <1>1, <1>2, <1>6, <1>7, <1>8, <1>9 DEF MainStep

\* receiveMessages() reads while the connection is open, and closes it.
LEMMA ThreadContract ==
    Connected /\ ThreadStep => Connected' /\ [Peer!Next]_PeerVars
<1> SUFFICES ASSUME Connected, ThreadStep PROVE Connected' /\ [Peer!Next]_PeerVars
  OBVIOUS
<1>1. rpc # "none" /\ mpc # "connect" /\ mpc' = mpc
  BY DEF ThreadStep, Receive, ReceiveEnds, ReceiveCloses, ReceiveExits, Connected
<1>2. CASE Receive
  BY <1>1, <1>2 DEF Receive, Connected, PeerVars, Peer!Next, Peer!Read
<1>3. CASE ReceiveEnds \/ ReceiveExits
  BY <1>1, <1>3 DEF ReceiveEnds, ReceiveExits, conn, Connected, PeerVars
<1>4. CASE ReceiveCloses
  BY <1>1, <1>4, CloseLeaves DEF ReceiveCloses, Connected, Peer!Next
<1> QED BY <1>2, <1>3, <1>4 DEF ThreadStep

\* The client uses its connection as ChatPeer says, which is all the server counts
\* on: one connect(), no text before it or after the first close(), and a close
\* with unread messages is a reset.
THEOREM ClientKeepsContract == Spec => ImplementsPeer
<1>1. Init => Connected /\ Peer!Init
  BY DEF Init, Connected, Peer!Init
<1>2. Connected /\ [Next]_vars => Connected' /\ [Peer!Next]_PeerVars
  <2>1. CASE UNCHANGED vars
    BY <2>1, ConnectedStays DEF vars, conn, PeerVars
  <2> QED BY <2>1, ServerContract, MainContract, ThreadContract DEF Next
<1> QED BY <1>1, <1>2, PTL DEF Spec, ImplementsPeer, Peer!Spec, PeerVars

-----------------------------------------------------------------------------
(* Types. *)

\* A sequence that is not empty is its first element and the others.
LEMMA HeadTail ==
    \A T : \A s \in Seq(T) : s # <<>> =>
        /\ Head(s) \in T /\ Tail(s) \in Seq(T) /\ s = <<Head(s)>> \o Tail(s)
        /\ Len(s) \in Nat \ {0}
<1> TAKE T
<1> TAKE s \in Seq(T)
<1>1. HAVE s # <<>>
<1>2. Head(s) \in T /\ Tail(s) \in Seq(T) /\ Len(s) \in Nat \ {0}
  BY <1>1
<1>3. s = <<Head(s)>> \o Tail(s)
  <2>1. Len(s) = Len(<<Head(s)>> \o Tail(s)) BY <1>1, <1>2
  <2>2. \A i \in 1 .. Len(s) : s[i] = (<<Head(s)>> \o Tail(s))[i] BY <1>1, <1>2
  <2>3. <<Head(s)>> \o Tail(s) \in Seq(T) BY <1>2
  <2> QED BY <2>1, <2>2, <2>3, SeqEqual
<1> QED BY <1>2, <1>3

\* What a close() of the descriptor leaves of the types.
LEMMA ClientTypesClose ==
    ASSUME TypeOK, CloseFd
    PROVE  /\ fd' = "closed" /\ peer' \in Ends /\ UNCHANGED <<wire, nrecv, nsent, server, nout, nread>>
BY DEF TypeOK, CloseFd, Ends

\* The same for a send() that the kernel takes.
LEMMA ClientTypesSent ==
    ASSUME TypeOK, Sent
    PROVE  /\ wire' \in Seq(Tokens) /\ Len(wire') \in Nat /\ Len(wire) \in Nat
           /\ nrecv' \in 0 .. Len(wire') /\ nsent' \in 0 .. Len(wire')
           /\ server' \in {"up", "fin", "rst"} /\ UNCHANGED <<nrecv, peer, nout, nread, fd>>
<1>1. CASE UNCHANGED <<wire, nsent>>
  BY <1>1 DEF TypeOK, Sent
<1>2. CASE wire' = wire \o line /\ UNCHANGED server /\ nsent' = IF line = <<>> THEN nsent ELSE nsent + 1
  <2>1. Len(line) \in Nat /\ Len(wire) \in Nat /\ (line # <<>> => Len(line) # 0)
    BY DEF TypeOK
  <2>2. wire' \in Seq(Tokens) /\ Len(wire') = Len(wire) + Len(line)
    BY <1>2 DEF TypeOK
  <2> QED BY <1>2, <2>1, <2>2 DEF TypeOK, Sent
<1> QED BY <1>1, <1>2 DEF Sent

\* No step of the server disturbs the types.
LEMMA ServerTypes ==
    TypeOK /\ Server => TypeOK'
<1> SUFFICES ASSUME TypeOK, Server PROVE TypeOK'
  OBVIOUS
<1> USE ClientAssumption DEF TypeOK, Ends
<1>0. UNCHANGED <<typed, script, line, alive, mpc, rpc>> /\ Len(wire) \in Nat
  BY DEF Server
<1>1. CASE ServerWrite
  BY <1>0, <1>1 DEF ServerWrite
<1>2. CASE ServerWriteLate
  BY <1>0, <1>2 DEF ServerWriteLate
<1>3. CASE ServerRead
  BY <1>0, <1>3 DEF ServerRead
<1>4. CASE ServerClose
  BY <1>0, <1>4 DEF ServerClose
<1> QED BY <1>1, <1>2, <1>3, <1>4 DEF Server

\* No step of main() does, wherever fgets() cuts what was typed.
LEMMA MainTypes ==
    TypeOK /\ MainStep => TypeOK'
<1> SUFFICES ASSUME TypeOK, MainStep PROVE TypeOK'
  OBVIOUS
<1> USE ClientAssumption
<1>1. CASE Connect
  BY <1>1, ClientTypesClose DEF Connect, TypeOK, Ends
<1>2. CASE ReadNickname
  <2>1. CASE script # <<>> /\ Len(Head(script)) <= 1
    <3>1. Head(script) \in Seq(Tokens) /\ Tail(script) \in Seq(Seq(Tokens))
      BY <2>1, HeadTail DEF TypeOK
    <3>2. <<<<>>>> \o Tail(script) \in Seq(Seq(Tokens))
      BY <3>1
    <3>3. line' \in Seq(Tokens) /\ script' \in Seq(Seq(Tokens))
      <4>1. line' = Head(script)
        BY <1>2, <2>1 DEF ReadNickname
      <4>2. script' = Tail(script) \/ script' = <<<<>>>> \o Tail(script)
        BY <1>2, <2>1 DEF ReadNickname
      <4> QED BY <3>1, <3>2, <4>1, <4>2
    <3> QED BY <1>2, <3>3 DEF ReadNickname, conn, TypeOK
  <2>2. CASE script # <<>> /\ ~(Len(Head(script)) <= 1)
    <3>1. Head(script) \in Seq(Tokens) /\ Tail(script) \in Seq(Seq(Tokens)) /\ Head(script) # <<>>
      BY <2>2, HeadTail DEF TypeOK
    <3>2. Head(Head(script)) \in Tokens /\ Tail(Head(script)) \in Seq(Tokens)
      BY <3>1, HeadTail
    <3>3. line' = <<Head(Head(script))>> /\ script' = <<Tail(Head(script))>> \o Tail(script)
      BY <1>2, <2>2 DEF ReadNickname
    <3>4. line' \in Seq(Tokens) BY <3>2, <3>3
    <3>5. script' \in Seq(Seq(Tokens)) BY <3>1, <3>2, <3>3
    <3> QED BY <1>2, <3>4, <3>5 DEF ReadNickname, conn, TypeOK
  <2>3. CASE script = <<>>
    <3>1. line' \in {<<>>, <<GARBAGE>>} /\ UNCHANGED script
      BY <1>2, <2>3 DEF ReadNickname
    <3>2. line' \in Seq(Tokens)
      <4>1. GARBAGE \in Tokens BY DEF ClientAssumption
      <4>2. <<GARBAGE>> \in Seq(Tokens) BY <4>1
      <4>3. <<>> \in Seq(Tokens) BY EmptySeq
      <4> QED BY <3>1, <4>2, <4>3
    <3> QED BY <1>2, <3>1, <3>2 DEF ReadNickname, conn, TypeOK
  <2> QED BY <2>1, <2>2, <2>3
<1>3. CASE SendNickname
  <2>1. CASE Sent /\ mpc' = "thread" /\ line' = <<>> /\ UNCHANGED <<typed, script, alive, rpc>>
    BY <2>1, ClientTypesSent DEF TypeOK
  <2>2. CASE NotSent /\ mpc' = "thread" /\ line' = <<>> /\ UNCHANGED <<typed, script, alive, rpc>>
    BY <2>2 DEF TypeOK, NotSent, conn
  <2>3. CASE Killed
    BY <2>3, ClientTypesClose DEF TypeOK, Killed
  <2> QED BY <1>3, <2>1, <2>2, <2>3 DEF SendNickname
<1>4. CASE CreateThread
  BY <1>4, ClientTypesClose DEF CreateThread, TypeOK, conn
<1>5. CASE GetLine
  <2>1. CASE script # <<>>
    <3>1. Head(script) \in Seq(Tokens) /\ Tail(script) \in Seq(Seq(Tokens))
      BY <2>1, HeadTail DEF TypeOK
    <3>2. line' \in Seq(Tokens) /\ script' \in Seq(Seq(Tokens))
      BY <1>5, <2>1, <3>1 DEF GetLine, TypeOK
    <3> QED BY <1>5, <3>2 DEF GetLine, conn, TypeOK
  <2>2. CASE script = <<>>
    BY <1>5, <2>2 DEF GetLine, conn, TypeOK
  <2> QED BY <2>1, <2>2
<1>6. CASE SendLine
  <2>1. CASE Sent /\ mpc' = "getline" /\ line' = <<>> /\ UNCHANGED <<typed, script, alive, rpc>>
    BY <2>1, ClientTypesSent DEF TypeOK
  <2>2. CASE NotSent /\ mpc' = "close" /\ line' = <<>> /\ UNCHANGED <<typed, script, alive, rpc>>
    BY <2>2 DEF TypeOK, NotSent, conn
  <2>3. CASE Killed
    BY <2>3, ClientTypesClose DEF TypeOK, Killed
  <2> QED BY <1>6, <2>1, <2>2, <2>3 DEF SendLine
<1>7. CASE CloseSocket
  BY <1>7, ClientTypesClose DEF CloseSocket, TypeOK
<1>8. CASE Return
  BY <1>8 DEF Return, TypeOK, conn
<1> QED BY <1>1, <1>2, <1>3, <1>4, <1>5, <1>6, <1>7, <1>8 DEF MainStep

\* No step of receiveMessages() does.
LEMMA ThreadTypes ==
    TypeOK /\ ThreadStep => TypeOK'
<1> SUFFICES ASSUME TypeOK, ThreadStep PROVE TypeOK'
  OBVIOUS
<1> USE ClientAssumption
<1>1. CASE Receive
  BY <1>1 DEF Receive, TypeOK
<1>2. CASE ReceiveEnds \/ ReceiveExits
  BY <1>2 DEF ReceiveEnds, ReceiveExits, conn, TypeOK
<1>3. CASE ReceiveCloses
  BY <1>3, ClientTypesClose DEF ReceiveCloses, TypeOK
<1> QED BY <1>1, <1>2, <1>3 DEF ThreadStep

\* Every variable of the client has its type throughout, for all that may be typed.
THEOREM ClientTypes == Spec => []TypeOK
<1>1. Init => TypeOK
  BY ClientAssumption DEF Init, TypeOK, Ends
<1>2. TypeOK /\ [Next]_vars => TypeOK'
  <2>1. CASE UNCHANGED vars
    BY <2>1 DEF vars, conn, TypeOK
  <2> QED BY <2>1, ServerTypes, MainTypes, ThreadTypes DEF Next
<1> QED BY <1>1, <1>2, PTL DEF Spec

-----------------------------------------------------------------------------
(***************************************************************************)
(* FlattenSeq is defined by recursion, and what it computes is proved by   *)
(* induction: a set of numbers that holds a smaller one for each of its    *)
(* elements is empty, so there is no first place where an equation fails.  *)
(***************************************************************************)

\* A set of numbers without a least one is empty.
LEMMA NoLeast ==
    ASSUME NEW Bad, Bad \subseteq Nat, \A m \in Bad : \E j \in Bad : j < m
    PROVE  Bad = {}
<1> DEFINE R == {p \in Nat \X Nat : p[1] < p[2]}
<1>1. IsWellFoundedOn(R, Nat)
  BY NatLessThanWellFounded DEF OpToRel
<1>2. \A m \in Bad : \E j \in Bad : <<j, m>> \in R
  OBVIOUS
<1> HIDE DEF R
<1> QED BY <1>1, <1>2, WFMin

\* f[i] is the first i sequences of s, one after the other, for i up to m.
Joins(f, s, m) ==
    f = [i \in 1 .. m |-> IF i = 1 THEN s[i] ELSE f[i - 1] \o s[i]]

\* One value of such a function.
LEMMA JoinsAt ==
    ASSUME NEW f, NEW s, NEW m \in Nat, Joins(f, s, m), NEW i \in 1 .. m
    PROVE  f[i] = IF i = 1 THEN s[i] ELSE f[i - 1] \o s[i]
<1> DEFINE h == [j \in 1 .. m |-> IF j = 1 THEN s[j] ELSE f[j - 1] \o s[j]]
<1>1. f = h BY DEF Joins
<1>2. h[i] = IF i = 1 THEN s[i] ELSE f[i - 1] \o s[i] OBVIOUS
<1> HIDE DEF h
<1> QED BY <1>1, <1>2

\* There is such a function for every sequence: it is built one place at a time.
LEMMA JoinsExist ==
    ASSUME NEW s, NEW n \in Nat
    PROVE  \E f : Joins(f, s, n)
<1> DEFINE Bad == {m \in Nat : ~ \E f : Joins(f, s, m)}
<1>1. ASSUME NEW m \in Bad PROVE m - 1 \in Bad
  <2>1. m # 0
    <3>1. 1 .. 0 = {} OBVIOUS
    <3>2. Joins([i \in {} |-> 0], s, 0) BY <3>1 DEF Joins
    <3> QED BY <3>2
  <2>2. SUFFICES ASSUME NEW f, Joins(f, s, m - 1) PROVE FALSE
    BY <2>1
  <2> DEFINE g == [i \in 1 .. m |-> IF i = 1 THEN s[i] ELSE f[i - 1] \o s[i]]
  <2>3. \A i \in 1 .. (m - 1) : g[i] = f[i]
    BY <2>1, <2>2, JoinsAt
  <2>4. g = [i \in 1 .. m |-> IF i = 1 THEN s[i] ELSE f[i - 1] \o s[i]]
    OBVIOUS
  <2>m. m \in Nat /\ m # 0
    BY <2>1
  <2> HIDE DEF g, Bad
  <2>5. \A i \in 1 .. m : (IF i = 1 THEN s[i] ELSE g[i - 1] \o s[i])
                          = IF i = 1 THEN s[i] ELSE f[i - 1] \o s[i]
    BY <2>m, <2>3
  <2>6. Joins(g, s, m) BY <2>4, <2>5, Zenon DEF Joins
  <2> QED BY <2>6 DEF Bad
<1>2. Bad = {}
  <2>1. Bad \subseteq Nat OBVIOUS
  <2>2. \A m \in Bad : m - 1 \in Bad /\ m - 1 < m BY <1>1
  <2> HIDE DEF Bad
  <2> QED BY <2>1, <2>2, NoLeast
<1> QED BY <1>2

\* The steps in which s is flattened.
Steps(g, s, n) ==
    /\ FlattenSeq(s) = g[n] /\ g[1] = s[1]
    /\ \A i \in 1 .. (n - 1) : g[i + 1] = g[i] \o s[i + 1]

\* FlattenSeq takes these steps, whatever the sequences are.
LEMMA FlattenSteps ==
    ASSUME NEW s, NEW n \in Nat \ {0}, Len(s) = n
    PROVE  \E g : Steps(g, s, n)
<1> DEFINE g == CHOOSE f : Joins(f, s, Len(s))
<1>1. Joins(g, s, Len(s))
  BY JoinsExist
<1>2. FlattenSeq(s) = g[Len(s)]
  BY DEF FlattenSeq, Joins
<1> HIDE DEF g
<1>3. g[1] = s[1]
  BY <1>1, JoinsAt
<1>4. \A i \in 1 .. (n - 1) : g[i + 1] = g[i] \o s[i + 1]
  <2> TAKE i \in 1 .. (n - 1)
  <2>1. PICK j \in 1 .. n : j = i + 1 /\ j # 1 /\ j - 1 = i
    OBVIOUS
  <2>2. g[j] = IF j = 1 THEN s[j] ELSE g[j - 1] \o s[j]
    BY <1>1, JoinsAt
  <2> QED BY <2>1, <2>2
<1> QED BY <1>2, <1>3, <1>4 DEF Steps

\* Nothing flattened is nothing.
LEMMA FlattenEmpty == FlattenSeq(<<>>) = <<>>
BY DEF FlattenSeq

\* Concatenation is associative, as a formula about every set of elements.
LEMMA Associative == \A T : \A a, b, c \in Seq(T) : (a \o b) \o c = a \o (b \o c)
BY ConcatAssociative

\* Flattening sequences over T gives sequences over T.
LEMMA StepsType ==
    \A T, g, s : \A n \in Nat :
        (\A i \in 1 .. n : s[i] \in Seq(T)) /\ Steps(g, s, n) => \A i \in 1 .. n : g[i] \in Seq(T)
<1>1. SUFFICES ASSUME NEW T, NEW g, NEW s, NEW n \in Nat,
                      \A i \in 1 .. n : s[i] \in Seq(T), Steps(g, s, n)
               PROVE  \A i \in 1 .. n : g[i] \in Seq(T)
  OBVIOUS
<1> DEFINE Bad == {i \in 1 .. n : g[i] \notin Seq(T)}
<1>2. ASSUME NEW m \in Bad PROVE m - 1 \in Bad
  <2>1. m # 1
    BY <1>1 DEF Steps
  <2>2. PICK j \in 1 .. (n - 1) : j = m - 1 /\ m = j + 1
    BY <2>1
  <2>3. g[m] = g[j] \o s[m] /\ s[m] \in Seq(T)
    BY <1>1, <2>2 DEF Steps
  <2>4. g[j] \notin Seq(T)
    BY <2>3, ConcatProperties
  <2> QED BY <2>2, <2>4
<1>3. Bad = {}
  <2>1. Bad \subseteq Nat OBVIOUS
  <2>2. \A m \in Bad : m - 1 \in Bad /\ m - 1 < m BY <1>2
  <2> HIDE DEF Bad
  <2> QED BY <2>1, <2>2, NoLeast
<1> QED BY <1>3

\* So FlattenSeq gives a sequence over the same set.
LEMMA FlattenType ==
    ASSUME NEW T, NEW s \in Seq(Seq(T))
    PROVE  FlattenSeq(s) \in Seq(T)
<1>1. PICK n \in Nat : Len(s) = n
  OBVIOUS
<1>2. CASE n = 0
  BY <1>1, <1>2 DEF FlattenSeq
<1>3. CASE n # 0
  <2>1. PICK g : Steps(g, s, n)
    BY <1>1, <1>3, FlattenSteps
  <2>2. \A i \in 1 .. n : s[i] \in Seq(T)
    BY <1>1
  <2>3. g[n] \in Seq(T)
    BY <1>3, <2>1, <2>2, StepsType
  <2> QED BY <2>1, <2>3 DEF Steps
<1> QED BY <1>2, <1>3

\* The first of the sequences comes first.
LEMMA FlattenHead ==
    ASSUME NEW T, NEW x \in Seq(T), NEW s \in Seq(Seq(T))
    PROVE  FlattenSeq(<<x>> \o s) = x \o FlattenSeq(s)
<1>1. PICK u : u = <<x>> \o s
  OBVIOUS
<1>2. PICK n \in Nat : Len(s) = n
  OBVIOUS
<1>3. Len(u) = n + 1 /\ u[1] = x
  BY <1>1, <1>2
<1>4. \A i \in 1 .. n : u[i + 1] = s[i] /\ s[i] \in Seq(T)
  BY <1>1, <1>2
<1>5. PICK f : Steps(f, u, n + 1)
  BY <1>3, FlattenSteps
<1>6. CASE n = 0
  <2>1. s = <<>> /\ x \o <<>> = x
    BY <1>2, <1>6, ConcatEmptySeq
  <2>2. FlattenSeq(u) = f[1] /\ f[1] = u[1]
    BY <1>5, <1>6 DEF Steps
  <2> QED BY <1>1, <1>3, <2>1, <2>2, FlattenEmpty
<1>7. CASE n # 0
  <2>1. PICK g : Steps(g, s, n)
    BY <1>2, <1>7, FlattenSteps
  <2>2. \A i \in 1 .. n : f[i + 1] = f[i] \o s[i]
    <3> TAKE i \in 1 .. n
    <3>1. i \in 1 .. ((n + 1) - 1) OBVIOUS
    <3>2. f[i + 1] = f[i] \o u[i + 1] BY <1>5, <3>1, Zenon DEF Steps
    <3> QED BY <1>4, <3>2, Zenon
  <2>3. \A i \in 1 .. n : g[i] \in Seq(T)
    BY <1>4, <2>1, StepsType, Zenon
  <2>4. PICK e : e = [i \in 1 .. n |-> f[i + 1]]
    OBVIOUS
  <2>5. PICK h : h = [i \in 1 .. n |-> x \o g[i]]
    OBVIOUS
  <2>6. 1 \in 1 .. n /\ n \in 1 .. n
    BY <1>7
  <2>7. e[1] = h[1]
    <3>1. e[1] = f[1 + 1] /\ h[1] = x \o g[1] BY <2>4, <2>5, <2>6, Zenon
    <3>2. f[1 + 1] = f[1] \o s[1] BY <2>2, <2>6, Zenon
    <3>3. f[1] = x /\ g[1] = s[1] BY <1>3, <1>5, <2>1, Zenon DEF Steps
    <3> QED BY <3>1, <3>2, <3>3, Zenon
  <2>8. \A j \in 1 .. (n - 1) : e[j] = h[j] => e[j + 1] = h[j + 1]
    <3>1. SUFFICES ASSUME NEW j \in 1 .. (n - 1), e[j] = h[j] PROVE e[j + 1] = h[j + 1]
      OBVIOUS
    <3>2. PICK k \in 1 .. n : k = j + 1 /\ j \in 1 .. n
      OBVIOUS
    <3>3. f[k] = x \o g[j]
      BY <2>4, <2>5, <3>1, <3>2, Zenon
    <3>4. f[k + 1] = f[k] \o s[k]
      BY <2>2, <3>2, Zenon
    <3>5. g[k] = g[j] \o s[k]
      BY <2>1, <3>2, Zenon DEF Steps
    <3>6. PICK b \in Seq(T), c \in Seq(T) : b = g[j] /\ c = s[k]
      BY <1>4, <2>3, <3>2, Zenon
    <3>7. (x \o b) \o c = x \o (b \o c)
      BY Associative
    <3>8. e[k] = f[k + 1] /\ h[k] = x \o g[k]
      BY <2>4, <2>5, Zenon
    <3> QED BY <3>2, <3>3, <3>4, <3>5, <3>6, <3>7, <3>8, Zenon
  <2> DEFINE Bad == {m \in 1 .. n : e[m] # h[m]}
  <2>9. ASSUME NEW m \in Bad PROVE m - 1 \in Bad
    <3>1. m # 1
      BY <2>7
    <3>2. PICK j \in 1 .. (n - 1) : j = m - 1 /\ m = j + 1
      BY <3>1
    <3> QED BY <2>8, <3>2
  <2>10. Bad = {}
    <3>1. Bad \subseteq Nat OBVIOUS
    <3>2. \A m \in Bad : m - 1 \in Bad /\ m - 1 < m BY <2>9
    <3> HIDE DEF Bad
    <3> QED BY <3>1, <3>2, NoLeast
  <2>11. e[n] = h[n]
    BY <2>6, <2>10, Zenon
  <2>12. f[n + 1] = x \o g[n]
    BY <2>4, <2>5, <2>6, <2>11, Zenon
  <2>13. FlattenSeq(u) = f[n + 1] /\ FlattenSeq(s) = g[n]
    BY <1>5, <2>1, Zenon DEF Steps
  <2> QED BY <1>1, <2>12, <2>13, Zenon
<1> QED BY <1>6, <1>7

-----------------------------------------------------------------------------
(* The text. *)

Sending == {"nick", "sendnick", "thread", "getline", "send"}

\* What is read goes through line[] to the server; only a client that leaves, or
\* one the server has left, has closed its descriptor.
Conserved ==
    /\ mpc \in {"connect", "nick"} => script = typed /\ line = <<>> /\ wire = <<>>
    /\ mpc \in {"thread", "getline"} => line = <<>>
    /\ fd = "closed" => server # "up" \/ mpc = "return"
    /\ rpc \in {"close", "exit"} => server # "up" \/ mpc = "return"
    /\ server = "up" /\ typed # <<>> /\ mpc \in Sending
        => wire \o line \o FlattenSeq(script) = FlattenSeq(typed)

TextInv == TypeOK /\ Conserved

\* Reading a line, whole or in part, moves text from the terminal to line[].
LEMMA ReadingMoves ==
    \A s \in Seq(Seq(Tokens)) : s # <<>> =>
        /\ FlattenSeq(s) = Head(s) \o FlattenSeq(Tail(s))
        /\ FlattenSeq(<<<<>>>> \o Tail(s)) = FlattenSeq(Tail(s))
        /\ Head(s) # <<>> => <<Head(Head(s))>> \o FlattenSeq(<<Tail(Head(s))>> \o Tail(s))
                               = FlattenSeq(s)
<1> TAKE s \in Seq(Seq(Tokens))
<1>1. HAVE s # <<>>
<1>2. PICK h \in Seq(Tokens), t \in Seq(Seq(Tokens)) : h = Head(s) /\ t = Tail(s)
  BY <1>1, HeadTail
<1>3. s = <<h>> \o t
  BY <1>1, <1>2, HeadTail
<1>4. FlattenSeq(s) = h \o FlattenSeq(t)
  BY <1>3, FlattenHead, Zenon
<1>5. PICK w \in Seq(Tokens) : w = FlattenSeq(t)
  BY FlattenType
<1>6. FlattenSeq(<<<<>>>> \o t) = w
  <2>1. PICK e \in Seq(Tokens) : e = <<>>
    BY EmptySeq
  <2>2. FlattenSeq(<<e>> \o t) = e \o w
    BY <1>5, FlattenHead, Zenon
  <2>3. e \o w = w
    BY <2>1, ConcatEmptySeq
  <2> QED BY <2>1, <2>2, <2>3
<1>7. ASSUME h # <<>>
      PROVE  <<Head(h)>> \o FlattenSeq(<<Tail(h)>> \o t) = h \o w
  <2>1. PICK c \in Seq(Tokens), r \in Seq(Tokens) : c = <<Head(h)>> /\ r = Tail(h) /\ h = c \o r
    <3>1. Head(h) \in Tokens /\ Tail(h) \in Seq(Tokens) /\ h = <<Head(h)>> \o Tail(h)
      BY <1>7, HeadTail
    <3>2. <<Head(h)>> \in Seq(Tokens)
      BY <3>1
    <3> QED BY <3>1, <3>2
  <2>2. FlattenSeq(<<r>> \o t) = r \o w
    BY <1>5, FlattenHead, Zenon
  <2>3. (c \o r) \o w = c \o (r \o w)
    BY Associative, SMTT(60)
  <2> QED BY <2>1, <2>2, <2>3, Zenon
<1> QED BY <1>2, <1>4, <1>5, <1>6, <1>7, Zenon

\* A close() keeps the text conserved if the server or main() has ended.
LEMMA ConservedClose ==
    ASSUME Conserved, CloseFd, UNCHANGED <<typed, script, line, mpc, rpc>>,
           server # "up" \/ mpc = "return"
    PROVE  Conserved'
BY DEF Conserved, CloseFd, Sending

\* The server neither adds nor takes away text.
LEMMA ServerConserves ==
    TextInv /\ Server => Conserved'
<1> SUFFICES ASSUME TypeOK, Conserved, Server PROVE Conserved'
  BY DEF TextInv
<1>1. UNCHANGED <<typed, script, line, wire, fd, mpc, rpc>> /\ (server' = "up" => server = "up")
  BY DEF Server, ServerWrite, ServerWriteLate, ServerRead, ServerClose
<1> QED BY <1>1 DEF Conserved

\* send() moves the line to the connection, or the connection is gone.
LEMMA SentConserves ==
    ASSUME TypeOK, Conserved, Sent \/ NotSent, mpc \in {"sendnick", "send"},
           line' = <<>>, UNCHANGED <<typed, script, rpc>>,
           mpc' \in {"thread", "getline"} \/ (mpc' = "close" /\ NotSent)
    PROVE  Conserved'
<1>1. UNCHANGED fd /\ (server' = "up" => server = "up")
  BY DEF Sent, NotSent, conn, TypeOK
<1>2. fd = "closed" => server # "up"
  BY DEF Conserved
<1>3. ASSUME server' = "up", typed # <<>>, mpc' \in Sending
      PROVE  wire' \o line' \o FlattenSeq(script') = FlattenSeq(typed)
  <2>1. wire' = wire \o line
    BY <1>1, <1>2, <1>3 DEF Sent, NotSent, conn, Sending
  <2>2. wire \o line \o FlattenSeq(script) = FlattenSeq(typed)
    BY <1>1, <1>3 DEF Conserved, Sending
  <2>3. wire \o line \in Seq(Tokens)
    BY DEF TypeOK
  <2>4. (wire \o line) \o <<>> = wire \o line
    BY <2>3, ConcatEmptySeq
  <2> QED BY <2>1, <2>2, <2>4
<1>4. mpc' \notin {"connect", "nick", "return"}
  OBVIOUS
<1>5. rpc \in {"close", "exit"} => server # "up"
  BY DEF Conserved
<1> QED BY <1>1, <1>2, <1>3, <1>4, <1>5 DEF Conserved

\* The first fgets() moves the nickname, or a part of it, to line[].
LEMMA ReadNicknameConserves ==
    ASSUME TypeOK, TypeOK', Conserved, ReadNickname
    PROVE  Conserved'
<1>1. /\ mpc = "nick" /\ mpc' = "sendnick" /\ UNCHANGED <<typed, wire, server, fd, rpc>>
      /\ script = typed /\ line = <<>> /\ wire = <<>>
  BY DEF ReadNickname, Conserved, conn
<1>2. SUFFICES ASSUME typed # <<>>
               PROVE  wire' \o line' \o FlattenSeq(script') = FlattenSeq(typed)
  BY <1>1 DEF Conserved
<1>3. PICK h \in Seq(Tokens), t \in Seq(Seq(Tokens)) : h = Head(script) /\ t = Tail(script)
  BY <1>1, <1>2, HeadTail DEF TypeOK
<1>4. wire' \o line' = line'
  <2>1. line' \in Seq(Tokens) BY DEF TypeOK
  <2> QED BY <1>1
<1>5. line' \o FlattenSeq(script') = FlattenSeq(script)
  <2>1. CASE Len(h) <= 1
    <3>1. line' = h /\ (script' = t \/ script' = <<<<>>>> \o t)
      BY <1>1, <1>2, <1>3, <2>1 DEF ReadNickname
    <3> QED BY <1>1, <1>2, <1>3, <3>1, ReadingMoves DEF TypeOK
  <2>2. CASE ~(Len(h) <= 1)
    <3>1. line' = <<Head(h)>> /\ script' = <<Tail(h)>> \o t
      BY <1>1, <1>2, <1>3, <2>2 DEF ReadNickname
    <3>2. h # <<>>
      BY <2>2
    <3> QED BY <1>1, <1>2, <1>3, <3>1, <3>2, ReadingMoves DEF TypeOK
  <2> QED BY <2>1, <2>2
<1> QED BY <1>1, <1>4, <1>5

\* getline() moves a line to line[] for the next send().
LEMMA GetLineConserves ==
    ASSUME TypeOK, Conserved, GetLine
    PROVE  Conserved'
<1>1. /\ mpc = "getline" /\ mpc' \in {"send", "close"} /\ UNCHANGED <<typed, wire, server, fd, rpc>>
      /\ line = <<>>
  BY DEF GetLine, Conserved, conn
<1>2. SUFFICES ASSUME mpc' = "send", server = "up", typed # <<>>
               PROVE  wire' \o line' \o FlattenSeq(script') = FlattenSeq(typed)
  BY <1>1 DEF Conserved, Sending
<1>3. script # <<>> /\ line' = Head(script) /\ script' = Tail(script)
  BY <1>2 DEF GetLine
<1>4. PICK h \in Seq(Tokens), w \in Seq(Tokens) : h = Head(script) /\ w = FlattenSeq(Tail(script))
  BY <1>3, HeadTail, FlattenType DEF TypeOK
<1>5. wire \o line \o FlattenSeq(script) = FlattenSeq(typed)
  BY <1>1, <1>2 DEF Conserved, Sending
<1>6. PICK v \in Seq(Tokens) : v = wire
  BY DEF TypeOK
<1>7. v \o line = v
  BY <1>1, ConcatEmptySeq
<1>8. FlattenSeq(script) = h \o w
  BY <1>3, <1>4, ReadingMoves DEF TypeOK
<1>9. (v \o h) \o w = v \o (h \o w)
  BY Associative
<1> QED BY <1>1, <1>3, <1>4, <1>5, <1>6, <1>7, <1>8, <1>9, Zenon

\* So every step of main() conserves the text.
LEMMA MainConserves ==
    TextInv /\ MainStep => Conserved'
<1> SUFFICES ASSUME TypeOK, Conserved, MainStep PROVE Conserved'
  BY DEF TextInv
<1>1. CASE Connect
  <2>1. CASE CloseFd /\ mpc' = "return"
    BY <1>1, <2>1 DEF Connect, CloseFd, Conserved, Sending
  <2>2. CASE mpc' = "nick" /\ UNCHANGED <<wire, server, fd>>
    <3>1. script = typed /\ line = <<>> /\ wire = <<>> /\ UNCHANGED <<typed, script, line, rpc>>
          /\ (fd = "closed" => server # "up") /\ (rpc \in {"close", "exit"} => server # "up")
      BY <1>1 DEF Connect, Conserved
    <3>2. FlattenSeq(typed) \in Seq(Tokens)
      BY FlattenType DEF TypeOK
    <3>3. wire \o line \o FlattenSeq(script) = FlattenSeq(typed)
      BY <3>1, <3>2, ConcatEmptySeq
    <3> QED BY <2>2, <3>1, <3>3 DEF Conserved
  <2> QED BY <1>1, <2>1, <2>2 DEF Connect
<1>2. CASE ReadNickname
  BY <1>2, MainTypes, ReadNicknameConserves
<1>3. CASE SendNickname
  <2>1. CASE Killed
    BY <2>1, ConservedClose DEF Killed
  <2> QED BY <1>3, <2>1, SentConserves DEF SendNickname
<1>4. CASE CreateThread
  <2>1. CASE CloseFd /\ mpc' = "return"
    BY <1>4, <2>1 DEF CreateThread, CloseFd, Conserved, Sending
  <2>2. CASE mpc' = "getline" /\ rpc' = "recv" /\ UNCHANGED conn
    BY <1>4, <2>2 DEF CreateThread, Conserved, Sending, conn
  <2> QED BY <1>4, <2>1, <2>2 DEF CreateThread
<1>5. CASE GetLine
  BY <1>5, GetLineConserves
<1>6. CASE SendLine
  <2>1. CASE Killed
    BY <2>1, ConservedClose DEF Killed
  <2> QED BY <1>6, <2>1, SentConserves DEF SendLine
<1>7. CASE CloseSocket
  BY <1>7 DEF CloseSocket, CloseFd, Conserved, Sending
<1>8. CASE Return
  BY <1>8 DEF Return, Conserved, conn, Sending
<1> QED BY <1>1, <1>2, <1>3, <1>4, <1>5, <1>6, <1>7, <1>8 DEF MainStep

\* receiveMessages() only closes the descriptor when the server has left.
LEMMA ThreadConserves ==
    TextInv /\ ThreadStep => Conserved'
<1> SUFFICES ASSUME TypeOK, Conserved, ThreadStep PROVE Conserved'
  BY DEF TextInv
<1>1. CASE Receive
  BY <1>1 DEF Receive, Conserved
<1>2. CASE ReceiveEnds \/ ReceiveExits
  BY <1>2 DEF ReceiveEnds, ReceiveExits, conn, Conserved
<1>3. CASE ReceiveCloses
  BY <1>3 DEF ReceiveCloses, CloseFd, Conserved
<1> QED BY <1>1, <1>2, <1>3 DEF ThreadStep

\* All that the user typed before the end is under way or sent, once and in its
\* order, as long as the server is there: no fgets(), getline() or send() loses any.
THEOREM TextReachesServer == Spec => []TextConserved
<1>1. Init => TextInv
  BY ClientAssumption DEF ClientAssumption, Init, TextInv, TypeOK, Ends, Conserved, Sending
<1>2. TextInv /\ [Next]_vars => TextInv'
  <2>1. CASE UNCHANGED vars
    BY <2>1 DEF vars, conn, TextInv, TypeOK, Conserved
  <2>2. TextInv /\ Next => TypeOK'
    BY ServerTypes, MainTypes, ThreadTypes DEF Next, TextInv
  <2>3. TextInv /\ Next => Conserved'
    BY ServerConserves, MainConserves, ThreadConserves DEF Next
  <2> QED BY <2>1, <2>2, <2>3 DEF TextInv
<1>3. TextInv => TextConserved
  BY DEF TextInv, Conserved, TextConserved, Sending
<1> QED BY <1>1, <1>2, <1>3, PTL DEF Spec
===============================================================================
