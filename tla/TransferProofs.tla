---------------------------- MODULE TransferProofs ----------------------------
(***************************************************************************)
(* What TLAPS proves of DnsAnswer and Transfer, for any number of records, *)
(* datagrams and bytes that the assumptions on the constants allow.  There *)
(* are three inductive invariants:                                         *)
(*   WalkInv    of Nslookup, Dig and Dnsenum: the reader of Nslookup is at *)
(*              the beginning of the next record until it meets a name     *)
(*              that is no pointer; of where it is behind such a name      *)
(*              nothing is claimed, only that what was printed before      *)
(*              stays what is printed first.  Dig finds no type A in a     *)
(*              record;                                                    *)
(*   AxfrInv    the copies of datagrams received so far, in some order,    *)
(*              are what is printed, and only the last can have been       *)
(*              short;                                                     *)
(*   WhoisInv   what is printed are places of the text in their order, and *)
(*              all those that no NUL hides.                               *)
(*                                                                         *)
(* Records and datagrams are joined by FlattenSeq, so the first section is *)
(* about that operator; ChatClientProofs needs the first half of it too,   *)
(* and has its own because the two modules have no variables in common.    *)
(***************************************************************************)
EXTENDS Transfer, SequenceTheorems, FiniteSetTheorems, WellFoundedInduction, TLAPS

-----------------------------------------------------------------------------
(***************************************************************************)
(* FlattenSeq is defined by recursion, and what it computes is proved by   *)
(* induction: a set of numbers that holds a smaller one for each of its    *)
(* elements is empty, so there is no first place where an equation fails.  *)
(***************************************************************************)

\* A set of numbers without a least one is empty.
LEMMA NoLeast ==
    ASSUME NEW Bad, Bad \subseteq Nat, \A m \in Bad : \E j \in Bad : j < m
    PROVE  Bad = {}
<1> DEFINE R == {p \in Nat \X Nat : p[1] < p[2]}
<1>1. IsWellFoundedOn(R, Nat)
  BY NatLessThanWellFounded DEF OpToRel
<1>2. \A m \in Bad : \E j \in Bad : <<j, m>> \in R
  OBVIOUS
<1> HIDE DEF R
<1> QED BY <1>1, <1>2, WFMin

\* f[i] is the first i sequences of s, one after the other, for i up to m.
Joins(f, s, m) ==
    f = [i \in 1 .. m |-> IF i = 1 THEN s[i] ELSE f[i - 1] \o s[i]]

\* One value of such a function.
LEMMA JoinsAt ==
    ASSUME NEW f, NEW s, NEW m \in Nat, Joins(f, s, m), NEW i \in 1 .. m
    PROVE  f[i] = IF i = 1 THEN s[i] ELSE f[i - 1] \o s[i]
<1> DEFINE h == [j \in 1 .. m |-> IF j = 1 THEN s[j] ELSE f[j - 1] \o s[j]]
<1>1. f = h BY DEF Joins
<1>2. h[i] = IF i = 1 THEN s[i] ELSE f[i - 1] \o s[i] OBVIOUS
<1> HIDE DEF h
<1> QED BY <1>1, <1>2

\* There is such a function for every sequence: it is built one place at a time.
LEMMA JoinsExist ==
    ASSUME NEW s, NEW n \in Nat
    PROVE  \E f : Joins(f, s, n)
<1> DEFINE Bad == {m \in Nat : ~ \E f : Joins(f, s, m)}
<1>1. ASSUME NEW m \in Bad PROVE m - 1 \in Bad
  <2>1. m # 0
    <3>1. 1 .. 0 = {} OBVIOUS
    <3>2. Joins([i \in {} |-> 0], s, 0) BY <3>1 DEF Joins
    <3> QED BY <3>2
  <2>2. SUFFICES ASSUME NEW f, Joins(f, s, m - 1) PROVE FALSE
    BY <2>1
  <2> DEFINE g == [i \in 1 .. m |-> IF i = 1 THEN s[i] ELSE f[i - 1] \o s[i]]
  <2>3. \A i \in 1 .. (m - 1) : g[i] = f[i]
    BY <2>1, <2>2, JoinsAt
  <2>4. g = [i \in 1 .. m |-> IF i = 1 THEN s[i] ELSE f[i - 1] \o s[i]]
    OBVIOUS
  <2>m. m \in Nat /\ m # 0
    BY <2>1
  <2> HIDE DEF g, Bad
  <2>5. \A i \in 1 .. m : (IF i = 1 THEN s[i] ELSE g[i - 1] \o s[i])
                          = IF i = 1 THEN s[i] ELSE f[i - 1] \o s[i]
    BY <2>m, <2>3
  <2>6. Joins(g, s, m) BY <2>4, <2>5, Zenon DEF Joins
  <2> QED BY <2>6 DEF Bad
<1>2. Bad = {}
  <2>1. Bad \subseteq Nat OBVIOUS
  <2>2. \A m \in Bad : m - 1 \in Bad /\ m - 1 < m BY <1>1
  <2> HIDE DEF Bad
  <2> QED BY <2>1, <2>2, NoLeast
<1> QED BY <1>2

\* The steps in which s is flattened.
Steps(g, s, n) ==
    /\ FlattenSeq(s) = g[n] /\ g[1] = s[1]
    /\ \A i \in 1 .. (n - 1) : g[i + 1] = g[i] \o s[i + 1]

\* FlattenSeq takes these steps, whatever the sequences are.
LEMMA FlattenSteps ==
    ASSUME NEW s, NEW n \in Nat \ {0}, Len(s) = n
    PROVE  \E g : Steps(g, s, n)
<1> DEFINE g == CHOOSE f : Joins(f, s, Len(s))
<1>1. Joins(g, s, Len(s))
  BY JoinsExist
<1>2. FlattenSeq(s) = g[Len(s)]
  BY DEF FlattenSeq, Joins
<1> HIDE DEF g
<1>3. g[1] = s[1]
  BY <1>1, JoinsAt
<1>4. \A i \in 1 .. (n - 1) : g[i + 1] = g[i] \o s[i + 1]
  <2> TAKE i \in 1 .. (n - 1)
  <2>1. PICK j \in 1 .. n : j = i + 1 /\ j # 1 /\ j - 1 = i
    OBVIOUS
  <2>2. g[j] = IF j = 1 THEN s[j] ELSE g[j - 1] \o s[j]
    BY <1>1, JoinsAt
  <2> QED BY <2>1, <2>2
<1> QED BY <1>2, <1>3, <1>4 DEF Steps

\* Nothing flattened is nothing.
LEMMA FlattenEmpty == FlattenSeq(<<>>) = <<>>
BY DEF FlattenSeq

\* Flattening sequences over T gives sequences over T.
LEMMA StepsType ==
    \A T, g, s : \A n \in Nat :
        (\A i \in 1 .. n : s[i] \in Seq(T)) /\ Steps(g, s, n) => \A i \in 1 .. n : g[i] \in Seq(T)
<1>1. SUFFICES ASSUME NEW T, NEW g, NEW s, NEW n \in Nat,
                      \A i \in 1 .. n : s[i] \in Seq(T), Steps(g, s, n)
               PROVE  \A i \in 1 .. n : g[i] \in Seq(T)
  OBVIOUS
<1> DEFINE Bad == {i \in 1 .. n : g[i] \notin Seq(T)}
<1>2. ASSUME NEW m \in Bad PROVE m - 1 \in Bad
  <2>1. m # 1
    BY <1>1 DEF Steps
  <2>2. PICK j \in 1 .. (n - 1) : j = m - 1 /\ m = j + 1
    BY <2>1
  <2>3. g[m] = g[j] \o s[m] /\ s[m] \in Seq(T)
    BY <1>1, <2>2 DEF Steps
  <2>4. g[j] \notin Seq(T)
    BY <2>3, ConcatProperties
  <2> QED BY <2>2, <2>4
<1>3. Bad = {}
  <2>1. Bad \subseteq Nat OBVIOUS
  <2>2. \A m \in Bad : m - 1 \in Bad /\ m - 1 < m BY <1>2
  <2> HIDE DEF Bad
  <2> QED BY <2>1, <2>2, NoLeast
<1> QED BY <1>3

\* So FlattenSeq gives a sequence over the same set.
LEMMA FlattenType ==
    ASSUME NEW T, NEW s \in Seq(Seq(T))
    PROVE  FlattenSeq(s) \in Seq(T)
<1>1. PICK n \in Nat : Len(s) = n
  OBVIOUS
<1>2. CASE n = 0
  BY <1>1, <1>2 DEF FlattenSeq
<1>3. CASE n # 0
  <2>1. PICK g : Steps(g, s, n)
    BY <1>1, <1>3, FlattenSteps
  <2>2. \A i \in 1 .. n : s[i] \in Seq(T)
    BY <1>1
  <2>3. g[n] \in Seq(T)
    BY <1>3, <2>1, <2>2, StepsType
  <2> QED BY <2>1, <2>3 DEF Steps
<1> QED BY <1>2, <1>3

\* The last of the sequences comes last.
LEMMA FlattenAppend ==
    ASSUME NEW T, NEW s \in Seq(Seq(T)), NEW x \in Seq(T)
    PROVE  FlattenSeq(Append(s, x)) = FlattenSeq(s) \o x
<1>1. PICK u : u = Append(s, x)
  OBVIOUS
<1>2. PICK n \in Nat : Len(s) = n
  OBVIOUS
<1>3. Len(u) = n + 1 /\ u[n + 1] = x
  BY <1>1, <1>2
<1>4. \A i \in 1 .. n : u[i] = s[i]
  BY <1>1, <1>2
<1>5. PICK f : Steps(f, u, n + 1)
  BY <1>3, FlattenSteps
<1>6. CASE n = 0
  <2>1. s = <<>> /\ <<>> \o x = x
    BY <1>2, <1>6, ConcatEmptySeq
  <2>2. FlattenSeq(u) = f[1] /\ f[1] = u[1]
    BY <1>5, <1>6 DEF Steps
  <2> QED BY <1>1, <1>3, <1>6, <2>1, <2>2, FlattenEmpty
<1>7. CASE n # 0
  <2>1. PICK g : Steps(g, s, n)
    BY <1>2, <1>7, FlattenSteps
  <2>2. 1 \in 1 .. n /\ n \in 1 .. n /\ n \in 1 .. ((n + 1) - 1)
    BY <1>7
  <2>3. f[1] = g[1]
    BY <1>4, <1>5, <2>1, <2>2, Zenon DEF Steps
  <2>4. \A j \in 1 .. (n - 1) : f[j] = g[j] => f[j + 1] = g[j + 1]
    <3>1. SUFFICES ASSUME NEW j \in 1 .. (n - 1), f[j] = g[j] PROVE f[j + 1] = g[j + 1]
      OBVIOUS
    <3>2. PICK m \in 1 .. n : m = j + 1 /\ j \in 1 .. ((n + 1) - 1)
      OBVIOUS
    <3>3. f[m] = f[j] \o u[m]
      BY <1>5, <3>2, Zenon DEF Steps
    <3>4. g[m] = g[j] \o s[m]
      BY <2>1, <3>2, Zenon DEF Steps
    <3> QED BY <1>4, <3>1, <3>2, <3>3, <3>4, Zenon
  <2> DEFINE Bad == {m \in 1 .. n : f[m] # g[m]}
  <2>5. ASSUME NEW m \in Bad PROVE m - 1 \in Bad
    <3>1. m # 1
      BY <2>3
    <3>2. PICK j \in 1 .. (n - 1) : j = m - 1 /\ m = j + 1
      BY <3>1
    <3> QED BY <2>4, <3>2
  <2>6. Bad = {}
    <3>1. Bad \subseteq Nat OBVIOUS
    <3>2. \A m \in Bad : m - 1 \in Bad /\ m - 1 < m BY <2>5
    <3> HIDE DEF Bad
    <3> QED BY <3>1, <3>2, NoLeast
  <2>7. f[n] = g[n]
    BY <2>2, <2>6, Zenon
  <2>8. f[n + 1] = f[n] \o u[n + 1]
    BY <1>5, <2>2, Zenon DEF Steps
  <2>9. FlattenSeq(u) = f[n + 1] /\ FlattenSeq(s) = g[n]
    BY <1>5, <2>1, Zenon DEF Steps
  <2> QED BY <1>1, <1>3, <2>7, <2>8, <2>9, Zenon
<1> QED BY <1>6, <1>7

\* b starts with a.
Starts(a, b) == Len(a) <= Len(b) /\ \A c \in 1 .. Len(a) : b[c] = a[c]

\* What a sequence starts with, a longer one starts with.
LEMMA StartsConcat ==
    \A T : \A a, b, c \in Seq(T) : Starts(a, b) => Starts(a, b \o c)
<1> TAKE T
<1> TAKE a, b, c \in Seq(T)
<1>1. HAVE Starts(a, b)
<1>2. Len(b \o c) = Len(b) + Len(c) /\ \A i \in 1 .. Len(b) : (b \o c)[i] = b[i]
  BY ConcatProperties
<1>3. Len(a) \in Nat /\ Len(b) \in Nat /\ Len(c) \in Nat
  OBVIOUS
<1> QED BY <1>1, <1>2, <1>3 DEF Starts

\* at[j] bytes precede the j-th of the sequences of s in w.
Places(at, s, w) ==
    /\ at[1] = 0 /\ at[Len(s) + 1] = Len(w)
    /\ \A j \in 1 .. Len(s) :
        /\ at[j] \in Nat /\ at[j + 1] = at[j] + Len(s[j]) /\ at[j + 1] <= Len(w)
        /\ \A c \in 1 .. Len(s[j]) : w[at[j] + c] = s[j][c]

\* In the flattened sequence every sequence has a place of its own, all of them
\* one after the other from the beginning to the end.
LEMMA FlattenPlaces ==
    ASSUME NEW T, NEW s \in Seq(Seq(T))
    PROVE  \E at : Places(at, s, FlattenSeq(s))
<1>1. PICK n \in Nat : Len(s) = n
  OBVIOUS
<1>2. PICK w : w = FlattenSeq(s)
  OBVIOUS
<1>3. CASE n = 0
  <2>1. w = <<>>
    BY <1>1, <1>2, <1>3, FlattenEmpty
  <2> DEFINE at == [j \in {1} |-> 0]
  <2>2. Places(at, s, w)
    BY <1>1, <1>3, <2>1 DEF Places
  <2> QED BY <1>2, <2>2
<1>4. CASE n # 0
  <2>1. PICK g : Steps(g, s, n)
    BY <1>1, <1>4, FlattenSteps
  <2>2. \A i \in 1 .. n : s[i] \in Seq(T)
    BY <1>1
  <2>3. \A i \in 1 .. n : g[i] \in Seq(T)
    BY <2>1, <2>2, StepsType
  <2>4. w = g[n] /\ g[1] = s[1]
    BY <1>2, <2>1 DEF Steps
  <2>5. \A j \in 1 .. (n - 1) : g[j + 1] = g[j] \o s[j + 1]
    BY <2>1 DEF Steps
  <2>6. ASSUME NEW j \in 1 .. n PROVE Starts(g[j], w)
    <3> DEFINE Bad == {m \in j .. n : ~Starts(g[j], g[m])}
    <3>1. ASSUME NEW m \in Bad PROVE m - 1 \in Bad
      <4>1. m # j
        BY DEF Starts
      <4>2. PICK i \in 1 .. (n - 1) : i = m - 1 /\ m = i + 1 /\ i \in j .. n
        BY <4>1
      <4>3. g[m] = g[i] \o s[m]
        BY <2>5, <4>2
      <4>4. PICK a \in Seq(T), b \in Seq(T), c \in Seq(T) : a = g[j] /\ b = g[i] /\ c = s[m]
        BY <2>2, <2>3
      <4>5. Starts(a, b) => Starts(a, b \o c)
        BY StartsConcat
      <4>6. ~Starts(a, b)
        BY <4>3, <4>4, <4>5, Zenon
      <4> QED BY <4>2, <4>4, <4>6
    <3>2. Bad = {}
      <4>1. Bad \subseteq Nat OBVIOUS
      <4>2. \A m \in Bad : m - 1 \in Bad /\ m - 1 < m BY <3>1
      <4> HIDE DEF Bad
      <4> QED BY <4>1, <4>2, NoLeast
    <3>3. n \in j .. n
      OBVIOUS
    <3> QED BY <2>4, <3>2, <3>3, Zenon
  <2>7. PICK at : at = [j \in 1 .. (n + 1) |-> IF j = 1 THEN 0 ELSE Len(g[j - 1])]
    OBVIOUS
  <2>8. at[1] = 0 /\ \A j \in 1 .. n : at[j + 1] = Len(g[j])
    BY <2>7
  <2>9. ASSUME NEW j \in 1 .. n
        PROVE  /\ at[j] \in Nat /\ at[j + 1] = at[j] + Len(s[j]) /\ at[j + 1] <= Len(w)
               /\ \A c \in 1 .. Len(s[j]) : w[at[j] + c] = s[j][c]
    <3>1. PICK b \in Seq(T), c \in Seq(T) : b = g[j] /\ c = s[j]
      BY <2>2, <2>3
    <3>2. /\ at[j] \in Nat /\ Len(b) = at[j] + Len(c)
          /\ \A i \in 1 .. Len(c) : b[at[j] + i] = c[i]
      <4>1. CASE j = 1
        BY <2>4, <2>8, <3>1, <4>1
      <4>2. CASE j # 1
        <5>1. PICK i \in 1 .. (n - 1) : j = i + 1 /\ i \in 1 .. n
          BY <4>2
        <5>2. PICK a \in Seq(T) : a = g[i]
          BY <2>3, <5>1
        <5>3. b = a \o c /\ at[j] = Len(a)
          BY <2>5, <2>8, <3>1, <5>1, <5>2
        <5>4. Len(a \o c) = Len(a) + Len(c)
              /\ \A d \in 1 .. Len(c) : (a \o c)[Len(a) + d] = c[d]
          BY SMTT(60)
        <5> QED BY <5>3, <5>4
      <4> QED BY <4>1, <4>2
    <3>3. Len(b) <= Len(w) /\ \A i \in 1 .. Len(b) : w[i] = b[i]
      BY <2>6, <3>1 DEF Starts
    <3>4. at[j + 1] = Len(b)
      BY <2>8, <3>1
    <3>5. ASSUME NEW i \in 1 .. Len(c) PROVE w[at[j] + i] = c[i]
      <4>1. at[j] + i \in 1 .. Len(b)
        BY <3>2
      <4> QED BY <3>2, <3>3, <4>1
    <3> QED BY <3>1, <3>2, <3>3, <3>4, <3>5
  <2>10. at[n + 1] = Len(w)
    BY <1>4, <2>4, <2>8
  <2>11. Places(at, s, w)
    BY <1>1, <2>8, <2>9, <2>10 DEF Places
  <2> QED BY <1>2, <2>11
<1> QED BY <1>3, <1>4


-----------------------------------------------------------------------------
(* The answer to a query. *)

Parts == [j \in DOMAIN answers |-> RecordBytes(j)]

\* What a record consists of.
LEMMA RecordFields ==
    ASSUME answers \in Seq(Records), NEW j \in 1 .. Len(answers)
    PROVE  /\ answers[j].name \in Seq(Nat)
           /\ Len(answers[j].name) \in Nat /\ Len(answers[j].name) >= 2
           /\ \A i \in 1 .. (Len(answers[j].name) - 1) : answers[j].name[i] # 0
           /\ answers[j].ttl \in Seq(Nat) /\ Len(answers[j].ttl) = 4
           /\ answers[j].type \in {"A", "CNAME"}
           /\ Types["A"] = 1 /\ Types["CNAME"] = 5
<1>1. PICK r \in Records : r = answers[j]
  OBVIOUS
<1>2. DOMAIN Types = {"A", "CNAME"} /\ Types["A"] = 1 /\ Types["CNAME"] = 5
  BY DEF Types
<1>3. r.name \in Names /\ r.ttl \in TTLs /\ r.type \in {"A", "CNAME"}
  BY <1>2 DEF Records
<1>4. \A s \in Seq(Byte) : s \in Seq(Nat) /\ Len(s) \in Nat
  <2> TAKE s \in Seq(Byte)
  <2>1. s = [i \in 1 .. Len(s) |-> s[i]] /\ Len(s) \in Nat
    OBVIOUS
  <2>2. \A i \in 1 .. Len(s) : s[i] \in Byte
    OBVIOUS
  <2>3. \A i \in 1 .. Len(s) : s[i] \in Nat
    <3>1. Byte \subseteq Nat
      BY DEF Byte
    <3> QED BY <2>2, <3>1
  <2> QED BY <2>1, <2>3
<1>5. /\ r.name \in Seq(Byte) /\ Len(r.name) >= 2
      /\ \A i \in 1 .. (Len(r.name) - 1) : r.name[i] # 0
      /\ r.ttl \in Seq(Byte) /\ Len(r.ttl) = 4
  BY <1>3, DnsAnswerAssumption DEF DnsAnswerAssumption
<1>6. r.name \in Seq(Nat) /\ r.ttl \in Seq(Nat) /\ Len(r.name) \in Nat
  BY <1>4, <1>5
<1> QED BY <1>1, <1>2, <1>3, <1>5, <1>6, Zenon

\* One sequence after another.
LEMMA Two ==
    ASSUME NEW T, NEW a \in Seq(T), NEW b \in Seq(T)
    PROVE  /\ a \o b \in Seq(T) /\ Len(a \o b) = Len(a) + Len(b)
           /\ \A i \in 1 .. Len(a) : (a \o b)[i] = a[i]
           /\ \A i \in 1 .. Len(b) : (a \o b)[Len(a) + i] = b[i]
<1>1. a \o b \in Seq(T) /\ Len(a \o b) = Len(a) + Len(b) /\ Len(a) \in Nat /\ Len(b) \in Nat
  BY ConcatProperties
<1>2. ASSUME NEW i \in 1 .. Len(a) PROVE (a \o b)[i] = a[i]
  <2>1. i \in 1 .. Len(a) + Len(b) /\ i <= Len(a)
    BY <1>1
  <2> QED BY <2>1, ConcatProperties
<1>3. ASSUME NEW i \in 1 .. Len(b) PROVE (a \o b)[Len(a) + i] = b[i]
  <2>1. PICK j \in 1 .. Len(a) + Len(b) : j = Len(a) + i /\ ~(j <= Len(a)) /\ j - Len(a) = i
    BY <1>1
  <2>2. (a \o b)[j] = IF j <= Len(a) THEN a[j] ELSE b[j - Len(a)]
    BY ConcatProperties
  <2> QED BY <2>1, <2>2
<1> QED BY <1>1, <1>2, <1>3

\* The same of numbers, as one formula.
LEMMA TwoNat ==
    \A a, b \in Seq(Nat) :
        /\ a \o b \in Seq(Nat) /\ Len(a \o b) = Len(a) + Len(b)
        /\ \A i \in 1 .. Len(a) : (a \o b)[i] = a[i]
        /\ \A i \in 1 .. Len(b) : (a \o b)[Len(a) + i] = b[i]
OBVIOUS

\* r is a name of n bytes, ten others, of which b are the first and d the last, and e.
Joined(r, n, a, b, d, e) ==
    /\ r \in Seq(Nat) /\ Len(r) = n + 10 + Len(e)
    /\ \A i \in 1 .. n : r[i] = a[i]
    /\ \A i \in 1 .. 4 : r[n + i] = b[i]
    /\ \A i \in 1 .. 2 : r[n + 8 + i] = d[i]
    /\ \A i \in 1 .. Len(e) : r[n + 10 + i] = e[i]

\* Five sequences, one after the other; the three in the middle have their sizes.
LEMMA Five ==
    ASSUME NEW a \in Seq(Nat), NEW b \in Seq(Nat), NEW c \in Seq(Nat), NEW d \in Seq(Nat),
           NEW e \in Seq(Nat), Len(b) = 4, Len(c) = 4, Len(d) = 2,
           NEW n \in Nat, n = Len(a), NEW r, r = a \o b \o c \o d \o e
    PROVE  Joined(r, n, a, b, d, e)
<1>1. PICK x \in Seq(Nat) : x = a \o b
  BY TwoNat
<1>2. /\ Len(x) = n + 4 /\ \A i \in 1 .. n : x[i] = a[i]
      /\ \A i \in 1 .. 4 : x[n + i] = b[i]
  <2>1. /\ Len(a \o b) = Len(a) + Len(b)
        /\ \A i \in 1 .. Len(a) : (a \o b)[i] = a[i]
        /\ \A i \in 1 .. Len(b) : (a \o b)[Len(a) + i] = b[i]
    BY TwoNat
  <2> QED BY <1>1, <2>1
<1>3. PICK y \in Seq(Nat) : y = x \o c
  BY TwoNat
<1>4. Len(y) = n + 8 /\ \A i \in 1 .. (n + 4) : y[i] = x[i]
  <2>1. Len(x \o c) = Len(x) + Len(c) /\ \A i \in 1 .. Len(x) : (x \o c)[i] = x[i]
    BY TwoNat
  <2> QED BY <1>2, <1>3, <2>1
<1>5. PICK z \in Seq(Nat) : z = y \o d
  BY TwoNat
<1>6. /\ Len(z) = n + 10 /\ \A i \in 1 .. (n + 8) : z[i] = y[i]
      /\ \A i \in 1 .. 2 : z[n + 8 + i] = d[i]
  <2>1. /\ Len(y \o d) = Len(y) + Len(d)
        /\ \A i \in 1 .. Len(y) : (y \o d)[i] = y[i]
        /\ \A i \in 1 .. Len(d) : (y \o d)[Len(y) + i] = d[i]
    BY TwoNat
  <2> QED BY <1>4, <1>5, <2>1, SMTT(60)
<1>7. r = z \o e
  BY <1>1, <1>3, <1>5
<1>8. /\ r \in Seq(Nat) /\ Len(r) = n + 10 + Len(e)
      /\ \A i \in 1 .. (n + 10) : r[i] = z[i]
      /\ \A i \in 1 .. Len(e) : r[n + 10 + i] = e[i]
  <2>1. /\ z \o e \in Seq(Nat) /\ Len(z \o e) = Len(z) + Len(e)
        /\ \A i \in 1 .. Len(z) : (z \o e)[i] = z[i]
        /\ \A i \in 1 .. Len(e) : (z \o e)[Len(z) + i] = e[i]
    BY TwoNat
  <2> QED BY <1>6, <1>7, <2>1
<1>9. ASSUME NEW i \in 1 .. (n + 4) PROVE r[i] = x[i]
  <2>1. i \in 1 .. (n + 8) /\ i \in 1 .. (n + 10)
    OBVIOUS
  <2> QED BY <1>4, <1>6, <1>8, <2>1
<1>10. ASSUME NEW i \in 1 .. n PROVE r[i] = a[i]
  <2>1. i \in 1 .. (n + 4)
    OBVIOUS
  <2> QED BY <1>2, <1>9, <2>1
<1>11. ASSUME NEW i \in 1 .. 4 PROVE r[n + i] = b[i]
  <2>1. n + i \in 1 .. (n + 4)
    OBVIOUS
  <2> QED BY <1>2, <1>9, <2>1
<1>12. ASSUME NEW i \in 1 .. 2 PROVE r[n + 8 + i] = d[i]
  <2>1. n + 8 + i \in 1 .. (n + 10)
    OBVIOUS
  <2> QED BY <1>6, <1>8, <2>1
<1> QED BY <1>8, <1>10, <1>11, <1>12 DEF Joined

\* The data of a record.
LEMMA DataBytes ==
    ASSUME answers \in Seq(Records), NEW j \in 1 .. Len(answers)
    PROVE  /\ Data(j) \in Seq(Nat) /\ Len(Data(j)) \in Nat /\ Len(Data(j)) >= 2
           /\ answers[j].type = "A" =>
                /\ Len(Data(j)) = 4
                /\ Data(j)[1] = 10 /\ Data(j)[2] = 0 /\ Data(j)[3] = 0 /\ Data(j)[4] = j
<1>1. <<10, 0, 0, j>> \in Seq(Nat) /\ Len(<<10, 0, 0, j>>) = 4
  OBVIOUS
<1>2. <<192, 12>> \in Seq(Nat) /\ Len(<<192, 12>>) = 2
  OBVIOUS
<1> QED BY <1>1, <1>2 DEF Data, Address, Pointer

\* Where record j, if its name has n bytes, has the name, the type and the data.
Layout(r, n, j) ==
    /\ r \in Seq(Nat) /\ Len(r) = n + 10 + Len(Data(j))
    /\ \A i \in 1 .. n : r[i] = answers[j].name[i]
    /\ r[n + 1] = 0 /\ r[n + 2] = Types[answers[j].type]
    /\ r[n + 9] = 0 /\ r[n + 10] = Len(Data(j))
    /\ \A i \in 1 .. Len(Data(j)) : r[n + 10 + i] = Data(j)[i]

\* Every record has them there.
LEMMA RecordLayout ==
    ASSUME answers \in Seq(Records), NEW j \in 1 .. Len(answers),
           NEW n \in Nat, n = Len(answers[j].name), NEW r, r = RecordBytes(j)
    PROVE  Layout(r, n, j)
<1>1. PICK a \in Seq(Nat), c \in Seq(Nat), e \in Seq(Nat) :
        a = answers[j].name /\ c = answers[j].ttl /\ e = Data(j)
  BY RecordFields, DataBytes
<1>2. PICK t \in Nat, l \in Nat : t = Types[answers[j].type] /\ l = Len(e)
  <2>1. Types[answers[j].type] = 1 \/ Types[answers[j].type] = 5
    BY RecordFields, Zenon
  <2> QED BY <2>1
<1>3. PICK b \in Seq(Nat), d \in Seq(Nat) : b = <<0, t, 0, 1>> /\ d = <<0, l>>
  <2>1. <<0, t, 0, 1>> \in Seq(Nat) /\ <<0, l>> \in Seq(Nat)
    OBVIOUS
  <2> QED BY <2>1
<1>4. /\ Len(b) = 4 /\ b[1] = 0 /\ b[2] = t
      /\ Len(d) = 2 /\ d[1] = 0 /\ d[2] = l
      /\ Len(c) = 4
  BY <1>1, <1>3, RecordFields
<1>5. r = a \o b \o c \o d \o e
  BY <1>1, <1>2, <1>3 DEF RecordBytes
<1>6. Joined(r, n, a, b, d, e)
  <2>1. n = Len(a) /\ Len(b) = 4 /\ Len(c) = 4 /\ Len(d) = 2
    BY <1>1, <1>4
  <2> QED BY <1>5, <2>1, Five, Zenon
<1>7. r[n + 1] = 0 /\ r[n + 2] = t
  BY <1>4, <1>6 DEF Joined
<1>8. r[n + 9] = 0 /\ r[n + 10] = l
  <2>1. r[n + 8 + 1] = d[1] /\ r[n + 8 + 2] = d[2]
    BY <1>6 DEF Joined
  <2> QED BY <1>4, <2>1
<1> QED BY <1>1, <1>2, <1>6, <1>7, <1>8 DEF Joined, Layout

\* The bytes of a record whose name is a pointer: the type and the length of the
\* data are where Nslookup looks for them.
LEMMA PointerRecord ==
    ASSUME answers \in Seq(Records), NEW j \in 1 .. Len(answers), Len(answers[j].name) = 2
    PROVE  LET r == RecordBytes(j)
           IN  /\ Len(r) = 12 + r[12] /\ r[3] = 0 /\ r[4] \in {1, 5} /\ r[11] = 0 /\ r[12] \in Nat
               /\ r[4] = 1 <=> answers[j].type = "A"
               /\ answers[j].type = "A" =>
                    Len(r) = 16 /\ r[13] = 10 /\ r[14] = 0 /\ r[15] = 0 /\ r[16] = j
<1>1. PICK r : r = RecordBytes(j)
  OBVIOUS
<1>2. PICK d \in Seq(Nat), l \in Nat : d = Data(j) /\ l = Len(d)
  BY DataBytes
<1>3. /\ Len(r) = 12 + l /\ r[3] = 0 /\ r[4] = Types[answers[j].type] /\ r[11] = 0 /\ r[12] = l
      /\ \A i \in 1 .. l : r[12 + i] = d[i]
  <2>1. 2 \in Nat /\ 2 + 1 = 3 /\ 2 + 2 = 4 /\ 2 + 9 = 11 /\ 2 + 10 = 12
    OBVIOUS
  <2>2. /\ Len(r) = 2 + 10 + l /\ r[2 + 1] = 0 /\ r[2 + 2] = Types[answers[j].type]
        /\ r[2 + 9] = 0 /\ r[2 + 10] = l
        /\ \A i \in 1 .. l : r[2 + 10 + i] = d[i]
    <3>1. 2 = Len(answers[j].name) /\ 2 \in Nat
      OBVIOUS
    <3>2. Layout(r, 2, j)
      BY <1>1, <3>1, RecordLayout, Zenon
    <3> QED BY <1>2, <3>2 DEF Layout
  <2> QED BY <2>1, <2>2
<1>4. answers[j].type \in {"A", "CNAME"} /\ Types["A"] = 1 /\ Types["CNAME"] = 5
  BY RecordFields
<1>5. ASSUME answers[j].type = "A"
      PROVE  Len(r) = 16 /\ r[13] = 10 /\ r[14] = 0 /\ r[15] = 0 /\ r[16] = j
  <2>1. l = 4 /\ d[1] = 10 /\ d[2] = 0 /\ d[3] = 0 /\ d[4] = j
    BY <1>2, <1>5, DataBytes
  <2> QED BY <1>3, <2>1, SMTT(60)
<1> QED BY <1>1, <1>3, <1>4, <1>5

\* Every record: where Dig looks for a type there is none of an address, nor where
\* Nslookup does if the name is not a pointer.
LEMMA AnyRecord ==
    ASSUME answers \in Seq(Records), NEW j \in 1 .. Len(answers)
    PROVE  LET r == RecordBytes(j)
           IN  /\ r \in Seq(Nat) /\ Len(r) \in Nat /\ Len(r) >= 14
               /\ 256 * r[2] + r[3] # 1
               /\ Len(answers[j].name) # 2 => 256 * r[3] + r[4] # 1
<1>1. PICK r : r = RecordBytes(j)
  OBVIOUS
<1>2. PICK n \in Nat : n = Len(answers[j].name) /\ n >= 2
  BY RecordFields
<1>3. PICK a \in Seq(Nat) : a = answers[j].name /\ \A i \in 1 .. (n - 1) : a[i] # 0
  BY <1>2, RecordFields
<1>4. PICK l \in Nat : l = Len(Data(j)) /\ l >= 2
  BY DataBytes
<1>5. r \in Seq(Nat) /\ Len(r) = n + 10 + l /\ r[n + 1] = 0 /\ \A i \in 1 .. n : r[i] = a[i]
  <2>1. Layout(r, n, j)
    BY <1>1, <1>2, RecordLayout, Zenon
  <2> QED BY <1>3, <1>4, <2>1, Zenon DEF Layout
<1>6. Len(r) \in Nat /\ Len(r) >= 14
  BY <1>2, <1>4, <1>5
<1>7. r[2] \in Nat /\ r[3] \in Nat /\ r[4] \in Nat
  <2>1. PICK s \in Seq(Nat), m \in Nat : s = r /\ m = Len(s) /\ m >= 14
    BY <1>5, <1>6
  <2> QED BY <2>1
<1>8. 256 * r[2] + r[3] # 1
  <2>1. CASE n = 2
    BY <1>5, <1>7, <2>1
  <2>2. CASE n # 2
    <3>1. 2 \in 1 .. (n - 1) /\ 2 \in 1 .. n
      <4>1. \A m \in Nat : m >= 2 /\ m # 2 => 2 \in 1 .. (m - 1) /\ 2 \in 1 .. m
        OBVIOUS
      <4> QED BY <1>2, <2>2, <4>1, Zenon
    <3>2. r[2] # 0
      BY <1>3, <1>5, <3>1, Zenon
    <3> QED BY <1>7, <3>2
  <2> QED BY <2>1, <2>2
<1>9. ASSUME n # 2 PROVE 256 * r[3] + r[4] # 1
  <2>1. CASE n = 3
    BY <1>5, <1>7, <2>1
  <2>2. CASE n # 3
    <3>1. 3 \in 1 .. (n - 1) /\ 3 \in 1 .. n
      <4>1. \A m \in Nat : m >= 2 /\ m # 2 /\ m # 3 => 3 \in 1 .. (m - 1) /\ 3 \in 1 .. m
        OBVIOUS
      <4> QED BY <1>2, <1>9, <2>2, <4>1, Zenon
    <3>2. r[3] # 0
      BY <1>3, <1>5, <3>1, Zenon
    <3> QED BY <1>7, <3>2
  <2> QED BY <2>1, <2>2
<1> QED BY <1>1, <1>2, <1>5, <1>6, <1>8, <1>9

\* The bytes of the records, and how many they are.
LEMMA PartsType ==
    ASSUME answers \in Seq(Records)
    PROVE  /\ Parts \in Seq(Seq(Nat)) /\ Len(Parts) = Len(answers)
           /\ \A j \in 1 .. Len(answers) :
                Parts[j] = RecordBytes(j) /\ Len(Parts[j]) \in Nat /\ Len(Parts[j]) >= 14
<1>1. \A j \in 1 .. Len(answers) :
        RecordBytes(j) \in Seq(Nat) /\ Len(RecordBytes(j)) \in Nat /\ Len(RecordBytes(j)) >= 14
  BY AnyRecord
<1>2. DOMAIN answers = 1 .. Len(answers) /\ Len(answers) \in Nat
  OBVIOUS
<1> QED BY <1>1, <1>2 DEF Parts

\* The datagram: the question and then the records.
LEMMA DatagramBytes ==
    ASSUME answers \in Seq(Records)
    PROVE  /\ Datagram \in Seq(Nat) /\ Len(Datagram) = 7 + Len(FlattenSeq(Parts))
           /\ FlattenSeq(Parts) \in Seq(Nat)
           /\ \A c \in 1 .. Len(FlattenSeq(Parts)) : Datagram[7 + c] = FlattenSeq(Parts)[c]
           /\ Datagram[1] = 1 /\ Datagram[2] = 120 /\ Datagram[3] = 0
<1>1. PICK w \in Seq(Nat) : w = FlattenSeq(Parts)
  BY PartsType, FlattenType
<1>2. PICK p \in Seq(Nat), t \in Seq(Nat) : p = Label /\ t = <<0, 1, 0, 1>>
  <2>1. <<1, 120, 0>> \in Seq(Nat) /\ <<0, 1, 0, 1>> \in Seq(Nat)
    OBVIOUS
  <2> QED BY <2>1 DEF Label
<1>3. PICK q \in Seq(Nat) : q = p \o t
  BY Two
<1>4. Len(q) = 7 /\ q[1] = 1 /\ q[2] = 120 /\ q[3] = 0
  <2>1. Len(p) = 3 /\ Len(t) = 4 /\ p[1] = 1 /\ p[2] = 120 /\ p[3] = 0
    BY <1>2 DEF Label
  <2>2. Len(p \o t) = Len(p) + Len(t) /\ \A i \in 1 .. Len(p) : (p \o t)[i] = p[i]
    BY Two
  <2> QED BY <1>3, <2>1, <2>2, SMTT(60)
<1>5. Datagram = q \o w
  BY <1>1, <1>2, <1>3 DEF Datagram, Parts
<1>6. /\ q \o w \in Seq(Nat) /\ Len(q \o w) = Len(q) + Len(w)
      /\ \A i \in 1 .. Len(q) : (q \o w)[i] = q[i]
      /\ \A i \in 1 .. Len(w) : (q \o w)[Len(q) + i] = w[i]
  BY Two
<1>7. 1 \in 1 .. Len(q) /\ 2 \in 1 .. Len(q) /\ 3 \in 1 .. Len(q)
  BY <1>4
<1>8. (q \o w)[1] = 1 /\ (q \o w)[2] = 120 /\ (q \o w)[3] = 0
  BY <1>4, <1>6, <1>7
<1>9. Len(q \o w) = 7 + Len(w) /\ \A i \in 1 .. Len(w) : (q \o w)[7 + i] = w[i]
  BY <1>4, <1>6, ZenonT(60)
<1> QED BY <1>1, <1>5, <1>6, <1>8, <1>9

\* The largest answer fits the buffer behind the header.
\* Where a record starts in the datagram, the walk finds its bytes.
LEMMA RecordAt ==
    ASSUME answers \in Seq(Records),
           NEW at, Places(at, Parts, FlattenSeq(Parts)), NEW j \in 1 .. Len(answers)
    PROVE  /\ at[j] \in Nat /\ at[j + 1] = at[j] + Len(RecordBytes(j))
           /\ 7 + at[j + 1] <= Len(Datagram)
           /\ \A c \in 1 .. Len(RecordBytes(j)) : Datagram[7 + at[j] + c] = RecordBytes(j)[c]
<1>1. PICK w \in Seq(Nat) : w = FlattenSeq(Parts)
  BY DatagramBytes
<1>2. PICK r : r = RecordBytes(j) /\ r = Parts[j] /\ Len(r) \in Nat
  BY PartsType
<1>3. j \in 1 .. Len(Parts)
  BY PartsType
<1>4. /\ at[j] \in Nat /\ at[j + 1] = at[j] + Len(r) /\ at[j + 1] <= Len(w)
      /\ \A c \in 1 .. Len(r) : w[at[j] + c] = r[c]
  BY <1>1, <1>2, <1>3, Zenon DEF Places
<1>5. Len(Datagram) = 7 + Len(w) /\ \A c \in 1 .. Len(w) : Datagram[7 + c] = w[c]
  BY <1>1, DatagramBytes
<1>6. Len(w) \in Nat
  OBVIOUS
<1>7. ASSUME NEW c \in 1 .. Len(r) PROVE Datagram[7 + at[j] + c] = r[c]
  <2>1. PICK a \in Nat, l \in Nat, m \in Nat : a = at[j] /\ l = Len(r) /\ m = Len(w)
    BY <1>2, <1>4, <1>6
  <2>2. a + l <= m /\ c \in 1 .. l
    BY <1>4, <2>1
  <2>3. a + c \in 1 .. m /\ 7 + (a + c) = 7 + a + c
    BY <2>2
  <2> QED BY <1>4, <1>5, <2>1, <2>2, <2>3
<1> QED BY <1>2, <1>4, <1>5, <1>6, <1>7

-----------------------------------------------------------------------------
(* The addresses that are printed. *)

\* One more sequence in the list is that sequence behind the flattened others.
LEMMA ListNext ==
    ASSUME NEW T, NEW m \in Nat, NEW F, \A j \in 1 .. (m + 1) : F[j] \in Seq(T)
    PROVE  FlattenSeq([j \in 1 .. (m + 1) |-> F[j]]) = FlattenSeq([j \in 1 .. m |-> F[j]]) \o F[m + 1]
<1>1. PICK s \in Seq(Seq(T)), x \in Seq(T) : s = [j \in 1 .. m |-> F[j]] /\ x = F[m + 1]
  <2>1. [j \in 1 .. m |-> F[j]] \in Seq(Seq(T))
    OBVIOUS
  <2>2. F[m + 1] \in Seq(T)
    OBVIOUS
  <2> QED BY <2>1, <2>2
<1>2. [j \in 1 .. (m + 1) |-> F[j]] = Append(s, x)
  <2>1. Len(s) = m
    BY <1>1
  <2> QED BY <1>1, <2>1
<1>3. FlattenSeq(Append(s, x)) = FlattenSeq(s) \o x
  BY FlattenAppend
<1> QED BY <1>1, <1>2, <1>3, Zenon

\* What record j adds to the addresses.
Found(j) == IF answers[j].type = "A" THEN <<Address(j)>> ELSE <<>>

\* What a record adds to the addresses is a list of addresses.
LEMMA FoundType ==
    ASSUME NEW j \in Nat PROVE Found(j) \in Seq(Seq(Nat))
<1>1. <<10, 0, 0, j>> \in Seq(Nat)
  OBVIOUS
<1>2. Address(j) \in Seq(Nat)
  BY <1>1 DEF Address
<1>3. <<Address(j)>> \in Seq(Seq(Nat)) /\ <<>> \in Seq(Seq(Nat))
  BY <1>2
<1> QED BY <1>3 DEF Found

\* No records, no addresses.
LEMMA AddressesNone == Addresses(0) = <<>>
<1>1. [j \in 1 .. 0 |-> IF answers[j].type = "A" THEN <<Address(j)>> ELSE <<>>] = <<>>
  OBVIOUS
<1> QED BY <1>1, FlattenEmpty, Zenon DEF Addresses

\* The addresses of any number of records are a list of addresses.
LEMMA AddressesType ==
    ASSUME NEW m \in Nat PROVE Addresses(m) \in Seq(Seq(Nat))
<1>1. \A j \in 1 .. m : Found(j) \in Seq(Seq(Nat))
  BY FoundType
<1>2. [j \in 1 .. m |-> Found(j)] \in Seq(Seq(Seq(Nat)))
  BY <1>1
<1> QED BY <1>2, FlattenType DEF Addresses, Found

\* A further record adds its own address, if it has one.
LEMMA AddressesNext ==
    ASSUME NEW m \in Nat
    PROVE  Addresses(m + 1) = Addresses(m) \o Found(m + 1)
<1>1. PICK F : F = [j \in 1 .. (m + 1) |-> Found(j)]
  OBVIOUS
<1>2. \A j \in 1 .. (m + 1) : F[j] \in Seq(Seq(Nat))
  BY <1>1, FoundType
<1>3. FlattenSeq([j \in 1 .. (m + 1) |-> F[j]]) = FlattenSeq([j \in 1 .. m |-> F[j]]) \o F[m + 1]
  BY <1>2, ListNext
<1>4. /\ [j \in 1 .. (m + 1) |-> F[j]] = [j \in 1 .. (m + 1) |-> Found(j)]
      /\ [j \in 1 .. m |-> F[j]] = [j \in 1 .. m |-> Found(j)]
      /\ F[m + 1] = Found(m + 1)
  BY <1>1
<1> QED BY <1>3, <1>4, Zenon DEF Addresses, Found

-----------------------------------------------------------------------------
(* The tools of DnsAnswer. *)

\* What a sequence begins with does not change when something is appended to it.
LEMMA PrefixAppend ==
    ASSUME NEW T, NEW s \in Seq(T), NEW t \in Seq(T), NEW x \in T, IsPrefix(s, t)
    PROVE  IsPrefix(s, Append(t, x))
<1>1. PICK n \in Nat, m \in Nat : n = Len(s) /\ m = Len(t) /\ n <= m
  BY DEF IsPrefix
<1>2. PICK u \in Seq(T) : u = Append(t, x)
  <2>1. Append(t, x) \in Seq(T)
    OBVIOUS
  <2> QED BY <2>1
<1>3. Len(u) = m + 1 /\ \A i \in 1 .. m : u[i] = t[i]
  BY <1>1, <1>2
<1>4. SubSeq(u, 1, n) = SubSeq(t, 1, n)
  <2>1. SubSeq(u, 1, n) = [i \in 1 .. n |-> u[i]]
    BY <1>1, <1>3
  <2>2. SubSeq(t, 1, n) = [i \in 1 .. n |-> t[i]]
    BY <1>1
  <2>3. \A i \in 1 .. n : u[i] = t[i]
    BY <1>1, <1>3
  <2> QED BY <2>1, <2>2, <2>3
<1>5. SubSeq(s, 1, n) = SubSeq(t, 1, n)
  BY <1>1 DEF IsPrefix
<1>6. n <= Len(u)
  BY <1>1, <1>3
<1> QED BY <1>1, <1>2, <1>4, <1>5, <1>6 DEF IsPrefix

\* Every sequence begins with itself.
LEMMA PrefixSelf == \A T : \A s \in Seq(T) : IsPrefix(s, s)
BY DEF IsPrefix

\* reader is where record k + 1 starts.
InStep == \E at : Places(at, Parts, FlattenSeq(Parts)) /\ reader = 7 + at[k + 1]

WalkTypes ==
    /\ tool \in Tools
    /\ answers \in Seq(Records)
    /\ k \in 0 .. Len(answers)
    /\ pc \in {"skip", "parse"} => buffer = Datagram

\* What was printed begins with the addresses of the first i records.
Right(i) ==
    Pointers(i) =>
        /\ IsPrefix(Addresses(i), printed)
        /\ i = k \/ (i = k - 1 /\ ~Pointers(k)) => printed = Addresses(i)

\* Nslookup is in step with the records until it meets a name that is no pointer.
WalkInv ==
    /\ WalkTypes
    /\ tool = "dig" => \/ printed = <<>>
                       \/ pc = "done" /\ answers = <<>> /\ printed = <<Unreceived>>
    /\ tool = "nslookup" =>
        /\ reader \in Nat /\ printed \in Seq(Seq(Nat))
        /\ pc \in {"send", "receive", "skip"} => k = 0 /\ printed = <<>>
        /\ \A i \in 0 .. k : Right(i)
        /\ pc = "parse" /\ Pointers(k) => InStep
        /\ pc = "done" => k = Len(answers)
        /\ pc = "beyond" => ~Pointers(Len(answers))

\* The datagram depends on the answer alone,
LEMMA SameAnswers ==
    ASSUME UNCHANGED answers
    PROVE  Parts' = Parts /\ Datagram' = Datagram
BY DEF Parts, RecordBytes, Data, Address, Pointer, Label, Types, Datagram

\* and so do the addresses in it and the names.
LEMMA SameAddresses ==
    ASSUME UNCHANGED answers, NEW i
    PROVE  Addresses(i)' = Addresses(i) /\ Pointers(i)' = Pointers(i)
BY DEF Addresses, Address, Pointers

\* What was printed stays right while nothing is printed and no record is passed.
LEMMA RightStays ==
    ASSUME UNCHANGED <<answers, k, printed>>, \A i \in 0 .. k : Right(i)
    PROVE  (\A i \in 0 .. k : Right(i))'
<1>1. PICK m : m = k /\ m = k'
  OBVIOUS
<1>2. PICK p : p = printed /\ p = printed'
  OBVIOUS
<1>3. ASSUME NEW i \in 0 .. m
      PROVE  Pointers(i)' => /\ IsPrefix(Addresses(i)', p)
                             /\ i = m \/ (i = m - 1 /\ ~Pointers(m)') => p = Addresses(i)'
  <2>1. Right(i)
    BY <1>1
  <2>2. /\ Addresses(i)' = Addresses(i) /\ Pointers(i)' = Pointers(i)
        /\ Pointers(m)' = Pointers(m)
    BY SameAddresses
  <2> QED BY <1>1, <1>2, <2>1, <2>2 DEF Right
<1> QED BY <1>1, <1>2, <1>3 DEF Right

\* The question is as long as the two loops say.
LEMMA QuestionEnds ==
    ASSUME WalkTypes, pc = "skip"
    PROVE  EndOfName = 2
<1>1. PICK b : b = buffer
  OBVIOUS
<1>2. /\ Len(b) \in Nat /\ Len(b) >= 7 /\ b[1] = 1 /\ b[2] = 120 /\ b[3] = 0
  <2>1. b = Datagram
    BY <1>1 DEF WalkTypes
  <2>2. PICK l \in Nat : l = Len(FlattenSeq(Parts))
    BY DatagramBytes DEF WalkTypes
  <2>3. Len(b) = 7 + l
    BY <2>1, <2>2, DatagramBytes DEF WalkTypes
  <2> QED BY <2>1, <2>2, <2>3, DatagramBytes DEF WalkTypes
<1> DEFINE P(z) == b[z + 1] = 0 /\ \A y \in 0 .. (z - 1) : b[y + 1] # 0
<1>3. \A y \in 0 .. (2 - 1) : b[y + 1] # 0
  <2> TAKE y \in 0 .. (2 - 1)
  <2>1. y = 0 \/ y = 1
    OBVIOUS
  <2> QED BY <1>2, <2>1
<1>4. P(2) /\ 2 \in 0 .. Len(b)
  BY <1>2, <1>3
<1>5. ASSUME NEW z \in 0 .. Len(b), P(z) PROVE z = 2
  <2>1. z \in Nat
    BY <1>2
  <2>2. ~(z > 2)
    <3>1. SUFFICES ASSUME z > 2 PROVE FALSE
      OBVIOUS
    <3>2. 2 \in 0 .. (z - 1)
      BY <2>1, <3>1
    <3>3. b[2 + 1] # 0
      BY <1>5, <3>2
    <3> QED BY <1>2, <3>3
  <2>3. z # 0 /\ z # 1
    BY <1>2, <1>5
  <2> QED BY <2>1, <2>2, <2>3
<1>6. (CHOOSE z \in 0 .. Len(b) : P(z)) = 2
  <2> HIDE DEF P
  <2> QED BY <1>4, <1>5
<1> QED BY <1>1, <1>6 DEF EndOfName

\* Where nothing is printed yet, that is right.
LEMMA RightAtFirst ==
    ASSUME k = 0, printed = <<>>
    PROVE  \A i \in 0 .. k : Right(i)
<1>1. Addresses(0) = <<>> /\ IsPrefix(printed, printed)
  BY AddressesNone, EmptySeq, PrefixSelf
<1>2. ASSUME NEW i \in 0 .. k PROVE Right(i)
  <2>1. i = 0
    OBVIOUS
  <2> QED BY <1>1, <2>1 DEF Right
<1> QED BY <1>2

\* The two loops over the question leave the reader at the first record.
LEMMA SkipWalks ==
    ASSUME WalkInv, Skip PROVE WalkInv'
<1>1. /\ tool = "nslookup" /\ pc = "skip" /\ pc' = "parse"
      /\ UNCHANGED <<tool, answers, wire, buffer, k, printed>> /\ reader' = EndOfName + 5
  BY DEF Skip
<1>2. reader' = 7
  BY <1>1, QuestionEnds DEF WalkInv
<1>3. k = 0 /\ printed \in Seq(Seq(Nat)) /\ \A i \in 0 .. k : Right(i)
  BY <1>1 DEF WalkInv
<1>4. PICK at : Places(at, Parts, FlattenSeq(Parts))
  BY PartsType, FlattenPlaces DEF WalkInv, WalkTypes
<1>5. reader' = 7 + at[k' + 1]
  BY <1>1, <1>2, <1>3, <1>4 DEF Places
<1>6. InStep'
  BY <1>1, <1>4, <1>5, SameAnswers DEF InStep
<1>7. (\A i \in 0 .. k : Right(i))'
  BY <1>1, <1>3, RightStays
<1>8. WalkTypes'
  BY <1>1, SameAnswers DEF WalkInv, WalkTypes
<1> QED BY <1>1, <1>2, <1>3, <1>6, <1>7, <1>8 DEF WalkInv

\* Four bytes of a sequence, if they are known.
LEMMA FourBytes ==
    ASSUME NEW b \in Seq(Nat), NEW m \in Nat \ {0}, NEW j \in Nat,
           b[m] = 10, b[m + 1] = 0, b[m + 2] = 0, b[m + 3] = j
    PROVE  SubSeq(b, m, m + 3) = <<10, 0, 0, j>>
<1>1. PICK s : s = [i \in 1 .. 4 |-> b[m + i - 1]]
  OBVIOUS
<1>2. SubSeq(b, m, m + 3) = s
  BY <1>1
<1>3. s[1] = 10 /\ s[2] = 0 /\ s[3] = 0 /\ s[4] = j
  BY <1>1
<1>4. PICK t \in Seq(Nat) : t = <<10, 0, 0, j>>
  <2>1. <<10, 0, 0, j>> \in Seq(Nat)
    OBVIOUS
  <2> QED BY <2>1
<1>5. Len(t) = 4 /\ t[1] = 10 /\ t[2] = 0 /\ t[3] = 0 /\ t[4] = j
  BY <1>4
<1>6. ASSUME NEW i \in 1 .. 4 PROVE s[i] = t[i] /\ s[i] \in Nat
  <2>1. i = 1 \/ i = 2 \/ i = 3 \/ i = 4
    OBVIOUS
  <2> QED BY <1>3, <1>5, <2>1, SMTT(60)
<1>7. s \in Seq(Nat) /\ Len(s) = 4
  BY <1>1, <1>6
<1>8. s = t
  BY <1>5, <1>6, <1>7, SeqEqual
<1> QED BY <1>2, <1>4, <1>8, Zenon

\* What Nslookup reads where record k + 1 starts.
LEMMA RecordRead ==
    ASSUME WalkTypes, pc = "parse", k < Len(answers), InStep
    PROVE  LET j == k + 1
           IN  /\ ~(reader + 12 > Len(buffer))
               /\ Len(answers[j].name) # 2 => ~IsAddress
               /\ Len(answers[j].name) = 2 =>
                    /\ IsAddress <=> answers[j].type = "A"
                    /\ answers[j].type = "A" =>
                        ~(reader + 16 > Len(buffer)) /\ Part(reader + 12, 4) = Address(j)
                    /\ \E at : Places(at, Parts, FlattenSeq(Parts)) /\ NextRecord = 7 + at[j + 1]
<1>1. PICK j \in 1 .. Len(answers) : j = k + 1
  BY DEF WalkTypes
<1>2. PICK at : Places(at, Parts, FlattenSeq(Parts)) /\ reader = 7 + at[j]
  BY <1>1 DEF InStep
<1>3. PICK r : r = RecordBytes(j)
  OBVIOUS
<1>4. PICK b \in Seq(Nat) : b = buffer /\ b = Datagram
  BY DatagramBytes DEF WalkTypes
<1>5. /\ at[j] \in Nat /\ at[j + 1] = at[j] + Len(r) /\ 7 + at[j + 1] <= Len(b)
      /\ \A c \in 1 .. Len(r) : b[7 + at[j] + c] = r[c]
  BY <1>2, <1>3, <1>4, RecordAt DEF WalkTypes
<1>6. PICK l \in Nat : l = Len(r) /\ l >= 14
  BY <1>3, AnyRecord DEF WalkTypes
<1>7. PICK q \in Nat, e \in Nat : q = reader /\ e = Len(b) /\ q + l <= e /\ 7 + at[j + 1] = q + l
  <2>1. PICK a \in Nat, e \in Nat : a = at[j] /\ e = Len(b)
    BY <1>5
  <2>2. reader = 7 + a /\ at[j + 1] = a + l /\ 7 + at[j + 1] <= e
    BY <1>2, <1>5, <1>6, <2>1, Zenon
  <2>3. 7 + (a + l) <= e /\ 7 + (a + l) = (7 + a) + l /\ 7 + a \in Nat
    BY <2>2
  <2> QED BY <2>1, <2>2, <2>3
<1>8. ~(reader + 12 > Len(buffer)) /\ (l = 16 => ~(reader + 16 > Len(buffer)))
  <2>1. ~(q + 12 > e) /\ (l = 16 => ~(q + 16 > e))
    <3>1. l >= 14 /\ q + l <= e
      BY <1>6, <1>7, Zenon
    <3> QED BY <3>1
  <2> QED BY <1>4, <1>7, <2>1, Zenon
<1>9. ASSUME NEW c \in 1 .. l PROVE b[q + c] = r[c]
  <2>1. b[7 + at[j] + c] = r[c]
    BY <1>5, <1>6
  <2> QED BY <1>2, <1>7, <2>1
<1>10. /\ (q + 2) + 1 = q + 3 /\ (q + 2) + 2 = q + 4
       /\ (q + 10) + 1 = q + 11 /\ (q + 10) + 2 = q + 12
       /\ (q + 12) + 1 = q + 13 /\ (q + 12) + 4 = q + 16
  OBVIOUS
<1>11. Word(reader + 2) = 256 * r[3] + r[4] /\ Word(reader + 10) = 256 * r[11] + r[12]
  <2>1. 3 \in 1 .. l /\ 4 \in 1 .. l /\ 11 \in 1 .. l /\ 12 \in 1 .. l
    BY <1>6
  <2>2. b[q + 3] = r[3] /\ b[q + 4] = r[4] /\ b[q + 11] = r[11] /\ b[q + 12] = r[12]
    BY <1>9, <2>1, Zenon
  <2> QED BY <1>4, <1>7, <1>10, <2>2, ZenonT(60) DEF Word
<1>12. Types.A = 1
  BY DEF Types
<1>13. Len(answers[j].name) # 2 => ~IsAddress
  <2>1. Len(answers[j].name) # 2 => 256 * r[3] + r[4] # 1
    BY <1>3, AnyRecord, ZenonT(60) DEF WalkTypes
  <2> QED BY <1>11, <1>12, <2>1, Zenon DEF IsAddress
<1>14. ASSUME Len(answers[j].name) = 2
       PROVE  /\ IsAddress <=> answers[j].type = "A"
              /\ answers[j].type = "A" =>
                   ~(reader + 16 > Len(buffer)) /\ Part(reader + 12, 4) = Address(j)
              /\ NextRecord = 7 + at[j + 1]
  <2>1. /\ Len(r) = 12 + r[12] /\ r[3] = 0 /\ r[4] \in {1, 5} /\ r[11] = 0 /\ r[12] \in Nat
        /\ r[4] = 1 <=> answers[j].type = "A"
    BY <1>3, <1>14, PointerRecord DEF WalkTypes
  <2>2. Word(reader + 2) = r[4] /\ Word(reader + 10) = r[12]
    BY <1>11, <2>1, SMTT(60)
  <2>3. NextRecord = 7 + at[j + 1]
    <3>1. PICK d \in Nat : d = r[12] /\ l = 12 + d
      BY <1>6, <2>1, Zenon
    <3>2. q + 12 + d = q + l
      <4>1. \A x \in Nat : x + 12 + d = x + (12 + d)
        OBVIOUS
      <4> QED BY <3>1, <4>1
    <3> QED BY <1>7, <2>2, <3>1, <3>2, Zenon DEF NextRecord
  <2>4. ASSUME answers[j].type = "A"
        PROVE  ~(reader + 16 > Len(buffer)) /\ Part(reader + 12, 4) = Address(j)
    <3>1. Len(r) = 16 /\ r[13] = 10 /\ r[14] = 0 /\ r[15] = 0 /\ r[16] = j
      BY <1>3, <1>14, <2>4, PointerRecord DEF WalkTypes
    <3>2. l = 16 /\ 13 \in 1 .. l /\ 14 \in 1 .. l /\ 15 \in 1 .. l /\ 16 \in 1 .. l
      BY <1>6, <3>1
    <3>3. b[q + 13] = 10 /\ b[q + 14] = 0 /\ b[q + 15] = 0 /\ b[q + 16] = j
      BY <1>9, <3>1, <3>2, Zenon
    <3>4. PICK m \in Nat \ {0} : m = q + 13 /\ m + 1 = q + 14 /\ m + 2 = q + 15 /\ m + 3 = q + 16
      OBVIOUS
    <3>5. b[m] = 10 /\ b[m + 1] = 0 /\ b[m + 2] = 0 /\ b[m + 3] = j /\ j \in Nat
      BY <3>3, <3>4
    <3>6. SubSeq(b, m, m + 3) = <<10, 0, 0, j>>
      BY <3>5, FourBytes
    <3> QED BY <1>4, <1>7, <1>8, <1>10, <3>2, <3>4, <3>6, Zenon DEF Part, Address
  <2>5. IsAddress <=> answers[j].type = "A"
    BY <1>12, <2>1, <2>2, Zenon DEF IsAddress
  <2> QED BY <2>3, <2>4, <2>5
<1> QED BY <1>1, <1>2, <1>8, <1>13, <1>14

\* Whatever there is, what Nslookup reads are numbers, and as many as an address has.
LEMMA ReadTypes ==
    ASSUME WalkTypes, pc = "parse", reader \in Nat, ~(reader + 12 > Len(buffer))
    PROVE  /\ NextRecord \in Nat
           /\ ~(reader + 16 > Len(buffer)) => Part(reader + 12, 4) \in Seq(Nat)
<1>1. PICK b \in Seq(Nat) : b = buffer
  BY DatagramBytes DEF WalkTypes
<1>2. PICK e \in Nat : e = Len(b)
  OBVIOUS
<1>3. \A i \in 1 .. e : b[i] \in Nat
  BY <1>2
<1>4. (reader + 10) + 1 \in 1 .. e /\ (reader + 10) + 2 \in 1 .. e
  BY <1>1, <1>2
<1>5. Word(reader + 10) \in Nat
  BY <1>1, <1>3, <1>4 DEF Word
<1>6. ASSUME ~(reader + 16 > e) PROVE Part(reader + 12, 4) \in Seq(Nat)
  <2>1. \A i \in ((reader + 12) + 1) .. ((reader + 12) + 4) : i \in 1 .. e
    BY <1>6
  <2>2. \A i \in ((reader + 12) + 1) .. ((reader + 12) + 4) : b[i] \in Nat
    BY <1>3, <2>1
  <2>3. SubSeq(b, (reader + 12) + 1, (reader + 12) + 4) \in Seq(Nat)
    BY <2>2, SubSeqProperties
  <2> QED BY <1>1, <2>3 DEF Part
<1> QED BY <1>1, <1>2, <1>5, <1>6 DEF NextRecord

\* With an address in front of it the list is right for one more record.
LEMMA AddressAppended ==
    ASSUME NEW m \in Nat, NEW q \in Seq(Seq(Nat)), q = Addresses(m)
    PROVE  Addresses(m + 1) = IF answers[m + 1].type = "A" THEN Append(q, Address(m + 1)) ELSE q
<1>1. Addresses(m + 1) = q \o Found(m + 1)
  BY AddressesNext
<1>2. q \o <<>> = q
  BY ConcatEmptySeq
<1>3. PICK x \in Seq(Nat) : x = Address(m + 1)
  <2>1. <<10, 0, 0, m + 1>> \in Seq(Nat)
    OBVIOUS
  <2> QED BY <2>1 DEF Address
<1>4. Append(q, x) = q \o <<x>>
  OBVIOUS
<1> QED BY <1>1, <1>2, <1>3, <1>4, Zenon DEF Found

\* While the names are pointers a record is passed whole; behind another name there
\* is nothing that the invariant says of where the reader is.
LEMMA RecordWalks ==
    ASSUME WalkInv, Record PROVE WalkInv'
<1>1. /\ tool = "nslookup" /\ pc = "parse" /\ k < Len(answers)
      /\ UNCHANGED <<tool, answers, wire, buffer>>
  BY DEF Record, Turn
<1>2. /\ WalkTypes /\ k \in Nat /\ reader \in Nat /\ printed \in Seq(Seq(Nat))
      /\ \A i \in 0 .. k : Right(i)
  BY <1>1 DEF WalkInv, WalkTypes
<1>3. Pointers(k) => InStep
  BY <1>1 DEF WalkInv
<1>4. CASE reader + 12 > Len(buffer) \/ (IsAddress /\ reader + 16 > Len(buffer))
  <2>1. pc' = "beyond" /\ UNCHANGED <<reader, k, printed>>
    BY <1>4 DEF Record, Turn
  <2>2. ~Pointers(Len(answers))
    <3>1. SUFFICES ASSUME Pointers(Len(answers)) PROVE FALSE
      OBVIOUS
    <3>2. PICK j \in 1 .. Len(answers) : j = k + 1
      BY <1>1, <1>2 DEF WalkTypes
    <3>3. Pointers(k) /\ Len(answers[j].name) = 2
      BY <1>1, <1>2, <3>1 DEF Pointers
    <3> QED BY <1>1, <1>2, <1>3, <1>4, <3>2, <3>3, RecordRead
  <2>3. (~Pointers(Len(answers)))' /\ WalkTypes'
    BY <1>1, <1>2, <2>1, <2>2 DEF WalkTypes, Pointers
  <2>4. (\A i \in 0 .. k : Right(i))'
    BY <1>1, <1>2, <2>1, RightStays
  <2> QED BY <1>1, <1>2, <2>1, <2>3, <2>4 DEF WalkInv
<1>5. CASE ~(reader + 12 > Len(buffer) \/ (IsAddress /\ reader + 16 > Len(buffer)))
  <2>1. /\ printed' = IF IsAddress THEN Append(printed, Part(reader + 12, 4)) ELSE printed
        /\ reader' = NextRecord /\ k' = k + 1 /\ UNCHANGED pc
    BY <1>5 DEF Record, Turn
  <2>2. PICK j \in 1 .. Len(answers) : j = k + 1 /\ j - 1 = k
    BY <1>1, <1>2 DEF WalkTypes
  <2>3. WalkTypes'
    BY <1>1, <1>2, <2>1, <2>2, SameAnswers DEF WalkTypes
  <2>4. PICK p \in Seq(Seq(Nat)), new \in Seq(Seq(Nat)) :
            /\ p = printed /\ new = printed'
            /\ \A s \in Seq(Seq(Nat)) : IsPrefix(s, p) => IsPrefix(s, new)
    <3>1. CASE IsAddress
      <4>1. PICK x \in Seq(Nat) : x = Part(reader + 12, 4)
        BY <1>1, <1>2, <1>5, <3>1, ReadTypes
      <4>2. PICK p \in Seq(Seq(Nat)) : p = printed
        BY <1>2
      <4>3. Append(p, x) \in Seq(Seq(Nat))
        OBVIOUS
      <4>4. \A s \in Seq(Seq(Nat)) : IsPrefix(s, p) => IsPrefix(s, Append(p, x))
        BY PrefixAppend
      <4>5. printed' = Append(p, x)
        BY <2>1, <3>1, <4>1, <4>2
      <4> QED BY <4>2, <4>3, <4>4, <4>5
    <3>2. CASE ~IsAddress
      BY <1>2, <2>1, <3>2
    <3> QED BY <3>1, <3>2
  <2>5. reader' \in Nat
    BY <1>1, <1>2, <1>5, <2>1, ReadTypes
  <2>6. /\ ~Pointers(k) => ~Pointers(j)
        /\ Pointers(j) <=> Pointers(k) /\ Len(answers[j].name) = 2
    <3>1. \A i \in 1 .. j : i \in 1 .. k \/ i = j
      BY <1>2, <2>2
    <3>2. \A i \in 1 .. k : i \in 1 .. j
      BY <1>2, <2>2
    <3> QED BY <3>1, <3>2 DEF Pointers
  <2>7. Pointers(k) => (~Pointers(j) => new = p) /\ (Pointers(j) => new = Addresses(j))
    <3>1. SUFFICES ASSUME Pointers(k)
                   PROVE  (~Pointers(j) => new = p) /\ (Pointers(j) => new = Addresses(j))
      OBVIOUS
    <3>2. CASE Len(answers[j].name) # 2
      <4>1. ~IsAddress
        BY <1>1, <1>2, <1>3, <2>2, <3>1, <3>2, RecordRead
      <4> QED BY <2>1, <2>4, <2>6, <3>1, <3>2, <4>1
    <3>3. CASE Len(answers[j].name) = 2
      <4>1. /\ IsAddress <=> answers[j].type = "A"
            /\ answers[j].type = "A" => Part(reader + 12, 4) = Address(j)
        BY <1>1, <1>2, <1>3, <2>2, <3>1, <3>3, RecordRead
      <4>2. p = Addresses(k)
        <5>1. Right(k)
          BY <1>2
        <5> QED BY <2>4, <3>1, <5>1 DEF Right
      <4>3. Addresses(j) = IF answers[j].type = "A" THEN Append(p, Address(j)) ELSE p
        BY <1>2, <2>2, <2>4, <4>2, AddressAppended
      <4> QED BY <2>1, <2>4, <2>6, <3>1, <3>3, <4>1, <4>3
    <3> QED BY <3>2, <3>3
  <2>8. ASSUME NEW i \in 0 .. j
        PROVE  Pointers(i) => /\ IsPrefix(Addresses(i), new)
                              /\ i = j \/ (i = j - 1 /\ ~Pointers(j)) => new = Addresses(i)
    <3>1. SUFFICES ASSUME Pointers(i)
                   PROVE  /\ IsPrefix(Addresses(i), new)
                          /\ i = j \/ (i = j - 1 /\ ~Pointers(j)) => new = Addresses(i)
      OBVIOUS
    <3>2. CASE i = j
      <4>1. new = Addresses(j)
        BY <2>6, <2>7, <3>1, <3>2
      <4>2. IsPrefix(new, new)
        BY PrefixSelf
      <4> QED BY <3>2, <4>1, <4>2
    <3>3. CASE i # j
      <4>1. i \in 0 .. k /\ i \in Nat
        BY <1>2, <2>2, <3>3
      <4>2. IsPrefix(Addresses(i), p) /\ (i = k => p = Addresses(i))
        <5>1. Right(i)
          BY <1>2, <4>1
        <5> QED BY <2>4, <3>1, <5>1 DEF Right
      <4>3. IsPrefix(Addresses(i), new)
        <5>1. Addresses(i) \in Seq(Seq(Nat))
          BY <4>1, AddressesType
        <5> QED BY <2>4, <4>2, <5>1
      <4>4. i = j - 1 /\ ~Pointers(j) => new = Addresses(i)
        BY <2>2, <2>7, <3>1, <4>2
      <4> QED BY <3>3, <4>3, <4>4
    <3> QED BY <3>2, <3>3
  <2>9. (\A i \in 0 .. k : Right(i))'
    <3>1. k' = j
      BY <2>1, <2>2
    <3>2. ASSUME NEW i \in 0 .. j
          PROVE  Pointers(i)' =>
                    /\ IsPrefix(Addresses(i)', new)
                    /\ i = j \/ (i = j - 1 /\ ~Pointers(j)') => new = Addresses(i)'
      <4>1. /\ Addresses(i)' = Addresses(i) /\ Pointers(i)' = Pointers(i)
            /\ Pointers(j)' = Pointers(j)
        BY <1>1, SameAddresses
      <4> QED BY <2>8, <4>1
    <3> QED BY <2>4, <3>1, <3>2 DEF Right
  <2>10. (Pointers(k) => InStep)'
    <3>1. k' = j
      BY <2>1, <2>2
    <3>2. SUFFICES ASSUME Pointers(j) PROVE InStep'
      BY <1>1, <3>1, SameAddresses
    <3>3. PICK at : Places(at, Parts, FlattenSeq(Parts)) /\ NextRecord = 7 + at[j + 1]
      BY <1>1, <1>2, <1>3, <2>2, <2>6, <3>2, RecordRead
    <3> QED BY <1>1, <2>1, <3>1, <3>3, SameAnswers DEF InStep
  <2> QED BY <1>1, <2>1, <2>3, <2>4, <2>5, <2>9, <2>10 DEF WalkInv
<1> QED BY <1>4, <1>5

\* The walk ends behind the last record.
LEMMA ParseEndsWalks ==
    ASSUME WalkInv, ParseEnds PROVE WalkInv'
<1>1. /\ tool = "nslookup" /\ pc = "parse" /\ pc' = "done" /\ k = Len(answers)
      /\ UNCHANGED <<tool, answers, wire, buffer, reader, k, printed>>
  BY DEF ParseEnds
<1>2. reader \in Nat /\ printed \in Seq(Seq(Nat)) /\ \A i \in 0 .. k : Right(i)
  BY <1>1 DEF WalkInv
<1>3. (\A i \in 0 .. k : Right(i))'
  BY <1>1, <1>2, RightStays
<1>4. WalkTypes'
  BY <1>1 DEF WalkInv, WalkTypes
<1> QED BY <1>1, <1>2, <1>3, <1>4 DEF WalkInv

\* Dig looks one byte before the type, where the name ends, and finds no address
\* there; only when there is no record is the place behind the datagram.
LEMMA DigParseWalks ==
    ASSUME WalkInv, DigParse PROVE WalkInv'
<1>1. /\ tool = "dig" /\ pc = "skip" /\ pc' = "done"
      /\ UNCHANGED <<tool, answers, wire, buffer, reader, k>>
  BY DEF DigParse
<1>2. WalkTypes /\ printed = <<>>
  BY <1>1 DEF WalkInv
<1>3. EndOfName + 6 = 8
  BY <1>1, <1>2, QuestionEnds
<1>4. PICK b \in Seq(Nat) : b = buffer /\ b = Datagram
  BY <1>1, <1>2, DatagramBytes DEF WalkTypes
<1>5. PICK at : Places(at, Parts, FlattenSeq(Parts))
  BY <1>2, PartsType, FlattenPlaces DEF WalkTypes
<1>6. ASSUME Len(answers) = 0 PROVE Len(b) = 7
  <2>1. Len(Parts) = 0
    BY <1>2, <1>6, PartsType DEF WalkTypes
  <2>2. Len(FlattenSeq(Parts)) = 0
    BY <1>5, <2>1 DEF Places
  <2> QED BY <1>2, <1>4, <2>2, DatagramBytes DEF WalkTypes
<1>7. ASSUME Len(answers) # 0 PROVE 8 + 2 <= Len(b) /\ Word(8) # Types.A
  <2>1. PICK j \in 1 .. Len(answers) : j = 1
    BY <1>2, <1>7 DEF WalkTypes
  <2>2. PICK r : r = RecordBytes(j)
    OBVIOUS
  <2>3. Len(r) \in Nat /\ Len(r) >= 14 /\ 256 * r[2] + r[3] # 1
    BY <1>2, <2>2, AnyRecord DEF WalkTypes
  <2>4. at[j] = 0
    BY <1>5, <2>1 DEF Places
  <2>5. at[j + 1] = at[j] + Len(r) /\ 7 + at[j + 1] <= Len(b)
    BY <1>2, <1>4, <1>5, <2>2, RecordAt DEF WalkTypes
  <2>6. \A c \in 1 .. Len(r) : b[7 + at[j] + c] = r[c]
    <3>1. \A c \in 1 .. Len(RecordBytes(j)) : Datagram[7 + at[j] + c] = RecordBytes(j)[c]
      BY <1>2, <1>5, RecordAt, Zenon DEF WalkTypes
    <3> QED BY <1>4, <2>2, <3>1, Zenon
  <2>7. PICK l \in Nat : l = Len(r) /\ l >= 14
    BY <2>3
  <2>8. PICK m \in Nat : m = Len(b)
    BY <1>4
  <2>9. 7 + (0 + l) <= m
    BY <2>4, <2>5, <2>7, <2>8
  <2>10. 8 + 2 <= m
    BY <2>7, <2>9
  <2>11. 7 + 0 + 2 = 8 + 1 /\ 7 + 0 + 3 = 8 + 2 /\ 2 \in 1 .. Len(r) /\ 3 \in 1 .. Len(r)
    BY <2>3
  <2>12. b[8 + 1] = r[2] /\ b[8 + 2] = r[3]
    BY <2>4, <2>6, <2>11
  <2>13. Word(8) = 256 * r[2] + r[3]
    BY <1>4, <2>12, Zenon DEF Word
  <2> QED BY <2>3, <2>8, <2>10, <2>13 DEF Types
<1>8. PICK found \in (IF 8 + 2 <= Len(b) THEN {Word(8) = Types.A} ELSE BOOLEAN) :
        printed' = IF found
                   THEN Append(printed, IF 8 + 16 <= Len(b) THEN Part(8 + 12, 4) ELSE Unreceived)
                   ELSE printed
  <2>1. PICK e : e = EndOfName + 6
    OBVIOUS
  <2>2. \E found \in (IF e + 2 <= Len(buffer) THEN {Word(e) = Types.A} ELSE BOOLEAN) :
           printed' = IF found
                      THEN Append(printed, IF e + 16 <= Len(buffer) THEN Part(e + 12, 4)
                                                                    ELSE Unreceived)
                      ELSE printed
    BY <2>1, Zenon DEF DigParse
  <2>3. e = 8
    BY <1>3, <2>1
  <2> QED BY <1>4, <2>2, <2>3, Zenon
<1>9. Len(answers) # 0 => printed' = printed
  <2> SUFFICES ASSUME Len(answers) # 0 PROVE printed' = printed
    OBVIOUS
  <2>1. 8 + 2 <= Len(b) /\ Word(8) # Types.A
    BY <1>7
  <2>2. ~found
    BY <1>8, <2>1, Zenon
  <2> QED BY <1>8, <2>2, Zenon
<1>10. Len(answers) = 0 => answers = <<>> /\ (printed' = printed \/ printed' = <<Unreceived>>)
  <2> SUFFICES ASSUME Len(answers) = 0
      PROVE  answers = <<>> /\ (printed' = printed \/ printed' = <<Unreceived>>)
    OBVIOUS
  <2>1. answers = <<>>
    BY <1>2 DEF WalkTypes
  <2>2. ~(8 + 16 <= Len(b))
    <3>1. Len(b) = 7
      BY <1>6
    <3> QED BY <3>1
  <2>3. Append(<<>>, Unreceived) = <<Unreceived>>
    OBVIOUS
  <2> QED BY <1>2, <1>8, <2>1, <2>2, <2>3, Zenon
<1>11. WalkTypes'
  BY <1>1, <1>2 DEF WalkTypes
<1>12. \/ printed' = <<>>
       \/ pc' = "done" /\ answers' = <<>> /\ printed' = <<Unreceived>>
  BY <1>1, <1>2, <1>9, <1>10, Zenon
<1> QED BY <1>1, <1>11, <1>12 DEF WalkInv

\* Steps that the walk does not see.
LEMMA WalkStays ==
    ASSUME WalkInv, UNCHANGED <<tool, answers, pc, buffer, reader, k, printed>>
    PROVE  WalkInv'
<1>1. Parts' = Parts /\ Datagram' = Datagram
  BY SameAnswers
<1>2. WalkTypes'
  BY <1>1 DEF WalkInv, WalkTypes
<1>3. InStep' = InStep
  BY <1>1 DEF InStep
<1>4. Pointers(k)' = Pointers(k) /\ Pointers(Len(answers))' = Pointers(Len(answers))
  BY DEF Pointers
<1>5. tool = "nslookup" => (\A i \in 0 .. k : Right(i))'
  BY RightStays DEF WalkInv
<1> QED BY <1>2, <1>3, <1>4, <1>5 DEF WalkInv

\* Before the datagram is there, nothing was printed.
LEMMA WalkFails ==
    ASSUME WalkInv, UNCHANGED <<tool, answers, reader, k, printed>>,
           \/ pc = "send" /\ pc' \in {"receive", "failed"}
           \/ pc = "receive" /\ pc' = "failed"
           \/ pc = "receive" /\ pc' \in {"dump", "skip"} /\ buffer' = Datagram
    PROVE  WalkInv'
<1>1. Datagram' = Datagram
  BY SameAnswers
<1>2. WalkTypes'
  BY <1>1 DEF WalkInv, WalkTypes
<1>3. tool = "nslookup" => (\A i \in 0 .. k : Right(i))'
  BY RightStays DEF WalkInv
<1> QED BY <1>2, <1>3 DEF WalkInv

\* Nothing was read or printed at the beginning.
LEMMA WalkInit == Init => WalkInv
<1> SUFFICES ASSUME Init PROVE WalkInv
  OBVIOUS
<1>1. answers \in Seq(Records)
  <2>1. PICK m \in 0 .. MaxRecords : answers \in [1 .. m -> Records]
    BY DEF Init
  <2> QED BY <2>1, DnsAnswerAssumption DEF DnsAnswerAssumption
<1>2. \A i \in 0 .. k : Right(i)
  BY RightAtFirst DEF Init
<1>3. WalkTypes
  BY <1>1 DEF Init, WalkTypes
<1>4. printed \in Seq(Seq(Nat))
  BY EmptySeq DEF Init
<1> QED BY <1>2, <1>3, <1>4 DEF Init, WalkInv

\* Every step of Nslookup, Dig and Dnsenum keeps the walk's invariant.
LEMMA WalkNext == WalkInv /\ Next => WalkInv'
<1> SUFFICES ASSUME WalkInv, Next PROVE WalkInv'
  OBVIOUS
<1>1. CASE ServerAnswers \/ Lost
  BY <1>1, WalkStays DEF ServerAnswers, Lost
<1>2. CASE Send \/ SendFails \/ Receive \/ ReceiveFails
  BY <1>2, WalkFails DEF Send, SendFails, Receive, ReceiveFails
<1>3. CASE Dump
  <2>1. WalkTypes' /\ tool = "dnsenum" /\ tool' = "dnsenum"
    BY <1>3 DEF Dump, WalkInv, WalkTypes
  <2> QED BY <2>1 DEF WalkInv
<1> QED BY <1>1, <1>2, <1>3, SkipWalks, RecordWalks, ParseEndsWalks, DigParseWalks
       DEF Next, Program

\* The invariant says what is promised of them.
LEMMA WalkShows == WalkInv => NslookupWalks /\ RightUpToName
<1> SUFFICES ASSUME WalkInv PROVE NslookupWalks /\ RightUpToName
  OBVIOUS
<1>1. RightUpToName
  BY DEF WalkInv, Right, RightUpToName
<1>2. ASSUME tool = "nslookup", Pointers(Len(answers)) PROVE Walks
  <2>1. k \in Nat /\ k <= Len(answers) /\ Right(k)
    BY <1>2 DEF WalkInv, WalkTypes
  <2>2. Pointers(k)
    BY <1>2, <2>1 DEF Pointers
  <2>3. printed = Addresses(k)
    BY <2>1, <2>2 DEF Right
  <2> QED BY <1>2, <2>3 DEF WalkInv, Walks
<1> QED BY <1>1, <1>2 DEF NslookupWalks

-----------------------------------------------------------------------------
(* The zone transfer. *)

\* The smaller of two numbers.
LEMMA MinTwo ==
    \A a, b \in Nat : Min({a, b}) = IF a <= b THEN a ELSE b
<1> TAKE a, b \in Nat
<1> DEFINE m == IF a <= b THEN a ELSE b
<1>1. m \in {a, b} /\ \A y \in {a, b} : m <= y
  OBVIOUS
<1>2. \A x \in {a, b} : (\A y \in {a, b} : x <= y) => x = m
  OBVIOUS
<1> HIDE DEF m
<1>3. (CHOOSE x \in {a, b} : \A y \in {a, b} : x <= y) = m
  BY <1>1, <1>2
<1> QED BY <1>3 DEF Min, m

\* The query is a sequence of bytes.
LEMMA QueryBytes == AxfrQuery \in Seq(Nat)
<1>1. PICK p \in Seq(Nat) : p = <<0, 252, 0, 1>>
  <2>1. <<0, 252, 0, 1>> \in Seq(Nat)
    OBVIOUS
  <2> QED BY <2>1
<1>2. PICK d \in Seq(Nat) : d = Domain /\ Len(d) = 11
  <2>1. <<101, 120, 97, 109, 112, 108, 101, 46, 99, 111, 109>> \in Seq(Nat)
    OBVIOUS
  <2> QED BY <2>1 DEF Domain
<1>3. PICK z \in Seq(Nat) : z = <<0, 0, 0, 0, 0>> /\ Len(z) = 5
  <2>1. <<0, 0, 0, 0, 0>> \in Seq(Nat)
    OBVIOUS
  <2> QED BY <2>1
<1>4. PICK t \in Seq(Nat) : t = d \o z
  BY Two
<1>5. Len(t) = 16
  <2>1. Len(d \o z) = Len(d) + Len(z)
    BY Two
  <2> QED BY <1>2, <1>3, <1>4, <2>1
<1>6. \A i \in 5 .. 16 : t[i] \in Nat
  <2> TAKE i \in 5 .. 16
  <2>1. i \in 1 .. Len(t)
    BY <1>5
  <2> QED BY <2>1
<1>7. PICK s \in Seq(Nat) : s = SubSeq(t, 5, 16)
  <2>1. SubSeq(t, 5, 16) \in Seq(Nat)
    BY <1>6, SubSeqProperties
  <2> QED BY <2>1
<1>8. AxfrQuery = p \o s
  BY <1>1, <1>2, <1>3, <1>4, <1>5, <1>7 DEF AxfrQuery
<1> QED BY <1>8, Two

\* What recv() writes is at the beginning of the buffer.
LEMMA OverBytes ==
    ASSUME buffer \in Seq(Nat), NEW s \in Seq(Nat)
    PROVE  /\ Over(s) \in Seq(Nat)
           /\ Len(Over(s)) = IF Len(s) <= Len(buffer) THEN Len(buffer) ELSE Len(s)
           /\ \A i \in 1 .. Len(s) : Over(s)[i] = s[i]
           /\ SubSeq(Over(s), 1, Len(s)) = s
<1>1. \A i \in (Len(s) + 1) .. Len(buffer) : buffer[i] \in Nat
  OBVIOUS
<1>2. PICK r \in Seq(Nat) : r = SubSeq(buffer, Len(s) + 1, Len(buffer))
  <2>1. Len(s) + 1 \in Int /\ Len(buffer) \in Int
    OBVIOUS
  <2>2. SubSeq(buffer, Len(s) + 1, Len(buffer)) \in Seq(Nat)
    BY <1>1, <2>1, SubSeqProperties
  <2> QED BY <2>2
<1>3. Len(r) = IF Len(s) + 1 <= Len(buffer) THEN Len(buffer) - (Len(s) + 1) + 1 ELSE 0
  BY <1>1, <1>2, SubSeqProperties
<1>4. /\ s \o r \in Seq(Nat) /\ Len(s \o r) = Len(s) + Len(r)
      /\ \A i \in 1 .. Len(s) : (s \o r)[i] = s[i]
  BY Two
<1>5. Len(s) \in Nat /\ Len(buffer) \in Nat
  OBVIOUS
<1>6. Len(s \o r) = IF Len(s) <= Len(buffer) THEN Len(buffer) ELSE Len(s)
  BY <1>3, <1>4, <1>5
<1>7. SubSeq(s \o r, 1, Len(s)) = s
  <2>1. PICK o \in Seq(Nat) : o = s \o r
    BY <1>4
  <2>2. \A i \in 1 .. Len(s) : o[i] = s[i] /\ o[i] \in Nat
    BY <1>4, <2>1
  <2>3. PICK u \in Seq(Nat) : u = SubSeq(o, 1, Len(s))
    BY <2>2, <1>5, SubSeqProperties
  <2>4. Len(u) = Len(s)
    BY <2>2, <2>3, <1>5, SubSeqProperties
  <2>5. \A i \in 1 .. Len(s) : u[i] = o[i]
    BY <2>3, <1>5
  <2>6. u = s
    BY <2>2, <2>4, <2>5, SeqEqual
  <2> QED BY <2>1, <2>3, <2>6
<1>8. Over(s) = s \o r
  BY <1>2 DEF Over
<1> QED BY <1>4, <1>6, <1>7, <1>8

\* What recv() returns is shorter than the buffer exactly if the datagram is.
LEMMA CutBytes ==
    ASSUME answers \in Seq(Nat), NEW w \in Copies
    PROVE  /\ Cut(w) \in Seq(Nat) /\ Len(Cut(w)) \in Nat
           /\ Len(Cut(w)) < BUF <=> answers[w[1]] < BUF
<1>1. PICK j \in DOMAIN answers : w[1] = j
  BY DEF Copies
<1>2. answers[j] \in Nat /\ BUF \in Nat /\ j \in Nat
  BY TransferAssumption DEF TransferAssumption
<1>3. PICK m \in Nat : m = Min({answers[j], BUF}) /\ (m < BUF <=> answers[j] < BUF)
  BY <1>2, MinTwo
<1>4. [c \in 1 .. m |-> 1000 * j + c] \in Seq(Nat) /\ Len([c \in 1 .. m |-> 1000 * j + c]) = m
  BY <1>2
<1> QED BY <1>1, <1>3, <1>4 DEF Cut

\* The query is no copy of a datagram.
LEMMA QueryIsNoCopy == answers \in Seq(Nat) => Query \notin Copies
BY DEF Query, Copies

\* The copies of datagrams that were received, in their order.
Received(order) ==
    /\ order \in Seq(Copies)
    /\ \A a, b \in DOMAIN order : a # b => order[a] # order[b]
    /\ \A i \in DOMAIN order : order[i] \notin wire
    /\ pc = "send" \/ Query \in wire => order = <<>>
    /\ printed = FlattenSeq([i \in DOMAIN order |-> Cut(order[i])])
    /\ \A i \in DOMAIN order : answers[order[i][1]] < BUF => i = Len(order) /\ pc = "done"
    /\ pc = "done" => order # <<>> /\ answers[Last(order)[1]] < BUF

AxfrInv ==
    /\ tool = "axfr" /\ answers \in Seq(Nat) /\ buffer \in Seq(Nat)
    /\ pc \in {"send", "receive", "done", "failed"}
    /\ wire \subseteq {Query} \cup Copies
    /\ pc = "send" => wire = {}
    /\ Query \in wire => wire = {Query}
    /\ \E order : Received(order)

\* No datagram was received at the beginning.
LEMMA AxfrInitInv == AxfrInit => AxfrInv
<1> SUFFICES ASSUME AxfrInit PROVE AxfrInv
  OBVIOUS
<1>1. answers \in Seq(Nat)
  <2>1. PICK m \in 0 .. MaxPieces : answers \in [1 .. m -> 0 .. (BUF + 1)]
    BY DEF AxfrInit
  <2> QED BY <2>1, TransferAssumption DEF TransferAssumption
<1>2. Received(<<>>)
  <2>1. [i \in DOMAIN <<>> |-> Cut(<<>>[i])] = <<>>
    OBVIOUS
  <2>2. printed = FlattenSeq([i \in DOMAIN <<>> |-> Cut(<<>>[i])])
    BY <2>1, FlattenEmpty, Zenon DEF AxfrInit
  <2>3. <<>> \in Seq(Copies) /\ DOMAIN <<>> = {}
    BY EmptySeq
  <2> QED BY <2>2, <2>3 DEF AxfrInit, Received
<1>3. buffer \in Seq(Nat)
  BY EmptySeq DEF AxfrInit
<1> QED BY <1>1, <1>2, <1>3 DEF AxfrInit, AxfrInv

\* A step that receives nothing: what is under way is not what was received.
LEMMA ReceivedStays ==
    ASSUME NEW order, Received(order), UNCHANGED <<answers, printed>>,
           \A i \in DOMAIN order : order[i] \notin wire',
           pc' = "send" \/ Query \in wire' => order = <<>>,
           pc' = pc \/ (pc # "done" /\ pc' # "done")
    PROVE  Received(order)'
BY DEF Received, Cut, Copies

\* A datagram that arrives is printed behind the others and arrives once only.
LEMMA AxfrReceiveInv ==
    ASSUME AxfrInv, NEW w \in wire \ {Query}, AxfrReceive(w)
    PROVE  AxfrInv'
<1>1. /\ pc = "receive" /\ UNCHANGED <<tool, answers, reader, k>> /\ wire' = wire \ {w}
      /\ buffer' = Over(Cut(w)) /\ printed' = printed \o SubSeq(buffer', 1, Len(Cut(w)))
      /\ pc' = IF Len(Cut(w)) < BUF THEN "done" ELSE "receive"
  BY DEF AxfrReceive
<1>2. w \in Copies /\ Query \notin wire /\ answers \in Seq(Nat) /\ buffer \in Seq(Nat)
  BY DEF AxfrInv
<1>3. Cut(w) \in Seq(Nat) /\ (Len(Cut(w)) < BUF <=> answers[w[1]] < BUF)
  BY <1>2, CutBytes
<1>4. buffer' \in Seq(Nat) /\ printed' = printed \o Cut(w)
  BY <1>1, <1>2, <1>3, OverBytes
<1>5. PICK order : Received(order)
  BY DEF AxfrInv
<1>6. PICK n \in Nat : Len(order) = n /\ DOMAIN order = 1 .. n /\ order \in Seq(Copies)
  BY <1>5 DEF Received
<1>7. PICK new : new = Append(order, w)
  OBVIOUS
<1>8. /\ new \in Seq(Copies) /\ Len(new) = n + 1 /\ DOMAIN new = 1 .. (n + 1)
      /\ new[n + 1] = w /\ \A i \in 1 .. n : new[i] = order[i]
  <2>1. new \in Seq(Copies) /\ Len(new) = n + 1
    BY <1>2, <1>6, <1>7
  <2>2. DOMAIN new = 1 .. (n + 1)
    BY <2>1
  <2>3. new[n + 1] = w
    BY <1>6, <1>7
  <2>4. \A i \in 1 .. n : new[i] = order[i]
    BY <1>6, <1>7
  <2> QED BY <2>1, <2>2, <2>3, <2>4
<1>9. PICK s : s = [i \in 1 .. n |-> Cut(order[i])]
  OBVIOUS
<1>10. s \in Seq(Seq(Nat)) /\ Len(s) = n
  <2>1. \A i \in 1 .. n : Cut(order[i]) \in Seq(Nat)
    BY <1>2, <1>6, CutBytes
  <2> QED BY <1>9, <2>1
<1>11. printed' = FlattenSeq([i \in DOMAIN new |-> Cut(new[i])])
  <2>1. [i \in DOMAIN new |-> Cut(new[i])] = Append(s, Cut(w))
    BY <1>8, <1>9, <1>10
  <2>2. PICK x \in Seq(Nat) : x = Cut(w)
    BY <1>3
  <2>3. FlattenSeq(Append(s, x)) = FlattenSeq(s) \o x
    BY <1>10, FlattenAppend
  <2>4. printed = FlattenSeq(s)
    BY <1>5, <1>6, <1>9 DEF Received
  <2> QED BY <1>4, <2>1, <2>2, <2>3, <2>4, Zenon
<1>12. \A i \in 1 .. n : order[i] \notin wire /\ ~(answers[order[i][1]] < BUF)
  BY <1>1, <1>5, <1>6 DEF Received
<1>13. \A a, b \in DOMAIN new : a # b => new[a] # new[b]
  <2> TAKE a, b \in DOMAIN new
  <2>1. HAVE a # b
  <2>2. (a = n + 1 \/ a \in 1 .. n) /\ (b = n + 1 \/ b \in 1 .. n)
    BY <1>8
  <2> QED BY <1>5, <1>6, <1>8, <1>12, <2>1, <2>2 DEF Received
<1>14. \A i \in DOMAIN new : new[i] \notin wire'
  <2> TAKE i \in DOMAIN new
  <2>1. i = n + 1 \/ i \in 1 .. n
    BY <1>8
  <2> QED BY <1>1, <1>8, <1>12, <2>1
<1>15. \A i \in DOMAIN new : answers[new[i][1]] < BUF => i = n + 1 /\ pc' = "done"
  <2> TAKE i \in DOMAIN new
  <2>1. i = n + 1 \/ i \in 1 .. n
    BY <1>8
  <2> QED BY <1>1, <1>3, <1>8, <1>12, <2>1
<1>16. pc' = "done" => new # <<>> /\ answers[Last(new)[1]] < BUF
  <2>1. Last(new) = w /\ new # <<>>
    BY <1>8 DEF Last
  <2> QED BY <1>1, <1>3, <2>1
<1>17. (printed = FlattenSeq([i \in DOMAIN new |-> Cut(new[i])]))'
  BY <1>1, <1>11 DEF Cut
<1>18. Received(new)'
  BY <1>1, <1>2, <1>8, <1>13, <1>14, <1>15, <1>16, <1>17 DEF Received, Copies
<1>19. wire' \subseteq {Query} \cup Copies /\ Query \notin wire'
  BY <1>1, <1>2 DEF AxfrInv
<1>20. \E order_1 : Received(order_1)'
  BY <1>18
<1> QED BY <1>1, <1>2, <1>4, <1>19, <1>20 DEF AxfrInv, Copies

\* Every step of AXFR keeps its invariant, also when datagrams are lost.
LEMMA AxfrNextInv == AxfrInv /\ AxfrNext => AxfrInv'
<1> SUFFICES ASSUME AxfrInv, AxfrNext PROVE AxfrInv'
  OBVIOUS
<1>1. PICK order : Received(order)
  BY DEF AxfrInv
<1>2. DOMAIN order \subseteq Nat /\ \A i \in DOMAIN order : order[i] \in Copies
  BY <1>1 DEF Received
<1>3. Query \notin Copies
  BY QueryIsNoCopy DEF AxfrInv
<1>4. CASE AxfrSend
  <2>1. order = <<>>
    BY <1>1, <1>4 DEF AxfrSend, Received
  <2>2. Received(order)'
    BY <1>1, <1>4, <2>1, ReceivedStays DEF AxfrSend
  <2>3. \E o : Received(o)'
    BY <2>2
  <2> QED BY <1>4, <2>3, QueryBytes DEF AxfrSend, AxfrInv
<1>5. CASE AxfrSendFails
  <2>1. order = <<>>
    BY <1>1, <1>5 DEF AxfrSendFails, Received
  <2>2. Received(order)'
    BY <1>1, <1>5, <2>1, ReceivedStays DEF AxfrSendFails
  <2>3. \E o : Received(o)'
    BY <2>2
  <2> QED BY <1>5, <2>3, QueryBytes DEF AxfrSendFails, AxfrInv
<1>6. CASE ReceiveFails
  <2>1. Received(order)'
    BY <1>1, <1>6, ReceivedStays DEF ReceiveFails, Received, AxfrInv
  <2>2. \E o : Received(o)'
    BY <2>1
  <2> QED BY <1>6, <2>2 DEF ReceiveFails, AxfrInv, Copies
<1>7. CASE AxfrAnswers
  <2>1. order = <<>> /\ wire = {Query}
    BY <1>1, <1>7 DEF AxfrAnswers, Received, AxfrInv
  <2>2. Received(order)'
    BY <1>1, <1>7, <2>1, ReceivedStays DEF AxfrAnswers, Received
  <2>3. \E o : Received(o)'
    BY <2>2
  <2>4. pc # "send"
    BY <2>1 DEF AxfrInv
  <2> QED BY <1>3, <1>7, <2>3, <2>4 DEF AxfrAnswers, AxfrInv, Copies
<1>8. CASE \E w \in wire : AxfrLost(w)
  <2>1. PICK w \in wire : AxfrLost(w)
    BY <1>8
  <2>2. Received(order)'
    BY <1>1, <2>1, ReceivedStays DEF AxfrLost, Received
  <2>3. \E o : Received(o)'
    BY <2>2
  <2> QED BY <2>1, <2>3 DEF AxfrLost, AxfrInv, Copies
<1> QED BY <1>4, <1>5, <1>6, <1>7, <1>8, AxfrReceiveInv DEF AxfrNext, AxfrProgram

\* The invariant says what is promised of AXFR.
LEMMA AxfrShows == AxfrInv => AxfrDatagrams
<1> SUFFICES ASSUME AxfrInv PROVE AxfrDatagrams
  OBVIOUS
<1>2. PICK order : Received(order)
  BY DEF AxfrInv
<1>3. PICK n \in Nat : Len(order) = n /\ DOMAIN order = 1 .. n /\ order \in Seq(Copies)
  BY <1>2 DEF Received
<1>4. PICK ws : ws = {order[i] : i \in 1 .. n}
  OBVIOUS
<1>5. ws \in SUBSET (Copies \ wire)
  BY <1>2, <1>3, <1>4 DEF Received
<1>6. order \in [1 .. n -> ws] /\ \A a, b \in 1 .. n : a # b => order[a] # order[b]
  BY <1>2, <1>3, <1>4 DEF Received
<1>7. Cardinality(ws) = n
  <2>1. order \in Surjection(1 .. n, ws)
    BY <1>4, <1>6 DEF Surjection
  <2>2. order \in Injection(1 .. n, ws)
    BY <1>6 DEF Injection, IsInjective
  <2>3. IsFiniteSet(1 .. n) /\ Cardinality(1 .. n) = n
    BY FS_Interval
  <2> QED BY <2>1, <2>2, <2>3, FS_Surjection
<1>8. order \in SetToSeqs(ws)
  BY <1>6, <1>7 DEF SetToSeqs
<1>9. /\ printed = FlattenSeq([i \in DOMAIN order |-> Cut(order[i])])
      /\ \A i \in DOMAIN order : answers[order[i][1]] < BUF => i = Len(order) /\ pc = "done"
      /\ pc = "done" => order # <<>> /\ answers[Last(order)[1]] < BUF
  BY <1>2 DEF Received
<1>10. AxfrDatagrams
  BY <1>5, <1>8, <1>9 DEF AxfrDatagrams
<1> QED BY <1>10

-----------------------------------------------------------------------------
(* Whois. *)

\* The least of a set of numbers.
LEMMA MinLeast ==
    ASSUME NEW S, S \subseteq Nat, S # {}
    PROVE  Min(S) \in S /\ \A y \in S : Min(S) <= y
<1>1. \E x \in S : \A y \in S : x <= y
  <2>1. ASSUME \A x \in S : \E y \in S : y < x PROVE FALSE
    BY <2>1, NoLeast
  <2>2. PICK x \in S : \A y \in S : ~(y < x)
    BY <2>1
  <2>3. \A y \in S : x <= y
    BY <2>2
  <2> QED BY <2>3
<1>2. Min(S) \in S /\ \A y \in S : Min(S) <= y
  BY <1>1, Zenon DEF Min
<1> QED BY <1>2

\* The larger of two numbers.
LEMMA MaxTwo ==
    \A a, b \in Int : Max({a, b}) = IF a >= b THEN a ELSE b
<1> TAKE a, b \in Int
<1> DEFINE m == IF a >= b THEN a ELSE b
<1>1. m \in {a, b} /\ \A y \in {a, b} : m >= y
  OBVIOUS
<1>2. \A x \in {a, b} : (\A y \in {a, b} : x >= y) => x = m
  OBVIOUS
<1> HIDE DEF m
<1>3. (CHOOSE x \in {a, b} : \A y \in {a, b} : x >= y) = m
  BY <1>1, <1>2
<1> QED BY <1>3 DEF Max, m

\* No NUL hides byte j: there is none among the bytes that a buffer with j at its
\* end can hold.
Visible(j) == \A i \in Max({1, j - BUF + 2}) .. j : answers[i] # 0

WhoisTypes ==
    /\ tool = "whois"
    /\ answers \in Seq(Nat) /\ \A j \in 1 .. Len(answers) : answers[j] \in {0, j}
    /\ buffer \in Seq(Nat) /\ Len(buffer) = BUF
    /\ k \in 0 .. Len(answers) /\ reader \in 0 .. k
    /\ wire = "closed" => k = Len(answers)
    /\ pc = "done" => reader = Len(answers)

WhoisPrinted ==
    /\ printed \in Seq(1 .. reader)
    /\ \A i, j \in 1 .. Len(printed) : i < j => printed[i] < printed[j]
    /\ \A j \in 1 .. reader : Visible(j) => \E i \in 1 .. Len(printed) : printed[i] = j

WhoisInv == WhoisTypes /\ WhoisPrinted

\* Nothing was received or printed at the beginning.
LEMMA WhoisInitInv == WhoisInit => WhoisInv
<1> SUFFICES ASSUME WhoisInit PROVE WhoisInv
  OBVIOUS
<1>1. BUF \in Nat /\ MaxText \in Nat
  BY TransferAssumption DEF TransferAssumption
<1>2. PICK m \in 0 .. MaxText, nuls \in SUBSET (1 .. MaxText) :
          answers = [j \in 1 .. m |-> IF j \in nuls THEN 0 ELSE j]
  <2>1. answers \in {[j \in 1 .. m |-> IF j \in nuls THEN 0 ELSE j] :
                        m \in 0 .. MaxText, nuls \in SUBSET (1 .. MaxText)}
    BY SMTT(60) DEF WhoisInit
  <2>2. \A x : x \in {[j \in 1 .. m |-> IF j \in nuls THEN 0 ELSE j] :
                       m \in 0 .. MaxText, nuls \in SUBSET (1 .. MaxText)} =>
                 \E m \in 0 .. MaxText, nuls \in SUBSET (1 .. MaxText) :
                    x = [j \in 1 .. m |-> IF j \in nuls THEN 0 ELSE j]
    OBVIOUS
  <2> QED BY <2>1, <2>2
<1>3. answers \in Seq(Nat) /\ Len(answers) = m /\ \A j \in 1 .. m : answers[j] \in {0, j}
  BY <1>1, <1>2
<1>4. buffer \in Seq(Nat) /\ Len(buffer) = BUF
  BY <1>1 DEF WhoisInit, Junk
<1>5. printed \in Seq(1 .. reader) /\ Len(printed) = 0
  BY EmptySeq DEF WhoisInit
<1>6. WhoisTypes
  <2>1. tool = "whois" /\ reader = 0 /\ k = 0 /\ wire # "closed" /\ pc # "done"
    BY DEF WhoisInit
  <2>2. k \in 0 .. Len(answers) /\ reader \in 0 .. k
    BY <1>1, <1>3, <2>1
  <2> QED BY <1>3, <1>4, <2>1, <2>2 DEF WhoisTypes
<1>7. WhoisPrinted
  BY <1>5 DEF WhoisInit, WhoisPrinted
<1> QED BY <1>6, <1>7 DEF WhoisInv

\* What the program prints of the buffer after a piece of l bytes was received:
\* the bytes of the piece up to the first NUL.
LEMMA PiecePrints ==
    ASSUME WhoisTypes, reader < k
    PROVE  \E l \in 1 .. (BUF - 1), z \in Nat :
        /\ Len(Piece) = l /\ reader + l <= k
        /\ Over(Append(Piece, 0)) \in Seq(Nat) /\ Len(Over(Append(Piece, 0))) = BUF
        /\ z \in 0 .. l
        /\ UpToNul(Over(Append(Piece, 0))) = [i \in 1 .. z |-> reader + i]
        /\ z < l => answers[reader + z + 1] = 0
<1>1. /\ BUF \in Nat /\ BUF >= 2 /\ reader \in Nat /\ k \in Nat /\ k <= Len(answers)
      /\ Len(answers) \in Nat /\ answers \in Seq(Nat)
  BY TransferAssumption DEF TransferAssumption, WhoisTypes
<1>2. PICK e \in Nat : e = Min({k, reader + BUF - 1}) /\ e = IF k <= reader + BUF - 1 THEN k ELSE reader + BUF - 1
  BY <1>1, MinTwo
<1>3. PICK l \in 1 .. (BUF - 1) : e = reader + l /\ reader + l <= k
  <2>1. e - reader \in 1 .. (BUF - 1) /\ e = reader + (e - reader) /\ reader + (e - reader) <= k
    <3>1. PICK a \in Nat, c \in Nat : a = reader /\ c = k /\ a < c
      BY <1>1
    <3>2. PICK d \in Nat : d = BUF /\ d >= 2
      BY <1>1
    <3>3. e = IF c <= a + d - 1 THEN c ELSE a + d - 1
      BY <1>2, <3>1, <3>2
    <3>4. e - a \in 1 .. (d - 1) /\ e = a + (e - a) /\ a + (e - a) <= c
      BY <3>1, <3>2, <3>3
    <3> QED BY <3>1, <3>2, <3>4
  <2> QED BY <2>1
<1>4. \A i \in (reader + 1) .. e : answers[i] \in Nat
  BY <1>1, <1>3
<1>5. PICK p \in Seq(Nat) : p = Piece
  <2>1. SubSeq(answers, reader + 1, e) \in Seq(Nat)
    BY <1>1, <1>4, SubSeqProperties
  <2> QED BY <1>2, <2>1 DEF Piece
<1>6. Len(p) = l /\ \A i \in 1 .. l : p[i] = answers[reader + i]
  <2>1. PICK a \in Nat : a = reader + 1 /\ e = a + l - 1
    BY <1>1, <1>3
  <2>2. p = SubSeq(answers, a, e)
    BY <1>2, <1>5, <2>1 DEF Piece
  <2>3. Len(p) = l
    BY <1>4, <2>1, <2>2, SubSeqProperties
  <2>4. \A i \in 1 .. l : p[i] = answers[a + i - 1]
    BY <2>1, <2>2, SMTT(60)
  <2>5. \A i \in 1 .. l : a + i - 1 = reader + i
    BY <1>1, <2>1
  <2> QED BY <2>3, <2>4, <2>5
<1>7. PICK q \in Seq(Nat) : q = Append(p, 0)
  <2>1. Append(p, 0) \in Seq(Nat)
    OBVIOUS
  <2> QED BY <2>1
<1>8. Len(q) = l + 1 /\ q[l + 1] = 0 /\ \A i \in 1 .. l : q[i] = p[i]
  BY <1>6, <1>7
<1>9. PICK b \in Seq(Nat) : b = Over(q)
  BY OverBytes DEF WhoisTypes
<1>10. Len(b) = BUF
  BY <1>1, <1>8, <1>9, OverBytes DEF WhoisTypes
<1>11. \A i \in 1 .. (l + 1) : b[i] = q[i]
  BY <1>8, <1>9, OverBytes DEF WhoisTypes
<1>12. PICK S : S = {i \in DOMAIN b : b[i] = 0} \cup {Len(b) + 1}
  OBVIOUS
<1>13. DOMAIN b = 1 .. BUF /\ l + 1 \in 1 .. BUF
  BY <1>1, <1>10
<1>14. S \subseteq Nat /\ l + 1 \in S
  <2>1. b[l + 1] = 0
    BY <1>8, <1>11
  <2> QED BY <1>1, <1>10, <1>12, <1>13, <2>1
<1>15. PICK m \in S : m = Min(S) /\ \A y \in S : m <= y
  BY <1>14, MinLeast
<1>16. m \in 1 .. (l + 1) /\ b[m] = 0
  BY <1>10, <1>12, <1>13, <1>14, <1>15
<1>17. PICK z \in 0 .. l : m = z + 1
  BY <1>16
<1>18. ASSUME NEW i \in 1 .. z PROVE b[i] = reader + i
  <2>1. i \in 1 .. l /\ i \in 1 .. (l + 1) /\ i \in 1 .. BUF /\ ~(m <= i)
    <3>1. i \in Nat /\ i >= 1 /\ i <= z /\ z <= l /\ z \in Nat /\ l \in Nat
      BY <1>1
    <3>2. l + 1 <= BUF /\ BUF \in Nat
      BY <1>1, <1>13
    <3> QED BY <1>17, <3>1, <3>2
  <2>2. b[i] # 0
    BY <1>12, <1>13, <1>15, <2>1
  <2>3. b[i] = answers[reader + i]
    BY <1>6, <1>8, <1>11, <2>1
  <2>4. reader + i \in 1 .. Len(answers)
    BY <1>1, <1>3, <2>1
  <2>5. answers[reader + i] \in {0, reader + i}
    BY <2>4 DEF WhoisTypes
  <2> QED BY <2>2, <2>3, <2>5
<1>19. UpToNul(b) = [i \in 1 .. z |-> reader + i]
  <2>1. UpToNul(b) = SubSeq(b, 1, m - 1)
    BY <1>12, <1>15 DEF UpToNul
  <2>2. m - 1 = z
    BY <1>17
  <2>3. SubSeq(b, 1, z) = [i \in 1 .. z |-> b[i]]
    BY <1>17
  <2>4. [i \in 1 .. z |-> b[i]] = [i \in 1 .. z |-> reader + i]
    BY <1>18
  <2> QED BY <2>1, <2>2, <2>3, <2>4
<1>20. ASSUME z < l PROVE answers[reader + z + 1] = 0
  <2>1. PICK i \in 1 .. l : i = z + 1 /\ i = m /\ i \in 1 .. (l + 1)
    BY <1>17, <1>20
  <2>2. reader + z + 1 = reader + i
    BY <1>1, <2>1
  <2> QED BY <1>6, <1>8, <1>11, <1>16, <2>1, <2>2
<1> QED BY <1>3, <1>5, <1>6, <1>7, <1>9, <1>10, <1>19, <1>20

\* A piece is printed behind the text printed so far, and hides nothing of it.
LEMMA WhoisReceiveInv ==
    ASSUME WhoisInv, WhoisReceive PROVE WhoisInv'
<1>1. /\ pc = "receive" /\ reader < k /\ UNCHANGED <<tool, answers, pc, wire, k>>
      /\ buffer' = Over(Append(Piece, 0)) /\ reader' = reader + Len(Piece)
      /\ printed' = printed \o UpToNul(buffer')
  BY DEF WhoisReceive
<1>2. WhoisTypes /\ WhoisPrinted
  BY DEF WhoisInv
<1>3. PICK l \in 1 .. (BUF - 1), z \in Nat :
        /\ z \in 0 .. l
        /\ Len(Piece) = l /\ reader + l <= k
        /\ buffer' \in Seq(Nat) /\ Len(buffer') = BUF
        /\ UpToNul(buffer') = [i \in 1 .. z |-> reader + i]
        /\ z < l => answers[reader + z + 1] = 0
  BY <1>1, <1>2, PiecePrints
<1>4. PICK r \in Nat : r = reader /\ r <= k /\ k \in Nat
  BY <1>2 DEF WhoisTypes
<1>5. reader' = r + l /\ r + l <= k
  BY <1>1, <1>3, <1>4
<1>6. WhoisTypes'
  <2>1. reader' \in 0 .. k
    BY <1>4, <1>5
  <2> QED BY <1>1, <1>2, <1>3, <2>1 DEF WhoisTypes
<1>7. PICK s \in Seq(1 .. (r + l)) : s = printed
  <2>1. printed \in Seq(1 .. r) /\ 1 .. r \subseteq 1 .. (r + l)
    BY <1>2, <1>4 DEF WhoisPrinted
  <2> QED BY <2>1
<1>8. PICK u \in Seq(1 .. (r + l)) : u = [i \in 1 .. z |-> r + i]
  <2>1. \A i \in 1 .. z : r + i \in 1 .. (r + l)
    BY <1>3
  <2>2. [i \in 1 .. z |-> r + i] \in Seq(1 .. (r + l))
    BY <2>1
  <2> QED BY <2>2
<1>9. Len(u) = z /\ \A i \in 1 .. z : u[i] = r + i
  BY <1>8
<1>10. PICK n \in Nat : n = Len(s)
  OBVIOUS
<1>11. PICK t \in Seq(1 .. (r + l)) : t = s \o u /\ t = printed'
  <2>1. s \o u \in Seq(1 .. (r + l))
    BY Two
  <2> QED BY <1>1, <1>3, <1>4, <1>7, <1>8, <2>1
<1>12. /\ Len(t) = n + z
       /\ \A i \in 1 .. n : t[i] = s[i]
       /\ \A i \in 1 .. z : t[n + i] = r + i
  <2>1. /\ Len(s \o u) = Len(s) + Len(u)
        /\ \A i \in 1 .. Len(s) : (s \o u)[i] = s[i]
        /\ \A i \in 1 .. Len(u) : (s \o u)[Len(s) + i] = u[i]
    BY Two
  <2> QED BY <1>9, <1>10, <1>11, <2>1
<1>13. \A i \in 1 .. n : t[i] \in 1 .. r
  <2>1. printed \in Seq(1 .. r)
    BY <1>2, <1>4 DEF WhoisPrinted
  <2> QED BY <1>7, <1>10, <1>12, <2>1
<1>14. ASSUME NEW i \in 1 .. (n + z), ~(i \in 1 .. n)
       PROVE  \E c \in 1 .. z : i = n + c /\ t[i] = r + c
  <2>1. PICK c \in 1 .. z : i = n + c
    <3>1. i - n \in 1 .. z /\ i = n + (i - n)
      BY <1>14
    <3> QED BY <3>1
  <2> QED BY <1>12, <2>1
<1>15. ASSUME NEW i \in 1 .. (n + z), NEW j \in 1 .. (n + z), i < j PROVE t[i] < t[j]
  <2>1. CASE i \in 1 .. n /\ j \in 1 .. n
    BY <1>2, <1>7, <1>10, <1>12, <1>15, <2>1 DEF WhoisPrinted
  <2>2. CASE i \in 1 .. n /\ ~(j \in 1 .. n)
    BY <1>13, <1>14, <2>2
  <2>3. CASE ~(i \in 1 .. n) /\ ~(j \in 1 .. n)
    BY <1>14, <1>15, <2>3
  <2>4. ~(~(i \in 1 .. n) /\ j \in 1 .. n)
    BY <1>15
  <2> QED BY <2>1, <2>2, <2>3, <2>4
<1>16. ASSUME NEW j \in 1 .. (r + l), Visible(j)
       PROVE  \E i \in 1 .. (n + z) : t[i] = j
  <2>1. CASE j \in 1 .. r
    <3>1. PICK i \in 1 .. n : s[i] = j
      BY <1>2, <1>4, <1>7, <1>10, <1>16, <2>1 DEF WhoisPrinted
    <3>2. i \in 1 .. (n + z) /\ t[i] = j
      BY <1>12, <3>1
    <3> QED BY <3>2
  <2>2. CASE ~(j \in 1 .. r)
    <3>1. PICK c \in 1 .. l : j = r + c
      <4>1. j - r \in 1 .. l /\ j = r + (j - r)
        BY <2>2
      <4> QED BY <4>1
    <3>2. c \in 1 .. z
      <4>1. SUFFICES ASSUME z < c PROVE FALSE
        OBVIOUS
      <4>2. answers[r + z + 1] = 0
        BY <1>3, <1>4, <3>1, <4>1
      <4>3. BUF \in Nat /\ j \in Int
        BY TransferAssumption DEF TransferAssumption
      <4>4. PICK f \in Int : f = Max({1, j - BUF + 2}) /\ f = IF 1 >= j - BUF + 2 THEN 1 ELSE j - BUF + 2
        <5>1. PICK a \in Int : a = j - BUF + 2
          BY <4>3
        <5>2. PICK f \in Int : f = IF 1 >= a THEN 1 ELSE a
          OBVIOUS
        <5>3. Max({1, a}) = f
          <6>1. \A b \in Int : Max({1, b}) = IF 1 >= b THEN 1 ELSE b
            BY MaxTwo
          <6> QED BY <5>2, <6>1
        <5> QED BY <5>1, <5>2, <5>3
      <4>5. r + z + 1 \in f .. j
        BY <3>1, <4>1, <4>3, <4>4
      <4> QED BY <1>16, <4>2, <4>4, <4>5 DEF Visible
    <3>3. n + c \in 1 .. (n + z) /\ t[n + c] = j
      BY <1>12, <3>1, <3>2
    <3> QED BY <3>3
  <2> QED BY <2>1, <2>2
<1>17. \A j : Visible(j)' <=> Visible(j)
  BY <1>1 DEF Visible
<1>18. /\ t \in Seq(1 .. (r + l))
       /\ \A i, j \in 1 .. Len(t) : i < j => t[i] < t[j]
       /\ \A j \in 1 .. (r + l) : Visible(j)' => \E i \in 1 .. Len(t) : t[i] = j
  BY <1>12, <1>15, <1>16, <1>17
<1>19. WhoisPrinted'
  BY <1>5, <1>11, <1>18 DEF WhoisPrinted
<1> QED BY <1>6, <1>19 DEF WhoisInv

\* Steps that print nothing.
LEMMA WhoisPrintedStays ==
    ASSUME WhoisPrinted, UNCHANGED <<answers, reader, printed>>
    PROVE  WhoisPrinted'
BY DEF WhoisPrinted, Visible

\* Every step of Whois keeps its invariant.
LEMMA WhoisNextInv == WhoisInv /\ WhoisNext => WhoisInv'
<1> SUFFICES ASSUME WhoisInv, WhoisNext PROVE WhoisInv'
  OBVIOUS
<1>1. CASE \E ok \in BOOLEAN : WhoisConnect(ok) \/ WhoisSend(ok)
  <2>1. WhoisTypes'
    BY <1>1 DEF WhoisConnect, WhoisSend, WhoisInv, WhoisTypes
  <2> QED BY <1>1, <2>1, WhoisPrintedStays DEF WhoisConnect, WhoisSend, WhoisInv
<1>2. CASE WhoisEnds \/ WhoisFails \/ ServerCloses \/ Breaks
  <2>1. WhoisTypes'
    BY <1>2 DEF WhoisEnds, WhoisFails, ServerCloses, Breaks, WhoisInv, WhoisTypes
  <2> QED BY <1>2, <2>1, WhoisPrintedStays DEF WhoisEnds, WhoisFails, ServerCloses, Breaks, WhoisInv
<1>3. CASE Arrives
  <2>1. WhoisTypes'
    BY <1>3 DEF Arrives, WhoisInv, WhoisTypes
  <2> QED BY <1>3, <2>1, WhoisPrintedStays DEF Arrives, WhoisInv
<1> QED BY <1>1, <1>2, <1>3, WhoisReceiveInv DEF WhoisNext, WhoisProgram

\* The invariant says what is promised of Whois.
LEMMA WhoisShows == WhoisInv => WhoisText
<1> SUFFICES ASSUME WhoisInv PROVE WhoisText
  OBVIOUS
<1>1. WhoisTypes /\ WhoisPrinted
  BY DEF WhoisInv
<1>2. DOMAIN printed = 1 .. Len(printed) /\ ToSet(printed) = {printed[i] : i \in 1 .. Len(printed)}
  BY <1>1 DEF WhoisPrinted, ToSet
<1>3. \A i, j \in DOMAIN printed : i < j => printed[i] < printed[j]
  BY <1>1, <1>2 DEF WhoisPrinted
<1>4. ToSet(printed) \subseteq 1 .. reader
  <2>1. printed \in Seq(1 .. reader)
    BY <1>1 DEF WhoisPrinted
  <2>2. \A i \in 1 .. Len(printed) : printed[i] \in 1 .. reader
    <3>1. PICK T : T = 1 .. reader
      OBVIOUS
    <3>2. printed \in Seq(T)
      BY <2>1, <3>1
    <3>3. \A i \in 1 .. Len(printed) : printed[i] \in T
      BY <3>2
    <3> QED BY <3>1, <3>3
  <2> QED BY <1>2, <2>2
<1>5. \A j \in 1 .. reader :
        (\A i \in Max({1, j - BUF + 2}) .. j : answers[i] # 0) => j \in ToSet(printed)
  BY <1>1, <1>2 DEF WhoisPrinted, Visible
<1>6. (pc = "done" => reader = Len(answers)) /\ Len(buffer) = BUF
  BY <1>1 DEF WhoisTypes
<1> QED BY <1>3, <1>4, <1>5, <1>6 DEF WhoisText

-----------------------------------------------------------------------------
(* All five tools. *)

TransferInv == WalkInv \/ AxfrInv \/ WhoisInv

\* Each tool keeps its own invariant.
THEOREM TransferInvariant == TransferSpec => []TransferInv
<1>1. TransferInit => TransferInv
  BY WalkInit, AxfrInitInv, WhoisInitInv DEF TransferInit, TransferInv
<1>2. TransferInv /\ [TransferNext]_vars => TransferInv'
  <2> SUFFICES ASSUME TransferInv, [TransferNext]_vars PROVE TransferInv'
    OBVIOUS
  <2>1. CASE WalkInv
    <3>1. tool \in Tools /\ tool # "axfr" /\ tool # "whois"
      BY <2>1 DEF WalkInv, WalkTypes, Tools
    <3>2. CASE UNCHANGED vars
      BY <2>1, <3>2, WalkStays DEF vars, TransferInv
    <3> QED BY <2>1, <3>1, <3>2, WalkNext DEF TransferNext, TransferInv
  <2>2. CASE AxfrInv
    <3>1. tool \notin Tools /\ tool # "whois"
      BY <2>2 DEF AxfrInv, Tools
    <3>2. CASE UNCHANGED vars
      <4>1. PICK order : Received(order)
        BY <2>2 DEF AxfrInv
      <4>2. Received(order)'
        BY <3>2, <4>1, ReceivedStays DEF vars, Received
      <4>3. \E o : Received(o)'
        BY <4>2
      <4>4. AxfrInv'
        BY <2>2, <3>2, <4>3 DEF vars, AxfrInv, Copies
      <4> QED BY <4>4 DEF TransferInv
    <3> QED BY <2>2, <3>1, <3>2, AxfrNextInv DEF TransferNext, TransferInv, AxfrInv
  <2>3. CASE WhoisInv
    <3>1. tool \notin Tools /\ tool # "axfr"
      BY <2>3 DEF WhoisInv, WhoisTypes, Tools
    <3>2. CASE UNCHANGED vars
      <4>1. WhoisTypes' /\ WhoisPrinted'
        BY <2>3, <3>2, WhoisPrintedStays DEF vars, WhoisInv, WhoisTypes
      <4> QED BY <4>1 DEF TransferInv, WhoisInv
    <3> QED BY <2>3, <3>1, <3>2, WhoisNextInv DEF TransferNext, TransferInv
  <2> QED BY <2>1, <2>2, <2>3 DEF TransferInv
<1> QED BY <1>1, <1>2, PTL DEF TransferSpec

\* The invariant of each tool says what is promised of it, and nothing of the others.
LEMMA TransferShows ==
    TransferInv => NslookupWalks /\ RightUpToName /\ AxfrDatagrams /\ WhoisText
<1>1. CASE WalkInv
  <2>1. tool \in Tools /\ tool # "axfr" /\ tool # "whois"
    BY <1>1 DEF WalkInv, WalkTypes, Tools
  <2> QED BY <1>1, <2>1, WalkShows DEF AxfrDatagrams, WhoisText
<1>2. CASE AxfrInv
  <2>1. tool = "axfr" /\ "axfr" \notin Tools
    BY <1>2 DEF AxfrInv, Tools
  <2> QED BY <1>2, <2>1, AxfrShows DEF NslookupWalks, RightUpToName, WhoisText
<1>3. CASE WhoisInv
  <2>1. tool = "whois" /\ "whois" \notin Tools
    BY <1>3 DEF WhoisInv, WhoisTypes, Tools
  <2> QED BY <1>3, <2>1, WhoisShows DEF NslookupWalks, RightUpToName, AxfrDatagrams
<1> QED BY <1>1, <1>2, <1>3 DEF TransferInv

\* On pointers the walk of Nslookup stays in step with any number of records.
THEOREM WalkInStep == TransferSpec => []NslookupWalks
<1>1. TransferInv => NslookupWalks
  BY TransferShows
<1> QED BY <1>1, TransferInvariant, PTL

\* Whatever the names, what Nslookup prints up to the first that is no pointer is right,
\* and of that record it prints nothing; Dig takes nothing in a record for an address.
THEOREM RightSoFar == TransferSpec => []RightUpToName
<1>1. TransferInv => RightUpToName
  BY TransferShows
<1> QED BY <1>1, TransferInvariant, PTL

\* What AXFR prints is whole datagrams, in any order and each no more often than it was
\* delivered, up to the first short one.
THEOREM WholeDatagrams == TransferSpec => []AxfrDatagrams
<1>1. TransferInv => AxfrDatagrams
  BY TransferShows
<1> QED BY <1>1, TransferInvariant, PTL

\* Whois prints its text once and in order, in pieces of any size, and a NUL hides
\* no more than the rest of its piece.
THEOREM TextOnce == TransferSpec => []WhoisText
<1>1. TransferInv => WhoisText
  BY TransferShows
<1> QED BY <1>1, TransferInvariant, PTL
===============================================================================
