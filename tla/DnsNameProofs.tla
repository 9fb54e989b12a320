--------------------------- MODULE DnsNameProofs ---------------------------
(***************************************************************************)
(* For every domain, of any length that fits the buffer: the loops of the  *)
(* DNS tools get the inner lengths right, and Dnsenum's question is        *)
(* readable whenever the name is legal.                                    *)
(*                                                                         *)
(* The loop invariant: the cursor p is at a start, all starts before it    *)
(* lead to the next one, and for Dnsenum the letters before it are copied. *)
(***************************************************************************)
EXTENDS DnsName, TLAPS

\* The length bytes before k are right, and the letters before k are copied.
LengthsTo(k) == \A s \in Starts : s < k => Leads(s)
LettersTo(k) == \A j \in 1 .. (k - 1) : ~IsDot(j) => dest[j] = domain[j]

LoopInv ==
    /\ phase = "strcat" => program = "nslookup" /\ p = 0 /\ i = 0
    /\ phase = "encode" =>
        /\ p \in Starts /\ LengthsTo(p)
        /\ program = "dnsenum" => LettersTo(p)
        /\ program # "dnsenum" => p <= i /\ NoDot(p + 1, i)
    /\ phase = "question" =>
        /\ InnerLengths
        /\ program = "dnsenum" => LengthsTo(n + 1) /\ LettersTo(n + 1) /\ dest[n + 1] = 0
    /\ phase = "done" => DnsenumReadable

Inv == NameTypes /\ LoopInv

-----------------------------------------------------------------------------

\* What the types say of the domain.
LEMMA DomainFacts ==
    ASSUME NameTypes
    PROVE  /\ n \in 1 .. 255 /\ n + 6 <= Size /\ Size \in Nat
           /\ p \in 0 .. n /\ i \in 0 .. n
           /\ \A k \in 1 .. n : domain[k] \in Bytes /\ domain[k] \notin Nat
           /\ Starts \subseteq 0 .. n
<1>1. /\ domain \in Seq(Letters \cup {DOT}) /\ n \in 1 .. 255 /\ n + 6 <= Size
      /\ Size \in Nat
  BY DnsNameAssumption DEF NameTypes, n
<1>2. \A k \in 1 .. n : domain[k] \in Letters \cup {DOT} BY <1>1 DEF n
<1>3. \A x \in Letters \cup {DOT} : x \in Bytes /\ x \notin Nat
  BY DnsNameAssumption DEF Bytes
<1>4. p \in 0 .. n /\ i \in 0 .. n BY DEF NameTypes
<1>5. Starts \subseteq 0 .. n BY <1>1 DEF Starts
<1> QED BY <1>1, <1>2, <1>3, <1>4, <1>5

\* Bytes written over the buffer leave bytes in it.
LEMMA OverType ==
    ASSUME NameTypes, NEW f, \A k \in DOMAIN f : f[k] \in Bytes
    PROVE  Overwritten(f) \in [Index -> Bytes]
BY DEF Overwritten, NameTypes

\* A label is made of bytes.
LEMMA LabelType ==
    ASSUME NameTypes, NEW l \in 0 .. 255, NEW e \in 1 .. (n + 1)
    PROVE  /\ DOMAIN LabelBytes(l, e) = p .. (e - 1)
           /\ \A k \in DOMAIN LabelBytes(l, e) : LabelBytes(l, e)[k] \in Bytes
<1>1. l \in Bytes BY DEF Bytes
<1>2. \A k \in p .. (e - 1) : k # p => k \in 1 .. n BY DomainFacts
<1> QED BY <1>1, <1>2, DomainFacts DEF LabelBytes

\* The names do not change.
LEMMA SameName ==
    ASSUME domain' = domain
    PROVE  /\ n' = n /\ Starts' = Starts
           /\ \A k : IsDot(k)' = IsDot(k)
           /\ \A j, k : NoDot(j, k)' = NoDot(j, k)
BY DEF n, Starts, IsDot, NoDot

\* A length that is not written over leads where it led.
LEMMA LeadsKept ==
    ASSUME NameTypes, domain' = domain, NEW s \in Starts, dest'[s] = dest[s]
    PROVE  Leads(s)' = Leads(s)
BY SameName DEF Leads, n, IsDot, NoDot

\* A length byte that holds the distance to the next dot, or to the end, leads
\* there.
LEMMA LeadsNew ==
    ASSUME NameTypes, domain' = domain, NEW s \in 0 .. n, NEW e \in (s + 1) .. (n + 1),
           dest'[s] = e - s - 1, NoDot(s + 1, e - 1), e <= n => IsDot(e)
    PROVE  Leads(s)'
<1>1. n \in 1 .. 255 BY DomainFacts
<1>2. s + dest'[s] = e - 1 /\ dest'[s] \in 0 .. (n - s) BY <1>1
<1>3. s + dest'[s] + 1 = e BY <1>1, <1>2
<1> QED BY <1>1, <1>2, <1>3, SameName, SMTT(60) DEF Leads, n, IsDot, NoDot

-----------------------------------------------------------------------------

\* NameInit establishes the invariant.
LEMMA InitInv == NameInit => Inv
<1> SUFFICES ASSUME NameInit PROVE Inv OBVIOUS
<1>1. dest \in [Index -> Bytes] BY DEF NameInit, Bytes
<1>2. n \in Nat /\ Size \in Nat BY DnsNameAssumption, SMTT(60) DEF NameInit, n
<1>3. NameTypes BY <1>1, <1>2 DEF NameInit, NameTypes
<1>4. 0 \in Starts /\ LengthsTo(0) /\ LettersTo(0)
  BY <1>3, DomainFacts DEF Starts, LengthsTo, LettersTo
<1>5. NoDot(1, 0) BY DEF NoDot
<1> QED BY <1>3, <1>4, <1>5, DnsNameAssumption, SMTT(60) DEF Inv, LoopInv, NameInit

\* Dnsenum's next label.
LEMMA DnsenumLabelInv == Inv /\ DnsenumLabel => Inv'
<1> SUFFICES ASSUME Inv, DnsenumLabel PROVE Inv' OBVIOUS
<1> USE DEF Inv
<1>1. PICK e \in (p + 1) .. n :
        /\ IsDot(e) /\ NoDot(p + 1, e - 1)
        /\ dest' = Overwritten(LabelBytes(e - p - 1, e)) /\ p' = e
  BY DEF DnsenumLabel
<1>2. /\ n \in 1 .. 255 /\ n + 6 <= Size /\ Size \in Nat /\ p \in 0 .. n
      /\ e \in 1 .. n /\ e - p - 1 \in 0 .. 255 /\ Starts \subseteq 0 .. n
  <2>1. n \in 1 .. 255 /\ n + 6 <= Size /\ Size \in Nat /\ p \in 0 .. n /\ Starts \subseteq 0 .. n
    BY DomainFacts
  <2>2. e \in (p + 1) .. n BY <1>1
  <2> QED BY <2>1, <2>2
<1>3. /\ domain' = domain /\ program' = program /\ phase' = phase /\ i' = i
      /\ qtypeAt' = qtypeAt /\ size' = size /\ phase = "encode" /\ program = "dnsenum"
  BY DEF DnsenumLabel
<1>4. dest' \in [Index -> Bytes]
  <2>1. e \in 1 .. (n + 1) BY <1>2
  <2>2. \A k \in DOMAIN LabelBytes(e - p - 1, e) : LabelBytes(e - p - 1, e)[k] \in Bytes
    BY <2>1, <1>2, LabelType
  <2> QED BY <2>2, <1>1, OverType
<1>5. NameTypes' BY <1>1, <1>2, <1>3, <1>4, SameName DEF NameTypes
<1>6. \A k \in Index : dest'[k] = IF k = p THEN e - p - 1
                                  ELSE IF k \in (p + 1) .. (e - 1) THEN domain[k]
                                  ELSE dest[k]
  BY <1>1, <1>2 DEF Overwritten, LabelBytes, Index
<1>7. \A k \in 0 .. n : k \in Index BY <1>2 DEF Index
<1>8. LengthsTo(e)'
  <2> SUFFICES ASSUME NEW s \in Starts, s < e PROVE Leads(s)'
    BY <1>3, SameName DEF LengthsTo
  <2>1. CASE s < p
    <3>1. dest'[s] = dest[s] BY <2>1, <1>2, <1>6, <1>7
    <3> QED BY <2>1, <3>1, <1>3, LeadsKept DEF LoopInv, LengthsTo
  <2>2. CASE s = p
    <3>1. dest'[s] = e - s - 1 BY <2>2, <1>2, <1>6, <1>7
    <3> QED BY <2>2, <3>1, <1>1, <1>2, <1>3, LeadsNew
  <2>3. CASE s > p BY <2>3, <1>1, <1>2 DEF NoDot, Starts
  <2> QED BY <2>1, <2>2, <2>3, <1>2
<1>9. LettersTo(e)'
  <2> SUFFICES ASSUME NEW j \in 1 .. (e - 1), ~IsDot(j) PROVE dest'[j] = domain[j]
    BY <1>3, SameName DEF LettersTo
  <2>1. CASE j < p
    <3>1. dest[j] = domain[j] BY <2>1, <1>2, <1>3 DEF LoopInv, LettersTo
    <3> QED BY <3>1, <2>1, <1>2, <1>6, <1>7
  <2>2. CASE j = p BY <2>2, <1>2, <1>3 DEF LoopInv, Starts
  <2>3. CASE j > p BY <2>3, <1>2, <1>6, <1>7
  <2>4. j \in Int /\ p \in Int BY <1>2
  <2> QED BY <2>1, <2>2, <2>3, <2>4
<1>10. e \in Starts BY <1>1, <1>2 DEF Starts
<1>11. LoopInv'
  BY <1>1, <1>3, <1>8, <1>9, <1>10, SameName DEF LoopInv, LengthsTo, LettersTo
<1> QED BY <1>5, <1>11

\* Dnsenum's last label, with the zero behind it.
LEMMA DnsenumLastInv == Inv /\ DnsenumLast => Inv'
<1> SUFFICES ASSUME Inv, DnsenumLast PROVE Inv' OBVIOUS
<1> USE DEF Inv
<1>1. /\ n \in 1 .. 255 /\ n + 6 <= Size /\ Size \in Nat /\ p \in 0 .. n
      /\ Starts \subseteq 0 .. n
  BY DomainFacts
<1>2. n - p \in 0 .. 255 BY <1>1
<1>3. /\ domain' = domain /\ program' = program /\ p' = p /\ i' = i /\ qtypeAt' = qtypeAt
      /\ size' = size /\ phase = "encode" /\ program = "dnsenum" /\ phase' = "question"
      /\ NoDot(p + 1, n)
      /\ dest' = [Overwritten(LabelBytes(n - p, n + 1)) EXCEPT ![n + 1] = 0]
  BY DEF DnsenumLast
<1>4. Overwritten(LabelBytes(n - p, n + 1)) \in [Index -> Bytes]
  <2>1. n + 1 \in 1 .. (n + 1) BY <1>1
  <2>2. \A k \in DOMAIN LabelBytes(n - p, n + 1) : LabelBytes(n - p, n + 1)[k] \in Bytes
    BY <2>1, <1>2, LabelType
  <2> QED BY <2>2, OverType
<1>5. dest' \in [Index -> Bytes]
  <2>1. 0 \in Bytes BY DEF Bytes
  <2> QED BY <2>1, <1>3, <1>4
<1>6. NameTypes' BY <1>3, <1>5, SameName DEF NameTypes
<1>7. n + 1 \in Index /\ \A k \in 0 .. n : k \in Index /\ k # n + 1 BY <1>1 DEF Index
<1>8. \A k \in 0 .. n : dest'[k] = IF k = p THEN n - p
                                   ELSE IF k \in (p + 1) .. n THEN domain[k]
                                   ELSE dest[k]
  BY <1>1, <1>3, <1>4, <1>7 DEF Overwritten, LabelBytes
<1>9. dest'[n + 1] = 0 BY <1>3, <1>4, <1>7
<1>10. \A s \in Starts : Leads(s)'
  <2> SUFFICES ASSUME NEW s \in Starts PROVE Leads(s)' OBVIOUS
  <2>1. CASE s < p
    <3>1. dest'[s] = dest[s] BY <2>1, <1>1, <1>8
    <3> QED BY <2>1, <3>1, <1>3, LeadsKept DEF LoopInv, LengthsTo
  <2>2. CASE s = p
    <3>1. dest'[s] = (n + 1) - s - 1 BY <2>2, <1>1, <1>8
    <3>2. n + 1 \in (s + 1) .. (n + 1) /\ NoDot(s + 1, (n + 1) - 1) BY <2>2, <1>1, <1>3
    <3> QED BY <2>2, <3>1, <3>2, <1>1, <1>3, LeadsNew
  <2>3. CASE s > p BY <2>3, <1>1, <1>3 DEF NoDot, Starts
  <2>4. s \in Int /\ p \in Int BY <1>1
  <2> QED BY <2>1, <2>2, <2>3, <2>4
<1>11. \A j \in 1 .. n : ~IsDot(j) => dest'[j] = domain[j]
  <2> SUFFICES ASSUME NEW j \in 1 .. n, ~IsDot(j) PROVE dest'[j] = domain[j] OBVIOUS
  <2>1. CASE j < p
    <3>1. dest[j] = domain[j] BY <2>1, <1>1, <1>3 DEF LoopInv, LettersTo
    <3> QED BY <3>1, <2>1, <1>1, <1>8
  <2>2. CASE j = p BY <2>2, <1>1, <1>3 DEF LoopInv, Starts
  <2>3. CASE j > p BY <2>3, <1>1, <1>8
  <2>4. j \in Int /\ p \in Int BY <1>1
  <2> QED BY <2>1, <2>2, <2>3, <2>4
<1>12. LettersTo(n + 1)' BY <1>1, <1>3, <1>11, SameName DEF LettersTo
<1>13. LengthsTo(n + 1)' /\ InnerLengths'
  BY <1>3, <1>10, SameName DEF LengthsTo, InnerLengths
<1>14. LoopInv' BY <1>3, <1>9, <1>12, <1>13, SameName DEF LoopInv, LengthsTo, LettersTo
<1> QED BY <1>6, <1>14

\* Nslookup's dot is written before the loop; it is in nobody's way.
LEMMA StrcatInv == Inv /\ NslookupStrcat => Inv'
<1> SUFFICES ASSUME Inv, NslookupStrcat PROVE Inv' OBVIOUS
<1> USE DEF Inv
<1>1. PICK z \in 0 .. Size :
        dest' = Overwritten([k \in {z, z + 1} |-> IF k = z THEN DOT ELSE 0])
  BY DEF NslookupStrcat
<1>2. /\ domain' = domain /\ program' = program /\ p' = p /\ i' = i /\ qtypeAt' = qtypeAt
      /\ size' = size /\ phase' = "encode" /\ program = "nslookup" /\ p = 0 /\ i = 0
  BY DEF NslookupStrcat, LoopInv
<1>3. dest' \in [Index -> Bytes]
  <2>1. DOT \in Bytes /\ 0 \in Bytes BY DEF Bytes
  <2> QED BY <2>1, <1>1, OverType
<1>4. NameTypes' BY <1>2, <1>3, SameName DEF NameTypes
<1>5. 0 \in Starts /\ NoDot(1, 0) BY DEF Starts, NoDot
<1>6. LengthsTo(0)' BY <1>2, SameName, DomainFacts DEF LengthsTo
<1> QED BY <1>2, <1>4, <1>5, <1>6, SameName DEF LoopInv

\* One character of the loops of Nslookup and Dig.  A dot at i + 1 closes the
\* label that starts at p; another character is written behind p, or not at all.
LEMMA CharInv ==
    ASSUME Inv, phase = "encode", program # "dnsenum", i < n, i' = i + 1,
           UNCHANGED <<program, domain, phase, qtypeAt, size>>,
           IF IsDot(i + 1)
           THEN dest' = [dest EXCEPT ![p] = i - p] /\ p' = i + 1
           ELSE dest' \in {dest, [dest EXCEPT ![i + 1] = domain[i + 1]]} /\ p' = p
    PROVE  Inv'
<1> USE DEF Inv
<1>1. /\ n \in 1 .. 255 /\ n + 6 <= Size /\ Size \in Nat /\ p \in 0 .. n
      /\ Starts \subseteq 0 .. n /\ i \in 0 .. n /\ p <= i /\ NoDot(p + 1, i)
      /\ p \in Starts /\ LengthsTo(p)
  BY DomainFacts DEF LoopInv
<1>2. \A k \in 0 .. n : k \in Index BY <1>1 DEF Index
<1>3. dest \in [Index -> Bytes] BY DEF NameTypes
<1>4. CASE IsDot(i + 1)
  <2>1. i - p \in Bytes BY <1>1 DEF Bytes
  <2>2. dest' \in [Index -> Bytes] BY <2>1, <1>3, <1>4
  <2>3. p' \in 0 .. n /\ i' \in 0 .. n /\ p' = i' BY <1>1, <1>4
  <2>4. NameTypes' BY <2>2, <2>3, SameName DEF NameTypes
  <2>5. \A s \in Starts : s < i + 1 => Leads(s)'
    <3> SUFFICES ASSUME NEW s \in Starts, s < i + 1 PROVE Leads(s)' OBVIOUS
    <3>1. CASE s < p
      <4>1. dest'[s] = dest[s] BY <3>1, <1>1, <1>2, <1>3, <1>4
      <4> QED BY <3>1, <4>1, <1>1, LeadsKept DEF LengthsTo
    <3>2. CASE s = p
      <4>1. dest'[s] = (i + 1) - s - 1 BY <3>2, <1>1, <1>2, <1>3, <1>4
      <4>2. i + 1 \in (s + 1) .. (n + 1) /\ NoDot(s + 1, (i + 1) - 1) BY <3>2, <1>1
      <4>3. s \in 0 .. n BY <1>1
      <4> QED BY <4>1, <4>2, <4>3, <1>4, LeadsNew
    <3>3. CASE s > p
      <4>1. s \in (p + 1) .. i BY <3>3, <1>1
      <4> QED BY <4>1, <1>1 DEF NoDot, Starts
    <3>4. s \in Int /\ p \in Int BY <1>1
    <3> QED BY <3>1, <3>2, <3>3, <3>4
  <2>6. i + 1 \in Starts BY <1>1, <1>4 DEF Starts
  <2>7. NoDot(i + 2, i + 1) BY <1>1 DEF NoDot
  <2>8. LoopInv'
    <3>1. p' = i + 1 /\ p' + 1 = i + 2 /\ p' <= i' BY <1>1, <1>4
    <3>2. LengthsTo(p)' BY <2>5, <3>1, SameName DEF LengthsTo
    <3>3. NoDot(p + 1, i)' BY <2>7, <3>1, SameName DEF NoDot, IsDot
    <3>4. (p \in Starts)' BY <2>6, <3>1, SameName
    <3> QED BY <3>1, <3>2, <3>3, <3>4 DEF LoopInv
  <2> QED BY <2>4, <2>8
<1>5. CASE ~IsDot(i + 1)
  <2>1. domain[i + 1] \in Bytes BY <1>1, DomainFacts
  <2>2. dest' \in [Index -> Bytes] BY <2>1, <1>3, <1>5
  <2>3. i' \in 0 .. n /\ p' = p BY <1>1, <1>5
  <2>4. NameTypes' BY <2>2, <2>3, SameName DEF NameTypes
  <2>5. \A s \in Starts : s < p => Leads(s)'
    <3> SUFFICES ASSUME NEW s \in Starts, s < p PROVE Leads(s)' OBVIOUS
    <3>1. dest'[s] = dest[s] BY <1>1, <1>2, <1>3, <1>5
    <3> QED BY <3>1, <1>1, LeadsKept DEF LengthsTo
  <2>6. NoDot(p + 1, i + 1) BY <1>1, <1>5 DEF NoDot
  <2>7. LoopInv'
    <3>1. LengthsTo(p)' BY <2>3, <2>5, SameName DEF LengthsTo
    <3>2. p <= i + 1 BY <1>1
    <3> QED BY <2>3, <2>6, <3>1, <3>2, <1>1, SameName DEF LoopInv, LengthsTo
  <2> QED BY <2>4, <2>7
<1> QED BY <1>4, <1>5

\* At the end of the loops only the last start has no right length.
LEMMA EndInv ==
    ASSUME Inv, phase = "encode", program # "dnsenum", i = n, phase' = "question",
           UNCHANGED <<program, domain, p, i, qtypeAt, size>>,
           dest' \in {dest, [dest EXCEPT ![p] = n - p]}
    PROVE  Inv'
<1> USE DEF Inv
<1>1. /\ n \in 1 .. 255 /\ n + 6 <= Size /\ Size \in Nat /\ p \in 0 .. n
      /\ Starts \subseteq 0 .. n /\ NoDot(p + 1, n) /\ LengthsTo(p)
  BY DomainFacts DEF LoopInv
<1>2. \A k \in 0 .. n : k \in Index BY <1>1 DEF Index
<1>3. dest \in [Index -> Bytes] BY DEF NameTypes
<1>4. dest' \in [Index -> Bytes]
  <2>1. n - p \in Bytes BY <1>1 DEF Bytes
  <2> QED BY <2>1, <1>3
<1>5. NameTypes' BY <1>4, SameName DEF NameTypes
<1>6. InnerLengths'
  <2> SUFFICES ASSUME NEW s \in Starts, ~NoDot(s + 1, n) PROVE Leads(s)'
    BY SameName DEF InnerLengths
  <2>1. s < p
    <3> SUFFICES ASSUME s >= p PROVE FALSE BY <1>1
    <3>1. \A k \in (s + 1) .. n : k \in (p + 1) .. n BY <1>1
    <3> QED BY <3>1, <1>1 DEF NoDot
  <2>2. dest'[s] = dest[s] BY <2>1, <1>1, <1>2, <1>3
  <2> QED BY <2>1, <2>2, <1>1, LeadsKept DEF LengthsTo
<1> QED BY <1>5, <1>6, SameName DEF LoopInv

\* The type and the class go behind the first zero; for a legal name that is at
\* its end, because no length and no letter before it is 0.
LEMMA QuestionInv == Inv /\ Question => Inv'
<1> SUFFICES ASSUME Inv, Question PROVE Inv' OBVIOUS
<1> USE DEF Inv
<1>1. PICK z \in 0 .. Size :
        IsStrLen(z) /\ dest' = TypeAndClass(z + 1) /\ qtypeAt' = z + 1 /\ size' = z + 5
  BY DEF Question
<1>2. /\ n \in 1 .. 255 /\ n + 6 <= Size /\ Size \in Nat /\ Starts \subseteq 0 .. n
      /\ \A k \in 1 .. n : domain[k] \notin Nat
  BY DomainFacts
<1>3. /\ domain' = domain /\ program' = program /\ p' = p /\ i' = i
      /\ phase = "question" /\ phase' = "done"
  BY DEF Question
<1>4. \A k \in Index : dest'[k] = IF k \in (z + 1) .. (z + 4)
                                  THEN IF k \in {z + 2, z + 4} THEN 1 ELSE 0
                                  ELSE dest[k]
  BY <1>1, <1>2 DEF TypeAndClass, Overwritten
<1>5. dest' \in [Index -> Bytes]
  <2> DEFINE f == [k \in (z + 1) .. (z + 1 + 3) |->
                     IF k \in {z + 1 + 1, z + 1 + 3} THEN 1 ELSE 0]
  <2>1. 0 \in Bytes /\ 1 \in Bytes BY DEF Bytes
  <2>2. \A k \in DOMAIN f : f[k] \in Bytes BY <2>1
  <2>3. dest' = Overwritten(f) BY <1>1 DEF TypeAndClass
  <2> HIDE DEF f
  <2> QED BY <2>2, <2>3, OverType
<1>6. NameTypes'
  <2>1. qtypeAt' \in 0 .. (Size + 1) /\ size' \in 0 .. (Size + 5) BY <1>1, <1>2
  <2> QED BY <2>1, <1>3, <1>5, SameName DEF NameTypes
<1>7. ASSUME program = "dnsenum", Legal PROVE Readable'
  <2>1. /\ \A s \in Starts : Leads(s)
        /\ \A k \in 1 .. n : ~IsDot(k) => dest[k] = domain[k]
        /\ dest[n + 1] = 0
    BY <1>2, <1>3, <1>7 DEF LoopInv, LengthsTo, LettersTo
  <2>2. \A k \in 0 .. (n - 1) : dest[k] # 0
    <3> SUFFICES ASSUME NEW k \in 0 .. (n - 1), dest[k] = 0 PROVE FALSE OBVIOUS
    <3>1. CASE k \in Starts
      <4>1. IsDot(k + 1) BY <2>1, <3>1, <1>2 DEF Leads
      <4> QED BY <4>1, <3>1, <1>2, <1>7 DEF Legal, Starts
    <3>2. CASE k \notin Starts
      <4>1. k \in 1 .. n /\ ~IsDot(k) BY <3>2, <1>2 DEF Starts
      <4> QED BY <4>1, <2>1, <1>2
    <3> QED BY <3>1, <3>2
  <2>3. z \in {n, n + 1}
    <3>1. z >= n
      <4> SUFFICES ASSUME z < n PROVE FALSE BY <1>2
      <4>1. z \in 0 .. (n - 1) /\ z < Size BY <1>2
      <4> QED BY <4>1, <2>2, <1>1 DEF IsStrLen
    <3>2. z <= n + 1
      <4> SUFFICES ASSUME z > n + 1 PROVE FALSE BY <1>2
      <4>1. n + 1 \in 0 .. (z - 1) BY <1>2
      <4> QED BY <4>1, <2>1, <1>1 DEF IsStrLen
    <3> QED BY <3>1, <3>2, <1>2
  <2>4. \A k \in 0 .. z : k \in Index /\ dest'[k] = dest[k] BY <2>3, <1>2, <1>4 DEF Index
  <2>5. dest'[z] = 0 /\ \A k \in 0 .. (z - 1) : dest'[k] # 0
    <3>1. z < Size BY <2>3, <1>2
    <3> QED BY <3>1, <2>4, <1>1 DEF IsStrLen
  <2>6. \A s \in Starts : Leads(s)' /\ dest'[s] <= MAX_LABEL
    <3> SUFFICES ASSUME NEW s \in Starts PROVE Leads(s)' /\ dest'[s] <= MAX_LABEL OBVIOUS
    <3>1. s \in 0 .. z BY <2>3, <1>2
    <3>2. dest'[s] = dest[s] BY <3>1, <2>4
    <3>3. dest[s] \in 0 .. (n - s) /\ NoDot(s + 1, s + dest[s]) BY <2>1 DEF Leads
    <3>4. dest[s] <= MAX_LABEL
      <4> SUFFICES ASSUME dest[s] > MAX_LABEL PROVE FALSE BY <3>3, DnsNameAssumption, SMTT(60)
      <4>1. s \in 0 .. n /\ MAX_LABEL \in Nat BY <1>2, DnsNameAssumption
      <4>2. s + MAX_LABEL < n BY <3>3, <4>1, <1>2
      <4>3. \A k \in (s + 1) .. (s + MAX_LABEL + 1) : k \in (s + 1) .. (s + dest[s])
        BY <3>3, <4>1
      <4>4. NoDot(s + 1, s + MAX_LABEL + 1) BY <4>3, <3>3 DEF NoDot
      <4> QED BY <4>2, <4>4, <1>7 DEF Legal
    <3> QED BY <3>2, <3>4, <2>1, <1>3, LeadsKept
  <2>7. \A k \in 1 .. n : ~IsDot(k) => dest'[k] = domain[k]
    <3>1. \A k \in 1 .. n : k \in 0 .. z BY <2>3, <1>2
    <3> QED BY <3>1, <2>1, <2>4
  <2>8. /\ qtypeAt' \in {n + 1, n + 2} /\ size' = qtypeAt' + 4
        /\ qtypeAt' - 1 = z /\ qtypeAt' - 2 = z - 1
    BY <2>3, <1>1, <1>2
  <2> QED BY <2>5, <2>6, <2>7, <2>8, <1>3, SameName DEF Readable
<1>8. Legal' = Legal BY <1>3, SameName DEF Legal, NoDot, IsDot
<1>9. LoopInv' BY <1>3, <1>7, <1>8 DEF LoopInv, DnsenumReadable
<1> QED BY <1>6, <1>9

\* Dig's question is not Dnsenum's.
LEMMA DigQuestionInv == Inv /\ DigQuestion => Inv'
<1> SUFFICES ASSUME Inv, DigQuestion PROVE Inv' OBVIOUS
<1> USE DEF Inv
<1>1. n \in 1 .. 255 /\ n + 6 <= Size /\ Size \in Nat BY DomainFacts
<1>2. dest' \in [Index -> Bytes]
  <2> DEFINE f == [k \in (n + 1) .. (n + 1 + 3) |->
                     IF k \in {n + 1 + 1, n + 1 + 3} THEN 1 ELSE 0]
  <2>1. 0 \in Bytes /\ 1 \in Bytes BY DEF Bytes
  <2>2. \A k \in DOMAIN f : f[k] \in Bytes BY <2>1
  <2>3. dest' = Overwritten(f) BY DEF DigQuestion, TypeAndClass
  <2> HIDE DEF f
  <2> QED BY <2>2, <2>3, OverType
<1>3. qtypeAt' \in 0 .. (Size + 1) /\ size' \in 0 .. (Size + 5)
  BY <1>1 DEF DigQuestion
<1>4. NameTypes' BY <1>2, <1>3, SameName DEF NameTypes, DigQuestion
<1> QED BY <1>4 DEF LoopInv, DigQuestion, DnsenumReadable

-----------------------------------------------------------------------------

\* Every step of the encoders preserves the invariant.
THEOREM Invariant == NameSpec => []Inv
<1>1. Inv /\ [NameNext]_nameVars => Inv'
  <2> SUFFICES ASSUME Inv, [NameNext]_nameVars PROVE Inv' OBVIOUS
  <2>1. CASE DnsenumLabel BY <2>1, DnsenumLabelInv
  <2>2. CASE DnsenumLast BY <2>2, DnsenumLastInv
  <2>3. CASE NslookupStrcat BY <2>3, StrcatInv
  <2>4. CASE NslookupChar BY <2>4, CharInv DEF NslookupChar
  <2>5. CASE NslookupEnd BY <2>5, EndInv DEF NslookupEnd
  <2>6. CASE DigChar BY <2>6, CharInv DEF DigChar
  <2>7. CASE DigLast BY <2>7, EndInv DEF DigLast
  <2>8. CASE Question BY <2>8, QuestionInv
  <2>9. CASE DigQuestion BY <2>9, DigQuestionInv
  <2>10. CASE UNCHANGED nameVars
    BY <2>10 DEF nameVars, Inv, NameTypes, LoopInv, LengthsTo, LettersTo, InnerLengths,
       DnsenumReadable, Readable, Legal, Leads, Starts, NoDot, IsDot, n
  <2> QED BY <2>1, <2>2, <2>3, <2>4, <2>5, <2>6, <2>7, <2>8, <2>9, <2>10 DEF NameNext
<1> QED BY <1>1, InitInv, PTL DEF NameSpec

\* Dnsenum's question is readable for every legal name that fits the buffer.
THEOREM DnsenumEncodes == NameSpec => []DnsenumReadable
<1>1. Inv => DnsenumReadable BY DEF Inv, LoopInv, DnsenumReadable
<1> QED BY <1>1, Invariant, PTL

\* All three loops get the inner lengths right, for every name.
THEOREM LengthsRight == NameSpec => []InnerLengths
<1>1. Inv => InnerLengths BY DEF Inv, LoopInv, InnerLengths
<1> QED BY <1>1, Invariant, PTL
=============================================================================
