------------------------------ MODULE DnsName ------------------------------
(***************************************************************************)
(* How the DNS tools write the question of a query: the domain name as     *)
(* labels with a length byte in front, a zero, the type and the class.     *)
(* Three loops do it: encode_domain_name() of Fingerprinting/Dnsenum, the  *)
(* function of the same name in Fingerprinting/Nslookup, and build_query() *)
(* of Fingerprinting/Dig, which Fingerprinting/Host has a copy of.         *)
(*                                                                         *)
(* dest is the buffer behind the header of the query, with the indices of  *)
(* C; nobody initialises it.  Byte k of the name is character k of the     *)
(* domain, counted from 1, or the length byte of the label behind the dot  *)
(* that character k is; byte 0 is the length byte of the first label.      *)
(***************************************************************************)
EXTENDS Integers, Sequences

CONSTANTS
    Programs,       \* the programs: dnsenum, nslookup, dig
    Letters, DOT,   \* the characters of a domain
    JUNK,           \* a byte of uninitialised memory that is not 0
    Domains,        \* what the user may enter
    MAX_LABEL,      \* what a length byte may be: 63, a larger one is a pointer
    Size            \* bytes in the buffer behind the header

ASSUME DnsNameAssumption ==
    /\ Programs \subseteq {"dnsenum", "nslookup", "dig"}
    /\ DOT \notin Letters /\ JUNK \notin Letters
    /\ (Letters \cup {DOT, JUNK}) \cap Nat = {}
    /\ Size \in Nat /\ MAX_LABEL \in Nat
    /\ Domains \subseteq Seq(Letters \cup {DOT})
    /\ \A d \in Domains : Len(d) \in 1 .. 255 /\ Len(d) + 6 <= Size

VARIABLES
    program, domain,    \* the program and its input
    dest,           \* the buffer
    phase,          \* strcat, encode, question, done
    p,              \* where the current label starts: domain, lock or j
    i,              \* the counter of the loops over single characters
    qtypeAt,        \* where the type was written
    size            \* how much of the buffer is sent

nameVars == <<program, domain, dest, phase, p, i, qtypeAt, size>>

Index == 0 .. (Size - 1)
Bytes == Letters \cup {DOT, JUNK} \cup 0 .. 255

n        == Len(domain)
IsDot(k) == domain[k] = DOT
NoDot(a, b) == \A k \in a .. b : ~IsDot(k)

NameInit ==
    /\ program \in Programs /\ domain \in Domains
    /\ \E junk \in {JUNK, 0} : dest = [k \in Index |-> junk]
    /\ phase = IF program = "nslookup" THEN "strcat" ELSE "encode"
    /\ p = 0 /\ i = 0 /\ qtypeAt = 0 /\ size = 0

\* The buffer after the bytes of f were written over it.
Overwritten(f) == [k \in Index |-> IF k \in DOMAIN f THEN f[k] ELSE dest[k]]

\* The length byte l and then the characters of domain up to e - 1.
LabelBytes(l, e) == [k \in p .. (e - 1) |-> IF k = p THEN l ELSE domain[k]]

-----------------------------------------------------------------------------
(* Dnsenum: strchr() finds the next dot, strncpy() copies a label.  The     *)
(* pointers dest and domain advance together, by a label and one byte.      *)

\* Mutant of DnsenumLabel: the dot is counted as well.
DnsenumLabelLonger ==
    /\ program = "dnsenum" /\ phase = "encode"
    /\ \E e \in (p + 1) .. n :
          /\ IsDot(e) /\ NoDot(p + 1, e - 1)
          /\ dest' = Overwritten(LabelBytes(e - p, e))
          /\ p' = e
    /\ UNCHANGED <<program, domain, phase, i, qtypeAt, size>>

DnsenumLabel ==
    /\ program = "dnsenum" /\ phase = "encode"
    /\ \E e \in (p + 1) .. n :
          /\ IsDot(e) /\ NoDot(p + 1, e - 1)
          /\ dest' = Overwritten(LabelBytes(e - p - 1, e))
          /\ p' = e
    /\ UNCHANGED <<program, domain, phase, i, qtypeAt, size>>

\* strcpy() copies the last label with the zero that ends the string.
DnsenumLast ==
    /\ program = "dnsenum" /\ phase = "encode" /\ NoDot(p + 1, n)
    /\ dest' = [Overwritten(LabelBytes(n - p, n + 1)) EXCEPT ![n + 1] = 0]
    /\ phase' = "question"
    /\ UNCHANGED <<program, domain, p, i, qtypeAt, size>>

-----------------------------------------------------------------------------
(* Nslookup: one loop over the characters.                                  *)

\* z is the length of the string in dest; without a zero strlen() and strcat()
\* run out of the buffer.
IsStrLen(z) ==
    /\ \A k \in 0 .. (z - 1) : dest[k] # 0
    /\ z < Size => dest[z] = 0

NslookupStrcat ==
    /\ program = "nslookup" /\ phase = "strcat"
    /\ \E z \in 0 .. Size :
          /\ IsStrLen(z)
          /\ dest' = Overwritten([k \in {z, z + 1} |-> IF k = z THEN DOT ELSE 0])
    /\ phase' = "encode"
    /\ UNCHANGED <<program, domain, p, i, qtypeAt, size>>

\* Mutant of NslookupChar: the next label starts at the dot.
NslookupCharAtDot ==
    /\ program = "nslookup" /\ phase = "encode" /\ i < n
    /\ i' = i + 1
    /\ IF IsDot(i + 1)
       THEN dest' = [dest EXCEPT ![p] = i - p] /\ p' = i
       ELSE dest' = [dest EXCEPT ![i + 1] = domain[i + 1]] /\ UNCHANGED p
    /\ UNCHANGED <<program, domain, phase, qtypeAt, size>>

NslookupChar ==
    /\ program = "nslookup" /\ phase = "encode" /\ i < n
    /\ i' = i + 1
    /\ IF IsDot(i + 1)
       THEN dest' = [dest EXCEPT ![p] = i - p] /\ p' = i + 1
       ELSE dest' = [dest EXCEPT ![i + 1] = domain[i + 1]] /\ UNCHANGED p
    /\ UNCHANGED <<program, domain, phase, qtypeAt, size>>

NslookupEnd ==
    /\ program = "nslookup" /\ phase = "encode" /\ i = n
    /\ phase' = "question"
    /\ UNCHANGED <<program, domain, dest, p, i, qtypeAt, size>>

-----------------------------------------------------------------------------
(* Dig and Host: the lengths only.                                          *)

DigChar ==
    /\ program = "dig" /\ phase = "encode" /\ i < n
    /\ i' = i + 1
    /\ IF IsDot(i + 1)
       THEN dest' = [dest EXCEPT ![p] = i - p] /\ p' = i + 1
       ELSE UNCHANGED <<dest, p>>
    /\ UNCHANGED <<program, domain, phase, qtypeAt, size>>

DigLast ==
    /\ program = "dig" /\ phase = "encode" /\ i = n
    /\ dest' = [dest EXCEPT ![p] = n - p]
    /\ phase' = "question"
    /\ UNCHANGED <<program, domain, p, i, qtypeAt, size>>

-----------------------------------------------------------------------------
(* The type A and the class IN, two bytes each, in network byte order.      *)

TypeAndClass(q) ==
    Overwritten([k \in q .. (q + 3) |-> IF k \in {q + 1, q + 3} THEN 1 ELSE 0])

\* Dnsenum and Nslookup look for the end of the name.
Question ==
    /\ program \in {"dnsenum", "nslookup"} /\ phase = "question"
    /\ \E z \in 0 .. Size :
          /\ IsStrLen(z)
          /\ dest' = TypeAndClass(z + 1)
          /\ qtypeAt' = z + 1 /\ size' = z + 5
    /\ phase' = "done"
    /\ UNCHANGED <<program, domain, p, i>>

\* Dig and Host calculate it.
DigQuestion ==
    /\ program = "dig" /\ phase = "question"
    /\ dest' = TypeAndClass(n + 1)
    /\ qtypeAt' = n + 1 /\ size' = n + 6
    /\ phase' = "done"
    /\ UNCHANGED <<program, domain, p, i>>

NameNext ==
    \/ DnsenumLabel \/ DnsenumLast
    \/ NslookupStrcat \/ NslookupChar \/ NslookupEnd
    \/ DigChar \/ DigLast
    \/ Question \/ DigQuestion

NameSpec == NameInit /\ [][NameNext]_nameVars

-----------------------------------------------------------------------------
(* Properties. *)

\* Every variable has its type, and the cursors stay within the domain.
NameTypes ==
    /\ program \in Programs /\ domain \in Domains
    /\ dest \in [Index -> Bytes]
    /\ phase \in {"strcat", "encode", "question", "done"}
    /\ p \in 0 .. n /\ i \in 0 .. n
    /\ qtypeAt \in 0 .. (Size + 1) /\ size \in 0 .. (Size + 5)

\* Where a length byte belongs, and whether it leads to the next one.
Starts   == {0} \cup {k \in 1 .. n : IsDot(k)}
Leads(s) == /\ dest[s] \in 0 .. (n - s)
            /\ NoDot(s + 1, s + dest[s])
            /\ s + dest[s] < n => IsDot(s + dest[s] + 1)

\* A name a server accepts has no empty label and none that is longer than
\* MAX_LABEL; a last dot stands for the root.
Legal ==
    /\ ~IsDot(1) /\ \A k \in 1 .. (n - 1) : ~(IsDot(k) /\ IsDot(k + 1))
    /\ \A s \in Starts : s + MAX_LABEL < n => ~NoDot(s + 1, s + MAX_LABEL + 1)

\* The question is the one the user asked for: following the length bytes one
\* comes from label to label, none of them is taken for a pointer, the letters are
\* in their places, and the type is behind the zero that ends the name.
Readable ==
    /\ \A s \in Starts : Leads(s) /\ dest[s] <= MAX_LABEL
    /\ \A k \in 1 .. n : ~IsDot(k) => dest[k] = domain[k]
    /\ qtypeAt \in {n + 1, n + 2} /\ dest[qtypeAt - 1] = 0
    /\ \A k \in 0 .. (qtypeAt - 2) : dest[k] # 0
    /\ size = qtypeAt + 4

\* Dnsenum asks for every legal name what the user entered.  It checks nothing: a
\* longer label gets its length all the same (InnerLengths), which is a pointer.
DnsenumReadable == (program = "dnsenum" /\ phase = "done" /\ Legal) => Readable

\* Each of the three loops gets the lengths of the labels right that have a dot
\* behind them: one counts with a pointer, the others with a second index.
InnerLengths ==
    phase = "question" => \A s \in Starts : ~NoDot(s + 1, n) => Leads(s)

(* What the comments say, and the code does not do. *)

\* "google.com" becomes "\x06google\x03com\x00".
NslookupReadable == (program = "nslookup" /\ phase = "done" /\ Legal) => Readable
=============================================================================
