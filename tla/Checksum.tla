------------------------------ MODULE Checksum ------------------------------
(***************************************************************************)
(* checksum() of Network_Mapping/Traceroute/Traceroute.c, of which         *)
(* TCP_FIN_SCAN/tcp_fin_scan.c has the same copy, step by step:            *)
(* the 16-bit words of a buffer are added up in an unsigned int, a last    *)
(* odd byte is added as it is, the upper half of the sum is added to the   *)
(* lower half twice, and the lower half of the complement is the result.   *)
(*                                                                         *)
(* A byte is a number below H, a word is one below B == H * H, and the sum *)
(* is kept modulo B * B: H is 256 in the program, and smaller for TLC.     *)
(***************************************************************************)
EXTENDS Integers, Sequences

CONSTANTS
    H,              \* the values of a byte
    MaxLen          \* bound on the length of the buffer, in bytes

B == H * H

ASSUME ChecksumAssumption ==
    /\ H \in Nat /\ H >= 2
    /\ MaxLen \in Nat /\ MaxLen <= 2 * B

VARIABLES
    buf,            \* the bytes
    len,            \* how many of them are left
    sum,            \* the unsigned int
    result,
    stage,             \* add, fold1, fold2, complement, done
    total           \* history: the sum of the words without a bound

sumVars == <<buf, len, sum, result, stage, total>>

Bytes   == 0 .. (H - 1)
Buffers == UNION {[1 .. n -> Bytes] : n \in 0 .. MaxLen}

SumInit ==
    /\ buf \in Buffers
    /\ len = Len(buf)
    /\ sum = 0 /\ result = 0 /\ total = 0
    /\ stage = "add"

\* The word that buf points to, on a little-endian machine.
Next2 == Len(buf) - len + 1
Word  == buf[Next2] + H * buf[Next2 + 1]

Add(w) == sum' = (sum + w) % (B * B) /\ total' = total + w

\* Mutant of AddWord: a carry out of the lower half is lost at once.
AddWordShort ==
    /\ stage = "add" /\ len > 1
    /\ sum' = (sum + Word) % B /\ total' = total + Word
    /\ len' = len - 2
    /\ UNCHANGED <<buf, result, stage>>

AddWord ==
    /\ stage = "add" /\ len > 1
    /\ Add(Word)
    /\ len' = len - 2
    /\ UNCHANGED <<buf, result, stage>>

AddByte ==
    /\ stage = "add" /\ len <= 1
    /\ IF len = 1 THEN Add(buf[Next2]) ELSE UNCHANGED <<sum, total>>
    /\ stage' = "fold1"
    /\ UNCHANGED <<buf, len, result>>

FoldOnce ==
    /\ stage = "fold1"
    /\ sum' = (sum \div B) + (sum % B)
    /\ stage' = "fold2"
    /\ UNCHANGED <<buf, len, result, total>>

\* Mutant of FoldTwice: the carry of the first fold is not added.
FoldTwiceNot ==
    /\ stage = "fold2"
    /\ stage' = "complement"
    /\ UNCHANGED <<buf, len, sum, result, total>>

FoldTwice ==
    /\ stage = "fold2"
    /\ sum' = (sum + (sum \div B)) % (B * B)
    /\ stage' = "complement"
    /\ UNCHANGED <<buf, len, result, total>>

\* Mutant of Complement: a result of zero is sent as its complement.
ComplementNotZero ==
    /\ stage = "complement"
    /\ LET r == (B * B - 1 - sum) % B
       IN  result' = IF r = 0 THEN B - 1 ELSE r
    /\ stage' = "done"
    /\ UNCHANGED <<buf, len, sum, total>>

\* result is an unsigned short: the lower half of ~sum.
Complement ==
    /\ stage = "complement"
    /\ result' = (B * B - 1 - sum) % B
    /\ stage' = "done"
    /\ UNCHANGED <<buf, len, sum, total>>

SumNext == AddWord \/ AddByte \/ FoldOnce \/ FoldTwice \/ Complement

SumSpec == SumInit /\ [][SumNext]_sumVars

-----------------------------------------------------------------------------
(* Properties. *)

\* Every variable has its type: sum fits an unsigned int, result a short one.
SumTypeOK ==
    /\ buf \in Seq(Bytes) /\ len \in 0 .. Len(buf)
    /\ sum \in 0 .. (B * B - 1)
    /\ result \in 0 .. (B - 1)
    /\ stage \in {"add", "fold1", "fold2", "complement", "done"}
    /\ total \in Nat

\* Two folds are enough, and the unsigned int is large enough: what the receiver
\* adds up, the words and the checksum, is a multiple of B - 1, which is zero in
\* ones' complement arithmetic; and the multiple is not 0 itself, which ones'
\* complement addition of words that are not all zero cannot give.
Verifies ==
    stage = "done" => \E k \in 1 .. (B + 2) : total + result = k * (B - 1)

\* The result is never the complement of zero unless all words are zero.
ZeroOnlyOfZero == stage = "done" => (result = B - 1 <=> total = 0)
=============================================================================
