----------------------------- MODULE MCDnsName -----------------------------
(* All domains of up to MaxLen characters of two letters and the dot. *)
EXTENDS DnsName

CONSTANTS a, b, MaxLen

AllDomains == UNION {[1 .. k -> {a, b, DOT}] : k \in 1 .. MaxLen}
=============================================================================
