----------------------------- MODULE MCPortScan -----------------------------
(* SCTP is told to resend the INIT once; two requests stand for those of TCP. *)
EXTENDS RawScan

TriesOfKernel == [t \in Tools |-> IF t = "udp" THEN 1 ELSE 2]
=============================================================================
