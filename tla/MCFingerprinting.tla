-------------------------- MODULE MCFingerprinting --------------------------
(***************************************************************************)
(* The tools of Fingerprinting, one at a time and from end to end:         *)
(* Dnsenum, Nslookup and Dig (Host) first write the name into the query    *)
(* and then send it and read the answer; the zone transfer and Whois ask   *)
(* without it.  The answer does not depend on the name, so that only a     *)
(* query for Asked finds a server with records.                            *)
(***************************************************************************)
EXTENDS MCDnsName, MCTransfer

Asked == <<a, DOT, b>>

ResolverInit ==
    /\ NameInit /\ Init
    /\ tool = program
    /\ domain # Asked => answers = <<>>

\* Nothing is left to write.
NoName ==
    /\ program = "dig" /\ domain = Asked /\ phase = "done"
    /\ dest = [x \in Index |-> 0] /\ p = 0 /\ i = 0 /\ qtypeAt = 0 /\ size = 0

FingerprintingInit == ResolverInit \/ (NoName /\ (AxfrInit \/ WhoisInit))

FingerprintingNext ==
    \/ NameNext /\ UNCHANGED vars
    \/ phase = "done" /\ TransferNext /\ UNCHANGED nameVars

fingerprintingVars == <<nameVars, vars>>

\* The fairness of TransferSpec; the loops over the name end.
FingerprintingSpec ==
    /\ FingerprintingInit /\ [][FingerprintingNext]_fingerprintingVars
    /\ WF_nameVars(NameNext)
    /\ WF_vars(phase = "done" /\ tool \in Tools /\ Program)
    /\ WF_vars(tool = "axfr"  /\ AxfrProgram)
    /\ WF_vars(tool = "whois" /\ WhoisProgram)
=============================================================================
