-------------------------- MODULE MCNetworkMapping --------------------------
(***************************************************************************)
(* The programs of Network_Mapping, of which one runs at a time: one of    *)
(* the eight scanners, traceroute(), or checksum() on a buffer of its own. *)
(* The others have ended: a scanner that was given no address, traceroute()*)
(* of a host that is not found, the checksum of an empty buffer.           *)
(***************************************************************************)
EXTENDS MCPortScan, Traceroute, Checksum

NoScan ==
    /\ tool = "tcp" /\ valid = FALSE /\ listening = {} /\ silent = {}
    /\ port = LastPort /\ pc = "done" /\ fds = 0
    /\ wire = "none" /\ tries = 0 /\ timed = FALSE /\ ret = 0
    /\ lines = [k \in 1 .. LastPort |-> "CLOSED"]

NoTrace ==
    /\ at = "done" /\ ttl = 1 /\ sockfd = "none"
    /\ network = {} /\ queue = <<>> /\ report = <<>> /\ others = 0

NoSum ==
    /\ stage = "done" /\ buf = <<>> /\ len = 0
    /\ sum = 0 /\ total = 0 /\ result = B - 1

MappingInit ==
    \/ ScanInit /\ NoTrace /\ NoSum
    \/ NoScan /\ TraceInit /\ NoSum
    \/ NoScan /\ NoTrace /\ SumInit

MappingNext ==
    \/ ScanNext  /\ UNCHANGED <<traceVars, sumVars>>
    \/ TraceNext /\ UNCHANGED <<vars, sumVars>>
    \/ SumNext   /\ UNCHANGED <<vars, traceVars>>

mappingVars == <<vars, traceVars, sumVars>>

\* The fairness of ScanSpec and TraceFairSpec.
MappingSpec ==
    /\ MappingInit /\ [][MappingNext]_mappingVars
    /\ WF_vars(tool \in Tools /\ Scanner)
    /\ WF_vars(tool \in RawTools /\ RawScanner)
    /\ WF_traceVars(Program)
=============================================================================
