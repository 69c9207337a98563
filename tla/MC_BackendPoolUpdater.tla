------------------------ MODULE MC_BackendPoolUpdater ------------------------
(***************************************************************************)
(* The operations of TestLoadBalancerBackendPoolUpdater, plus one of a     *)
(* second service on the same pool so that withdrawal has to tell         *)
(* services apart and a group mixes two producers.                        *)
(***************************************************************************)
EXTENDS BackendPoolUpdater, TLC

MCOps == 1..4

\* The liveness run keeps the test's three operations.
MCOpsLive == 1..3

\* addOperationPool1, removeOperationPool1, addOperationPool2, and an add
\* of ns1/svc2 to pool1.  The test's second IP (10.0.0.2) always moves
\* together with the first, so one IP tells the same orders apart.
MCOpInfo ==
    (1 :> [svc |-> "ns1/svc1", lb |-> "lb1", pool |-> "pool1", kind |-> "add",
           ips |-> {"10.0.0.1"}]) @@
    (2 :> [svc |-> "ns1/svc1", lb |-> "lb1", pool |-> "pool1", kind |-> "remove",
           ips |-> {"10.0.0.1"}]) @@
    (3 :> [svc |-> "ns1/svc1", lb |-> "lb1", pool |-> "pool2", kind |-> "add",
           ips |-> {"10.0.0.1"}]) @@
    (4 :> [svc |-> "ns1/svc2", lb |-> "lb1", pool |-> "pool1", kind |-> "add",
           ips |-> {"10.0.0.1"}])

MCOpInfoLive == [o \in MCOpsLive |-> MCOpInfo[o]]

\* Both services are local on lb1, as the test stores them.
MCInitRouting == [s \in {"ns1/svc1", "ns1/svc2"} |-> "lb1"]

\* A pool exists and is empty or holds the IP, or does not exist.
MCInitPools == {{}, {"10.0.0.1"}, Absent}

=============================================================================
