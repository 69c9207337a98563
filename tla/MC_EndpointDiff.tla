---------------------------- MODULE MC_EndpointDiff ----------------------------
(***************************************************************************)
(* The scenario of TestEndpointSlicesInformer: test/svc1 is local on lb1,  *)
(* test/svc2 is not; node1 has 10.0.0.1 and node2 10.0.0.2, and the slice *)
(* of each service starts on node1.  A third node whose address is not    *)
(* known yet lets a slice name a node that resolves to nothing.           *)
(***************************************************************************)
EXTENDS EndpointDiff, TLC

MCLocal == ("test/svc1" :> TRUE) @@ ("test/svc2" :> FALSE)

MCInitEndpoints == [s \in {"test/svc1", "test/svc2"} |-> {"node1"}]

MCInitNodeIPs == ("node1" :> {"10.0.0.1"}) @@ ("node2" :> {"10.0.0.2"}) @@ ("node3" :> {})

\* A node loses its address, or takes a new one.
MCNodeIPChoices == {{}, {"10.0.0.3"}}

=============================================================================
