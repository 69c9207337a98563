---------------------------- MODULE EndpointDiff ----------------------------
(***************************************************************************)
(* The endpoint-slice informer's update handler (the Endpoint Diff Engine) *)
(* composed with the Node IP Resolver and the backend-pool updater it     *)
(* feeds.  For every update of a service's endpoint slice the informer    *)
(* delivers (old, new) in order; the handler ignores services that are    *)
(* not local, resolves both node sets to IPs through nodePrivateIPs, and   *)
(* enqueues one AddIPs operation for the IPs only new has and one         *)
(* RemoveIPs operation for the IPs only old has.                          *)
(*                                                                         *)
(* The updater appears here as BackendPoolBatching describes it, which    *)
(* BackendPoolUpdater is checked to implement: a tick drains the whole    *)
(* queue into one batch, and the batch is applied to each service's pool  *)
(* in submission order, atomically, or fails.  Each local service has     *)
(* its own pool (named after the service) on its load balancer.           *)
(***************************************************************************)
EXTENDS FiniteSets, Sequences, SequencesExt

CONSTANTS
    Services,           \* service identities with an endpoint slice
    Nodes,              \* node names
    IPs,                \* node private IPs
    Local,              \* Local[s]: s has a routing entry (is a local service)
    InitEndpoints,      \* nodes carrying endpoints of each service at start
    InitNodeIPs,        \* nodePrivateIPs at start
    NodeIPChoices,      \* IP sets a node's entry may change to
    MaxSliceUpdates,    \* bound on endpoint-slice updates in the cluster
    MaxNodeIPChanges,   \* bound on node IP changes
    MaxRedeliveries     \* bound on updates the informer delivers again

ASSUME /\ Local \in [Services -> BOOLEAN]
       /\ InitEndpoints \in [Services -> SUBSET Nodes]
       /\ InitNodeIPs \in [Nodes -> SUBSET IPs]
       /\ NodeIPChoices \subseteq SUBSET IPs
       /\ MaxSliceUpdates \in Nat /\ MaxNodeIPChanges \in Nat /\ MaxRedeliveries \in Nat

VARIABLES
    endpoints,      \* endpoints[s]: nodes carrying s's endpoints in the cluster
    events,         \* events[s]: updates of s's slice not yet delivered, in order
    delivered,      \* delivered[s]: the slice the handler saw last
    nodeIPs,        \* nodePrivateIPs: node -> its private IPs
    queue,          \* the updater's pending operations
    batch,          \* operations drained by the running tick, <<>> if none
    pool,           \* pool[s]: members of s's backend pool in the cloud
    sliceUpdates,   \* endpoint-slice updates so far
    nodeIPChanges,  \* node IP changes so far
    redeliveries    \* updates delivered again so far

vars == <<endpoints, events, delivered, nodeIPs, queue, batch, pool,
          sliceUpdates, nodeIPChanges, redeliveries>>

Operation == [svc: Services, kind: {"add", "remove"}, ips: SUBSET IPs]

\* The IPs of a set of nodes; a node with no known address adds nothing.
Resolve(nodes) == UNION {nodeIPs[n] : n \in nodes}

\* Mutant: an operation is emitted even when its IP set is empty.
DiffOpsAlways(s, old, new) ==
    << [svc |-> s, kind |-> "add", ips |-> Resolve(new) \ Resolve(old)],
       [svc |-> s, kind |-> "remove", ips |-> Resolve(old) \ Resolve(new)] >>

\* Mutant: the removal carries every old IP instead of the difference.
DiffOpsNoSubtract(s, old, new) ==
    LET added   == Resolve(new) \ Resolve(old)
        removed == Resolve(old)
    IN  (IF added = {} THEN <<>> ELSE <<[svc |-> s, kind |-> "add", ips |-> added]>>)
        \o (IF removed = {} THEN <<>> ELSE <<[svc |-> s, kind |-> "remove", ips |-> removed]>>)

\* The operations one (old, new) update produces: AddIPs of the added
\* IPs, RemoveIPs of the removed ones, each only when non-empty.
DiffOps(s, old, new) ==
    LET added   == Resolve(new) \ Resolve(old)
        removed == Resolve(old) \ Resolve(new)
    IN  (IF added = {} THEN <<>> ELSE <<[svc |-> s, kind |-> "add", ips |-> added]>>)
        \o (IF removed = {} THEN <<>> ELSE <<[svc |-> s, kind |-> "remove", ips |-> removed]>>)

Merge(members, op) ==
    IF op.kind = "add" THEN members \cup op.ips ELSE members \ op.ips

\* Mutant: a batch merged in reverse submission order.
ApplyToReversed(s, members, ops) ==
    FoldLeft(Merge, members, Reverse(SelectSeq(ops, LAMBDA op : op.svc = s)))

\* The operations of s in a batch merged into its pool in submission order.
ApplyTo(s, members, ops) ==
    FoldLeft(Merge, members, SelectSeq(ops, LAMBDA op : op.svc = s))

Init ==
    /\ endpoints = InitEndpoints
    /\ events = [s \in Services |-> <<>>]
    /\ delivered = InitEndpoints
    /\ nodeIPs = InitNodeIPs
    /\ queue = <<>>
    /\ batch = <<>>
    /\ pool = [s \in Services |-> UNION {InitNodeIPs[n] : n \in InitEndpoints[s]}]
    /\ sliceUpdates = 0
    /\ nodeIPChanges = 0
    /\ redeliveries = 0

-----------------------------------------------------------------------------
(* The cluster and the informer.                                           *)

\* The endpoint controller rewrites a service's slice; the informer queues
\* the update with the slice it replaces.
UpdateEndpointSlice(s, new) ==
    /\ sliceUpdates < MaxSliceUpdates
    /\ new # endpoints[s]
    /\ endpoints' = [endpoints EXCEPT ![s] = new]
    /\ events' = [events EXCEPT ![s] = Append(@, [old |-> endpoints[s], new |-> new])]
    /\ sliceUpdates' = sliceUpdates + 1
    /\ UNCHANGED <<delivered, nodeIPs, queue, batch, pool, nodeIPChanges, redeliveries>>

\* A node's private IPs change (node lifecycle), with no slice update.
NodeIPChange(n, ips) ==
    /\ nodeIPChanges < MaxNodeIPChanges
    /\ ips # nodeIPs[n]
    /\ nodeIPs' = [nodeIPs EXCEPT ![n] = ips]
    /\ nodeIPChanges' = nodeIPChanges + 1
    /\ UNCHANGED <<endpoints, events, delivered, queue, batch, pool, sliceUpdates, redeliveries>>

\* The update handler on a delivered (old, new) pair: drop the update of
\* a service that is not local, else enqueue its diff.
HandleUpdate(s, e) ==
    /\ delivered' = [delivered EXCEPT ![s] = e.new]
    /\ queue' = IF Local[s] THEN queue \o DiffOps(s, e.old, e.new) ELSE queue
    /\ UNCHANGED <<endpoints, nodeIPs, batch, pool, sliceUpdates, nodeIPChanges>>

\* The informer delivers the oldest pending update of s.
OnUpdate(s) ==
    /\ events[s] # <<>>
    /\ events' = [events EXCEPT ![s] = Tail(@)]
    /\ HandleUpdate(s, Head(events[s]))
    /\ UNCHANGED redeliveries

\* At-least-once delivery: the informer delivers the oldest pending update
\* of s and keeps it pending, so it is delivered again, before any later
\* update of s.
RedeliverUpdate(s) ==
    /\ events[s] # <<>>
    /\ redeliveries < MaxRedeliveries
    /\ redeliveries' = redeliveries + 1
    /\ HandleUpdate(s, Head(events[s]))
    /\ UNCHANGED events

-----------------------------------------------------------------------------
(* The updater, as BackendPoolBatching describes it.                       *)

\* A tick drains the whole queue once the previous batch is done.
Drain ==
    /\ queue # <<>>
    /\ batch = <<>>
    /\ batch' = queue
    /\ queue' = <<>>
    /\ UNCHANGED <<endpoints, events, delivered, nodeIPs, pool, sliceUpdates, nodeIPChanges, redeliveries>>

\* Every pool of the batch gets its merged members.
Commit ==
    /\ batch # <<>>
    /\ pool' = [s \in Services |-> ApplyTo(s, pool[s], batch)]
    /\ batch' = <<>>
    /\ UNCHANGED <<endpoints, events, delivered, nodeIPs, queue, sliceUpdates, nodeIPChanges, redeliveries>>

\* The batch fails terminally and nothing is written; no one re-enqueues.
ApplyFailed ==
    /\ batch # <<>>
    /\ batch' = <<>>
    /\ UNCHANGED <<endpoints, events, delivered, nodeIPs, queue, pool, sliceUpdates, nodeIPChanges, redeliveries>>

\* A tick with nothing to drain.
IdleTick ==
    /\ queue = <<>>
    /\ batch = <<>>
    /\ UNCHANGED vars

Next ==
    \/ \E s \in Services, new \in SUBSET Nodes : UpdateEndpointSlice(s, new)
    \/ \E s \in Services : OnUpdate(s)
    \/ \E s \in Services : RedeliverUpdate(s)
    \/ Drain
    \/ Commit
    \/ IdleTick

\* The informer's handler goroutine, the updater's ticker and its apply
\* keep running while they have work.
Fairness ==
    /\ \A s \in Services : WF_vars(OnUpdate(s))
    /\ WF_vars(Drain)
    /\ WF_vars(Commit)

\* Node IPs fixed, every apply succeeding, updates delivered at least once.
Spec == Init /\ [][Next]_vars /\ Fairness

\* Node IPs changing under the handler.
ChurnSpec == Init /\ [][Next \/ \E n \in Nodes, ips \in NodeIPChoices : NodeIPChange(n, ips)]_vars
             /\ Fairness

\* Applies failing terminally.
FailureSpec == Init /\ [][Next \/ ApplyFailed]_vars /\ Fairness

-----------------------------------------------------------------------------
(* Properties.                                                             *)

TypeOK ==
    /\ endpoints \in [Services -> SUBSET Nodes]
    /\ delivered \in [Services -> SUBSET Nodes]
    /\ \A s \in Services : events[s] \in Seq([old: SUBSET Nodes, new: SUBSET Nodes])
    /\ queue \in Seq(Operation) /\ batch \in Seq(Operation)
    /\ \A i \in DOMAIN queue : queue[i].ips # {}
    /\ pool \in [Services -> SUBSET IPs]

\* The handler and the updater never lose or reorder a change: for a local
\* service, its pool with the running batch and then the pending queue
\* merged in is exactly the IPs of the slice the handler saw last, across
\* any interleaving of slice updates, handler calls, drains and applies,
\* and although an update may be handled twice.
PendingMatchesDelivered ==
    \A s \in Services :
        Local[s] => ApplyTo(s, ApplyTo(s, pool[s], batch), queue) = Resolve(delivered[s])

\* The pool of every local service eventually holds exactly the IPs of
\* the nodes that carry its endpoints, and keeps them.
PoolConverges ==
    \A s \in Services : Local[s] => <>[](pool[s] = Resolve(endpoints[s]))

=============================================================================
