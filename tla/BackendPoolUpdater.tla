-------------------------- MODULE BackendPoolUpdater --------------------------
(***************************************************************************)
(* The asynchronous batched backend-pool updater                           *)
(* (loadBalancerBackendPoolUpdater): producers add operations to a pending *)
(* queue or withdraw a service's pending operations; a ticker drains the   *)
(* whole queue, drops operations whose service is no longer local on their *)
(* load balancer, and groups the rest by (load balancer, pool) in          *)
(* submission order.  Each group then runs its own sequence of remote      *)
(* calls: Get the pool, merge, CreateOrUpdate it, with one retry of the    *)
(* whole fetch-merge-apply per group on a retriable error, and resolves    *)
(* the completion signal of every operation in it.                         *)
(*                                                                         *)
(* Remote calls are steps of their own, so groups of one drain, producers, *)
(* routing-table updates and other writers of the pool interleave with     *)
(* them.  CreateOrUpdate carries the etag read by the Get, so it lands    *)
(* only if nobody wrote the pool since; a failed call may have landed.     *)
(***************************************************************************)
EXTENDS BackendPoolMerge

CONSTANTS
    MaxExternalWrites,  \* bound on writes by other controllers
    MaxRoutingUpdates,  \* bound on routing-table updates
    InitRouting,        \* the routing table when the updater starts
    InitPools,          \* the states a pool may be in when the updater starts
    WaitForGroups       \* a drain waits until the previous drain's groups finished

ASSUME /\ MaxExternalWrites \in Nat /\ MaxRoutingUpdates \in Nat
       /\ InitRouting \in [Services -> LBs \cup {NoLB}]
       /\ InitPools \subseteq PoolState
       /\ WaitForGroups \in BOOLEAN

VARIABLES
    queue,          \* updater.operations: pending operations in submission order
    status,         \* status[o]: where operation o is in its life
    signals,        \* signals[o]: completion signals delivered to o's waiter
    routing,        \* localServiceNameToServiceInfoMap: lb of a local service, or NoLB
    remote,         \* remote[k]: members of backend pool k in the cloud, or Absent
    etag,           \* etag[k]: version of pool k, changed by every write
    groups,         \* in-flight (load balancer, pool) groups of drained operations
    externalWrites, \* writes to pools made by other controllers so far
    routingUpdates  \* routing-table updates so far

vars == <<queue, status, signals, routing, remote, etag, groups, externalWrites, routingUpdates>>

Statuses == {"new", "pending", "applying", "withdrawn", "skipped", "succeeded", "failed"}

Terminal == {"withdrawn", "skipped", "succeeded", "failed"}

\* A group in phase "fetch" is about to Get its pool; in phase "apply" it has
\* the fetched snapshot, its etag and the merged desired members and is
\* about to CreateOrUpdate.  retried: the group's one retry has been used.
Group == [key: PoolKeys, ops: Seq(Ops) \ {<<>>}, phase: {"fetch", "apply"},
          snapshot: SUBSET IPs, etag: Nat, desired: SUBSET IPs, retried: BOOLEAN]

NewGroup(k, ops) ==
    [key |-> k, ops |-> ops, phase |-> "fetch", snapshot |-> {}, etag |-> 0,
     desired |-> {}, retried |-> FALSE]

\* An operation is applied only while its service is local and assigned to
\* the operation's load balancer; the drain drops the others without any
\* remote call.
Routable(o) == routing[OpInfo[o].svc] = OpInfo[o].lb

\* Every operation of a group is resolved with the same result, its
\* completion signal delivered once more.
Resolve(g, result) ==
    /\ status' = [o \in Ops |-> IF o \in ToSet(g.ops) THEN result ELSE status[o]]
    /\ signals' = [o \in Ops |-> IF o \in ToSet(g.ops) THEN signals[o] + 1 ELSE signals[o]]

Init ==
    /\ queue = <<>>
    /\ status = [o \in Ops |-> "new"]
    /\ signals = [o \in Ops |-> 0]
    /\ routing = InitRouting
    /\ remote \in [PoolKeys -> InitPools]
    /\ etag = [k \in PoolKeys |-> 0]
    /\ groups = {}
    /\ externalWrites = 0
    /\ routingUpdates = 0

-----------------------------------------------------------------------------
(* Producers and the rest of the cloud provider.                           *)

\* addOperation: append under the updater's lock; never blocks.
AddOperation(o) ==
    /\ status[o] = "new"
    /\ queue' = Append(queue, o)
    /\ status' = [status EXCEPT ![o] = "pending"]
    /\ UNCHANGED <<signals, routing, remote, etag, groups, externalWrites, routingUpdates>>

\* removeOperation(serviceName): drop every pending operation of the
\* service; drained ones are unaffected.  Withdrawing nothing is a stutter.
RemoveOperation(svc) ==
    LET gone == {o \in ToSet(queue) : OpInfo[o].svc = svc}
    IN  /\ gone # {}
        /\ queue' = SelectSeq(queue, LAMBDA o : OpInfo[o].svc # svc)
        /\ status' = [o \in Ops |-> IF o \in gone THEN "withdrawn" ELSE status[o]]
        /\ UNCHANGED <<signals, routing, remote, etag, groups, externalWrites, routingUpdates>>

\* A service is (re)configured for local routing on lb, or stops being
\* local (lb = NoLB).
SetLocalServiceInfo(svc, lb) ==
    /\ routingUpdates < MaxRoutingUpdates
    /\ routing' = [routing EXCEPT ![svc] = lb]
    /\ routingUpdates' = routingUpdates + 1
    /\ UNCHANGED <<queue, status, signals, remote, etag, groups, externalWrites>>

\* Another controller rewrites, creates or deletes a backend pool.
ExternalWrite(k, v) ==
    /\ externalWrites < MaxExternalWrites
    /\ remote' = [remote EXCEPT ![k] = v]
    /\ etag' = [etag EXCEPT ![k] = @ + 1]
    /\ externalWrites' = externalWrites + 1
    /\ UNCHANGED <<queue, status, signals, routing, groups, routingUpdates>>

-----------------------------------------------------------------------------
(* The ticker.                                                             *)

\* Mutant: one group for every known pool, with or without operations.
ProcessAllPools ==
    LET routed == SelectSeq(queue, Routable)
    IN  /\ queue # <<>>
        /\ WaitForGroups => groups = {}
        /\ groups' = groups \cup
              {NewGroup(k, SelectSeq(routed, LAMBDA o : KeyOf(o) = k)) : k \in PoolKeys}
        /\ status' = [o \in Ops |->
                        IF o \in ToSet(routed) THEN "applying"
                        ELSE IF o \in ToSet(queue) THEN "skipped"
                        ELSE status[o]]
        /\ queue' = <<>>
        /\ UNCHANGED <<signals, routing, remote, etag, externalWrites, routingUpdates>>

\* Mutant: the drained queue is not cleared.
ProcessKeepQueue ==
    LET routed == SelectSeq(queue, Routable)
        keys   == {KeyOf(o) : o \in ToSet(routed)}
    IN  /\ queue # <<>>
        /\ WaitForGroups => groups = {}
        /\ groups' = groups \cup
              {NewGroup(k, SelectSeq(routed, LAMBDA o : KeyOf(o) = k)) : k \in keys}
        /\ status' = [o \in Ops |->
                        IF o \in ToSet(routed) THEN "applying"
                        ELSE IF o \in ToSet(queue) THEN "skipped"
                        ELSE status[o]]
        /\ UNCHANGED <<queue, signals, routing, remote, etag, externalWrites, routingUpdates>>

\* process(): swap the queue for an empty one and dispatch one group per
\* (load balancer, pool) key of the routable operations.
Process ==
    LET routed == SelectSeq(queue, Routable)
        keys   == {KeyOf(o) : o \in ToSet(routed)}
    IN  /\ queue # <<>>
        /\ WaitForGroups => groups = {}
        /\ groups' = groups \cup
              {NewGroup(k, SelectSeq(routed, LAMBDA o : KeyOf(o) = k)) : k \in keys}
        /\ status' = [o \in Ops |->
                        IF o \in ToSet(routed) THEN "applying"
                        ELSE IF o \in ToSet(queue) THEN "skipped"
                        ELSE status[o]]
        /\ queue' = <<>>
        /\ UNCHANGED <<signals, routing, remote, etag, externalWrites, routingUpdates>>

\* A tick that finds the queue empty returns at once.
IdleTick ==
    /\ queue = <<>>
    /\ UNCHANGED vars

-----------------------------------------------------------------------------
(* One group's remote calls.                                               *)

Finish(g, result) ==
    /\ groups' = groups \ {g}
    /\ Resolve(g, result)

Become(g, h) ==
    /\ groups' = (groups \ {g}) \cup {h}
    /\ UNCHANGED <<status, signals>>

\* GetLBBackendPool answers with the pool and its etag; the merge goes on
\* to CreateOrUpdate even when it changes nothing, as the test "Remove
\* node IPs from backend pool" expects.
FetchSucceeded(g) ==
    /\ g.phase = "fetch"
    /\ remote[g.key] # Absent
    /\ Become(g, [g EXCEPT !.phase = "apply", !.snapshot = remote[g.key],
                            !.etag = etag[g.key],
                            !.desired = ApplyOps(remote[g.key], g.ops)])
    /\ UNCHANGED <<queue, routing, remote, etag, externalWrites, routingUpdates>>

\* Mutant: a not-found pool drops the group without resolving it.
FetchNotFoundSilent(g) ==
    /\ g.phase = "fetch"
    /\ remote[g.key] = Absent
    /\ groups' = groups \ {g}
    /\ UNCHANGED <<queue, status, signals, routing, remote, etag, externalWrites, routingUpdates>>

\* GetLBBackendPool answers not found: nothing to reconcile, all succeed.
FetchNotFound(g) ==
    /\ g.phase = "fetch"
    /\ remote[g.key] = Absent
    /\ Finish(g, "succeeded")
    /\ UNCHANGED <<queue, routing, remote, etag, externalWrites, routingUpdates>>

\* A retriable Get error with the group's retry unused: fetch again.
FetchRetry(g) ==
    /\ g.phase = "fetch"
    /\ ~g.retried
    /\ Become(g, [g EXCEPT !.retried = TRUE])
    /\ UNCHANGED <<queue, routing, remote, etag, externalWrites, routingUpdates>>

\* A non-retriable Get error, or a retriable one after the retry: all fail.
FetchFailed(g) ==
    /\ g.phase = "fetch"
    /\ Finish(g, "failed")
    /\ UNCHANGED <<queue, routing, remote, etag, externalWrites, routingUpdates>>

\* Mutant: CreateOrUpdate without the etag, landing whatever the pool is now.
PutUnconditional(g) ==
    /\ remote' = [remote EXCEPT ![g.key] = g.desired]
    /\ etag' = [etag EXCEPT ![g.key] = @ + 1]

\* CreateOrUpdateBackendPools with the merged members and the etag of the
\* Get lands: the pool takes them and a new etag.
Put(g) ==
    /\ etag[g.key] = g.etag
    /\ remote' = [remote EXCEPT ![g.key] = g.desired]
    /\ etag' = [etag EXCEPT ![g.key] = @ + 1]

\* A failed CreateOrUpdate: it may have landed, if the etag still matched.
FailedPut(g) == Put(g) \/ UNCHANGED <<remote, etag>>

\* CreateOrUpdateBackendPools succeeds.
ApplySucceeded(g) ==
    /\ g.phase = "apply"
    /\ Put(g)
    /\ Finish(g, "succeeded")
    /\ UNCHANGED <<queue, routing, externalWrites, routingUpdates>>

\* A retriable CreateOrUpdate error (among them an etag that no longer
\* matches) with the retry unused: re-fetch and re-merge the same
\* operations.
ApplyRetry(g) ==
    /\ g.phase = "apply"
    /\ ~g.retried
    /\ FailedPut(g)
    /\ Become(g, [g EXCEPT !.phase = "fetch", !.retried = TRUE])
    /\ UNCHANGED <<queue, routing, externalWrites, routingUpdates>>

\* A non-retriable CreateOrUpdate error, or a retriable one after the
\* retry: every operation fails.
ApplyFailed(g) ==
    /\ g.phase = "apply"
    /\ FailedPut(g)
    /\ Finish(g, "failed")
    /\ UNCHANGED <<queue, routing, externalWrites, routingUpdates>>

GroupStep(g) ==
    \/ FetchSucceeded(g) \/ FetchNotFound(g) \/ FetchRetry(g) \/ FetchFailed(g)
    \/ ApplySucceeded(g) \/ ApplyRetry(g) \/ ApplyFailed(g)

-----------------------------------------------------------------------------

Next ==
    \/ \E o \in Ops : AddOperation(o)
    \/ \E s \in Services : RemoveOperation(s)
    \/ \E s \in Services, lb \in LBs \cup {NoLB} : SetLocalServiceInfo(s, lb)
    \/ \E k \in PoolKeys, v \in PoolState : ExternalWrite(k, v)
    \/ Process
    \/ IdleTick
    \/ \E g \in groups : GroupStep(g)

\* The ticker fires on its interval and every remote call returns (the
\* clients time out); producers, routing updates and other writers are not
\* obliged to act.
Fairness ==
    /\ WF_vars(Process)
    /\ WF_vars(\E g \in groups : GroupStep(g))

Spec == Init /\ [][Next]_vars /\ Fairness

-----------------------------------------------------------------------------
(* Properties.                                                             *)

TypeOK ==
    /\ queue \in Seq(Ops)
    /\ status \in [Ops -> Statuses]
    /\ signals \in [Ops -> Nat]
    /\ routing \in [Services -> LBs \cup {NoLB}]
    /\ remote \in [PoolKeys -> PoolState]
    /\ etag \in [PoolKeys -> Nat]
    /\ groups \subseteq Group
    /\ externalWrites \in 0..MaxExternalWrites
    /\ routingUpdates \in 0..MaxRoutingUpdates

\* Completion signalling is exactly-once: an operation's waiter is
\* signalled at most once, and exactly when the operation has succeeded or
\* failed, whichever path (not found, success, retry, terminal error)
\* resolved its group.
ExactlyOnceSignal ==
    \A o \in Ops :
        /\ signals[o] <= 1
        /\ (signals[o] = 1) <=> (status[o] \in {"succeeded", "failed"})

\* Section 4.1 of the design: at most one fetch-merge-apply sequence is in
\* flight per (load balancer, pool) at any time.
AtMostOneGroupPerPool ==
    \A g, h \in groups : g.key = h.key => g = h

\* Every operation that is queued is eventually withdrawn, skipped,
\* succeeds or fails: no retry loops forever and no group is forgotten.
EveryOperationResolves ==
    \A o \in Ops : status[o] = "pending" ~> status[o] \in Terminal

\* The waiter's contract (spec section 6): wait() returns once the
\* operation reaches a terminal state.  A producer that enqueued an
\* operation and blocks in wait(), as the updater test does, eventually
\* receives its completion signal, whichever path ends the operation.
EveryWaitReturns == \A o \in Ops : status[o] = "pending" ~> signals[o] = 1

\* The updater implements the atomic batching specification: splitting
\* each group's read-modify-write into a Get and a CreateOrUpdate, with
\* other controllers writing the pool in between, a retry and calls that
\* fail after landing, never loses, reorders or overwrites an update,
\* merges as the last-writer-wins reference says, never applies a
\* withdrawn or skipped operation, and resolves exactly the operations the
\* drain put in the group.
Batching == INSTANCE BackendPoolBatching
    WITH batches <- {[key |-> g.key, ops |-> g.ops] : g \in groups}

BatchingSpec == Batching!ASpec

=============================================================================
