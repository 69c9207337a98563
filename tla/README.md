# TLA+ models of the backend-pool updater and health-probe derivation

This directory holds TLA+ specifications of two parts of the Azure cloud
provider in this repository, together with the TLC configurations that check
them:

* the asynchronous, batched backend-pool updater
  (`loadBalancerBackendPoolUpdater`), described in `spec.md`;
* the endpoint-slice update handler (the Endpoint Diff Engine) and the
  node IP table it reads, composed with the updater they feed;
* the derivation of load-balancer health probes from service annotations
  (`src/pkg/provider/azure_loadbalancer_healthprobe.go`).

The updater's implementation (`azure_local_services.go`) is not part of
`src/`. Its model is written from `spec.md`, and the unit tests in
`src/unnamed/part_001` pin parts of its behaviour: the Get and the
CreateOrUpdate a drain makes for each pool (even when the merge changes
nothing), the retry after a retriable error, the not-found short circuit and
the routing filter. The tests do not show whether CreateOrUpdate carries the
fetched etag: their fixture pools have none. The model follows spec 4.3, whose
retry guards "against a concurrent external modification", and makes the Put
conditional on the etag of the Get. `PROJECT.json` marks every definition that translates only the
spec as `spec_modelled`. It maps every other definition to the source or test
lines it translates.

## 1. Inventory

### Components and their state

| Component | State | Where |
|---|---|---|
| Operation Queue / Batcher | pending queue (insertion order); per operation its status and completion signal | spec 4.1, tests part_001:45-248 |
| Pool State Fetcher/Merger | per group: fetched snapshot, merged desired members | spec 4.2, tests |
| Remote Apply + Retry Controller | per group: phase (fetch/apply), retry used | spec 4.3, tests part_001:250-463 |
| Service Routing Table | service -> load balancer (or not local), IP family | `localServiceNameToServiceInfoMap` in the tests |
| Node IP Resolver | node -> private IPs | `nodePrivateIPs`, part_001:561-564 |
| Endpoint Diff Engine | the slice last seen per service | spec 4.4, part_001:507-592 |
| Health-probe derivation | none; reads the service manifest, and writes back to it at line 77 | healthprobe.go |
| private-link-service client mock | generated | part_000 |

### Operations and interactions

* Producers call `addOperation` (enqueue) and `removeOperation(service)`
  (withdraw every pending operation of a service). They then block in
  `op.wait()`.
* A ticker calls `process()`. It swaps the queue for an empty one and drops
  the operations whose service is no longer local on their load balancer. It
  groups the rest by (load balancer, pool) in submission order.
* Each group runs its own sequence of steps:
  * `GetLBBackendPool`. If the pool is not found, every operation succeeds.
    A retriable error leads to one re-Get. A non-retriable error fails every
    operation.
  * The merge, then `CreateOrUpdateBackendPools`, even when the merge left
    the pool unchanged (the test "Remove node IPs from backend pool"
    expects that call). The Put carries the etag of the Get, so it fails if
    the pool was written since. A retriable error leads to one re-Get,
    re-merge and re-Put. Any other error fails every operation.
* The routing table is written by the service reconciler. Other controllers
  may write the same pools.
* The load-balancer reconciler calls `buildHealthProbeRulesForPort` for every
  port of a service on every reconcile. It compares the result with the
  existing probes using `findProbe`: a match keeps the existing probe, and
  otherwise the built one replaces it. It also reads interval and threshold through
  the `getHealthProbeConfig*` helpers.

### Hard behaviours

* Producers, withdrawals, routing updates, the ticker and the concurrent
  groups all interleave.
* Two remote calls per group: state is read at Get and used at Put.
* A call can fail after it has already landed, and a retry then repeats work
  that was done.
* Other writers can change a pool between its Get and its Put.
* The signal to each operation must be delivered exactly once, and every
  waiter must eventually be answered.
* Int32 arithmetic wraps, and validators have boundaries.
* The protocol trim writes through a pointer into the service object.
* Slice updates are diffed against the previous slice while earlier diffs
  are still queued; node IPs are resolved when an update is handled.
* Membership events are delivered at least once (spec, Interfaces), so an
  update may be handled twice.
* `findProbe` compares text with `strings.EqualFold`, the request path
  included.

### Properties per component

* **Batcher:** signals are exactly-once. A withdrawn or skipped operation is
  never applied. The batcher refines an atomic batching specification. Every
  operation resolves, and every waiter is answered.
* **Merger:** the abstract specification commits the last-writer-wins
  reference merge, so the refinement checks the fold against it.
* **Retry controller:** the batching refinement still holds with retries,
  with failed calls that landed, and with other controllers writing the pool
  between Get and Put. There is at most one in-flight group per
  pool.
* **Health probe:**
  * the builder and the helpers agree;
  * the probe port is a declared NodePort or an explicit port;
  * rebuilding after the write-back yields the same probe;
  * the total probe time is below 120 s;
  * building does not modify the manifest;
  * after a reconcile the load balancer holds the probe the service asks
    for (violated by a request path that changes only in letter case).
* **Endpoint diff and node IPs:**
  * pool plus pending operations always equals the IPs of the slice the
    handler saw last, even when an update is handled twice;
  * the pool converges to the endpoints' IPs;
  * neither holds when node IPs change or applies fail.

## 2. Modules

| Module | Models |
|---|---|
| `BackendPoolMerge` | Constants of the updater (services, load balancers, pools, IPs, the operation catalogue `OpInfo`). `MergeOp`/`ApplyOps` is the merge, a `FoldLeft` of set-add and set-remove. `MergeReference` is the merge as the spec states it, without a fold: the last operation naming an IP decides. |
| `BackendPoolBatching` | The abstract specification of the updater. Enqueue and withdraw are as in the detailed model. A drain creates batches. Each batch commits `MergeReference` of its operations to the pool in one atomic step, or aborts, possibly after a failed write landed. |
| `BackendPoolUpdater` | The detailed model. Variables: `queue`, `status`, `signals`, `routing`, `remote`, `etag` (per pool, changed by every write), and `groups`, where each in-flight group has a phase, a snapshot and its etag, desired members and whether its retry is used. `Put` is the etag-guarded CreateOrUpdate; `FailedPut` is a failed one that may have landed. Two counters bound the environment. There is one action per code path: `AddOperation`, `RemoveOperation`, `SetLocalServiceInfo`, `ExternalWrite`, `Process`, `IdleTick`, `FetchSucceeded`, `FetchNotFound`, `FetchRetry`, `FetchFailed`, `ApplySucceeded`, `ApplyRetry`, `ApplyFailed`. `BatchingSpec` instantiates `BackendPoolBatching` with `batches <- {[key, ops] of every group}`. |
| `MC_BackendPoolUpdater` | The test's operations: add to pool1, remove from pool1, add to pool2 (`addOperationPool1`, `removeOperationPool1`, `addOperationPool2`), plus an add to pool1 by a second service. It also gives the routing table of the test, and initial pools that are empty, full or absent. |
| `HealthProbe` | Each stage of `buildHealthProbeRulesForPort` is an operator, and so are the three helpers and `findProbe`. A small reconciler state machine (`Reconcile`, `ReadProbeConfig`) calls them on one port of one service and applies the write-back of line 77. `cloud` is the probe the load balancer holds: `Reconcile` keeps it when `findProbe` matches the built probe and otherwise replaces it (`SyncProbe`, `Existing`). That caller is neither in `src/` nor in the spec; it is modelled from the role of `findProbe`, and `PROJECT.json` leaves `SyncProbe` and `Existing` unmapped. `EditSpec` adds a user edit of the port's request-path annotation (`EditRequestPath`). |
| `EndpointDiff` | The handler composed with the updater. Variables: the cluster's slice per service (`endpoints`), the informer's in-order queue of (old, new) updates (`events`), the slice the handler saw last (`delivered`), `nodeIPs`, the updater's `queue` and drained `batch`, and one `pool` per service. Cluster actions: `UpdateEndpointSlice` and `NodeIPChange`. `OnUpdate` delivers the oldest pending update once, and `RedeliverUpdate` delivers it and keeps it pending (at-least-once delivery, in order). `HandleUpdate` is the handler: it skips a non-local service, otherwise it resolves both sets and enqueues AddIPs of the added IPs and RemoveIPs of the removed ones, each only when non-empty. The updater is `Drain`, `Commit` or `ApplyFailed`, as `BackendPoolBatching` describes it. Three specifications: `Spec` (node IPs fixed, applies succeed), `ChurnSpec` (node IPs change) and `FailureSpec` (applies fail terminally). |
| `MC_EndpointDiff` | The scenario of `TestEndpointSlicesInformer`: svc1 is local on lb1 and svc2 is not. node1 is 10.0.0.1 and node2 is 10.0.0.2. node3 has no known address. Both slices start on node1. |
| `MC_HealthProbe` | 6480 manifests: every protocol source (padded and unpadded), both SKUs, named, numeric, unknown and out-of-range probe ports, port, global and default paths, validator boundaries, and int32-wrapping values. |

### Abstractions

* A pool's address list is the set of its IPs. The merge adds only absent
  addresses and removes every match, so order and duplicates never matter.
  The test's two IPs always move together, so one IP separates the same
  cases.
* A protocol string is `[word, padded]`: its `EqualFold` class after trimming,
  and whether trimming changes it.
* A probe-port annotation is `[name, num]`.
* An int annotation is nil, `Malformed` (fails to parse), or an integer.
* A request path is a string. `PathFold` maps it to its case-folded form,
  which is what `EqualFold` compares: `/Healthz` and `/healthz` share one.
* `MulInt32` multiplies byte by byte modulo 2^32, which is Go's int32 `*`.
* The constants `HealthProbeDefault*` are not in `src/`. The cfg gives them
  their upstream values: port 80, path `/`, 2 probes, 5 s.

## 3. Runs

| Run | Result | Shows |
|---|---|---|
| `updater_safety` (`MC_BackendPoolUpdater.cfg`) | pass, about 666k states, 90 s | Covers every interleaving of producers, a withdrawal, one routing change, drains, and concurrent groups that hit every Get/Put outcome. Under all of them: `TypeOK`; `ExactlyOnceSignal` (a signal is delivered at most once, exactly to succeeded or failed operations); `BatchingSpec` (the refinement, whose commit is the reference merge). |
| `updater_liveness` (`_live.cfg`) | pass | `EveryOperationResolves`: every pending operation reaches a terminal state. |
| `updater_overlapping_ticks` (`_overlap.cfg`, `WaitForGroups = FALSE`) | violation of `AtMostOneGroupPerPool` | Draining atomically does not prevent two groups of one pool if ticks do not wait for their groups. |
| `updater_external_write` (`_external.cfg`, the test's 3 operations, one external write) | pass, about 369k states | `BatchingSpec` with another controller writing, deleting or recreating a pool between a group's Get and its Put: the stale Put fails on its etag, and the retry re-merges the same operations against the fresh snapshot. Without the etag (mutant `PutUnconditional`) the external write is overwritten. |
| `updater_wait` (`_wait.cfg`) | violation of `EveryWaitReturns` | A waiter on a withdrawn or skipped operation is never answered. |
| `diff_pipeline` (`MC_EndpointDiff.cfg`) | pass, about 627k states, 75 s | `PendingMatchesDelivered`: for a local service, the pool with the running batch and then the queue merged in equals the IPs of the last delivered slice, across every interleaving, with one update handled twice. A diff applied again to a state that reflects it changes nothing. `PoolConverges`: every local service's pool eventually holds exactly its endpoints' IPs. |
| `diff_node_ip_churn` (`_churn.cfg`) | violation of `PoolConverges` | node1's IP changes from 10.0.0.1 to 10.0.0.3 while it carries svc1's endpoints. No update results, and 10.0.0.1 stays in the pool for good. |
| `diff_apply_failure` (`_failure.cfg`) | violation of `PoolConverges` | A terminally failed batch is dropped and nothing re-derives it. |
| `healthprobe` (`MC_HealthProbe.cfg`) | pass, 77,760 states | `TypeOK`, `BuildAgreesWithConfigHelper`, `ProbeTargetsDeclaredPort`, `ReconcileIsStable`. |
| `healthprobe_total` | violation of `TotalProbeBelow120` | A global interval of 2147483647 with 2 probes wraps to -2 and passes the check. |
| `healthprobe_writeback` | violation of `BuildLeavesManifestUnchanged` | The trim at line 77 changes the manifest's AppProtocol. |
| `healthprobe_path_case` (`_CloudProbeCurrent.cfg`, `EditSpec`) | violation of `CloudProbeCurrent` | The request path is edited from `/healthz` to `/Healthz`. The next build has the new path, but `findProbe` (line 322, `EqualFold`) matches it with the existing probe, so the load balancer keeps probing `/healthz`. HTTP paths are case-sensitive. |

Each property of a passing run has a mutant in `PROJECT.json`: a plausible bug
in the definition it depends on, and TLC finds each one:

* a drain that creates groups for pools without operations;
* a drain that does not clear the queue;
* a merge that applies removals after additions;
* a CreateOrUpdate without the etag;
* a not-found Get that drops its group unresolved;
* a probe-port validator without its range check;
* a diff that emits empty operations;
* a diff whose removal carries every old IP;
* a batch merged in reverse order;
* a helper that ignores the global interval;
* a named probe port that takes the service port instead of its NodePort;
* a protocol switch that runs before the trim.

### Bounds and why they suffice

* **Updater:**
  * **Sizes:** 2 services, 2 load balancers, 2 pools and 1 IP, with 4
    operations (3 in the liveness run).
  * **Environment:** at most 1 routing update; 1 external write in the
    external-write, liveness and wait runs (with 3 operations), none in the
    4-operation safety run, where it would take TLC about 10 minutes.
  * **What this covers:** two ops on one pool in either order; two pools in
    one drain; two services on one pool; a withdrawal before and after a
    drain; a routing change between enqueue and drain; and a pool that is
    absent, empty or full.
  * **Failures:** every Get/Put failure path is reached, including retry
    after retry and a failed Put that landed.
  * **The test's own cases:** each scenario of `TestLoadBalancerBackendPoolUpdater` is a prefix of
    some behaviour.
* **Endpoint diff:**
  * **Sizes:** 2 services (one local), 3 nodes (one without an address) and
    3 IPs.
  * **Environment:** up to 4 slice updates to any node set; one
    redelivered update; one node IP change (to none, or to a new address)
    in the churn run.
  * **What this covers:** remove then re-add of one node within one batch;
    diffs that span drains; updates of the non-local service; and a node
    that resolves to nothing.
* **Health probe:** the manifest choices put every branch of the builder on
  both sides of each boundary: 4 below 5, 1 below 2, 65536 squared wraps to
  0, and 2147483647 × 2 wraps to -2.

### Fairness

The ticker runs on a timer for the updater's lifetime (`go u.run(ctx)`), and
each group's goroutine runs to completion. The model therefore assumes weak
fairness of `Process` and of group steps. It assumes no fairness for
producers, withdrawals, routing updates or external writes: they may never
happen. `IdleTick` is the ticker finding an empty queue. It keeps the system
from deadlocking once all work is done.

In `EndpointDiff` the informer's handler, the ticker and the apply are
weakly fair: client-go delivers every queued update, and the updater ticks
forever. The cluster's updates and node IP changes are not fair.

`WaitForGroups = TRUE` in the passing runs means the ticker does not start a
new drain while groups from the previous one still run. This is what the
test "Multiple operations in two batches" relies on when it sleeps past the
tick. `_overlap.cfg` shows what happens without it.

## 4. Not modelled

* Redelivery of an update after a later update of the same service has
  been handled. The informer delivers each object's updates in order; the
  model's redelivery keeps that order.
* A numeric probe port is matched against service port numbers without
  looking at the protocol (healthprobe.go:143-147). With TCP and UDP
  ports of the same number, the TCP probe may take the UDP port's
  NodePort. Whether Kubernetes gives both the same NodePort depends on how
  they were allocated, so the model does not claim this as a bug. The
  manifests have no shared port number.
* Routing entries that appear or change while membership events flow. The
  spec says the handler drops events of a service not yet local; nothing
  in the spec or in `src/` re-derives the pool when the entry appears.
* Deletes of endpoint slices, and the informer's periodic resync. A resync
  delivers old = new, so the diff is empty and it changes nothing.
* In `EndpointDiff`, the updater's routing filter at drain time. Routing is
  constant there, and the filter is checked in `BackendPoolUpdater`. The
  same holds for its retries and its Get/Put split, which `BatchingSpec`
  shows refine the atomic batch used here.
* Duplicate or case-variant port names in a service. Kubernetes validation
  requires port names to be unique lower-case DNS labels, so the
  last-match-wins loop at healthprobe.go:137 and the first-match loop at
  :148 cannot disagree.
* The IP family of a routing entry. The tests store it
  (`newServiceInfo(IPVersionIPv4String, "lb1")`, part_001:560), but nothing
  in `src/` or in the spec reads it: the drain and the slice handler look
  only at whether the service is local and on which load balancer. The
  model keeps exactly that, so the routing table counts as modelled.
* Error message text and logging.
* The generated client mock (part_000): it has no behaviour of its own.
* HTTP transport, informer machinery and the cloud API. They are the
  environment, represented by the remote pool state and by the nondeterministic
  outcomes of calls.
* Probe names: all probes of one rule share the rule's name.

## 5. Plan, in order of importance

1. Done: the updater (batcher, merger, retry) with refinement, liveness and
   two spec gaps (overlapping ticks, unanswered waiters); health-probe derivation with int32 arithmetic and the
   write-back.
2. Done: `EndpointDiff`, the handler and the node IP table composed with
   the updater. It has a pending-consistency invariant and convergence, and
   two spec gaps: node IP churn and a terminal failure.
   Left: routing entries that appear late or change, in the composition.
   Done in the third sitting: at-least-once delivery in `diff_pipeline`, and
   `findProbe`'s case-insensitive path comparison with the reconcile's keep
   or replace decision (`healthprobe_path_case`).
   Done in the fifth sitting: the Put is etag-guarded as spec 4.3 implies
   (the earlier external-write gap rested on a test fixture without an
   etag) and issued even when the merge changes nothing, as the tests
   expect; the external-write run now passes the refinement; the
   merge-versus-reference invariant gave way to a refinement whose commit
   is the reference merge.
   Done in the fourth sitting: the routing table is marked modelled. All
   twelve runs are used and the largest run is close to the mutant time
   limit. What remains (late routing entries in the composition, numeric
   probe ports that match a port of another protocol) would need another
   violation run or a larger instance, and is listed under Not modelled.
3. A run with two IPs and the test's pool-isolation scenario as an end-to-end
   property. Also idempotence of re-applying an operation: no Put, and
   success.
4. The first-versus-last match of named probe ports with case-insensitive
   names.
