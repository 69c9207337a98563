------------------------- MODULE BackendPoolBatching -------------------------
(***************************************************************************)
(* What the batched backend-pool updater promises, with every drained      *)
(* group's fetch-merge-apply taken as ONE atomic step on the remote pool.  *)
(*                                                                         *)
(* A drain moves the whole pending queue into batches, one per (load       *)
(* balancer, pool) key, keeping submission order.  A batch then either     *)
(* commits (the merge of its operations into the CURRENT remote pool, as  *)
(* MergeReference states it: the last operation naming an IP decides; all *)
(* of them succeed) or aborts (all fail; the error does not say whether    *)
(* the update landed, so the pool either keeps its state or takes the      *)
(* merge).  Before it resolves, a batch may also land without resolving.   *)
(* Other writers of the pool may change it at any time.                    *)
(***************************************************************************)
EXTENDS BackendPoolMerge

CONSTANTS
    MaxExternalWrites,  \* bound on writes by other controllers
    WaitForGroups       \* a drain waits until the previous drain's groups finished

VARIABLES
    queue,          \* pending operations, in submission order
    status,         \* status[o]: where operation o is in its life
    signals,        \* signals[o]: completion signals delivered to o's waiter
    routing,        \* routing[s]: load balancer of local service s, or NoLB
    remote,         \* remote[k]: members of backend pool k, or Absent
    batches,        \* drained groups not yet resolved: [key, ops]
    externalWrites  \* writes made by other controllers so far

avars == <<queue, status, signals, routing, remote, batches, externalWrites>>

Terminal == {"withdrawn", "skipped", "succeeded", "failed"}

AInit ==
    /\ queue = <<>>
    /\ status = [o \in Ops |-> "new"]
    /\ signals = [o \in Ops |-> 0]
    /\ routing \in [Services -> LBs \cup {NoLB}]
    /\ remote \in [PoolKeys -> PoolState]
    /\ batches = {}
    /\ externalWrites = 0

AEnqueue(o) ==
    /\ status[o] = "new"
    /\ queue' = Append(queue, o)
    /\ status' = [status EXCEPT ![o] = "pending"]
    /\ UNCHANGED <<signals, routing, remote, batches, externalWrites>>

AWithdraw(svc) ==
    LET gone == {o \in ToSet(queue) : OpInfo[o].svc = svc}
    IN  /\ gone # {}
        /\ queue' = SelectSeq(queue, LAMBDA o : o \notin gone)
        /\ status' = [o \in Ops |-> IF o \in gone THEN "withdrawn" ELSE status[o]]
        /\ UNCHANGED <<signals, routing, remote, batches, externalWrites>>

ASetRouting(svc, lb) ==
    /\ routing' = [routing EXCEPT ![svc] = lb]
    /\ UNCHANGED <<queue, status, signals, remote, batches, externalWrites>>

AExternalWrite(k, v) ==
    /\ externalWrites < MaxExternalWrites
    /\ remote' = [remote EXCEPT ![k] = v]
    /\ externalWrites' = externalWrites + 1
    /\ UNCHANGED <<queue, status, signals, routing, batches>>

ADrain ==
    LET routed == SelectSeq(queue, LAMBDA o : routing[OpInfo[o].svc] = OpInfo[o].lb)
        keys   == {KeyOf(o) : o \in ToSet(routed)}
    IN  /\ queue # <<>>
        /\ WaitForGroups => batches = {}
        /\ batches' = batches \cup
              {[key |-> k, ops |-> SelectSeq(routed, LAMBDA o : KeyOf(o) = k)] : k \in keys}
        /\ status' = [o \in Ops |->
                        IF o \in ToSet(routed) THEN "applying"
                        ELSE IF o \in ToSet(queue) THEN "skipped"
                        ELSE status[o]]
        /\ queue' = <<>>
        /\ UNCHANGED <<signals, routing, remote, externalWrites>>

AResolved(b, result) ==
    /\ batches' = batches \ {b}
    /\ status' = [o \in Ops |-> IF o \in ToSet(b.ops) THEN result ELSE status[o]]
    /\ signals' = [o \in Ops |-> IF o \in ToSet(b.ops) THEN signals[o] + 1 ELSE signals[o]]

ACommit(b) ==
    /\ b \in batches
    /\ remote' = [remote EXCEPT ![b.key] = MergeReference(@, b.ops)]
    /\ AResolved(b, "succeeded")
    /\ UNCHANGED <<queue, routing, externalWrites>>

AAbort(b) ==
    /\ b \in batches
    /\ \E landed \in BOOLEAN :
          remote' = IF landed THEN [remote EXCEPT ![b.key] = MergeReference(@, b.ops)]
                    ELSE remote
    /\ AResolved(b, "failed")
    /\ UNCHANGED <<queue, routing, externalWrites>>

ALand(b) ==
    /\ b \in batches
    /\ remote' = [remote EXCEPT ![b.key] = MergeReference(@, b.ops)]
    /\ UNCHANGED <<queue, status, signals, routing, batches, externalWrites>>

ANext ==
    \/ \E o \in Ops : AEnqueue(o)
    \/ \E s \in Services : AWithdraw(s)
    \/ \E s \in Services, lb \in LBs \cup {NoLB} : ASetRouting(s, lb)
    \/ \E k \in PoolKeys, v \in PoolState : AExternalWrite(k, v)
    \/ ADrain
    \/ \E b \in batches : ACommit(b) \/ AAbort(b) \/ ALand(b)

ASpec == AInit /\ [][ANext]_avars

=============================================================================
