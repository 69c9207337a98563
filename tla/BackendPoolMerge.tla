-------------------------- MODULE BackendPoolMerge --------------------------
(***************************************************************************)
(* The data of the batched backend-pool updater: the catalogue of          *)
(* operations (batchOperation: service, load balancer, backend pool, kind  *)
(* and node IPs) and the merge that a drain applies to a fetched pool.     *)
(*                                                                         *)
(* A backend pool's address list is abstracted to the set of its IPs: add  *)
(* appends only addresses that are not present and remove deletes every   *)
(* matching entry, so the list never holds an IP twice and no property     *)
(* depends on its order.  A pool that does not exist remotely is Absent.   *)
(***************************************************************************)
EXTENDS FiniteSets, Sequences, SequencesExt

CONSTANTS
    Services,   \* service identities (namespace/name)
    LBs,        \* load-balancer names
    Pools,      \* backend-pool names
    IPs,        \* node private IPs
    Ops,        \* identities of the operations producers may create
    OpInfo,     \* OpInfo[o]: the immutable fields of operation o
    NoLB,       \* routing-table entry of a service that is not local
    Absent      \* remote state of a pool that does not exist

OpKinds == {"add", "remove"}

OpRecord == [svc: Services, lb: LBs, pool: Pools, kind: OpKinds, ips: SUBSET IPs]

ASSUME OpInfo \in [Ops -> OpRecord]
ASSUME NoLB \notin LBs

\* The (load balancer, backend pool) pair an operation targets: the
\* grouping key of a drain.
KeyOf(o) == <<OpInfo[o].lb, OpInfo[o].pool>>

PoolKeys == {KeyOf(o) : o \in Ops}

PoolState == (SUBSET IPs) \cup {Absent}

\* One operation merged into a pool's member set: AddIPs inserts the
\* addresses not yet present, RemoveIPs deletes the matching ones.  Both
\* are idempotent.
MergeOp(members, o) ==
    IF OpInfo[o].kind = "add"
    THEN members \cup OpInfo[o].ips
    ELSE members \ OpInfo[o].ips

\* Mutant: removals applied after all additions, whatever the order.
ApplyOpsByKind(pool, ops) ==
    IF pool = Absent THEN Absent
    ELSE (pool \cup UNION {OpInfo[ops[i]].ips : i \in {j \in DOMAIN ops : OpInfo[ops[j]].kind = "add"}})
         \ UNION {OpInfo[ops[i]].ips : i \in {j \in DOMAIN ops : OpInfo[ops[j]].kind = "remove"}}

\* merge(snapshot, operations): every operation of a group applied to the
\* fetched snapshot in submission order.  Nothing is merged into a pool
\* that does not exist.
ApplyOps(pool, ops) ==
    IF pool = Absent THEN Absent ELSE FoldLeft(MergeOp, pool, ops)

\* Reference definition of the merge, stated without a fold: an IP that no
\* operation of the sequence names keeps its membership, any other IP is a
\* member exactly when the last operation naming it is an add.
MergeReference(pool, ops) ==
    IF pool = Absent THEN Absent
    ELSE {ip \in IPs :
            LET touching == {i \in DOMAIN ops : ip \in OpInfo[ops[i]].ips}
            IN  IF touching = {} THEN ip \in pool
                ELSE OpInfo[ops[Max(touching)]].kind = "add"}

=============================================================================
