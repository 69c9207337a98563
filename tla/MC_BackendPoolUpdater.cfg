CONSTANTS
    Services = {"ns1/svc1", "ns1/svc2"}
    LBs = {"lb1", "lb2"}
    Pools = {"pool1", "pool2"}
    IPs = {"10.0.0.1"}
    Ops <- MCOps
    OpInfo <- MCOpInfo
    NoLB = NoLB
    Absent = Absent
    InitRouting <- MCInitRouting
    InitPools <- MCInitPools
    MaxExternalWrites = 0
    MaxRoutingUpdates = 1
    WaitForGroups = TRUE

SPECIFICATION Spec

INVARIANTS
    TypeOK
    ExactlyOnceSignal

PROPERTIES
    BatchingSpec
