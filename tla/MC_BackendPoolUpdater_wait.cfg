CONSTANTS
    Services = {"ns1/svc1", "ns1/svc2"}
    LBs = {"lb1", "lb2"}
    Pools = {"pool1", "pool2"}
    IPs = {"10.0.0.1"}
    Ops <- MCOpsLive
    OpInfo <- MCOpInfoLive
    NoLB = NoLB
    Absent = Absent
    InitRouting <- MCInitRouting
    InitPools <- MCInitPools
    MaxExternalWrites = 1
    MaxRoutingUpdates = 1
    WaitForGroups = TRUE

SPECIFICATION Spec

PROPERTIES
    EveryWaitReturns
