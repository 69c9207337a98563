CONSTANTS
    Services = {"test/svc1", "test/svc2"}
    Nodes = {"node1", "node2", "node3"}
    IPs = {"10.0.0.1", "10.0.0.2", "10.0.0.3"}
    Local <- MCLocal
    InitEndpoints <- MCInitEndpoints
    InitNodeIPs <- MCInitNodeIPs
    NodeIPChoices <- MCNodeIPChoices
    MaxSliceUpdates = 4
    MaxNodeIPChanges = 1
    MaxRedeliveries = 1

SPECIFICATION ChurnSpec

PROPERTY
    PoolConverges
