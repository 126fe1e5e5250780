CONSTANTS
    n1 = n1
    n2 = n2
    n3 = n3
    Node <- MCNode
    Addr <- MCAddr
    InitCluster <- MCClusterOwn
    InitOffset <- MCOffsetApart
    AddrSpace = 4
    Rssi <- MCRssiClose
    LastDW = 7
    Uptime = 130000000
    RandomFactors = {0}
    PreferenceCmds = {}
    RandomFactorCmds = {}
    RemovedPeers = {}
    MaxCmds = 0
    Leavers = {n3}
    LossyTypes = {}
    MaxLoss = 0
SPECIFICATION Spec
INVARIANT DeadAnchorAbandoned
