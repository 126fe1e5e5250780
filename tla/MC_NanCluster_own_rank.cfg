CONSTANTS
    n1 = n1
    n2 = n2
    n3 = n3
    Node <- MCNode
    Addr <- MCAddr
    InitCluster <- MCClusterOwn
    InitOffset <- MCOffsetApart
    AddrSpace = 4
    Rssi <- MCRssiClose
    LastDW = 5
    Uptime = 130000000
    RandomFactors = {3}
    PreferenceCmds = {0, 1}
    RandomFactorCmds = {5}
    RemovedPeers = {}
    MaxCmds = 2
    Leavers = {}
    LossyTypes = {}
    MaxLoss = 0
SPECIFICATION Spec
INVARIANT HopCountZeroIffAnchorSelf
