CONSTANTS
    n1 = n1
    n2 = n2
    n3 = n3
    Node <- MCNode
    Addr <- MCAddr
    InitCluster <- MCClusterOwn
    InitOffset <- MCOffsetApart
    AddrSpace = 4
    Rssi <- MCRssiClose
    LastDW = 4
    Uptime = 130000000
    RandomFactors = {0}
    PreferenceCmds = {}
    RandomFactorCmds = {}
    RemovedPeers = {}
    MaxCmds = 0
    Leavers = {n3}
    LossyTypes = {"sync", "discovery"}
    MaxLoss = 2
SPECIFICATION Spec
INVARIANT AnchorRankNotBelowOwnRank
