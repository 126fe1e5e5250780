CONSTANTS
    a = a
    b = b
    chat = chat
    servicename = servicename
    Node <- MCNode
    Names <- MCNames
    SidOf <- MCSidOf
    Prefix <- MCPrefix
    PingName = servicename
    Commands <- MCCommandsTwo
    BufCap = 16
SPECIFICATION Spec
INVARIANT FollowUpOnce
