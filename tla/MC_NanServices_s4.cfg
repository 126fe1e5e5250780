CONSTANTS
    a = a
    b = b
    chat = chat
    servicename = servicename
    Node <- MCNode
    Names <- MCNames
    SidOf <- MCSidOf
    Prefix <- MCPrefix
    PingName = servicename
    Commands <- MCCommandsS4
    BufCap = 16
SPECIFICATION Spec
INVARIANT TypeOK
INVARIANT FollowUpOnce
PROPERTY PublicationAnswered
