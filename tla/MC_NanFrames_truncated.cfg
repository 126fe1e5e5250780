CONSTANTS
    Self <- MCSelf
    Messages <- MCMessages
    Cuts = {4, 13, 15, 16, 40}
    UnsetFlags = {0, 16, 64}
    UnsetLengths = {0, 1, 2, 65535}
SPECIFICATION Spec
CHECK_DEADLOCK FALSE
INVARIANT TruncatedAttributesRejected
