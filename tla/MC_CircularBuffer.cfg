CONSTANTS
    f1 = f1
    f2 = f2
    none = none
    Items = {f1, f2}
    NoItem = none
    Capacity = 3
SPECIFICATION Spec
INVARIANT TypeOK
PROPERTY BufferIsFifo
