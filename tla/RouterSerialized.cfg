\* Calls one after the other, and a session that is replaced twice.
SPECIFICATION Spec
CONSTANTS
    Items = {i1, i2, i3}
    NoWorker = none
    Depth = 1
    Serialized = TRUE
    MaxGeneration = 3
SYMMETRY MCSymmetry
INVARIANTS
    NoTempFileLeft
    SaysAtMostOneThingLate
PROPERTIES
    ImplementsChatQueue
CHECK_DEADLOCK FALSE
