\* Two overlapping calls, a queue of one, and a session replaced twice.
SPECIFICATION FairSpec
CONSTANTS
    Items = {i1, i2}
    NoWorker = none
    Depth = 1
    Serialized = FALSE
    MaxGeneration = 2
INVARIANTS
    ActiveItemsAgree
PROPERTIES
    OnlyReplacementDrops
    AcceptedItemsSettle
    EnqueueReturns
CHECK_DEADLOCK FALSE
