\* Three messages of every kind, a buffer of two, a queue of two items.
SPECIFICATION Spec
CONSTANTS
    MaxMessages = 3
    Kinds <- MCKinds
    Capacity = 2
    QueueCapacity = 2
    MaxGeneration = 3
INVARIANTS
    TypeOK
    PromptIsFaithful
    EnqueueFindsSession
    NoTempFileLeft
    SpokenOnlyIfAllowed
PROPERTIES
    FileIsThereWhenTurnBegins
CHECK_DEADLOCK FALSE
