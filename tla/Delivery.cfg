\* One turn, with streaming and formatting on or off.
CONSTANTS
    a = a
    b = b
    Settings <- MCSettings
    Mentions <- MCMentions
    MaxFiles = 2
    ChunkLimit = 2
    EventRoom = 1
    MaxUnits = 3
SPECIFICATION FairSpec
\* one turn, which ends
CHECK_DEADLOCK FALSE
INVARIANTS
    AnswerShownOnce
    SpokenAfterText
    OnlyDockerLeavesFiles
    FilesAccountedFor
PROPERTIES
    DeliveryEnds
