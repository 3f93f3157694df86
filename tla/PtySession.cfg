\* Two turns of one interactive Codex process.
CONSTANTS
    c1 = c1
    c2 = c2
    None = None
    Calls <- MCCalls
    Parts = 2
    InputRoom = 1
    TtyRoom = 1
    MaxOutput = 2
    MaxSaid = 2
SPECIFICATION FairSpec
\* each call is made once
CHECK_DEADLOCK FALSE
INVARIANTS
    PromptsArriveWhole
    AnswerIsOwn
PROPERTIES
    CallsEnd

