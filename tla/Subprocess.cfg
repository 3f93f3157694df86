\* Both runners.
CONSTANTS
    Runners = {"codex", "tts"}
    Input = 2
    PipeSize = 1
    MaxKept = 1
    MaxOutput = 3
SPECIFICATION FairSpec
\* one call, which ends
CHECK_DEADLOCK FALSE
INVARIANTS
    AnswerIsWhole
    NothingLeftRunning
    FileMatchesOutcome
PROPERTIES
    SpokenReplyEnds
    PromptedTurnEnds
