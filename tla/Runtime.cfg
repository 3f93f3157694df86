\* Two callers of one chat, every kind of fault.
CONSTANTS
    Tasks = {t1, t2}
    Chats = {c1}
    AuthMode = "broker_api_key"
    Faults = {"docker", "stop", "crash"}
    MaxOps = 3
    MaxCrashes = 1
CHECK_DEADLOCK FALSE
SPECIFICATION FairSpec
INVARIANTS
    QuiescentAgreement
    NoSessionDuringReplacement
    AcceptedTokenIsLatest
    NothingSurvivesClearing
    CredentialReachesSandbox
PROPERTIES
    StartingSettles
