\* A failed recreation and its retry; expected to be violated.
CONSTANTS
    Tasks = {t1, t2}
    Chats = {c1}
    AuthMode = "broker_api_key"
    Faults = {"docker"}
    MaxOps = 4
    MaxCrashes = 0
SYMMETRY MCSymmetry
CHECK_DEADLOCK FALSE
SPECIFICATION Spec
INVARIANTS
    SandboxHasCurrentCredential
