\* The concurrency limit of docs/reference/broker.md; expected to be violated.
CONSTANTS
    c1 = c1  c2 = c2
    a1 = a1  a2 = a2  b1 = b1
    r1 = r1  r2 = r2  r3 = r3
    NoChat = NoChat
    NoToken = NoToken
    Chats = {c1, c2}
    Tokens = {a1, a2, b1}
    TokenChat <- MCTokenChat
    Requests = {r1, r2, r3}
    MaxConcurrent = 1
    MaxRequests = 3
    RequestWindow = 1
    MaxRegistryChanges = 3
SYMMETRY MCSymmetry
SPECIFICATION Spec
INVARIANTS
    ConcurrencyLimitHolds
