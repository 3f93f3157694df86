\* Three callers and two chats, one lock address more than callers.
CONSTANTS
    Tasks = {t1, t2, t3}
    ChatIds = {c1, c2}
    Locks = {l1, l2, l3, l4}
    NoLock = NoLock
SPECIFICATION LockFairSpec
PROPERTIES
    ImplementsChatMutex
    EveryWaiterRuns
