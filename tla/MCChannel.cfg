SPECIFICATION Spec
CONSTANTS
    Threads = {owner, other}
    Owner = owner
    Subscribers = {other}
    Topics <- MCTopics
    Keys = {1, 2}
    Reentrant = {"post"}
    MaxDepth = 2
    MaxMessages = 2
    MaxSubs = 2
INVARIANTS
    KeysMatchEntries
    NoLateCallback
    NothingMissed
    DelayedInOrder
PROPERTY
    CallsReturn
CHECK_DEADLOCK FALSE
