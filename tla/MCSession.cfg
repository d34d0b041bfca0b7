SPECIFICATION Spec
CONSTANTS
    Apps = {a1, a2}
    Ios = {io1, io2}
    MaxSends = 2
INVARIANTS
    OneOperation
    InOrder
    NoStrandedData
    NeverDeaf
    LastOneDestroys
PROPERTY
    ImplementsSendQueue
CHECK_DEADLOCK FALSE
