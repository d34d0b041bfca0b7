SPECIFICATION Spec
CONSTANTS
    Begin = 1
    End = 7
    Reserve = 3
INVARIANTS
    TypeOK
    IdUnique
    NoIdLost
PROPERTY
    ReuseDelayed
