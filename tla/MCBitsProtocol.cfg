SPECIFICATION Spec
CONSTANTS
    Senders = {t1, t2}
    Kinds <- MCKinds
    SeqRange = 3
    MaxSends = 4
SYMMETRY Symmetry
INVARIANTS
    ReceivedAsSent
    FailsOnlyOnOverlap
CHECK_DEADLOCK FALSE
