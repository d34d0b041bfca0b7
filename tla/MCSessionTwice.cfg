SPECIFICATION Spec
CONSTANTS
    Apps = {a1}
    Ios = {io1}
    MaxSends = 1
INVARIANT
    NotifiedOnce
CHECK_DEADLOCK FALSE
