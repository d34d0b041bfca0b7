SPECIFICATION Spec
CONSTANTS
    MaxStates = 4
    MaxQueue = 2
INVARIANTS
    PathIsReference
    ActiveIsPath
    VerifiesHold
    TransitionArrives
