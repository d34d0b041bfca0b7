SPECIFICATION Spec
CONSTANTS
    Ios = {io1, io2}
    Apps = {app}
    Main = app
    SlotLimit = 2
    Wrap = 3
    MaxKeys = 2
    MaxSockets = 2
INVARIANT
    Exclusive
