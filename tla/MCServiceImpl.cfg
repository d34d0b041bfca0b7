SPECIFICATION MCSpec
CONSTANTS
    Ios = {io1, io2}
    Apps = {app}
    Main = app
    SlotLimit = 2
    Wrap = 3
    MaxKeys = 2
    MaxSockets = 2
INVARIANTS
    TypeOK
    SlotsAccounted
    TableMatchesSessions
    LiveSlotsTaken
    ConnectorsCounted
PROPERTIES
    AcceptsAgain
    FinishReturns
