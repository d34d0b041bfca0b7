SPECIFICATION Spec
CONSTANTS
    Tasks = {t1, t2, t3}
    Affinity = {t1, t2}
    SelfFinish = {t3}
    RunnerCount = 2
    RunLimit = 1
    StartWhenScheduleCalled = TRUE
    RunWhenScheduleCalled = TRUE
    Callers = {main, other}
    Main = main
    NoTask = NoTask
INVARIANTS
    TypeOK
    SingleOwner
    NoTaskLost
    ThrowsOnlySelfFinished
    FinishedWhenDone
PROPERTIES
    FinishReturns
    QueuedTaskRuns
