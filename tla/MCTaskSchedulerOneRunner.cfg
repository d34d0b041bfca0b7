SPECIFICATION Spec
CONSTANTS
    Tasks = {t1}
    Affinity = {}
    SelfFinish = {}
    RunnerCount = 1
    RunLimit = 0
    StartWhenScheduleCalled = TRUE
    RunWhenScheduleCalled = TRUE
    Callers = {main}
    Main = main
    NoTask = NoTask
INVARIANT
    RunnerIndexInRange
