SPECIFICATION FairSpec
CONSTANTS
    DefaultTimeout = 2
    StartupOverhead = 3
    Grace = 1
    Requests = {0, 1, 3}
CHECK_DEADLOCK FALSE
INVARIANTS
    SlowStartIsNotCharged
    AnswerIsTrue
PROPERTIES
    CallerIsFreed
    CodeIsStopped
