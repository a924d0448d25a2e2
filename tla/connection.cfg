SPECIFICATION IdleSpec
CONSTANTS
    None = None
    Msgs = {"boot", "authorize"}
    Kind <- ConnectionKind
    Async = {"authorize"}
    Calls = {"getConf"}
    AttemptLimits = {1, 2}
    RetryIntervals = {0}
    BootInterval = 0
    Threshold = 5
    ResumeDelays = {TRUE}
    QueueAllModes = {FALSE}
    IgnoreModes = {FALSE}
    Triggers = {FALSE}
    RestartKinds = {"station"}
    DbModes = {FALSE}
    MaxTime = 0
    MaxUid = 0
    MaxLate = 0
    MaxCtr = 4
    MaxIdle = 1
    MaxRestarts = 1
INVARIANTS ResumedOnlyWhileConnected
PROPERTIES IdleActionsRun ResponseFirst
CHECK_DEADLOCK FALSE
