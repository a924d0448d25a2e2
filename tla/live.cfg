SPECIFICATION LiveSpec
CONSTANTS
    None = None
    Msgs = {"boot", "start", "beat"}
    Kind <- LiveKind
    Async = {}
    Calls = {}
    AttemptLimits = {2}
    RetryIntervals = {1}
    BootInterval = 1
    Threshold = 5
    ResumeDelays = {TRUE}
    QueueAllModes = {FALSE}
    IgnoreModes = {FALSE}
    Triggers = {FALSE, TRUE}
    RestartKinds = {"process"}
    DbModes = {FALSE}
    MaxTime = 1
    MaxUid = 1
    MaxLate = 0
    MaxCtr = 0
    MaxIdle = 0
    MaxRestarts = 0
PROPERTIES TransactionsSettle
CHECK_DEADLOCK FALSE
