SPECIFICATION Spec
CONSTANTS
    None = None
    Msgs = {"boot", "stop"}
    Kind <- BootKind
    Async = {}
    Calls = {}
    AttemptLimits = {2}
    RetryIntervals = {0}
    BootInterval = 0
    Threshold = 5
    ResumeDelays = {FALSE}
    QueueAllModes = {TRUE}
    IgnoreModes = {FALSE}
    Triggers = {FALSE}
    RestartKinds = {"process"}
    DbModes = {FALSE}
    MaxTime = 0
    MaxUid = 2
    MaxLate = 0
    MaxCtr = 0
    MaxIdle = 0
    MaxRestarts = 0
INVARIANTS BootNeverDropped
CHECK_DEADLOCK FALSE
