SPECIFICATION Spec
CONSTANTS
    None = None
    Msgs = {"boot", "stop"}
    Kind <- BootKind
    Async = {}
    Calls = {"getConf"}
    AttemptLimits = {2}
    RetryIntervals = {0}
    BootInterval = 0
    Threshold = 5
    ResumeDelays = {FALSE}
    QueueAllModes = {FALSE}
    IgnoreModes = {FALSE}
    Triggers = {FALSE}
    RestartKinds = {"process"}
    DbModes = {FALSE}
    MaxTime = 0
    MaxUid = 0
    MaxLate = 0
    MaxCtr = 0
    MaxIdle = 0
    MaxRestarts = 0
INVARIANTS HoldIsReleased
CHECK_DEADLOCK FALSE
