SPECIFICATION Spec
CONSTANTS
    None = None
    Msgs = {"boot", "start", "stop"}
    Kind <- RetryKind
    Async = {}
    Calls = {}
    AttemptLimits = {2}
    RetryIntervals = {0}
    BootInterval = 0
    Threshold = 5
    ResumeDelays = {FALSE}
    QueueAllModes = {FALSE}
    IgnoreModes = {FALSE}
    Triggers = {FALSE}
    RestartKinds = {"process"}
    DbModes = {FALSE}
    MaxTime = 0
    MaxUid = 0
    MaxLate = 0
    MaxCtr = 0
    MaxIdle = 0
    MaxRestarts = 0
PROPERTIES StartHandledFirst
CHECK_DEADLOCK FALSE
