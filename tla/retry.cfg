SPECIFICATION Spec
CONSTANTS
    None = None
    Msgs = {"boot", "start", "stop"}
    Kind <- RetryKind
    Async = {}
    Calls = {}
    AttemptLimits = {2}
    RetryIntervals = {1}
    BootInterval = 1
    Threshold = 5
    ResumeDelays = {FALSE}
    QueueAllModes = {FALSE}
    IgnoreModes = {FALSE}
    Triggers = {FALSE}
    RestartKinds = {"process"}
    DbModes = {FALSE}
    MaxTime = 1
    MaxUid = 1
    MaxLate = 1
    MaxCtr = 0
    MaxIdle = 0
    MaxRestarts = 0
INVARIANTS TypeOK PendingIsHeldOnce TransactionOrder InFlightIsWatched AttemptsDiffer
CHECK_DEADLOCK FALSE
