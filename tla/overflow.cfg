SPECIFICATION Spec
CONSTANTS
    None = None
    boot = boot
    u1 = u1
    u2 = u2
    u3 = u3
    status = status
    Msgs = {boot, u1, u2, u3, status}
    Kind <- OverflowKind
    Async = {}
    Calls = {}
    AttemptLimits = {1}
    RetryIntervals = {0}
    BootInterval = 0
    Threshold = 3
    ResumeDelays = {FALSE}
    QueueAllModes = {TRUE}
    IgnoreModes = {FALSE}
    Triggers = {FALSE}
    RestartKinds = {"process"}
    DbModes = {FALSE}
    MaxTime = 0
    MaxUid = 0
    MaxLate = 0
    MaxCtr = 0
    MaxIdle = 0
    MaxRestarts = 0
INVARIANTS QueueBound
PROPERTIES ImplementsReliableDelivery
SYMMETRY Updates
CHECK_DEADLOCK FALSE
