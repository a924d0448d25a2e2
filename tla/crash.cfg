SPECIFICATION Spec
CONSTANTS
    None = None
    Msgs = {"boot", "alarm", "stop"}
    Kind <- CrashKind
    Async = {}
    Calls = {}
    AttemptLimits = {1}
    RetryIntervals = {0, 1}
    BootInterval = 0
    Threshold = 5
    ResumeDelays = {FALSE}
    QueueAllModes = {FALSE, TRUE}
    IgnoreModes = {FALSE, TRUE}
    Triggers = {FALSE}
    RestartKinds = {"process"}
    DbModes = {FALSE, TRUE}
    MaxTime = 0
    MaxUid = 0
    MaxLate = 0
    MaxCtr = 0
    MaxIdle = 0
    MaxRestarts = 1
INVARIANTS PersistedExactly BootFirst TransactionOrder
PROPERTIES ImplementsReliableDelivery
CHECK_DEADLOCK FALSE
