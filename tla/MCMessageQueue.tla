--------------------------- MODULE MCMessageQueue ---------------------------
(* Instances of MessageQueue for TLC: the kinds of the messages of each run. *)
EXTENDS MessageQueueDelivery, TLC

BootKind == "boot" :> "Boot" @@ "stop" :> "Transaction"
RetryKind == "boot" :> "Boot" @@ "start" :> "Start" @@ "stop" :> "Transaction"
CrashKind == "boot" :> "Boot" @@ "alarm" :> "Security" @@ "stop" :> "Transaction"
LiveKind == "boot" :> "Boot" @@ "start" :> "Start" @@ "beat" :> "Heartbeat"
ConnectionKind == "boot" :> "Boot" @@ "authorize" :> "Normal"
=============================================================================
