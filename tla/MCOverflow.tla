----------------------------- MODULE MCOverflow -----------------------------
(* Instances of MessageQueue whose messages do not fit into the queue.  The  *)
(* updates differ in nothing but their name.                                 *)
EXTENDS MessageQueueDelivery, TLC

CONSTANTS boot, u1, u2, u3, status

OverflowKind == boot :> "Boot" @@ u1 :> "Update" @@ u2 :> "Update" @@ u3 :> "Update"
                @@ status :> "Normal"

Updates == Permutations({u1, u2, u3})
=============================================================================
