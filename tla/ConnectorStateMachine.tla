----------------------- MODULE ConnectorStateMachine -----------------------
(***************************************************************************)
(* The state of a connector as the Auth module keeps it                    *)
(* (ConnectorStateMachine.cpp).  An event that a state does not expect is  *)
(* ignored.                                                                *)
(***************************************************************************)

ConnectorState == {"AVAILABLE", "UNAVAILABLE", "FAULTED", "OCCUPIED", "FAULTED_OCCUPIED",
                   "UNAVAILABLE_FAULTED"}

handle_event(state, event) ==
    LET next == [
          AVAILABLE           |-> [TRANSACTION_STARTED |-> "OCCUPIED", DISABLE |-> "UNAVAILABLE",
                                   FAULTED |-> "FAULTED"],
          UNAVAILABLE         |-> [ENABLE |-> "AVAILABLE", FAULTED |-> "UNAVAILABLE_FAULTED"],
          FAULTED             |-> [ERROR_CLEARED |-> "AVAILABLE", DISABLE |-> "UNAVAILABLE_FAULTED"],
          OCCUPIED            |-> [SESSION_FINISHED |-> "AVAILABLE", FAULTED |-> "FAULTED_OCCUPIED"],
          FAULTED_OCCUPIED    |-> [ERROR_CLEARED |-> "OCCUPIED", SESSION_FINISHED |-> "FAULTED"],
          UNAVAILABLE_FAULTED |-> [ENABLE |-> "FAULTED", ERROR_CLEARED |-> "UNAVAILABLE"]][state]
    IN  IF event \in DOMAIN next THEN next[event] ELSE state

=============================================================================
