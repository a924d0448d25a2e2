--------------------------- MODULE ChargerSession ---------------------------
(***************************************************************************)
(* What the charger of an EvseManager (Charger.cpp) keeps of a session and *)
(* of its authorization, as operators on one record per EVSE.  Every       *)
(* operation runs under state_machine_mutex and is therefore one step.     *)
(*                                                                         *)
(* PrepareCharging, Charging, the two paused states, SwitchPhases, the     *)
(* T_step states and StoppingCharging are one state, "Charging": they      *)
(* differ in the control pilot and the contactor, and leave the session    *)
(* and the authorization alone.  `out` is the session events the Auth      *)
(* module acts on, published and not yet handled, oldest first.            *)
(***************************************************************************)
EXTENDS Naturals, Sequences

EvseState == {"Disabled", "Idle", "WaitingForAuthentication", "Charging", "Finished"}

\* The session events Auth acts on; "SessionStarted" is the one with the
\* reason EVConnected, the one with the reason Authorized has no effect there.
SessionEvent == {"SessionStarted", "TransactionStarted", "TransactionFinished", "SessionFinished",
                 "Deauthorized", "Disabled", "Enabled"}

ChargerType == [state: EvseState, plugged: BOOLEAN, session: BOOLEAN, authorized: BOOLEAN,
                transaction: BOOLEAN, cancelled: BOOLEAN, enabled: BOOLEAN,
                disable_requested: BOOLEAN, out: Seq(SessionEvent)]

FreshCharger == [state |-> "Idle", plugged |-> FALSE, session |-> FALSE, authorized |-> FALSE,
                 transaction |-> FALSE, cancelled |-> FALSE, enabled |-> TRUE,
                 disable_requested |-> FALSE, out |-> <<>>]

Signal(c, event) == [c EXCEPT !.out = Append(@, event)]

start_session(c) == [c EXCEPT !.session = TRUE, !.authorized = FALSE, !.cancelled = FALSE]

stop_session(c) ==
    Signal([c EXCEPT !.session = FALSE, !.authorized = FALSE, !.cancelled = FALSE], "SessionFinished")

start_transaction(c) == Signal([c EXCEPT !.transaction = TRUE], "TransactionStarted")

stop_transaction(c) ==
    IF c.transaction THEN Signal([c EXCEPT !.transaction = FALSE], "TransactionFinished") ELSE c

\* Deauthorized is published whatever the state; the authorization is only
\* removed where no transaction can use it.
deauthorize(c) ==
    IF ~c.session THEN c
    ELSE LET d == Signal(c, "Deauthorized")
         IN  IF c.state \in {"Disabled", "Idle", "WaitingForAuthentication"} /\ c.authorized
             THEN stop_session(d)
             ELSE d

\* A late answer, after the session was cancelled or is over.
Refuses(c) ==
    \/ c.cancelled
    \/ c.disable_requested
    \/ ~c.session /\ c.state # "Idle"

\* An accepted authorize_response.
authorize(c) ==
    IF Refuses(c) THEN c
    ELSE [(IF c.session THEN c ELSE start_session(c)) EXCEPT !.authorized = TRUE]

cancel_transaction(c) ==
    IF c.transaction THEN [c EXCEPT !.cancelled = TRUE, !.authorized = FALSE]
    ELSE IF c.session /\ c.state = "WaitingForAuthentication" THEN [c EXCEPT !.cancelled = TRUE]
    ELSE c

\* Entering Finished, and leaving it in the same pass when the EV is gone or
\* a disable is pending.
Finish(c) ==
    LET f == [stop_transaction(c) EXCEPT !.state = "Finished"]
    IN  IF c.disable_requested THEN Signal([stop_session(f) EXCEPT !.state = "Disabled"], "Disabled")
        ELSE IF ~c.plugged THEN [stop_session(f) EXCEPT !.state = "Idle"]
        ELSE f

\* One call of run_state_machine: the states that do not wait for the EV or
\* for the power electronics are left at once.
run_state_machine(c) ==
    IF \/ /\ c.state = "WaitingForAuthentication"
          /\ ~c.plugged \/ c.disable_requested \/ c.cancelled
       \/ c.state = "Finished" /\ (~c.plugged \/ c.disable_requested)
    THEN Finish(c)
    ELSE IF c.state = "Idle" /\ c.disable_requested
    THEN Signal([c EXCEPT !.state = "Disabled"], "Disabled")
    ELSE c

\* The EV is plugged in; only an idle charger takes notice.
CarPluggedIn(c) ==
    LET w == [c EXCEPT !.state = "WaitingForAuthentication", !.plugged = TRUE]
    IN  IF c.session THEN w ELSE Signal(start_session(w), "SessionStarted")

CarUnplugged(c) == run_state_machine([c EXCEPT !.plugged = FALSE])

\* Enable_disable with a single source.  A request that arrives before the
\* charger has reached Disabled does not clear flag_disable_requested.
Disable(c) == run_state_machine([c EXCEPT !.enabled = FALSE, !.disable_requested = TRUE])

Enable(c) ==
    IF c.state # "Disabled" THEN Signal([c EXCEPT !.enabled = TRUE], "Enabled")
    ELSE LET i == [c EXCEPT !.state = "Idle", !.enabled = TRUE, !.disable_requested = FALSE]
         IN  deauthorize(IF c.enabled THEN i ELSE Signal(i, "Enabled"))

\* What the main loop does without a call from outside: an authorized EV
\* starts its transaction, a session that may not go on is wound down.
MayStart(c) ==
    /\ c.state = "WaitingForAuthentication"
    /\ c.plugged /\ c.authorized /\ ~c.cancelled /\ ~c.disable_requested

\* With HLC on AC the charger may stay where it is for a while after the
\* transaction has started.
StartCharging(c, state) ==
    [(IF c.transaction THEN c ELSE start_transaction(c)) EXCEPT !.state = state]

MustStop(c) ==
    \/ c.state = "Charging" /\ (~c.authorized \/ ~c.transaction \/ ~c.plugged \/ c.disable_requested)
    \/ c.state = "WaitingForAuthentication" /\ c.cancelled

=============================================================================
