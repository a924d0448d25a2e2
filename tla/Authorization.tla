---------------------------- MODULE Authorization ----------------------------
(***************************************************************************)
(* The Auth module (AuthHandler.cpp, Connector.cpp,                        *)
(* ConnectorStateMachine.cpp) together with the sessions of the            *)
(* EvseManagers it authorizes (ChargerSession).                            *)
(*                                                                         *)
(* The threads: one detached thread per provided token (Auth.cpp), one     *)
(* caller of withdraw_authorization at a time (withdraw_mutex), one        *)
(* handler of session events per EVSE (the framework keeps the order of a  *)
(* topic), one timer thread per EVSE, and the chargers.  A step is what a  *)
(* thread does while it holds event_mutex: from taking it to releasing it, *)
(* to the validators' answer or to a wait on the condition variable.       *)
(* Every predicate waited for is made true by a thread that then notifies, *)
(* so a waiting thread is modelled by its predicate.                       *)
(*                                                                         *)
(* Not modelled: reservations, Plug&Charge at the charger, the published   *)
(* token validation status, and the failure of a call to a charger.        *)
(***************************************************************************)
EXTENDS ChargerSession, ConnectorStateMachine, FiniteSets

CONSTANTS
    Evses,          \* evse ids
    Tokens,         \* id tokens
    Parents,        \* parent id tokens (group ids)
    None,           \* no token, no evse, no parent
    Connectors,     \* Connectors[t]: the EVSEs the provided token names, {} if it names none
    StopTypes,      \* the tokens of type RFID or BankCard
    Prevalidated,   \* the tokens that come prevalidated
    ProvidedParent, \* ProvidedParent[t]: the parent the provided token brings along, or None
    Verdicts,       \* what the validators may answer, one result per validator
    Configs,        \* settings of the module
    Requests,       \* withdraw_authorization requests
    Threads,        \* the threads that may be inside on_token at one time, numbered
    Budgets         \* how many tokens, plug-ins and other occasions a behaviour may have

Results == [accepted: BOOLEAN, parent: Parents \cup {None}, evses: SUBSET Evses]
Algorithms == {"FindFirst", "PlugEvents", "PlugEventsLIFO"}
ConfigType == [algorithm: Algorithms, plug_in_timeout_enabled: BOOLEAN, prioritize: BOOLEAN,
               stop_on_reswipe: BOOLEAN, ignore_faults: BOOLEAN, master: Parents \cup {None}]
RequestType == [token: Tokens \cup {None}, evse: Evses \cup {None}]
Occasions == {"token", "plug", "other"}

ASSUME AuthAssumption ==
    /\ Evses \subseteq Nat /\ Evses # {} /\ IsFiniteSet(Evses)
    /\ None \notin Evses /\ None \notin Tokens /\ None \notin Parents
    /\ Connectors \in [Tokens -> SUBSET Evses]
    /\ StopTypes \subseteq Tokens
    /\ Prevalidated \subseteq Tokens
    /\ ProvidedParent \in [Tokens -> Parents \cup {None}]
    /\ Verdicts \subseteq Seq(Results)
    /\ Configs \subseteq ConfigType
    /\ Requests \subseteq RequestType
    /\ Threads \subseteq Nat
    /\ Budgets \subseteq [Occasions -> Nat]

VARIABLES
    config,              \* the settings in force
    identifier,          \* per EVSE: the token authorized there, and its parent
    transaction_active,  \* per EVSE: as the session events report it
    plug_in_timeout,     \* per EVSE: a replug is required
    connector,           \* per EVSE: state of its connector
    plug_in_queue,       \* EVSEs with a pending plug-in, oldest first
    timer,               \* per EVSE: what timeout_timer is armed for
    expired,             \* per EVSE: expiries whose callback can no longer be cancelled
    timeout_in_progress, \* per EVSE: the timer thread is inside a callback
    handler,             \* per EVSE: the session event whose handler waits for the callback
    thread,              \* the on_token threads
    withdraw,            \* the withdraw request whose caller waits, or NoRequest
    charger,             \* per EVSE: the EvseManager's charger
    withdrawn,           \* history: EVSEs withdrawn since their last authorization
    budget               \* how many tokens, plug-ins and other occasions may still come

authVars == <<identifier, transaction_active, plug_in_timeout, connector, plug_in_queue>>
timerVars == <<timer, expired, timeout_in_progress, handler>>
vars == <<config, authVars, timerVars, thread, withdraw, charger, withdrawn, budget>>

NoId == [token |-> None, parent |-> None]
NoRequest == [token |-> None, evse |-> None, waiting |-> FALSE]
IdleThread == [pc |-> "idle", tok |-> None, refs |-> {}, left |-> <<>>, evse |-> None]

\* The types of all variables but the plug-in queue.
StateTypeOK ==
    /\ config \in Configs
    /\ identifier \in [Evses -> [token: Tokens \cup {None}, parent: Parents \cup {None}]]
    /\ transaction_active \in [Evses -> BOOLEAN]
    /\ plug_in_timeout \in [Evses -> BOOLEAN]
    /\ connector \in [Evses -> ConnectorState]
    /\ timer \in [Evses -> {"off", "auth", "plugin"}]
    /\ expired \in [Evses -> Seq({"auth", "plugin"})]
    /\ timeout_in_progress \in [Evses -> BOOLEAN]
    /\ handler \in [Evses -> {"none", "TransactionStarted", "SessionFinished", "Deauthorized"}]
    /\ thread \in [Threads -> [pc: {"idle", "validating", "selecting", "notifying"},
                              tok: Tokens \cup {None}, refs: SUBSET Evses, left: Seq(Results),
                              evse: Evses \cup {None}]]
    /\ withdraw \in [token: Tokens \cup {None}, evse: Evses \cup {None}, waiting: BOOLEAN]
    /\ charger \in [Evses -> ChargerType]
    /\ withdrawn \in SUBSET Evses
    /\ budget \in [Occasions -> Nat]

\* Every variable has the type the code gives it.
TypeOK == StateTypeOK /\ plug_in_queue \in Seq(Evses)

Spend(occasion) ==
    /\ budget[occasion] > 0
    /\ budget' = [budget EXCEPT ![occasion] = @ - 1]

-----------------------------------------------------------------------------
(* The EVSEs as Auth sees them, one connector each.                        *)

submit_event(e, event) == connector' = [connector EXCEPT ![e] = handle_event(@, event)]

is_unavailable(e) == connector[e] \in {"UNAVAILABLE", "UNAVAILABLE_FAULTED"}

is_available(e) ==
    /\ ~plug_in_timeout[e]
    /\ identifier[e].token = None
    /\ connector[e] \notin {"OCCUPIED", "FAULTED_OCCUPIED", "UNAVAILABLE", "FAULTED"}

-----------------------------------------------------------------------------
(* What on_token asks of the EVSEs.  The code walks them in the order of   *)
(* their ids.                                                              *)

FirstOf(S) == {e \in S : \A f \in S : e <= f}

get_referenced_evses(t) ==
    {e \in IF Connectors[t] = {} THEN Evses ELSE Connectors[t] : ~is_unavailable(e)}

\* The EVSEs whose identifier is `id`, as its token or as its parent.
used_for_transaction(refs, id) ==
    {e \in refs : identifier[e].token # None /\ id \in {identifier[e].token, identifier[e].parent}}

is_token_already_in_process(t, refs) ==
    \/ \E s \in Threads : thread[s].tok = t
    \/ \E e \in refs : identifier[e].token = t /\ ~transaction_active[e]

any_evse_available(refs) == \E e \in refs : is_available(e)

any_parent_id_present(refs) == \E e \in refs : identifier[e].parent # None

equals_master_pass_group_id(parent) == parent # None /\ parent = config.master

\* The EVSE among `refs` whose pending plug-in is the oldest or the last, as
\* a set that is empty if none has one.
get_oldest_plugin(refs) ==
    {e \in refs : \E i \in DOMAIN plug_in_queue :
                     plug_in_queue[i] = e /\ \A j \in 1..(i - 1) : plug_in_queue[j] \notin refs}
get_last_plugin(refs) ==
    {e \in refs : \E i \in DOMAIN plug_in_queue :
                     /\ plug_in_queue[i] = e
                     /\ \A j \in (i + 1)..Len(plug_in_queue) : plug_in_queue[j] \notin refs}

\* plug_in_queue.remove_if: all entries of e go.
WithoutPlugIn(e) ==
    LET kept[i \in 0..Len(plug_in_queue)] ==
          IF i = 0 THEN <<>>
          ELSE IF plug_in_queue[i] = e THEN kept[i - 1]
          ELSE Append(kept[i - 1], plug_in_queue[i])
    IN  kept[Len(plug_in_queue)]

does_withdraw_request_match(request, refs, t) ==
    /\ request.token \in {None, t}
    /\ request.evse = None \/ request.evse \in refs

is_authorization_withdrawn(refs, t) ==
    withdraw.waiting /\ does_withdraw_request_match(withdraw, refs, t)

-----------------------------------------------------------------------------
(* on_token and handle_token.                                              *)

\* Mutant: on_token leaves the token among the ones in process.
ReturnInProcess(s) == thread' = [thread EXCEPT ![s] = [IdleThread EXCEPT !.tok = thread[s].tok]]

\* on_token publishes the result, forgets the token and returns.
Return(s) == thread' = [thread EXCEPT ![s] = IdleThread]

NoGrant == UNCHANGED <<identifier, plug_in_queue, timer, withdrawn>>

\* Return without having authorized or stopped anything.
Refuse(s) ==
    /\ Return(s)
    /\ NoGrant
    /\ UNCHANGED charger

\* stop_transaction_callback on every EVSE of `stops`.
StopAndReturn(s, stops) ==
    /\ charger' = [e \in Evses |-> IF e \in stops THEN cancel_transaction(charger[e]) ELSE charger[e]]
    /\ Return(s)
    /\ NoGrant

\* The end of notify_evse: arm the authorization timeout, consume the
\* plug-in, tell the EvseManager.
Authorize(s, e) ==
    /\ timer' = [timer EXCEPT ![e] = "auth"]
    /\ plug_in_queue' = WithoutPlugIn(e)
    /\ charger' = [charger EXCEPT ![e] = authorize(@)]
    /\ withdrawn' = withdrawn \ {e}
    /\ Return(s)

\* Mutant: the token is stored where its parent belongs.
IdentifierAsParent(t, result) == [token |-> t, parent |-> t]

IdentifierOf(t, result) == [token |-> t, parent |-> result.parent]

\* notify_evse with an accepted result: the identifier is set before the wait
\* for a running timeout callback.
notify_evse(s, t, e, result) ==
    /\ identifier' = [identifier EXCEPT ![e] = IdentifierOf(t, result)]
    /\ \/ /\ ~timeout_in_progress[e]
          /\ Authorize(s, e)
       \/ /\ timeout_in_progress[e]
          /\ thread' = [thread EXCEPT ![s] = [IdleThread EXCEPT !.pc = "notifying", !.tok = t, !.evse = e]]
          /\ UNCHANGED <<timer, plug_in_queue, charger, withdrawn>>

\* The loop over the results once EVSE e is selected: the first accepted
\* result that allows e authorizes, unless a master pass comes before it.
\* The first accepted result has been looked at before select_evse and is
\* not looked at again after the wait there.
\* A result that does not allow e changes nothing at the charger.
UseEvse(s, t, e, results) ==
    LET accepted == {i \in DOMAIN results : results[i].accepted}
        master == {i \in accepted \ FirstOf(accepted) : equals_master_pass_group_id(results[i].parent)}
        telling == {i \in accepted : i \in master \/ e \in results[i].evses}
        granting == FirstOf(telling) \ master
    IN  \/ granting = {} /\ Refuse(s)
        \/ \E i \in granting : notify_evse(s, t, e, results[i])

\* The EVSE select_evse returns at once; {} means it waits for a plug-in.
\* FindFirst always finds one: handle_token has checked that one is available.
SelectedEvse(refs) ==
    LET oldest == {e \in get_oldest_plugin(refs) : ~transaction_active[e]}
    IN  CASE Cardinality(refs) = 1 -> refs
          [] Cardinality(refs) # 1 /\ config.algorithm = "PlugEvents" -> get_oldest_plugin(refs)
          [] Cardinality(refs) # 1 /\ config.algorithm = "PlugEventsLIFO" -> get_last_plugin(refs)
          [] Cardinality(refs) # 1 /\ config.algorithm = "FindFirst" ->
               IF oldest # {} THEN oldest ELSE FirstOf({e \in refs : is_available(e)})

\* select_evse; a withdrawal is only looked for by the algorithms that wait.
select_evse(s, t, refs, results) ==
    LET interrupted == /\ Cardinality(refs) # 1 /\ config.algorithm # "FindFirst"
                       /\ is_authorization_withdrawn(refs, t)
    IN  \/ /\ SelectedEvse(refs) = {}
           /\ thread' = [thread EXCEPT ![s] = [IdleThread EXCEPT !.pc = "selecting", !.tok = t,
                                                                 !.refs = refs, !.left = results]]
           /\ NoGrant
           /\ UNCHANGED charger
        \/ /\ SelectedEvse(refs) # {} /\ interrupted
           /\ Refuse(s)
        \/ /\ ~interrupted
           /\ \E e \in SelectedEvse(refs) : UseEvse(s, t, e, results)

\* Mutant: the EVSEs are not looked at again after the validators' answer.
WithIdentifier(refs) == refs

\* An EVSE that has an identifier is not considered for another token.
WithoutIdentifier(refs) == {e \in refs : identifier[e].token = None}

\* handle_token from the answer of the validators on.
Decide(s, t, refs, results) ==
    LET parents == {i \in DOMAIN results :
                      /\ results[i].accepted /\ results[i].parent # None
                      /\ \/ equals_master_pass_group_id(results[i].parent)
                         \/ used_for_transaction(refs, results[i].parent) # {}}
        stopping == IF config.prioritize /\ any_evse_available(refs) THEN {} ELSE FirstOf(parents)
        accepted == FirstOf({i \in DOMAIN results : results[i].accepted})
        usable == /\ any_evse_available(refs)
                  /\ \E i \in accepted : ~equals_master_pass_group_id(results[i].parent)
    IN  \/ \E i \in stopping :
             /\ equals_master_pass_group_id(results[i].parent)
             /\ StopAndReturn(s, {e \in refs : transaction_active[e]})
        \/ \E i \in stopping :
             /\ ~equals_master_pass_group_id(results[i].parent)
             /\ StopAndReturn(s, {e \in FirstOf(used_for_transaction(refs, results[i].parent)) :
                                   transaction_active[e] /\ config.stop_on_reswipe})
        \/ stopping = {} /\ ~usable /\ Refuse(s)
        \/ stopping = {} /\ usable /\ select_evse(s, t, WithoutIdentifier(refs), results)

PrevalidatedResult(t) == <<[accepted |-> TRUE, parent |-> ProvidedParent[t], evses |-> Evses]>>

\* handle_token up to the validators: a re-swipe stops or re-authorizes, a
\* token nobody could use is turned away unvalidated.
handle_token(s, t, refs) ==
    LET own == IF t \in StopTypes THEN used_for_transaction(refs, t) ELSE {}
        useless == /\ own = {}
                   /\ \/ refs = {}
                      \/ /\ ~any_evse_available(refs)
                         /\ ~any_parent_id_present(refs)
                         /\ config.master = None
    IN  \/ /\ own # {}
           /\ StopAndReturn(s, IF config.stop_on_reswipe THEN FirstOf(own) ELSE {})
        \/ /\ useless
           /\ Refuse(s)
        \/ /\ own = {} /\ ~useless /\ t \in Prevalidated
           /\ Decide(s, t, refs, PrevalidatedResult(t))
        \/ /\ own = {} /\ ~useless /\ t \notin Prevalidated
           /\ thread' = [thread EXCEPT ![s] = [IdleThread EXCEPT !.pc = "validating", !.tok = t,
                                                                 !.refs = refs]]
           /\ NoGrant
           /\ UNCHANGED charger

OnlyTokens == UNCHANGED <<config, transaction_active, plug_in_timeout, connector, expired,
                          timeout_in_progress, handler, withdraw>>

\* A token is provided; a thread takes it through on_token.
on_token(s, t) ==
    /\ thread[s].pc = "idle" /\ \A r \in Threads : thread[r].pc = "idle" => s <= r
    /\ Spend("token")
    /\ LET refs == get_referenced_evses(t)
       IN  \/ is_token_already_in_process(t, refs) /\ Refuse(s)
           \/ ~is_token_already_in_process(t, refs) /\ handle_token(s, t, refs)
    /\ OnlyTokens

\* The validators have answered and the thread holds event_mutex again.
Validated(s, results) ==
    /\ thread[s].pc = "validating"
    /\ Decide(s, thread[s].tok, thread[s].refs, results)
    /\ OnlyTokens
    /\ UNCHANGED budget

\* select_evse wakes up: for a plug-in or because the request is withdrawn.
PlugInOrWithdrawn(s) ==
    LET t == thread[s].tok
        refs == thread[s].refs
    IN  /\ thread[s].pc = "selecting"
        /\ \/ is_authorization_withdrawn(refs, t) /\ Refuse(s)
           \/ /\ ~is_authorization_withdrawn(refs, t)
              /\ \E e \in SelectedEvse(refs) : UseEvse(s, t, e, thread[s].left)
        /\ OnlyTokens
        /\ UNCHANGED budget

\* connection_timeout passes without either.
SelectTimeout(s) ==
    LET t == thread[s].tok
        refs == thread[s].refs
    IN  /\ thread[s].pc = "selecting"
        /\ ~is_authorization_withdrawn(refs, t)
        /\ SelectedEvse(refs) = {}
        /\ Refuse(s)
        /\ OnlyTokens
        /\ UNCHANGED budget

\* notify_evse goes on after the timeout callback it waited for.
Notify(s) ==
    /\ thread[s].pc = "notifying"
    /\ ~timeout_in_progress[thread[s].evse]
    /\ Authorize(s, thread[s].evse)
    /\ OnlyTokens
    /\ UNCHANGED <<identifier, budget>>

\* A validator corrects the parent of an identifier.
handle_token_validation_result_update(e, parent) ==
    /\ Spend("other")
    /\ identifier[e].token # None
    /\ identifier' = [identifier EXCEPT ![e].parent = parent]
    /\ UNCHANGED <<config, transaction_active, plug_in_timeout, connector, plug_in_queue, timerVars,
                   thread, withdraw, charger, withdrawn>>

\* The setters of the auth interface; the selection algorithm and the
\* handling of faults are fixed at start.
SetConfig(c) ==
    /\ Spend("other")
    /\ c.algorithm = config.algorithm /\ c.ignore_faults = config.ignore_faults
    /\ config' = c
    /\ UNCHANGED <<authVars, timerVars, thread, withdraw, charger, withdrawn>>

-----------------------------------------------------------------------------
(* withdraw_authorization.                                                 *)

\* A token in process is targeted through the EVSEs it references now.
TargetsTokenInProcess(request) ==
    \E s \in Threads :
        /\ thread[s].tok # None
        /\ does_withdraw_request_match(request, get_referenced_evses(thread[s].tok), thread[s].tok)

\* Granted authorizations that match the request are withdrawn, or their
\* transaction is stopped.
Withdraw(request) ==
    LET granted == {e \in Evses : /\ identifier[e].token # None
                                  /\ request.evse \in {None, e}
                                  /\ request.token \in {None, identifier[e].token}}
    IN  /\ charger' = [e \in Evses |->
                          IF e \notin granted THEN charger[e]
                          ELSE IF transaction_active[e] THEN cancel_transaction(charger[e])
                          ELSE deauthorize(charger[e])]
        /\ withdrawn' = withdrawn \cup granted
        /\ withdraw' = NoRequest

handle_withdraw_authorization(request) ==
    /\ ~withdraw.waiting
    /\ Spend("other")
    /\ \/ /\ TargetsTokenInProcess(request)
          /\ withdraw' = [token |-> request.token, evse |-> request.evse, waiting |-> TRUE]
          /\ UNCHANGED <<charger, withdrawn>>
       \/ /\ ~TargetsTokenInProcess(request)
          /\ Withdraw(request)
    /\ UNCHANGED <<config, authVars, timerVars, thread>>

\* The tokens in process it targets have finished.
ProcessingFinished ==
    /\ withdraw.waiting
    /\ ~TargetsTokenInProcess(withdraw)
    /\ Withdraw(withdraw)
    /\ UNCHANGED <<config, authVars, timerVars, thread, budget>>

-----------------------------------------------------------------------------
(* Timeouts.  stop() and a new timeout() cancel a timer that has not       *)
(* expired; they do not reach a callback that is queued or running.        *)

Expire(e) ==
    /\ timer[e] # "off"
    /\ expired' = [expired EXCEPT ![e] = Append(@, timer[e])]
    /\ timer' = [timer EXCEPT ![e] = "off"]
    /\ UNCHANGED <<config, authVars, timeout_in_progress, handler, thread, withdraw, charger, withdrawn,
                   budget>>

\* The callback announces itself before it takes event_mutex.
BeginTimeout(e) ==
    /\ expired[e] # <<>>
    /\ ~timeout_in_progress[e]
    /\ timeout_in_progress' = [timeout_in_progress EXCEPT ![e] = TRUE]
    /\ UNCHANGED <<config, authVars, timer, expired, handler, thread, withdraw, charger, withdrawn, budget>>

\* Mutant: the callback does not announce its end.
EndTimeoutSilently(e) ==
    /\ expired' = [expired EXCEPT ![e] = Tail(@)]
    /\ UNCHANGED timeout_in_progress

EndTimeout(e) ==
    /\ expired' = [expired EXCEPT ![e] = Tail(@)]
    /\ timeout_in_progress' = [timeout_in_progress EXCEPT ![e] = FALSE]

\* The callback: the one armed by notify_evse, or the one armed at plug-in.
Timeout(e) ==
    /\ timeout_in_progress[e] /\ expired[e] # <<>>
    /\ \/ /\ Head(expired[e]) = "auth"
          /\ identifier' = [identifier EXCEPT ![e] = NoId]
          /\ UNCHANGED <<plug_in_queue, plug_in_timeout>>
       \/ /\ Head(expired[e]) = "plugin"
          /\ plug_in_queue' = WithoutPlugIn(e)
          /\ plug_in_timeout' = [plug_in_timeout EXCEPT ![e] = TRUE]
          /\ UNCHANGED identifier
    /\ charger' = [charger EXCEPT ![e] = deauthorize(@)]
    /\ EndTimeout(e)
    /\ UNCHANGED <<config, transaction_active, connector, timer, handler, thread, withdraw, withdrawn, budget>>

-----------------------------------------------------------------------------
(* handle_session_event.                                                   *)

\* Mutant: the plug-in survives the end of its session.
AfterTimeoutKeepPlugIn(e, event) ==
    /\ timer' = [timer EXCEPT ![e] = "off"]
    /\ UNCHANGED plug_in_queue

\* The end of the handlers that wait for a running timeout callback.
AfterTimeout(e, event) ==
    /\ timer' = [timer EXCEPT ![e] = "off"]
    /\ plug_in_queue' = IF event = "SessionFinished" THEN WithoutPlugIn(e) ELSE plug_in_queue

StopTimer(e, event) ==
    \/ /\ ~timeout_in_progress[e]
       /\ AfterTimeout(e, event)
       /\ UNCHANGED handler
    \/ /\ timeout_in_progress[e]
       /\ handler' = [handler EXCEPT ![e] = event]
       /\ UNCHANGED <<timer, plug_in_queue>>

Forget(e) == identifier' = [identifier EXCEPT ![e] = NoId]

SessionStarted(e) ==
    /\ plug_in_queue' = Append(plug_in_queue, e)
    /\ timer' = IF Cardinality(Evses) > 1 /\ config.plug_in_timeout_enabled
                THEN [timer EXCEPT ![e] = "plugin"]
                ELSE timer
    /\ UNCHANGED <<identifier, transaction_active, plug_in_timeout, connector, handler>>

TransactionStarted(e) ==
    /\ transaction_active' = [transaction_active EXCEPT ![e] = TRUE]
    /\ submit_event(e, "TRANSACTION_STARTED")
    /\ StopTimer(e, "TransactionStarted")
    /\ UNCHANGED <<identifier, plug_in_timeout>>

\* Mutant: the transaction stays active.
TransactionFinishedStaysActive(e) ==
    /\ Forget(e)
    /\ UNCHANGED <<transaction_active, plug_in_timeout, connector, plug_in_queue, timer, handler>>

TransactionFinished(e) ==
    /\ transaction_active' = [transaction_active EXCEPT ![e] = FALSE]
    /\ Forget(e)
    /\ UNCHANGED <<plug_in_timeout, connector, plug_in_queue, timer, handler>>

SessionFinished(e) ==
    /\ plug_in_timeout' = [plug_in_timeout EXCEPT ![e] = FALSE]
    /\ Forget(e)
    /\ submit_event(e, "SESSION_FINISHED")
    /\ StopTimer(e, "SessionFinished")
    /\ UNCHANGED transaction_active

Deauthorized(e) ==
    /\ Forget(e)
    /\ StopTimer(e, "Deauthorized")
    /\ UNCHANGED <<transaction_active, plug_in_timeout, connector>>

Availability(e, event) ==
    /\ submit_event(e, event)
    /\ UNCHANGED <<identifier, transaction_active, plug_in_timeout, plug_in_queue, timer, handler>>

\* The next session event of EVSE e.
handle_session_event(e) ==
    LET event == Head(charger[e].out)
    IN  /\ handler[e] = "none"
        /\ charger[e].out # <<>>
        /\ charger' = [charger EXCEPT ![e].out = Tail(@)]
        /\ \/ event = "SessionStarted" /\ SessionStarted(e)
           \/ event = "TransactionStarted" /\ TransactionStarted(e)
           \/ event = "TransactionFinished" /\ TransactionFinished(e)
           \/ event = "SessionFinished" /\ SessionFinished(e)
           \/ event = "Deauthorized" /\ Deauthorized(e)
           \/ event = "Disabled" /\ Availability(e, "DISABLE")
           \/ event = "Enabled" /\ Availability(e, "ENABLE")
        /\ UNCHANGED <<config, expired, timeout_in_progress, thread, withdraw, withdrawn, budget>>

\* The handler goes on after the timeout callback it waited for.
ResumeHandler(e) ==
    /\ handler[e] # "none"
    /\ ~timeout_in_progress[e]
    /\ AfterTimeout(e, handler[e])
    /\ handler' = [handler EXCEPT ![e] = "none"]
    /\ UNCHANGED <<config, identifier, transaction_active, plug_in_timeout, connector, expired,
                   timeout_in_progress, thread, withdraw, charger, withdrawn, budget>>

\* A permanent fault of the EVSE is raised or cleared.
handle_permanent_fault(e, event) ==
    /\ Spend("other")
    /\ ~config.ignore_faults
    /\ submit_event(e, event)
    /\ UNCHANGED <<config, identifier, transaction_active, plug_in_timeout, plug_in_queue, timerVars,
                   thread, withdraw, charger, withdrawn>>

-----------------------------------------------------------------------------
(* The chargers.                                                           *)

ChargerStep(e, c) ==
    /\ charger' = [charger EXCEPT ![e] = c]
    /\ UNCHANGED <<config, authVars, timerVars, thread, withdraw, withdrawn>>

PlugIn(e) == charger[e].state = "Idle" /\ Spend("plug") /\ ChargerStep(e, CarPluggedIn(charger[e]))

Unplug(e) == charger[e].plugged /\ Spend("other") /\ ChargerStep(e, CarUnplugged(charger[e]))

DisableEvse(e) == charger[e].enabled /\ Spend("other") /\ ChargerStep(e, Disable(charger[e]))

EnableEvse(e) ==
    /\ ~charger[e].enabled \/ charger[e].state = "Disabled"
    /\ Spend("other")
    /\ ChargerStep(e, Enable(charger[e]))

MainLoop(e) ==
    /\ \/ /\ MayStart(charger[e])
          /\ \E state \in {"Charging", "WaitingForAuthentication"} :
                /\ state = "WaitingForAuthentication" => ~charger[e].transaction
                /\ ChargerStep(e, StartCharging(charger[e], state))
       \/ MustStop(charger[e]) /\ ChargerStep(e, Finish(charger[e]))
    /\ UNCHANGED budget

-----------------------------------------------------------------------------
Init ==
    /\ config \in Configs
    /\ identifier = [e \in Evses |-> NoId]
    /\ transaction_active = [e \in Evses |-> FALSE]
    /\ plug_in_timeout = [e \in Evses |-> FALSE]
    /\ connector = [e \in Evses |-> "AVAILABLE"]
    /\ plug_in_queue = <<>>
    /\ timer = [e \in Evses |-> "off"]
    /\ expired = [e \in Evses |-> <<>>]
    /\ timeout_in_progress = [e \in Evses |-> FALSE]
    /\ handler = [e \in Evses |-> "none"]
    /\ thread = [s \in Threads |-> IdleThread]
    /\ withdraw = NoRequest
    /\ charger = [e \in Evses |-> FreshCharger]
    /\ withdrawn = {}
    /\ budget \in Budgets

TokenStep(s) ==
    \/ \E results \in Verdicts : Validated(s, results)
    \/ PlugInOrWithdrawn(s)
    \/ SelectTimeout(s)
    \/ Notify(s)

EvseStep(e) ==
    \/ Expire(e)
    \/ BeginTimeout(e)
    \/ Timeout(e)
    \/ handle_session_event(e)
    \/ ResumeHandler(e)
    \/ MainLoop(e)

Next ==
    \/ \E s \in Threads : TokenStep(s) \/ \E t \in Tokens : on_token(s, t)
    \/ \E request \in Requests : handle_withdraw_authorization(request)
    \/ ProcessingFinished
    \/ \E e \in Evses : EvseStep(e)
    \/ \E e \in Evses, parent \in Parents \cup {None} : handle_token_validation_result_update(e, parent)
    \/ \E e \in Evses, event \in {"FAULTED", "ERROR_CLEARED"} : handle_permanent_fault(e, event)
    \/ \E e \in Evses : PlugIn(e) \/ Unplug(e) \/ DisableEvse(e) \/ EnableEvse(e)
    \/ \E c \in Configs : SetConfig(c)

Spec == Init /\ [][Next]_vars

\* Threads run, validators answer or their call times out, timers expire,
\* published events are delivered, and the chargers' main loops turn.  Users,
\* faults and requests from outside need not come.
Fairness ==
    /\ \A s \in Threads : WF_vars(TokenStep(s))
    /\ WF_vars(ProcessingFinished)
    /\ \A e \in Evses : /\ WF_vars(Expire(e))
                         /\ WF_vars(BeginTimeout(e))
                         /\ WF_vars(Timeout(e))
                         /\ WF_vars(handle_session_event(e))
                         /\ WF_vars(ResumeHandler(e))
                         /\ WF_vars(MainLoop(e))

LiveSpec == Spec /\ Fairness

-----------------------------------------------------------------------------
(* Properties.                                                             *)

TransactionEvents(e) ==
    {i \in DOMAIN charger[e].out : charger[e].out[i] \in {"TransactionStarted", "TransactionFinished"}}

\* Auth follows the charger's transactions (transaction_active decides whether
\* a token, a master pass or a withdrawal stops a transaction or only takes an
\* authorization back): once every published session event is handled,
\* transaction_active of an EVSE is what its charger says, and until then the
\* last transaction event on its way says so.
TransactionIsKnown ==
    \A e \in Evses :
        LET I == TransactionEvents(e)
        IN  /\ I = {} => charger[e].transaction = transaction_active[e]
            /\ \A i \in I : (\A j \in I : j <= i) =>
                   charger[e].transaction = (charger[e].out[i] = "TransactionStarted")

\* The plug-in queue, which PlugEvents and FindFirst pick an EVSE from, holds
\* an EVSE once at most, and only while the session of that plug-in lasts or
\* the end of it has not been handled: a token is never given to the EVSE of an
\* EV whose departure Auth has dealt with.
PlugInsArePending ==
    /\ \A i, j \in DOMAIN plug_in_queue : plug_in_queue[i] = plug_in_queue[j] => i = j
    /\ \A i \in DOMAIN plug_in_queue :
          LET e == plug_in_queue[i]
          IN  \/ charger[e].session
              \/ handler[e] = "SessionFinished"
              \/ \E j \in DOMAIN charger[e].out : charger[e].out[j] = "SessionFinished"

\* With FindFirst no thread of on_token overwrites the identifier of another
\* token, although the validators are asked without event_mutex and the EVSEs
\* were picked before: the identifier has to be released first (handle_token
\* looks again for EVSEs that have one after the validators' answer).  The
\* algorithms that wait for a plug-in do not promise this.
GrantIsExclusive ==
    [][\A e \in Evses :
          /\ identifier[e].token # None
          /\ identifier'[e].token # identifier[e].token
          /\ config.algorithm = "FindFirst"
          => identifier'[e].token = None]_vars

\* withdraw_authorization answers Accepted when the "requested authorization
\* was removed": an EVSE whose authorization it has taken back stays without one
\* until the next authorization.  The code disagrees while TransactionStarted
\* is on its way: transaction_active is still false, so the charger is asked to
\* withdraw, which a charger that has left WaitingForAuthentication only
\* reports as Deauthorized and goes on charging.
WithdrawnIsRemoved == \A e \in withdrawn : ~charger[e].authorized

\* Every token that on_token takes is answered: the validators' answer, the
\* wait for a plug-in or a withdrawal, and the wait for a timeout callback of
\* the selected EVSE all end.
TokensAreAnswered == \A s \in Threads : thread[s].pc # "idle" ~> thread[s].pc = "idle"

\* A caller of withdraw_authorization that waits for tokens in process returns,
\* even if they wait for a plug-in or for a timeout callback themselves.
WithdrawReturns == withdraw.waiting ~> ~withdraw.waiting

=============================================================================
