---------------------------- MODULE MessageQueue ----------------------------
(***************************************************************************)
(* The OCPP message queue of a charging station: the class template        *)
(* MessageQueue (ocpp/common/message_queue.hpp) with the dispatcher that   *)
(* feeds it, the database tables that persist it, and the part of the      *)
(* station's receive handler that acts on it.                              *)
(*                                                                         *)
(* Threads: callers that dispatch CALLs, the worker thread of start(), the *)
(* websocket receive thread, the thread that delivers the websocket's      *)
(* connected and disconnected notifications, and the timer threads.  One   *)
(* action is one critical section of message_mutex; the few accesses made  *)
(* without that mutex are actions of their own.                            *)
(*                                                                         *)
(* A deque is a set of messages together with ahead[m], the messages that  *)
(* are in front of m in the deque that holds m.  A message id is the pair  *)
(* of a message and the number of times its id was renewed.                *)
(***************************************************************************)
EXTENDS Integers, FiniteSets

CONSTANTS
    Msgs,               \* the CALLs of the station
    Kind,               \* what the code tells apart in a message's type
    Async,              \* the CALLs sent with dispatch_call_async
    Calls,              \* CALLs of the CSMS
    None,
    AttemptLimits,      \* values given to transaction_message_attempts
    RetryIntervals,     \* values given to transaction_message_retry_interval
    BootInterval,       \* boot_notification_retry_interval_seconds
    Threshold,          \* queues_total_size_threshold
    ResumeDelays,       \* message_queue_resume_delay: only "is it zero" matters
    QueueAllModes,      \* values of queue_all_messages at a start
    IgnoreModes,        \* values of DisableSecurityEventNotifications at a start
    Triggers,           \* values of the triggered flag of a dispatch
    RestartKinds,       \* who restarts: the "process", or a stopped "station"
    DbModes,            \* may database statements fail: values considered
    MaxTime,            \* bound of the clock
    MaxUid,             \* bound on failed deliveries of a BootNotification
    MaxLate,            \* bound on late answers and late timeout callbacks
    MaxCtr,             \* bound on disconnections and idle actions
    MaxIdle,            \* bound on queued idle actions
    MaxRestarts         \* bound on restarts of the station

TransactionKinds == {"Start", "Transaction", "Update", "Security"}
NormalKinds == {"Boot", "Normal", "Event", "Heartbeat"}

ASSUME KindAssumption == Kind \in [Msgs -> TransactionKinds \cup NormalKinds]
ASSUME MsgsAssumption == IsFiniteSet(Msgs) /\ None \notin Msgs /\ None \notin Calls
ASSUME CallsAssumption == Calls \cap {"idle", "start", "boot", "accepted", "booted"} = {}
ASSUME RetryAssumption ==
    /\ AttemptLimits \subseteq Nat /\ AttemptLimits # {}
    /\ RetryIntervals \subseteq Nat /\ RetryIntervals # {}
    /\ BootInterval \in Nat
ASSUME ConfigAssumption ==
    /\ Async \subseteq Msgs
    /\ ResumeDelays \subseteq BOOLEAN
    /\ QueueAllModes \subseteq BOOLEAN /\ QueueAllModes # {}
    /\ Triggers \subseteq BOOLEAN
    /\ RestartKinds \subseteq {"process", "station"}
    /\ IgnoreModes \subseteq BOOLEAN /\ DbModes \subseteq BOOLEAN
    /\ Threshold \in Nat
ASSUME BoundAssumption ==
    /\ MaxTime \in Nat /\ MaxUid \in Nat /\ MaxLate \in Nat
    /\ MaxCtr \in Nat /\ MaxIdle \in Nat /\ MaxRestarts \in Nat

VARIABLES
    now,                            \* the wall clock
    \* the ControlMessages
    control,                        \* their fields, while they exist
    promise,                        \* the promise of a message, or why there is none
    \* the queue object
    transaction_message_queue, normal_message_queue, ahead,
    older,                          \* older[m]: the messages accepted before m
    in_flight, paused, resuming, running, new_message, idle_actions,
    is_registration_status_accepted, next_message_to_send, pause_resume_ctr,
    \* timers, and expired timers whose callback has still to run
    in_flight_timeout_timer, timeout_callbacks,
    notify_queue_timer, notify_callback,
    resume_timer, resume_callbacks,
    \* the worker thread, and the locals it keeps over an idle action
    worker, paused_for_action, pause_resume_ctr_before,
    \* configuration
    transaction_message_attempts, transaction_message_retry_interval,
    queue_all_messages,
    \* tables TRANSACTION_QUEUE and NORMAL_QUEUE, and their MESSAGE_TIMESTAMP column
    dbTransaction, dbNormal, rowTimestamp,
    dbMayFail,                      \* whether a database statement may fail
    \* the station around the queue
    connection_state,               \* ChargePointConnectionState
    booting,                        \* a BootNotification was pushed and no answer asked for another
    handler,                        \* what the websocket receive thread is busy with
    connected,                      \* the last notification of the websocket
    \* the CSMS
    sent,                           \* ids sent and not yet answered
    restarts

dbVars      == <<dbTransaction, dbNormal, rowTimestamp>>
flightVars  == <<in_flight, in_flight_timeout_timer>>
dequeVars   == <<transaction_message_queue, normal_message_queue, ahead>>
messageVars == <<control, promise, dequeVars, dbVars, flightVars, notify_queue_timer>>
callbackVars == <<timeout_callbacks, notify_callback, resume_callbacks>>
pauseVars   == <<paused, resuming, pause_resume_ctr, resume_timer>>
actionVars  == <<idle_actions, paused_for_action, pause_resume_ctr_before>>
modeVars    == <<queue_all_messages, dbMayFail>>
retryVars   == <<transaction_message_attempts, transaction_message_retry_interval>>
setupVars   == <<modeVars, retryVars, now, restarts, running>>
stationVars == <<connection_state, connected, booting, is_registration_status_accepted>>
receiveVars == <<handler, next_message_to_send>>

vars == <<messageVars, older, callbackVars, sent, pauseVars, actionVars, setupVars,
          stationVars, receiveVars, new_message, worker>>

Times == 0..MaxTime
NoTime == -1
Ids == Msgs \X Nat
NoId == <<None, 0>>
Id(m) == <<m, control[m].uid>>

ControlMessage == [message_attempts : Nat, timestamp : Times, uid : Nat,
                   stall_until_accepted : BOOLEAN]

\* A ControlMessage that was just created, or that does not exist.
NewControl(time, stall) == [message_attempts |-> 0, timestamp |-> time, uid |-> 0,
                            stall_until_accepted |-> stall]
NoControl == NewControl(0, FALSE)

PromiseStates ==
    {"new", "checked", "pending",        \* not pushed, being pushed, in the queue
     "result", "error", "offline",       \* set_value was called
     "discarded", "dropped", "lost"}     \* never set

WorkerStates == {"top", "woken", "prewait", "waiting", "action", "sending",
                 "exited"}

----------------------------------------------------------------------------
(* Message types and configuration *)

is_transaction_message(m) == Kind[m] \in TransactionKinds
is_boot_notification_message(m) == Kind[m] = "Boot"
is_start_transaction_message(m) == Kind[m] = "Start"
is_transaction_update_message(m) == Kind[m] = "Update"

\* Heartbeat stands for the types in message_types_discard_for_queueing.
check_queue(m) == queue_all_messages /\ Kind[m] # "Heartbeat"

\* The messages that are persisted and sent again.
Persisted(m) == is_transaction_message(m) \/ check_queue(m)

\* registration_status of ChargePointImpl is Accepted.
RegistrationAccepted == connection_state = "Booted" \/ handler \in {"accepted", "booted"}

get_message_transmission_priority(m, triggered) ==
    IF RegistrationAccepted \/ is_boot_notification_message(m) \/ triggered
    THEN "SendImmediately"
    ELSE IF is_transaction_message(m) \/ queue_all_messages
            \/ (Kind[m] = "Event" /\ m \notin Async)
    THEN "SendAfterRegistrationStatusAccepted"
    ELSE "Discard"

\* Mutant: registration is not waited for.
AllowedWhenDue(m) == control[m].timestamp =< now

allowed_to_send_message(m) ==
    /\ control[m].stall_until_accepted => is_registration_status_accepted
    /\ control[m].timestamp =< now

----------------------------------------------------------------------------
(* Deques *)

\* Mutant: a message that failed goes to the back.
PushBehind(A, m, Q) == [x \in Msgs |-> IF x = m THEN Q ELSE A[x] \ {m}]

PushFront(A, m, Q) == [x \in Msgs |-> IF x = m THEN {}
                                      ELSE IF x \in Q THEN A[x] \cup {m} ELSE A[x]]

PushBack(A, m, Q) == [x \in Msgs |-> IF x = m THEN Q ELSE A[x] \ {m}]

Erase(A, S) == [x \in Msgs |-> IF x \in S THEN {} ELSE A[x] \ S]

\* Mutant: the selected message stays in its deque.
Keep(Q, m) == Q

Pop(Q, m) == Q \ {m}

\* What a statement on the rows of S does: all of them, or any part if the
\* database fails.
DbEffects(S) == IF dbMayFail THEN SUBSET S ELSE {S}

\* Mutant: every message is taken for a normal one.
AlwaysNormal(m) == "Normal"

queue_type(m) == IF is_transaction_message(m) THEN "Transaction" ELSE "Normal"

\* Mutant: the row is looked for in the normal table only.
RemoveNormalRow(m) ==
    /\ \E gone \in DbEffects({m}) : dbNormal' = dbNormal \ gone
    /\ UNCHANGED <<dbTransaction, rowTimestamp>>

\* remove_message_queue_message of a message that is done with, if it has a row.
RemoveRow(m) ==
    /\ \E gone \in DbEffects(IF Persisted(m) THEN {m} ELSE {}) :
          /\ dbTransaction' = IF queue_type(m) = "Transaction" THEN dbTransaction \ gone
                              ELSE dbTransaction
          /\ dbNormal' = IF queue_type(m) = "Normal" THEN dbNormal \ gone ELSE dbNormal
    /\ UNCHANGED rowTimestamp

\* Mutant: the rows come back in reverse order.
NewestFirst(rows, m) == {x \in rows : m \in older[x]}

\* get_message_queue_messages reads the rows in the order of their insertion.
RowsBefore(rows, m) == rows \cap older[m]

\* Mutant: the transaction deque is not counted.
NormalExcess(T, N) == Cardinality(N) - Threshold

Excess(T, N) == Cardinality(T) + Cardinality(N) - Threshold

\* The batches of Threshold / 10 (at least one) oldest messages that are
\* dropped until the queues fit; BootNotifications are skipped.
drop_messages_from_normal_message_queue(T, N, A) ==
    LET batch == IF Threshold \div 10 > 1 THEN Threshold \div 10 ELSE 1
        quota == IF Excess(T, N) > 0
                 THEN batch * ((Excess(T, N) + batch - 1) \div batch) ELSE 0
    IN  {m \in N : /\ ~is_boot_notification_message(m)
                   /\ Cardinality({x \in A[m] : ~is_boot_notification_message(x)}) < quota}

\* One pass over the deque S: an update is dropped unless the element before
\* it was, or fewer than two elements follow it.
DropPass(S, A) ==
    LET position(m) == Cardinality(A[m] \cap S)
        drops[i \in 0..Cardinality(S)] ==
            /\ i < Cardinality(S) - 2
            /\ \E m \in S : position(m) = i /\ is_transaction_update_message(m)
            /\ i = 0 \/ ~drops[i - 1]
    IN  {m \in S : drops[position(m)]}

\* The updates, with others behind them, that are dropped by the passes made
\* while the queues do not fit.
drop_update_messages_from_transactional_message_queue(T, N, A) ==
    LET left[i \in 0..Cardinality(T)] ==
            IF i = 0 THEN T
            ELSE IF Excess(left[i - 1], N) > 0
                 THEN left[i - 1] \ DropPass(left[i - 1], A) ELSE left[i - 1]
    IN  {m \in T : /\ is_transaction_update_message(m)
                   /\ \E x \in T : m \in A[x]
                   /\ m \notin left[Cardinality(T)]}

----------------------------------------------------------------------------
(* Building blocks of the actions *)

\* message_mutex is free: the worker holds it between evaluating the predicate
\* of cv.wait and blocking, and while it sends; every other critical section is
\* one action.
Unlocked == worker \notin {"prewait", "sending"}

\* cv.notify_one() and cv.notify_all(): the worker is the only waiter.
Notify == worker' = IF worker = "waiting" THEN "woken" ELSE worker

Cap(t) == IF t > MaxTime THEN MaxTime ELSE t

NewTimestamp(m, tries) ==
    IF ~Persisted(m) THEN Cap(control[m].timestamp + BootInterval)
    ELSE IF transaction_message_retry_interval > 0
    THEN Cap(control[m].timestamp + transaction_message_retry_interval * tries)
    ELSE now

\* Mutant: the message is sent again under the id it had.
SameUid(uid) == uid

\* createMessageId: the id of the next attempt is a new one.
NextUid(uid) == uid + 1

\* m, the message in flight, is sent again under a new id.
SendAgain(m) ==
    LET tries == control[m].message_attempts
        tx    == queue_type(m) = "Transaction"
    IN  /\ IF Persisted(m) THEN tries < transaction_message_attempts
           ELSE is_boot_notification_message(m)
        /\ control' = [control EXCEPT ![m].timestamp = NewTimestamp(m, tries),
                                      ![m].uid = NextUid(@)]
        /\ transaction_message_queue' = transaction_message_queue \cup IF tx THEN {m} ELSE {}
        /\ normal_message_queue' = normal_message_queue \cup IF tx THEN {} ELSE {m}
        /\ ahead' = PushFront(ahead, m, IF tx THEN transaction_message_queue
                                        ELSE normal_message_queue)
        /\ notify_queue_timer' = NewTimestamp(m, tries)
        /\ UNCHANGED <<dbVars, promise>>

\* m is dropped with its promise set to the answer, and so is its row.
GiveUp(m, answer) ==
    /\ IF Persisted(m) THEN control[m].message_attempts >= transaction_message_attempts
       ELSE ~is_boot_notification_message(m)
    /\ control' = [control EXCEPT ![m] = NoControl]
    /\ promise' = [promise EXCEPT ![m] = answer]
    /\ RemoveRow(m)
    /\ UNCHANGED <<dequeVars, notify_queue_timer>>

\* answer is "error" for a CALLERROR and "offline" for a timeout.
handle_timeout_or_callerror(answer) ==
    /\ SendAgain(in_flight) \/ GiveUp(in_flight, answer)
    /\ in_flight' = None
    /\ in_flight_timeout_timer' = NoId

\* Mutant: the id of the first attempt is compared.
AnswersFirstAttempt(id) == in_flight # None /\ id = <<in_flight, 0>>

\* An answer to id, or the timeout of id, is about the message in flight.
Answers(id) == in_flight # None /\ id = Id(in_flight)

\* Mutant: a retry is not watched.
StartTimeoutOnce(m) ==
    in_flight_timeout_timer' = IF control[m].message_attempts = 0 THEN Id(m) ELSE NoId

StartTimeout(m) == in_flight_timeout_timer' = Id(m)

\* Mutant: the counter is not compared.
AlwaysCurrent(ctr) == TRUE

\* Nobody called pause() or resume() since the counter was ctr.
IsCurrent(ctr) == pause_resume_ctr = ctr

\* Mutant: nothing is held back.
NeverHeldBack == TRUE

\* No message has to be sent first; a CALL's id is never the one waited for.
MayGoOut == next_message_to_send = None

\* Deliveries of a BootNotification, which is retried for ever, fail at most
\* MaxUid times in one life of the station.
MayFail(m) == is_boot_notification_message(m) => control[m].uid < MaxUid

\* add_to_transaction_message_queue, add_to_normal_message_queue and the
\* check_queue_sizes they end with.  fields are those of m's ControlMessage.
Enqueue(m, fields) ==
    LET tx == is_transaction_message(m)
        T  == IF tx THEN transaction_message_queue \cup {m} ELSE transaction_message_queue
        N  == IF tx THEN normal_message_queue ELSE normal_message_queue \cup {m}
        A  == IF is_boot_notification_message(m)
              THEN PushFront(ahead, m, normal_message_queue)
              ELSE PushBack(ahead, m, IF tx THEN transaction_message_queue
                                      ELSE normal_message_queue)
        DN == drop_messages_from_normal_message_queue(T, N, A)
        DT == drop_update_messages_from_transactional_message_queue(T, N \ DN, A)
    IN  /\ Unlocked
        /\ transaction_message_queue' = T \ DT
        /\ normal_message_queue' = N \ DN
        /\ ahead' = Erase(A, DT \cup DN)
        /\ older' = [x \in Msgs |->
                        IF x = m
                        THEN (transaction_message_queue \cup normal_message_queue
                              \cup dbTransaction \cup dbNormal
                              \cup ({in_flight} \ {None})) \ {m}
                        ELSE older[x] \ {m}]
        /\ control' = [x \in Msgs |-> IF x \in DT \cup DN THEN NoControl
                                      ELSE IF x = m THEN fields ELSE control[x]]
        /\ promise' = [x \in Msgs |-> IF x \in DT \cup DN THEN "dropped"
                                      ELSE IF x = m THEN "pending" ELSE promise[x]]
        /\ \E ins \in DbEffects({m}), goneT \in DbEffects(DT), goneN \in DbEffects(DN) :
              /\ dbTransaction' = (IF tx THEN dbTransaction \cup ins ELSE dbTransaction) \ goneT
              /\ dbNormal' = (IF ~tx /\ check_queue(m) THEN dbNormal \cup ins ELSE dbNormal)
                             \ (IF queue_all_messages THEN goneN ELSE {})
        /\ rowTimestamp' = [rowTimestamp EXCEPT ![m] = fields.timestamp]
        /\ new_message' = TRUE
        /\ Notify

\* A message used again: nobody waits for its former answers.
Forget(m) == sent' = {id \in sent : id[1] # m}

----------------------------------------------------------------------------
(* Dispatching a CALL *)

\* A BootNotification is pushed at a start and after an answer that does not
\* accept the station; heartbeats repeat once it is accepted.  A message that
\* is used again has no trace of its former life in a timer callback.
CanDispatch(m) ==
    /\ promise[m] \notin {"checked", "pending"}
    /\ CASE Kind[m] = "Boot" -> ~booting
         [] Kind[m] = "Heartbeat" -> connection_state = "Booted"
         [] OTHER -> promise[m] = "new"
    /\ \A id \in timeout_callbacks : id[1] # m
    /\ m \notin dbTransaction \cup dbNormal

\* dispatch_call or dispatch_call_async decide not to push, or push_call finds
\* the queue stopped or offline; push_call notifies the worker even then.
DispatchRefused(m, triggered) ==
    LET priority == get_message_transmission_priority(m, triggered)
    IN  /\ CanDispatch(m)
        /\ \/ priority = "Discard"
           \/ priority = "SendAfterRegistrationStatusAccepted" /\ m \in Async
           \/ ~running
           \/ /\ paused /\ ~resuming
              /\ priority = "SendImmediately"
              /\ ~Persisted(m) /\ ~is_boot_notification_message(m)
        /\ promise' = [promise EXCEPT ![m] = IF m \in Async THEN "offline" ELSE "discarded"]
        /\ Forget(m)
        /\ IF running /\ priority = "SendImmediately" /\ m \notin Async
           THEN Notify ELSE UNCHANGED worker
        /\ UNCHANGED <<callbackVars, pauseVars, actionVars, setupVars, stationVars,
                       receiveVars, dequeVars, dbVars, flightVars, control, older,
                       new_message, notify_queue_timer>>

\* A message that is queued whether or not the station is online.
DispatchQueued(m, triggered) ==
    LET priority == get_message_transmission_priority(m, triggered)
        stall == priority = "SendAfterRegistrationStatusAccepted"
    IN  /\ CanDispatch(m)
        /\ running
        /\ priority = "SendImmediately" \/ (stall /\ m \notin Async)
        /\ Persisted(m) \/ is_boot_notification_message(m) \/ stall
        /\ Forget(m)
        /\ Enqueue(m, NewControl(now, stall))
        /\ booting' = (booting \/ is_boot_notification_message(m))
        /\ UNCHANGED <<callbackVars, pauseVars, actionVars, setupVars, receiveVars,
                       flightVars, connection_state, is_registration_status_accepted,
                       notify_queue_timer, connected>>

\* Any other message is queued if the queue runs or is about to; paused and
\* resuming are read before message_mutex is taken.
DispatchChecked(m, triggered) ==
    /\ CanDispatch(m)
    /\ running
    /\ get_message_transmission_priority(m, triggered) = "SendImmediately"
    /\ ~Persisted(m) /\ ~is_boot_notification_message(m)
    /\ ~paused \/ resuming
    /\ Forget(m)
    /\ control' = [control EXCEPT ![m] = NewControl(now, FALSE)]
    /\ promise' = [promise EXCEPT ![m] = "checked"]
    /\ UNCHANGED <<callbackVars, pauseVars, actionVars, setupVars, stationVars,
                   receiveVars, dequeVars, dbVars, flightVars, older, new_message,
                   notify_queue_timer, worker>>

EnqueueChecked(m) ==
    /\ promise[m] = "checked"
    /\ Enqueue(m, control[m])
    /\ UNCHANGED <<callbackVars, sent, pauseVars, actionVars, setupVars,
                   stationVars, receiveVars, flightVars, notify_queue_timer>>

\* The heartbeat timer pushes on while an earlier heartbeat is still queued; of
\* the further ones only the notification is kept.
DispatchAnotherHeartbeat(m) ==
    /\ Kind[m] = "Heartbeat" /\ m \in normal_message_queue
    /\ connection_state = "Booted" /\ running /\ Unlocked
    /\ ~paused \/ resuming
    /\ new_message' = TRUE
    /\ Notify
    /\ UNCHANGED <<messageVars, callbackVars, sent, pauseVars, actionVars,
                   setupVars, stationVars, receiveVars, older>>

----------------------------------------------------------------------------
(* The worker thread *)

\* The loop ends when its condition finds the queue stopped.
WorkerExit ==
    /\ worker = "top" /\ ~running
    /\ worker' = "exited"
    /\ UNCHANGED <<messageVars, callbackVars, sent, pauseVars, actionVars,
                   setupVars, stationVars, receiveVars, older, new_message>>

\* The worker has message_mutex and evaluates the predicate of cv.wait, after
\* the loop condition or after a notification.
AtWait == worker = "woken" \/ (worker = "top" /\ running)

\* Mutant: idle actions do not wake the worker.
WakeUpForMessages ==
    \/ ~running
    \/ ~paused /\ new_message /\ in_flight = None

\* The predicate of cv.wait.
WakeUp ==
    \/ ~running
    \/ idle_actions > 0 /\ in_flight = None
    \/ ~paused /\ new_message /\ in_flight = None

\* Nothing to do: the worker goes to sleep.  A notification that is sent
\* without message_mutex before the worker blocks finds no waiter.
WorkerSleep ==
    /\ \/ AtWait /\ ~WakeUp /\ worker' = "prewait"
       \/ worker = "prewait" /\ worker' = "waiting"
    /\ UNCHANGED <<messageVars, callbackVars, sent, pauseVars, actionVars,
                   setupVars, stationVars, receiveVars, older, new_message>>

IdleActionDue == running /\ idle_actions > 0 /\ in_flight = None

\* An idle action is taken; the queue is paused for it unless it is paused.
WorkerStartAction ==
    /\ AtWait
    /\ IdleActionDue
    /\ worker' = "action"
    /\ idle_actions' = idle_actions - 1
    /\ paused_for_action' = ~paused
    /\ IF paused THEN UNCHANGED pauseVars
       ELSE /\ pause_resume_ctr' = pause_resume_ctr + 1
            /\ resume_timer' = 0
            /\ paused' = TRUE
            /\ resuming' = FALSE
    /\ pause_resume_ctr_before' = pause_resume_ctr'
    /\ UNCHANGED <<messageVars, callbackVars, sent, setupVars, stationVars,
                   receiveVars, older, new_message>>

\* The action returns; the queue is resumed if it was paused for the action,
\* the action says the socket is connected and nobody paused or resumed.
WorkerEndAction(still_connected) ==
    /\ worker = "action"
    /\ worker' = "top"
    /\ IF /\ paused_for_action /\ still_connected
          /\ IsCurrent(pause_resume_ctr_before)
          /\ paused
       THEN /\ pause_resume_ctr' = pause_resume_ctr + 1
            /\ paused' = FALSE
            /\ resuming' = FALSE
            /\ UNCHANGED resume_timer
       ELSE UNCHANGED pauseVars
    /\ paused_for_action' = FALSE
    /\ pause_resume_ctr_before' = 0
    /\ UNCHANGED <<messageVars, callbackVars, sent, setupVars, stationVars,
                   receiveVars, older, idle_actions, new_message>>

\* m is the first message of the normal deque that may be sent.
FirstAllowedNormal(m) ==
    /\ m \in normal_message_queue
    /\ allowed_to_send_message(m)
    /\ \A x \in ahead[m] : ~allowed_to_send_message(x)

\* m is the front of the transaction deque and goes before the normal message.
TransactionSelected(m) ==
    /\ m \in transaction_message_queue
    /\ ahead[m] = {}
    /\ allowed_to_send_message(m)
    /\ \A n \in normal_message_queue :
          FirstAllowedNormal(n) => /\ ~is_boot_notification_message(n)
                                   /\ control[m].timestamp =< control[n].timestamp

Selected(m) ==
    \/ TransactionSelected(m)
    \/ /\ FirstAllowedNormal(m)
       /\ \A t \in transaction_message_queue : ~TransactionSelected(t)

\* The worker looks for a message to send.
Selecting ==
    /\ AtWait
    /\ WakeUp
    /\ ~IdleActionDue
    /\ ~paused
    /\ in_flight = None

\* The message is taken out of its deque; message_mutex is kept while it is
\* sent, but CALLs of the CSMS are received without it.
WorkerSelect(m) ==
    /\ Selecting
    /\ Selected(m)
    /\ MayGoOut
    /\ in_flight' = m
    /\ control' = [control EXCEPT ![m].message_attempts = @ + 1]
    /\ transaction_message_queue' = Pop(transaction_message_queue, m)
    /\ normal_message_queue' = Pop(normal_message_queue, m)
    /\ ahead' = Erase(ahead, {m})
    /\ worker' = "sending"
    /\ UNCHANGED <<callbackVars, sent, pauseVars, actionVars, setupVars, stationVars,
                   receiveVars, dbVars, promise, older, new_message, notify_queue_timer,
                   in_flight_timeout_timer>>

\* The end of the loop's body.
AfterSending ==
    /\ new_message' = (new_message /\ transaction_message_queue' \cup normal_message_queue' # {})
    /\ worker' = "top"

\* The message is sent and its timeout timer is started.
WorkerSend ==
    /\ worker = "sending"
    /\ sent' = {Id(in_flight)} \cup (IF Cardinality(sent) =< MaxLate THEN sent ELSE {})
    /\ StartTimeout(in_flight)
    /\ UNCHANGED <<dequeVars, dbVars, control, promise, in_flight, notify_queue_timer>>
    /\ AfterSending
    /\ UNCHANGED <<callbackVars, pauseVars, actionVars, setupVars, stationVars, receiveVars,
                   older>>

\* send_callback returns false: handled like a timeout.
WorkerSendFails ==
    /\ worker = "sending"
    /\ MayFail(in_flight)
    /\ handle_timeout_or_callerror("offline")
    /\ AfterSending
    /\ UNCHANGED <<callbackVars, sent, pauseVars, actionVars, setupVars, stationVars,
                   receiveVars, older>>

\* The message found is held back until the CALL of the CSMS is answered.
WorkerHoldsBack ==
    /\ Selecting
    /\ \E m \in Msgs : Selected(m)
    /\ ~MayGoOut
    /\ worker' = "top"
    /\ UNCHANGED <<messageVars, callbackVars, sent, pauseVars, actionVars,
                   setupVars, stationVars, receiveVars, older, new_message>>

WorkerFindsNothing ==
    /\ Selecting
    /\ \A m \in Msgs : ~Selected(m)
    /\ new_message' = FALSE
    /\ worker' = "top"
    /\ UNCHANGED <<messageVars, callbackVars, sent, pauseVars, actionVars,
                   setupVars, stationVars, receiveVars, older>>

\* A stopped queue that is paused or has a message in flight.
WorkerContinues ==
    /\ AtWait
    /\ WakeUp
    /\ ~IdleActionDue
    /\ paused \/ in_flight # None
    /\ worker' = "top"
    /\ UNCHANGED <<messageVars, callbackVars, sent, pauseVars, actionVars,
                   setupVars, stationVars, receiveVars, older, new_message>>

----------------------------------------------------------------------------
(* The websocket receive thread: message_callback, one message at a time *)

\* A CALLRESULT for the message in flight.  The queue is not notified after a
\* StartTransaction.conf: its handler does that.
ReceiveCallResult(id) ==
    /\ handler = "idle" /\ Unlocked
    /\ id \in sent
    /\ Answers(id)
    /\ sent' = sent \ {id}
    /\ next_message_to_send' = None
    /\ control' = [control EXCEPT ![in_flight] = NoControl]
    /\ promise' = [promise EXCEPT ![in_flight] = "result"]
    /\ RemoveRow(in_flight)
    /\ in_flight' = None
    /\ in_flight_timeout_timer' = NoId
    /\ handler' = CASE is_start_transaction_message(in_flight) -> "start"
                    [] is_boot_notification_message(in_flight) -> "boot"
                    [] OTHER -> "idle"
    /\ IF is_start_transaction_message(in_flight) THEN UNCHANGED worker ELSE Notify
    /\ UNCHANGED <<callbackVars, pauseVars, actionVars, setupVars, stationVars,
                   dequeVars, older, new_message, notify_queue_timer>>

\* A CALLERROR, or a CALLRESULT without a payload, for the message in flight.
ReceiveCallError(id) ==
    /\ handler = "idle" /\ Unlocked
    /\ id \in sent
    /\ Answers(id)
    /\ MayFail(in_flight)
    /\ sent' = sent \ {id}
    /\ next_message_to_send' = None
    /\ handle_timeout_or_callerror("error")
    /\ Notify
    /\ UNCHANGED <<callbackVars, pauseVars, actionVars, setupVars, stationVars, older,
                   handler, new_message>>

\* An answer to an id that is not in flight any more.
ReceiveMismatch(id) ==
    /\ handler = "idle" /\ Unlocked
    /\ id \in sent
    /\ ~Answers(id)
    /\ sent' = sent \ {id}
    /\ next_message_to_send' = None
    /\ UNCHANGED <<messageVars, callbackVars, pauseVars, actionVars, setupVars,
                   stationVars, older, handler, new_message, worker>>

\* A CALL of the CSMS: nothing but its answer may be sent next.
ReceiveCall(c) ==
    /\ handler = "idle"
    /\ handler' = c
    /\ next_message_to_send' = c
    /\ UNCHANGED <<messageVars, callbackVars, sent, pauseVars, actionVars,
                   setupVars, stationVars, older, new_message, worker>>

\* The CALL is answered with push_call_result or push_call_error; one that is
\* not supported is, in every state of the connection.
AnswerCall(c) ==
    /\ handler = c
    /\ handler' = "idle"
    /\ IF running
       THEN /\ next_message_to_send' = IF next_message_to_send = c THEN None
                                       ELSE next_message_to_send
            /\ Notify
       ELSE UNCHANGED <<next_message_to_send, worker>>
    /\ UNCHANGED <<messageVars, callbackVars, sent, pauseVars, actionVars,
                   setupVars, stationVars, older, new_message>>

\* The CALL is not answered before the station is registered.  In the states
\* Connected and Rejected the hold is released, in Disconnected it is not.
IgnoreCall(c) ==
    /\ handler = c
    /\ connection_state \in {"Disconnected", "Connected", "Rejected"}
    /\ handler' = "idle"
    /\ next_message_to_send' = IF connection_state = "Disconnected"
                               THEN next_message_to_send ELSE None
    /\ UNCHANGED <<messageVars, callbackVars, sent, pauseVars, actionVars,
                   setupVars, stationVars, older, new_message, worker>>

\* handleBootNotificationResponse; for a station that is accepted, up to the
\* call of set_registration_status_accepted.
HandleBootNotificationResponse(status) ==
    /\ handler = "boot"
    /\ \/ /\ connection_state = "Disconnected"
          /\ handler' = "idle"
          /\ UNCHANGED <<connection_state, booting>>
       \/ /\ connection_state # "Disconnected" /\ status # "Booted"
          /\ handler' = "idle"
          /\ connection_state' = status
          /\ booting' = FALSE
       \/ /\ connection_state # "Disconnected" /\ status = "Booted"
          /\ handler' = "accepted"
          /\ UNCHANGED <<connection_state, booting>>
    /\ UNCHANGED <<messageVars, callbackVars, sent, pauseVars, actionVars,
                   setupVars, older, next_message_to_send, connected,
                   is_registration_status_accepted, new_message, worker>>

set_registration_status_accepted ==
    /\ handler = "accepted" /\ Unlocked
    /\ handler' = "booted"
    /\ is_registration_status_accepted' = TRUE
    /\ new_message' = TRUE
    /\ Notify
    /\ UNCHANGED <<messageVars, callbackVars, sent, pauseVars, actionVars,
                   setupVars, older, next_message_to_send, connected, booting,
                   connection_state>>

\* The rest of handleBootNotificationResponse: the heartbeats begin.
HandleBootAccepted ==
    /\ handler = "booted"
    /\ handler' = "idle"
    /\ connection_state' = "Booted"
    /\ UNCHANGED <<messageVars, callbackVars, sent, pauseVars, actionVars,
                   setupVars, older, next_message_to_send, connected, booting,
                   is_registration_status_accepted, new_message, worker>>

\* handleStartTransactionResponse notifies the queue if it knows the
\* transaction.
HandleStartTransactionResponse(known) ==
    /\ handler = "start"
    /\ handler' = "idle"
    /\ IF known THEN Notify ELSE UNCHANGED worker
    /\ UNCHANGED <<messageVars, callbackVars, sent, pauseVars, actionVars,
                   setupVars, stationVars, older, new_message, next_message_to_send>>

----------------------------------------------------------------------------
(* The websocket comes and goes *)

\* on_websocket_connected: connected_callback and resume(delay).
Connect(delayed) ==
    /\ ~connected /\ Unlocked
    /\ worker # "exited"
    /\ connected' = TRUE
    /\ connection_state' = IF connection_state = "Disconnected" THEN "Connected"
                           ELSE connection_state
    /\ IF ~paused THEN UNCHANGED <<pauseVars, worker>>
       ELSE /\ pause_resume_ctr' = pause_resume_ctr + 1
            /\ IF delayed /\ pause_resume_ctr > 0
               THEN /\ resuming' = TRUE
                    /\ resume_timer' = pause_resume_ctr + 1
                    /\ UNCHANGED <<paused, worker>>
               ELSE /\ paused' = FALSE
                    /\ resuming' = FALSE
                    /\ Notify
                    /\ UNCHANGED resume_timer
    /\ UNCHANGED <<messageVars, callbackVars, sent, actionVars, setupVars,
                   receiveVars, older, booting, is_registration_status_accepted,
                   new_message>>

\* on_websocket_disconnected: pause(), which settles the message in flight.
Disconnect ==
    /\ connected /\ Unlocked
    /\ worker # "exited"
    /\ pause_resume_ctr < MaxCtr
    /\ connected' = FALSE
    /\ pause_resume_ctr' = pause_resume_ctr + 1
    /\ resume_timer' = 0
    /\ paused' = TRUE
    /\ resuming' = FALSE
    /\ IF in_flight = None
       THEN UNCHANGED messageVars
       ELSE /\ MayFail(in_flight)
            /\ handle_timeout_or_callerror("offline")
    /\ Notify
    /\ UNCHANGED <<callbackVars, sent, actionVars, setupVars, receiveVars, older,
                   connection_state, booting, is_registration_status_accepted,
                   new_message>>

run_when_idle ==
    /\ Unlocked
    /\ worker # "exited"
    /\ idle_actions < MaxIdle /\ pause_resume_ctr < MaxCtr
    /\ idle_actions' = idle_actions + 1
    /\ Notify
    /\ UNCHANGED <<messageVars, callbackVars, sent, pauseVars, setupVars,
                   stationVars, receiveVars, older, paused_for_action,
                   pause_resume_ctr_before, new_message>>

----------------------------------------------------------------------------
(* Timers: an expired timer posts its callback, which stop() does not recall *)

Tick ==
    /\ now < MaxTime
    /\ now' = now + 1
    /\ UNCHANGED <<messageVars, callbackVars, sent, pauseVars, actionVars,
                   stationVars, receiveVars, older, modeVars, retryVars, restarts,
                   running, new_message, worker>>

InFlightTimeoutExpires ==
    /\ in_flight_timeout_timer # NoId
    /\ MayFail(in_flight_timeout_timer[1])
    /\ Cardinality(timeout_callbacks) =< MaxLate
    /\ timeout_callbacks' = timeout_callbacks \cup {in_flight_timeout_timer}
    /\ in_flight_timeout_timer' = NoId
    /\ UNCHANGED <<sent, pauseVars, actionVars, setupVars, stationVars, receiveVars,
                   dequeVars, dbVars, control, promise, older, in_flight, new_message,
                   notify_queue_timer, notify_callback, resume_callbacks, worker>>

\* The callback does nothing unless its message is in flight under its id.
InFlightTimeoutCallback(id) ==
    /\ id \in timeout_callbacks /\ Unlocked
    /\ timeout_callbacks' = timeout_callbacks \ {id}
    /\ IF Answers(id)
       THEN /\ handle_timeout_or_callerror("offline")
            /\ Notify
       ELSE UNCHANGED <<messageVars, worker>>
    /\ UNCHANGED <<sent, pauseVars, actionVars, setupVars, stationVars, receiveVars,
                   older, new_message, notify_callback, resume_callbacks>>

NotifyQueueTimerExpires ==
    /\ notify_queue_timer # NoTime
    /\ notify_queue_timer =< now
    /\ notify_queue_timer' = NoTime
    /\ notify_callback' = TRUE
    /\ UNCHANGED <<sent, pauseVars, actionVars, setupVars, stationVars, receiveVars,
                   dequeVars, dbVars, flightVars, control, promise, older, new_message,
                   timeout_callbacks, resume_callbacks, worker>>

\* The callback does not take message_mutex.
NotifyQueueCallback ==
    /\ notify_callback
    /\ notify_callback' = FALSE
    /\ new_message' = TRUE
    /\ Notify
    /\ UNCHANGED <<messageVars, sent, pauseVars, actionVars, setupVars, stationVars,
                   receiveVars, older, timeout_callbacks, resume_callbacks>>

ResumeTimerExpires ==
    /\ resume_timer # 0
    /\ resume_timer' = 0
    /\ resume_callbacks' = resume_callbacks \cup {resume_timer}
    /\ UNCHANGED <<messageVars, sent, actionVars, setupVars, stationVars,
                   receiveVars, older, paused, resuming, pause_resume_ctr, new_message,
                   timeout_callbacks, notify_callback, worker>>

resume_now(expected_pause_resume_ctr) ==
    /\ expected_pause_resume_ctr \in resume_callbacks /\ Unlocked
    /\ resume_callbacks' = resume_callbacks \ {expected_pause_resume_ctr}
    /\ IF IsCurrent(expected_pause_resume_ctr)
       THEN /\ paused' = FALSE
            /\ resuming' = FALSE
            /\ Notify
       ELSE UNCHANGED <<paused, resuming, worker>>
    /\ UNCHANGED <<messageVars, sent, actionVars, setupVars, stationVars,
                   receiveVars, older, pause_resume_ctr, resume_timer, new_message,
                   timeout_callbacks, notify_callback>>

----------------------------------------------------------------------------
(* Configuration, stop and restart *)

\* The setters do not take message_mutex.
update_transaction_message_attempts(n) ==
    /\ transaction_message_attempts # n
    /\ transaction_message_attempts' = n
    /\ UNCHANGED <<messageVars, callbackVars, sent, pauseVars, actionVars,
                   stationVars, receiveVars, older, transaction_message_retry_interval,
                   modeVars, now, restarts, running, new_message, worker>>

update_transaction_message_retry_interval(n) ==
    /\ transaction_message_retry_interval # n
    /\ transaction_message_retry_interval' = n
    /\ UNCHANGED <<messageVars, callbackVars, sent, pauseVars, actionVars,
                   stationVars, receiveVars, older, transaction_message_attempts,
                   modeVars, now, restarts, running, new_message, worker>>

\* stop() up to the join.  The worker may have read the loop condition before.
\* A stop is followed by a restart.
Stop ==
    /\ running /\ Unlocked
    /\ restarts < MaxRestarts
    /\ running' = FALSE
    /\ idle_actions' = 0
    /\ \/ Notify
       \/ worker = "top" /\ worker' = "woken"
    /\ UNCHANGED <<messageVars, callbackVars, sent, pauseVars, stationVars,
                   receiveVars, older, paused_for_action, pause_resume_ctr_before,
                   modeVars, retryVars, now, restarts, new_message>>

\* The rest of stop(), after the join.
StopTimers ==
    /\ worker = "exited"
    /\ \/ in_flight_timeout_timer # NoId
       \/ notify_queue_timer # NoTime
       \/ resume_timer # 0
    /\ in_flight_timeout_timer' = NoId
    /\ notify_queue_timer' = NoTime
    /\ resume_timer' = 0
    /\ UNCHANGED <<callbackVars, sent, actionVars, setupVars, stationVars,
                   receiveVars, dequeVars, dbVars, control, promise, older, in_flight,
                   paused, resuming, pause_resume_ctr, new_message, worker>>

\* Every row read becomes a queued message; security events are removed if
\* they are disabled.
get_persisted_messages_from_db(rowsT, rowsN, ignore_security_event_notifications) ==
    LET ignored == {m \in rowsT : /\ ignore_security_event_notifications
                                  /\ Kind[m] = "Security"}
        loaded  == (rowsT \ ignored) \cup rowsN
    IN  /\ transaction_message_queue' = rowsT \ ignored
        /\ normal_message_queue' = rowsN
        /\ ahead' = [m \in Msgs |->
                       IF m \in rowsT \ ignored THEN RowsBefore(rowsT \ ignored, m)
                       ELSE IF m \in rowsN THEN RowsBefore(rowsN, m) ELSE {}]
        /\ \E gone \in DbEffects(ignored) : dbTransaction' = dbTransaction \ gone
        /\ promise' = [m \in Msgs |->
                          IF m \in loaded THEN "pending"
                          ELSE IF promise[m] \in {"checked", "pending"} THEN "lost"
                          ELSE promise[m]]
        /\ new_message' = (rowsT \cup rowsN # {})
        /\ control' = [m \in Msgs |-> IF m \in loaded THEN NewControl(rowTimestamp[m], TRUE)
                                      ELSE NoControl]

\* What a query for the rows of S returns: nothing if the database fails.
QueryResults(S) == IF dbMayFail THEN {S, {}} ELSE {S}

\* The program dies, at any moment or after a stop, and starts again; or
\* ChargePointImpl::restart makes a new queue for a station that was stopped.
\* The latter keeps the connection state, and the websocket's notification of
\* the disconnection by stop() may still be to come.
Restart(queue_all, kind) ==
    /\ restarts < MaxRestarts
    /\ restarts' = restarts + 1
    /\ \/ /\ kind = "process"
          /\ connection_state' = "Disconnected"
          /\ connected' = FALSE
       \/ /\ kind = "station" /\ worker = "exited" /\ handler \notin {"accepted", "booted"}
          /\ connected' \in {connected, FALSE}
          /\ UNCHANGED connection_state
    /\ \E rowsT \in QueryResults(dbTransaction), rowsN \in QueryResults(dbNormal),
          ignore \in IgnoreModes :
          get_persisted_messages_from_db(rowsT, rowsN, ignore)
    /\ \/ ~queue_all /\ dbNormal' = {}
       \/ (queue_all \/ dbMayFail) /\ dbNormal' = dbNormal
    /\ queue_all_messages' = queue_all
    /\ in_flight' = None
    /\ in_flight_timeout_timer' = NoId
    /\ timeout_callbacks' = {}
    /\ notify_queue_timer' = NoTime
    /\ notify_callback' = FALSE
    /\ resume_timer' = 0
    /\ resume_callbacks' = {}
    /\ paused' = TRUE
    /\ resuming' = FALSE
    /\ running' = TRUE
    /\ idle_actions' = 0
    /\ is_registration_status_accepted' = FALSE
    /\ next_message_to_send' = None
    /\ pause_resume_ctr' = 0
    /\ worker' = "top"
    /\ paused_for_action' = FALSE
    /\ pause_resume_ctr_before' = 0
    /\ booting' = FALSE
    /\ handler' = "idle"
    /\ sent' = {}
    /\ UNCHANGED <<rowTimestamp, older, retryVars, dbMayFail, now>>

----------------------------------------------------------------------------
Init ==
    /\ now = 0
    /\ control = [m \in Msgs |-> NoControl]
    /\ promise = [m \in Msgs |-> "new"]
    /\ transaction_message_queue = {}
    /\ normal_message_queue = {}
    /\ ahead = [m \in Msgs |-> {}]
    /\ older = [m \in Msgs |-> {}]
    /\ in_flight = None
    /\ paused = TRUE
    /\ resuming = FALSE
    /\ running = TRUE
    /\ new_message = FALSE
    /\ idle_actions = 0
    /\ is_registration_status_accepted = FALSE
    /\ next_message_to_send = None
    /\ pause_resume_ctr = 0
    /\ in_flight_timeout_timer = NoId
    /\ timeout_callbacks = {}
    /\ notify_queue_timer = NoTime
    /\ notify_callback = FALSE
    /\ resume_timer = 0
    /\ resume_callbacks = {}
    /\ worker = "top"
    /\ paused_for_action = FALSE
    /\ pause_resume_ctr_before = 0
    /\ transaction_message_attempts \in AttemptLimits
    /\ transaction_message_retry_interval \in RetryIntervals
    /\ queue_all_messages \in QueueAllModes
    /\ dbTransaction = {}
    /\ dbNormal = {}
    /\ rowTimestamp = [m \in Msgs |-> 0]
    /\ dbMayFail \in DbModes
    /\ connection_state = "Disconnected"
    /\ booting = FALSE
    /\ handler = "idle"
    /\ connected = FALSE
    /\ sent = {}
    /\ restarts = 0

Dispatch ==
    \/ \E m \in Msgs, triggered \in Triggers :
          \/ DispatchRefused(m, triggered)
          \/ DispatchQueued(m, triggered)
          \/ DispatchChecked(m, triggered)
    \/ \E m \in Msgs : EnqueueChecked(m) \/ DispatchAnotherHeartbeat(m)

Worker ==
    \/ WorkerExit
    \/ WorkerSleep
    \/ WorkerStartAction
    \/ \E still_connected \in BOOLEAN : WorkerEndAction(still_connected)
    \/ \E m \in Msgs : WorkerSelect(m)
    \/ WorkerSend
    \/ WorkerSendFails
    \/ WorkerHoldsBack
    \/ WorkerFindsNothing
    \/ WorkerContinues

Receive ==
    \/ \E id \in sent : ReceiveCallResult(id) \/ ReceiveCallError(id) \/ ReceiveMismatch(id)
    \/ \E c \in Calls : ReceiveCall(c) \/ AnswerCall(c) \/ IgnoreCall(c)
    \/ \E status \in {"Booted", "Pending", "Rejected"} : HandleBootNotificationResponse(status)
    \/ set_registration_status_accepted
    \/ HandleBootAccepted
    \/ \E known \in BOOLEAN : HandleStartTransactionResponse(known)

Connection ==
    \/ \E delayed \in ResumeDelays : Connect(delayed)
    \/ Disconnect
    \/ run_when_idle

Timers ==
    \/ Tick
    \/ InFlightTimeoutExpires
    \/ \E id \in timeout_callbacks : InFlightTimeoutCallback(id)
    \/ NotifyQueueTimerExpires
    \/ NotifyQueueCallback
    \/ ResumeTimerExpires
    \/ \E ctr \in resume_callbacks : resume_now(ctr)

Lifecycle ==
    \/ \E n \in AttemptLimits : update_transaction_message_attempts(n)
    \/ \E n \in RetryIntervals : update_transaction_message_retry_interval(n)
    \/ Stop
    \/ StopTimers
    \/ \E queue_all \in QueueAllModes, kind \in RestartKinds : Restart(queue_all, kind)

Next == Dispatch \/ Worker \/ Receive \/ Connection \/ Timers \/ Lifecycle

Spec == Init /\ [][Next]_vars

----------------------------------------------------------------------------
TypeOfMessages ==
    /\ control \in [Msgs -> ControlMessage]
    /\ promise \in [Msgs -> PromiseStates]
    /\ transaction_message_queue \in SUBSET {m \in Msgs : is_transaction_message(m)}
    /\ normal_message_queue \in SUBSET {m \in Msgs : ~is_transaction_message(m)}
    /\ ahead \in [Msgs -> SUBSET Msgs]
    /\ older \in [Msgs -> SUBSET Msgs]
    /\ dbTransaction \in SUBSET {m \in Msgs : is_transaction_message(m)}
    /\ dbNormal \in SUBSET {m \in Msgs : ~is_transaction_message(m)}
    /\ rowTimestamp \in [Msgs -> Times]

TypeOfDelivery ==
    /\ in_flight \in Msgs \cup {None}
    /\ in_flight_timeout_timer \in Ids \cup {NoId}
    /\ timeout_callbacks \subseteq Ids
    /\ notify_queue_timer \in Times \cup {NoTime}
    /\ sent \subseteq Ids
    /\ next_message_to_send \in Calls \cup {None}
    /\ handler \in {"idle", "start", "boot", "accepted", "booted"} \cup Calls

TypeOfPausing ==
    /\ pause_resume_ctr \in Nat /\ pause_resume_ctr_before \in Nat
    /\ resume_timer \in Nat /\ resume_callbacks \subseteq Nat
    /\ idle_actions \in Nat
    /\ worker \in WorkerStates

TypeOfStation ==
    /\ now \in Times
    /\ restarts \in Nat
    /\ transaction_message_attempts \in AttemptLimits
    /\ transaction_message_retry_interval \in RetryIntervals
    /\ connection_state \in {"Disconnected", "Connected", "Pending", "Rejected", "Booted"}

TypeOfFlags ==
    /\ paused \in BOOLEAN /\ resuming \in BOOLEAN /\ paused_for_action \in BOOLEAN
    /\ running \in BOOLEAN /\ new_message \in BOOLEAN /\ notify_callback \in BOOLEAN
    /\ queue_all_messages \in BOOLEAN /\ dbMayFail \in BOOLEAN
    /\ connected \in BOOLEAN /\ booting \in BOOLEAN
    /\ is_registration_status_accepted \in BOOLEAN

\* Types of the variables; a deque and a table hold messages of their kind only
\* (add_to_*_message_queue, queue_type of handle_timeout_or_callerror).
TypeOK == TypeOfMessages /\ TypeOfDelivery /\ TypeOfPausing /\ TypeOfStation /\ TypeOfFlags

Live == transaction_message_queue \cup normal_message_queue \cup ({in_flight} \ {None})

\* Every message whose promise is still to be set is held by the queue exactly
\* once, and the promise of a held message was never set: set_value, which
\* throws when called twice, is called at most once over all timeouts, late
\* answers, disconnections and retries (message_queue.hpp, promise of
\* ControlMessage).
PendingIsHeldOnce ==
    /\ \A m \in Msgs : promise[m] = "pending" <=> m \in Live
    /\ in_flight \notin transaction_message_queue \cup normal_message_queue

\* push_call: transaction messages "have to be delivered in chronological
\* order".  While one is in flight no message accepted before it is still
\* queued, whatever failed, was retried or was reloaded after a restart.
TransactionOrder ==
    in_flight \in Msgs /\ is_transaction_message(in_flight) =>
        transaction_message_queue \cap older[in_flight] = {}

\* handle_call_result removes the row "as soon as a response is received.
\* Otherwise we might miss a message if the charging station just boots".  As
\* long as statements succeed, the tables hold exactly the messages that must
\* survive a restart: none is missing, and no settled one would be sent again.
PersistedExactly ==
    ~dbMayFail =>
        /\ dbTransaction = {m \in Msgs : promise[m] = "pending" /\ is_transaction_message(m)}
        /\ dbNormal = {m \in Msgs : /\ promise[m] = "pending"
                                    /\ check_queue(m) /\ ~is_transaction_message(m)}

\* The queue only runs while the last notification of the websocket said
\* connected: no stale resume timer or finished idle action undoes a pause()
\* (pause_resume_ctr).
ResumedOnlyWhileConnected == ~paused => connected

\* A message in flight will be settled: its timeout timer runs, or the expired
\* timer's callback is still to come and will recognise it (the worker arms
\* the timer for the id it sent, reset_in_flight stops it).
InFlightIsWatched ==
    in_flight # None /\ worker \notin {"sending", "exited"} =>
        in_flight_timeout_timer = Id(in_flight) \/ Id(in_flight) \in timeout_callbacks

\* An attempt goes out under an id of its own: no earlier attempt at any message
\* whose answer or timeout may still arrive, however late, had it.  Otherwise
\* receive() and the timeout callback, which compare uniqueIds, would take the
\* answer to an attempt that was given up for one to this attempt, or end it
\* before its time.
AttemptsDiffer ==
    worker = "sending" =>
        Id(in_flight) \notin sent \cup timeout_callbacks \cup {in_flight_timeout_timer}

\* Before the CSMS accepted the station in this life, only a BootNotification
\* is sent unless the CSMS triggered a message: messages of an earlier life
\* and messages queued while offline wait (stall_until_accepted).  It holds for
\* restarts of the program and not for ChargePointImpl::restart, which
\* keeps the former registration although it is to reinitialise the station.
BootFirst ==
    /\ in_flight # None /\ TRUE \notin Triggers
    /\ ~is_registration_status_accepted /\ handler # "accepted"
    => is_boot_notification_message(in_flight)

\* What check_queue_sizes may not drop: BootNotifications, transaction messages
\* that are no updates, and two updates at the end of the deque.
Protected ==
    {m \in Live : is_boot_notification_message(m)
                  \/ (is_transaction_message(m) /\ ~is_transaction_update_message(m))}

\* The queues stay within queues_total_size_threshold, up to the message in
\* flight that comes back and to messages that are never dropped.  Once rows
\* may be left behind by statements that fail, a restart loads more than that:
\* get_persisted_messages_from_db checks no size, the next push does.
QueueBound ==
    LET limit == IF Cardinality(Protected) + 2 > Threshold
                 THEN Cardinality(Protected) + 2 ELSE Threshold
    IN  (dbMayFail => restarts = 0) => Cardinality(Live) =< limit + 1

\* While a CALL of the CSMS is handled no message is taken from the queues: the
\* hold of receive() is neither overlooked nor released by anything that
\* happens meanwhile.
ResponseFirst == [][in_flight = None /\ in_flight' # None => handler \notin Calls]_vars

(* What the source says of itself and the code does not keep; each is refuted
   by a run of its own. *)

\* reset_next_message_to_send is for "when we dont want to reply to a CALL
\* message": messages are held back only while that CALL is being handled.
HoldIsReleased == next_message_to_send # None => handler = next_message_to_send

\* drop_messages_from_normal_message_queue: "BootNotification messages are
\* never dropped".
BootNeverDropped ==
    \A m \in Msgs : is_boot_notification_message(m) =>
        promise[m] \notin {"error", "offline", "dropped"}

\* handle_call_result: "we want the start transaction response handler to be
\* executed before the next message will be send".
StartHandledFirst ==
    [][handler = "start" /\ in_flight = None => in_flight' = None]_vars

----------------------------------------------------------------------------
(* Liveness *)

\* The threads of the station run and its timers expire.  A thread that waits
\* for message_mutex gets it although others take it again and again: hence
\* strong fairness of the actions that need the mutex.  First the queue thread
\* and the timeout of the message in flight.
WorkerFairness ==
    /\ WF_vars(Worker)
    /\ WF_vars(InFlightTimeoutExpires)
    /\ SF_vars(\E id \in timeout_callbacks : InFlightTimeoutCallback(id))

\* The receive thread finishes the handler it is in.
HandlerFairness ==
    WF_vars(\/ \E c \in Calls : AnswerCall(c) \/ IgnoreCall(c)
            \/ \E status \in {"Booted", "Pending", "Rejected"} : HandleBootNotificationResponse(status)
            \/ set_registration_status_accepted
            \/ HandleBootAccepted
            \/ \E known \in BOOLEAN : HandleStartTransactionResponse(known))

StationFairness ==
    /\ WorkerFairness
    /\ HandlerFairness
    /\ SF_vars(\E m \in Msgs : EnqueueChecked(m))
    /\ WF_vars(Tick)
    /\ WF_vars(NotifyQueueTimerExpires)
    /\ WF_vars(NotifyQueueCallback)
    /\ WF_vars(ResumeTimerExpires)
    /\ SF_vars(\E ctr \in resume_callbacks : resume_now(ctr))

\* The station pushes its BootNotification and its heartbeats.
DispatchFairness ==
    \A m \in Msgs : Kind[m] \in {"Boot", "Heartbeat"} =>
        WF_vars(\/ DispatchQueued(m, FALSE) \/ DispatchChecked(m, FALSE)
                \/ DispatchAnotherHeartbeat(m))

\* The CSMS answers what it is sent.
AnswerFairness == SF_vars(\E id \in sent : ReceiveCallResult(id))

\* Moreover the connection comes back.
NetworkFairness ==
    /\ SF_vars(\E delayed \in ResumeDelays : Connect(delayed))
    /\ AnswerFairness

\* What idle actions need: the queue thread, the handlers, and the timeout of
\* the message in flight.  An answer is needed only for a BootNotification
\* whose timeouts are used up (MaxUid).
IdleSpec == Spec /\ WorkerFairness /\ HandlerFairness /\ AnswerFairness

LiveSpec == Spec /\ StationFairness /\ DispatchFairness /\ NetworkFairness

\* Once the station is registered, every transaction message in the queue is
\* answered, given up after the configured attempts, or dropped to make room:
\* none is stuck behind a retry, and a notification that the queue thread misses
\* is made up for by the next heartbeat.  Before the registration nothing makes
\* up for it: if the worker misses the notification that the retry of a
\* BootNotification is due, the station may never be registered.
TransactionsSettle ==
    \A m \in Msgs : is_transaction_message(m) =>
        (promise[m] = "pending" /\ is_registration_status_accepted ~> promise[m] # "pending")

\* Idle actions run: a CALL in flight cannot hold them up for ever
\* (run_when_idle: "Runs action on the queue thread once no CALL is in flight").
IdleActionsRun == idle_actions > 0 ~> idle_actions = 0 \/ ~running

=============================================================================
