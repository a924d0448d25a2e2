------------------------- MODULE MessageQueueProofs -------------------------
(***************************************************************************)
(* Theorems about MessageQueue, for every value of its constants: its      *)
(* types, and what becomes of a message.  It is held by the queue exactly  *)
(* once until it is settled, its row lives exactly as long, transaction    *)
(* messages keep their order over retries and restarts, and a message in   *)
(* flight is always watched by a timeout and has an id of its own.  The    *)
(* last part is about when the worker may send.                            *)
(***************************************************************************)
EXTENDS MessageQueue, TLAPS

\* What TypeOK needs to be inductive: the worker sends the message in flight.
TypeInv == TypeOK /\ (worker = "sending" => in_flight # None)

USE KindAssumption, MsgsAssumption, CallsAssumption, RetryAssumption, ConfigAssumption,
    BoundAssumption

\* A queue that was just constructed has the types.
LEMMA InitType == Init => TypeInv
<1> SUFFICES ASSUME Init PROVE TypeInv
  OBVIOUS
<1>0. 0 \in Times
  BY DEF Times
<1>1. TypeOfMessages
  <2>1. NoControl \in ControlMessage
    BY <1>0 DEF NoControl, NewControl, ControlMessage
  <2>2. "new" \in PromiseStates
    BY DEF PromiseStates
  <2> QED
    BY <1>0, <2>1, <2>2 DEF Init, TypeOfMessages
<1>2. TypeOfDelivery
  BY DEF Init, TypeOfDelivery, NoId, Ids, NoTime
<1>3. TypeOfPausing
  BY DEF Init, TypeOfPausing, WorkerStates
<1>4. TypeOfStation
  BY <1>0 DEF Init, TypeOfStation
<1>5. TypeOfFlags
  BY DEF Init, TypeOfFlags
<1> QED
  BY <1>1, <1>2, <1>3, <1>4, <1>5 DEF Init, TypeInv, TypeOK

\* What the statements of the database may do to rows.
LEMMA DbEffectsSubset == ASSUME NEW S, NEW e \in DbEffects(S) PROVE e \subseteq S
  BY DEF DbEffects

\* The deque operations yield deques of messages.
LEMMA PushFrontType ==
    ASSUME NEW A \in [Msgs -> SUBSET Msgs], NEW m \in Msgs, NEW Q \in SUBSET Msgs
    PROVE  PushFront(A, m, Q) \in [Msgs -> SUBSET Msgs]
  BY DEF PushFront

\* As PushFrontType, for the other end of the deque.
LEMMA PushBackType ==
    ASSUME NEW A \in [Msgs -> SUBSET Msgs], NEW m \in Msgs, NEW Q \in SUBSET Msgs
    PROVE  PushBack(A, m, Q) \in [Msgs -> SUBSET Msgs]
  BY DEF PushBack

\* As PushFrontType, for elements that are taken out.
LEMMA EraseType ==
    ASSUME NEW A \in [Msgs -> SUBSET Msgs], NEW S
    PROVE  Erase(A, S) \in [Msgs -> SUBSET Msgs]
  BY DEF Erase

\* The record of a message that does not exist is well formed.
LEMMA NoControlType == NoControl \in ControlMessage
  BY DEF NoControl, NewControl, ControlMessage, Times

\* A row that is removed changes nothing else.
LEMMA RemoveRowType ==
    ASSUME TypeOfMessages, NEW m \in Msgs, RemoveRow(m)
    PROVE  /\ dbTransaction' \in SUBSET {x \in Msgs : is_transaction_message(x)}
           /\ dbNormal' \in SUBSET {x \in Msgs : ~is_transaction_message(x)}
           /\ rowTimestamp' \in [Msgs -> Times]
  BY DEF TypeOfMessages, RemoveRow

\* add_to_*_message_queue with check_queue_sizes.
LEMMA EnqueueType ==
    ASSUME TypeInv, NEW m \in Msgs, NEW fields \in ControlMessage, Enqueue(m, fields)
    PROVE  TypeOfMessages'
<1> USE DEF TypeInv, TypeOK, TypeOfMessages, TypeOfDelivery
<1>1. transaction_message_queue' \in SUBSET {x \in Msgs : is_transaction_message(x)}
  BY DEF Enqueue, is_transaction_message
<1>2. normal_message_queue' \in SUBSET {x \in Msgs : ~is_transaction_message(x)}
  BY DEF Enqueue, is_transaction_message
<1>3. ahead' \in [Msgs -> SUBSET Msgs]
  <2>1. PICK A, S : A \in [Msgs -> SUBSET Msgs] /\ ahead' = Erase(A, S)
    BY PushFrontType, PushBackType DEF Enqueue
  <2> QED
    BY <2>1, EraseType
<1>4. older' \in [Msgs -> SUBSET Msgs]
  BY DEF Enqueue
<1>5. control' \in [Msgs -> ControlMessage]
  BY NoControlType DEF Enqueue
<1>6. promise' \in [Msgs -> PromiseStates]
  BY DEF Enqueue, PromiseStates
<1>7. /\ dbTransaction' \in SUBSET {x \in Msgs : is_transaction_message(x)}
      /\ dbNormal' \in SUBSET {x \in Msgs : ~is_transaction_message(x)}
  BY DbEffectsSubset DEF Enqueue, is_transaction_message
<1>8. rowTimestamp' \in [Msgs -> Times]
  BY DEF Enqueue, ControlMessage
<1> QED
  BY <1>1, <1>2, <1>3, <1>4, <1>5, <1>6, <1>7, <1>8 DEF is_transaction_message

\* A message that failed goes back to its deque or is given up.
LEMMA RetryType ==
    ASSUME TypeInv, in_flight # None, NEW answer \in {"error", "offline"},
           handle_timeout_or_callerror(answer), UNCHANGED older
    PROVE  /\ TypeOfMessages'
           /\ in_flight' = None /\ in_flight_timeout_timer' = NoId
           /\ notify_queue_timer' \in Times \cup {NoTime}
<1> USE DEF TypeInv, TypeOK, TypeOfMessages, TypeOfDelivery, handle_timeout_or_callerror
<1> DEFINE m == in_flight
<1>0. m \in Msgs
  OBVIOUS
<1>1. CASE SendAgain(m)
  <2>1. NewTimestamp(m, control[m].message_attempts) \in Times
    <3>1. /\ control[m].timestamp \in Nat /\ control[m].message_attempts \in Nat
          /\ transaction_message_retry_interval \in Nat /\ now \in Times
      BY <1>0 DEF ControlMessage, Times, TypeOfStation
    <3>2. transaction_message_retry_interval * control[m].message_attempts \in Nat
      BY <3>1
    <3> QED
      BY <3>1, <3>2 DEF NewTimestamp, Cap, Times
  <2>2. control' \in [Msgs -> ControlMessage]
    BY <1>0, <1>1, <2>1 DEF SendAgain, ControlMessage, NextUid
  <2>3. ahead' \in [Msgs -> SUBSET Msgs]
    BY <1>0, <1>1, PushFrontType DEF SendAgain
  <2> QED
    BY <1>0, <1>1, <2>1, <2>2, <2>3 DEF SendAgain, queue_type, is_transaction_message, dbVars
<1>2. CASE GiveUp(m, answer)
  <2>1. /\ control' \in [Msgs -> ControlMessage]
        /\ promise' \in [Msgs -> PromiseStates]
    BY <1>0, <1>2, NoControlType DEF GiveUp, PromiseStates
  <2> QED
    BY <1>0, <1>2, <2>1, RemoveRowType DEF GiveUp, dequeVars, is_transaction_message
<1> QED
  BY <1>1, <1>2

\* get_persisted_messages_from_db: every row becomes a queued message.
LEMMA RestartType ==
    ASSUME TypeInv, NEW queue_all \in QueueAllModes, NEW kind \in RestartKinds,
           Restart(queue_all, kind)
    PROVE  TypeOfMessages'
<1> USE DEF TypeInv, TypeOK, TypeOfMessages
<1>1. PICK rowsT \in SUBSET dbTransaction, rowsN \in SUBSET dbNormal, ignore \in BOOLEAN :
        get_persisted_messages_from_db(rowsT, rowsN, ignore)
  BY DEF Restart, QueryResults
<1> USE DEF get_persisted_messages_from_db
<1>2. ahead' \in [Msgs -> SUBSET Msgs]
  BY <1>1 DEF RowsBefore
<1>3. control' \in [Msgs -> ControlMessage]
  BY <1>1, NoControlType DEF NewControl, ControlMessage
<1>4. promise' \in [Msgs -> PromiseStates]
  BY <1>1 DEF PromiseStates
<1>5. dbTransaction' \subseteq dbTransaction /\ dbNormal' \subseteq dbNormal
      /\ UNCHANGED <<rowTimestamp, older>>
  BY <1>1 DEF Restart
<1> QED
  BY <1>1, <1>2, <1>3, <1>4, <1>5 DEF is_transaction_message

\* Every step preserves the types.
LEMMA TypeNext == TypeInv /\ [Next]_vars => TypeInv'
<1> SUFFICES ASSUME TypeInv, [Next]_vars PROVE TypeInv'
  OBVIOUS
<1> USE DEF TypeInv, TypeOK, TypeOfFlags, messageVars, dequeVars, dbVars, flightVars,
            callbackVars, pauseVars, actionVars, setupVars, modeVars, retryVars,
            stationVars, receiveVars, Notify
<1> USE DEF TypeOfMessages, TypeOfDelivery, TypeOfPausing, TypeOfStation, WorkerStates
<1>1. CASE Dispatch
  <2>1. ASSUME NEW m \in Msgs, NEW triggered \in Triggers, DispatchRefused(m, triggered)
        PROVE  TypeInv'
    BY <2>1 DEF DispatchRefused, Forget, PromiseStates
  <2>2. ASSUME NEW m \in Msgs, NEW triggered \in Triggers, DispatchQueued(m, triggered)
        PROVE  TypeInv'
    <3>1. TypeOfFlags'
      BY <2>2, Zenon DEF DispatchQueued, Enqueue
    <3>2. NewControl(now, get_message_transmission_priority(m, triggered)
                            = "SendAfterRegistrationStatusAccepted") \in ControlMessage
      BY DEF NewControl, ControlMessage
    <3>3. TypeOfMessages'
      BY <2>2, <3>2, EnqueueType DEF DispatchQueued
    <3>4. TypeOfDelivery'
      BY <2>2 DEF DispatchQueued, Forget
    <3>5. TypeOfPausing' /\ TypeOfStation' /\ (worker' = "sending" => in_flight' # None)
      BY <2>2 DEF DispatchQueued, Enqueue
    <3> QED
      BY <3>1, <3>3, <3>4, <3>5
  <2>3. ASSUME NEW m \in Msgs, NEW triggered \in Triggers, DispatchChecked(m, triggered)
        PROVE  TypeInv'
    BY <2>3 DEF DispatchChecked, Forget, PromiseStates, NewControl, ControlMessage
  <2>4. ASSUME NEW m \in Msgs, EnqueueChecked(m) PROVE TypeInv'
    <3>1. TypeOfFlags'
      BY <2>4, Zenon DEF EnqueueChecked, Enqueue
    <3>2. TypeOfMessages'
      BY <2>4, EnqueueType DEF EnqueueChecked
    <3>3. TypeOfDelivery'
      BY <2>4 DEF EnqueueChecked
    <3>4. TypeOfPausing' /\ TypeOfStation' /\ (worker' = "sending" => in_flight' # None)
      BY <2>4 DEF EnqueueChecked, Enqueue
    <3> QED
      BY <3>1, <3>2, <3>3, <3>4
  <2>5. ASSUME NEW m \in Msgs, DispatchAnotherHeartbeat(m) PROVE TypeInv'
    <3>1. TypeOfFlags'
      BY <2>5, Zenon DEF DispatchAnotherHeartbeat
    <3> QED
      BY <2>5, <3>1 DEF DispatchAnotherHeartbeat
  <2> QED
    BY <1>1, <2>1, <2>2, <2>3, <2>4, <2>5 DEF Dispatch
<1>2. CASE Worker
  <2>1. ASSUME WorkerExit PROVE TypeInv'
    BY <2>1 DEF WorkerExit
  <2>2. ASSUME WorkerSleep PROVE TypeInv'
    BY <2>2 DEF WorkerSleep
  <2>3. ASSUME WorkerStartAction PROVE TypeInv'
    <3>1. TypeOfFlags'
      BY <2>3, Zenon DEF WorkerStartAction
    <3> QED
      BY <2>3, <3>1 DEF WorkerStartAction, IdleActionDue
  <2>4. ASSUME NEW c \in BOOLEAN, WorkerEndAction(c) PROVE TypeInv'
    <3>1. TypeOfFlags'
      BY <2>4, ZenonT(60) DEF WorkerEndAction
    <3> QED
      BY <2>4, <3>1 DEF WorkerEndAction
  <2>5. ASSUME NEW m \in Msgs, WorkerSelect(m) PROVE TypeInv'
    <3>1. ahead' \in [Msgs -> SUBSET Msgs]
      BY <2>5, EraseType DEF WorkerSelect
    <3>2. control' \in [Msgs -> ControlMessage]
      BY <2>5, SMTT(40) DEF WorkerSelect, ControlMessage
    <3>3. TypeOfMessages'
      BY <2>5, <3>1, <3>2 DEF WorkerSelect, Pop, is_transaction_message
    <3>4. TypeOfFlags' /\ TypeOfStation' /\ TypeOfPausing'
      BY <2>5 DEF WorkerSelect
    <3>5. TypeOfDelivery' /\ in_flight' # None
      BY <2>5 DEF WorkerSelect
    <3> QED
      BY <3>3, <3>4, <3>5
  <2>6. ASSUME WorkerSend PROVE TypeInv'
    <3>1. TypeOfFlags'
      BY <2>6, Zenon DEF WorkerSend, AfterSending
    <3>2. Id(in_flight) \in Ids
      BY <2>6 DEF WorkerSend, Id, Ids, ControlMessage
    <3> QED
      BY <2>6, <3>1, <3>2 DEF WorkerSend, AfterSending, StartTimeout
  <2>7. ASSUME WorkerSendFails PROVE TypeInv'
    <3>1. TypeOfFlags'
      BY <2>7, Zenon DEF WorkerSendFails, AfterSending
    <3>2. in_flight # None /\ handle_timeout_or_callerror("offline") /\ UNCHANGED older
      BY <2>7 DEF WorkerSendFails
    <3> QED
      BY <2>7, <3>1, <3>2, RetryType DEF WorkerSendFails, AfterSending
  <2>8. ASSUME WorkerHoldsBack PROVE TypeInv'
    BY <2>8 DEF WorkerHoldsBack
  <2>9. ASSUME WorkerFindsNothing PROVE TypeInv'
    <3>1. TypeOfFlags'
      BY <2>9, Zenon DEF WorkerFindsNothing
    <3> QED
      BY <2>9, <3>1 DEF WorkerFindsNothing
  <2>10. ASSUME WorkerContinues PROVE TypeInv'
    BY <2>10 DEF WorkerContinues
  <2> QED
    BY <1>2, <2>1, <2>2, <2>3, <2>4, <2>5, <2>6, <2>7, <2>8, <2>9, <2>10 DEF Worker
<1>3. CASE Receive
  <2>1. ASSUME NEW id \in sent, ReceiveCallResult(id) PROVE TypeInv'
    <3>1. in_flight \in Msgs
      BY <2>1 DEF ReceiveCallResult, Answers
    <3>2. TypeOfMessages'
      BY <2>1, <3>1, NoControlType, RemoveRowType
      DEF ReceiveCallResult, PromiseStates, is_transaction_message
    <3> QED
      BY <2>1, <3>1, <3>2 DEF ReceiveCallResult, Ids, Unlocked
  <2>2. ASSUME NEW id \in sent, ReceiveCallError(id) PROVE TypeInv'
    <3>1. in_flight # None /\ handle_timeout_or_callerror("error") /\ UNCHANGED older
      BY <2>2 DEF ReceiveCallError, Answers
    <3> QED
      BY <2>2, <3>1, RetryType DEF ReceiveCallError, Unlocked
  <2>3. ASSUME NEW id \in sent, ReceiveMismatch(id) PROVE TypeInv'
    BY <2>3 DEF ReceiveMismatch, Ids
  <2>4. ASSUME NEW c \in Calls, ReceiveCall(c) PROVE TypeInv'
    BY <2>4 DEF ReceiveCall
  <2>5. ASSUME NEW c \in Calls, AnswerCall(c) PROVE TypeInv'
    BY <2>5 DEF AnswerCall
  <2>6. ASSUME NEW c \in Calls, IgnoreCall(c) PROVE TypeInv'
    BY <2>6 DEF IgnoreCall
  <2>7. ASSUME NEW status \in {"Booted", "Pending", "Rejected"},
               HandleBootNotificationResponse(status)
        PROVE  TypeInv'
    <3>1. booting' \in BOOLEAN
      BY <2>7, Zenon DEF HandleBootNotificationResponse
    <3>2. TypeOfFlags'
      BY <2>7, <3>1 DEF HandleBootNotificationResponse
    <3>3. TypeOfMessages' /\ TypeOfDelivery' /\ TypeOfStation'
      BY <2>7 DEF HandleBootNotificationResponse
    <3>4. TypeOfPausing' /\ (worker' = "sending" => in_flight' # None)
      BY <2>7 DEF HandleBootNotificationResponse
    <3> QED
      BY <3>2, <3>3, <3>4
  <2>8. ASSUME NEW known \in BOOLEAN, HandleStartTransactionResponse(known) PROVE TypeInv'
    BY <2>8 DEF HandleStartTransactionResponse
  <2>9. ASSUME HandleBootAccepted PROVE TypeInv'
    BY <2>9 DEF HandleBootAccepted
  <2>10. ASSUME set_registration_status_accepted PROVE TypeInv'
    BY <2>10 DEF set_registration_status_accepted
  <2> QED
    BY <1>3, <2>1, <2>2, <2>3, <2>4, <2>5, <2>6, <2>7, <2>8, <2>9, <2>10 DEF Receive
<1>4. CASE Connection
  <2>1. ASSUME NEW delayed \in ResumeDelays, Connect(delayed) PROVE TypeInv'
    <3>1. TypeOfFlags'
      BY <2>1, Zenon DEF Connect
    <3> QED
      BY <2>1, <3>1 DEF Connect
  <2>2. ASSUME Disconnect PROVE TypeInv'
    <3>1. TypeOfFlags'
      BY <2>2, Zenon DEF Disconnect
    <3>2. CASE in_flight = None
      BY <2>2, <3>1, <3>2 DEF Disconnect, Unlocked
    <3>3. CASE in_flight # None
      <4>1. handle_timeout_or_callerror("offline") /\ UNCHANGED older
        BY <2>2, <3>3 DEF Disconnect
      <4> QED
        BY <2>2, <3>1, <3>3, <4>1, RetryType DEF Disconnect, Unlocked
    <3> QED
      BY <3>2, <3>3
  <2>3. ASSUME run_when_idle PROVE TypeInv'
    BY <2>3 DEF run_when_idle
  <2> QED
    BY <1>4, <2>1, <2>2, <2>3 DEF Connection
<1>5. CASE Timers
  <2>1. ASSUME Tick PROVE TypeInv'
    BY <2>1 DEF Tick, Times
  <2>2. ASSUME InFlightTimeoutExpires PROVE TypeInv'
    BY <2>2 DEF InFlightTimeoutExpires
  <2>3. ASSUME NEW id \in timeout_callbacks, InFlightTimeoutCallback(id) PROVE TypeInv'
    <3>1. CASE ~Answers(id)
      BY <2>3, <3>1 DEF InFlightTimeoutCallback, Unlocked
    <3>2. CASE Answers(id)
      <4>1. in_flight # None /\ handle_timeout_or_callerror("offline") /\ UNCHANGED older
        BY <2>3, <3>2 DEF InFlightTimeoutCallback, Answers
      <4> QED
        BY <2>3, <3>2, <4>1, RetryType DEF InFlightTimeoutCallback, Unlocked
    <3> QED
      BY <3>1, <3>2
  <2>4. ASSUME NotifyQueueTimerExpires PROVE TypeInv'
    <3>1. TypeOfFlags'
      BY <2>4, Zenon DEF NotifyQueueTimerExpires
    <3> QED
      BY <2>4, <3>1 DEF NotifyQueueTimerExpires
  <2>5. ASSUME NotifyQueueCallback PROVE TypeInv'
    <3>1. TypeOfFlags'
      BY <2>5, Zenon DEF NotifyQueueCallback
    <3> QED
      BY <2>5, <3>1 DEF NotifyQueueCallback
  <2>6. ASSUME ResumeTimerExpires PROVE TypeInv'
    BY <2>6 DEF ResumeTimerExpires
  <2>7. ASSUME NEW ctr \in resume_callbacks, resume_now(ctr) PROVE TypeInv'
    <3>1. TypeOfFlags'
      BY <2>7, Zenon DEF resume_now
    <3> QED
      BY <2>7, <3>1 DEF resume_now
  <2> QED
    BY <1>5, <2>1, <2>2, <2>3, <2>4, <2>5, <2>6, <2>7 DEF Timers
<1>6. CASE Lifecycle
  <2>1. ASSUME NEW n \in AttemptLimits, update_transaction_message_attempts(n) PROVE TypeInv'
    BY <2>1 DEF update_transaction_message_attempts
  <2>2. ASSUME NEW n \in RetryIntervals, update_transaction_message_retry_interval(n) PROVE TypeInv'
    BY <2>2 DEF update_transaction_message_retry_interval
  <2>3. ASSUME Stop PROVE TypeInv'
    <3>1. TypeOfFlags'
      BY <2>3, Zenon DEF Stop
    <3> QED
      BY <2>3, <3>1 DEF Stop
  <2>4. ASSUME StopTimers PROVE TypeInv'
    BY <2>4 DEF StopTimers
  <2>5. ASSUME NEW queue_all \in QueueAllModes, NEW kind \in RestartKinds,
               Restart(queue_all, kind)
        PROVE  TypeInv'
    <3>1. TypeOfFlags'
      BY <2>5, Zenon DEF Restart, get_persisted_messages_from_db
    <3>2. TypeOfMessages'
      BY <2>5, RestartType
    <3>3. TypeOfDelivery'
      BY <2>5 DEF Restart
    <3>4. TypeOfPausing' /\ (worker' = "sending" => in_flight' # None)
      BY <2>5 DEF Restart
    <3>5. TypeOfStation'
      <4>1. connection_state' \in {"Disconnected", connection_state}
        BY <2>5, Zenon DEF Restart
      <4>2. restarts' = restarts + 1 /\ UNCHANGED <<retryVars, now>>
        BY <2>5 DEF Restart
      <4> QED
        BY <4>1, <4>2
    <3> QED
      BY <3>1, <3>2, <3>3, <3>4, <3>5
  <2> QED
    BY <1>6, <2>1, <2>2, <2>3, <2>4, <2>5 DEF Lifecycle
<1>7. CASE UNCHANGED vars
  BY <1>7 DEF vars
<1> QED
  BY <1>1, <1>2, <1>3, <1>4, <1>5, <1>6, <1>7 DEF Next

\* The types hold in every state, and so does what makes them inductive: the
\* worker only sends what is in flight (in_flight is set before send_callback).
THEOREM TypeCorrect == Spec => []TypeOK
<1>1. Init => TypeInv
  BY InitType
<1>2. TypeInv /\ [Next]_vars => TypeInv'
  BY TypeNext
<1>3. TypeInv => TypeOK
  BY DEF TypeInv
<1> QED
  BY <1>1, <1>2, <1>3, PTL DEF Spec

----------------------------------------------------------------------------
\* The state that says where a message is.
coreVars == <<control, promise, dequeVars, dbVars, older, in_flight, modeVars>>

\* m need not wait for the station's registration.
MayGoFirst(m) ==
    RegistrationAccepted \/ is_boot_notification_message(m) \/ TRUE \in Triggers

\* A message is pushed.
PushStep ==
    \E m \in Msgs, fields \in ControlMessage :
        /\ promise[m] # "pending"
        /\ is_transaction_message(m) => promise[m] \in {"new", "checked"}
        /\ promise[m] = "checked" \/ MayGoFirst(m) \/ fields.stall_until_accepted
        /\ Enqueue(m, fields)
        /\ UNCHANGED <<in_flight, modeVars>>

\* A message is refused, or has passed the unlocked check of push_call.
RefuseStep ==
    \E m \in Msgs :
        /\ promise[m] # "pending"
        /\ \E end \in {"offline", "discarded", "checked"} :
              /\ promise' = [promise EXCEPT ![m] = end]
              /\ end = "checked" => MayGoFirst(m) /\ ~is_transaction_message(m)
              /\ is_transaction_message(m) => promise[m] = "new"
        /\ control' = [control EXCEPT ![m] = control'[m]]
        /\ UNCHANGED <<dequeVars, dbVars, older, in_flight, modeVars>>

\* A delivery fails: timeout, CALLERROR, disconnection or failed send.
FailStep ==
    /\ in_flight # None
    /\ \E answer \in {"error", "offline"} : handle_timeout_or_callerror(answer)
    /\ UNCHANGED <<older, modeVars>>

\* Every step does one of these to the messages.
LEMMA CoreSteps ==
    ASSUME TypeInv, [Next]_vars
    PROVE  \/ UNCHANGED coreVars
           \/ PushStep
           \/ RefuseStep
           \/ \E m \in Msgs : WorkerSelect(m)
           \/ FailStep
           \/ \E id \in sent : ReceiveCallResult(id)
           \/ \E queue_all \in QueueAllModes, kind \in RestartKinds : Restart(queue_all, kind)
<1> USE DEF coreVars, messageVars, dequeVars, dbVars, flightVars, setupVars, modeVars
<1>1. CASE Dispatch
  <2>1. ASSUME NEW m \in Msgs, NEW triggered \in Triggers, DispatchRefused(m, triggered)
        PROVE  RefuseStep
    <3>1. control' = [control EXCEPT ![m] = control'[m]]
      BY <2>1 DEF DispatchRefused, TypeInv, TypeOK, TypeOfMessages
    <3> QED
      BY <2>1, <3>1 DEF DispatchRefused, CanDispatch, RefuseStep, is_transaction_message,
                        TransactionKinds
  <2>2. ASSUME NEW m \in Msgs, NEW triggered \in Triggers, DispatchQueued(m, triggered)
        PROVE  PushStep
    <3>1. NewControl(now, get_message_transmission_priority(m, triggered)
                            = "SendAfterRegistrationStatusAccepted") \in ControlMessage
      BY DEF NewControl, ControlMessage, TypeInv, TypeOK, TypeOfStation
    <3>2. \/ MayGoFirst(m)
          \/ NewControl(now, get_message_transmission_priority(m, triggered)
               = "SendAfterRegistrationStatusAccepted").stall_until_accepted
      BY <2>2 DEF DispatchQueued, get_message_transmission_priority, NewControl, MayGoFirst
    <3> QED
      BY <2>2, <3>1, <3>2 DEF DispatchQueued, CanDispatch, PushStep, is_transaction_message,
                              TransactionKinds
  <2>3. ASSUME NEW m \in Msgs, NEW triggered \in Triggers, DispatchChecked(m, triggered)
        PROVE  RefuseStep
    <3>1. control' = [control EXCEPT ![m] = control'[m]]
      BY <2>3 DEF DispatchChecked, TypeInv, TypeOK, TypeOfMessages
    <3>2. MayGoFirst(m)
      BY <2>3 DEF DispatchChecked, get_message_transmission_priority, MayGoFirst
    <3> QED
      BY <2>3, <3>1, <3>2 DEF DispatchChecked, CanDispatch, RefuseStep, Persisted
  <2>4. ASSUME NEW m \in Msgs, EnqueueChecked(m) PROVE PushStep
    BY <2>4 DEF EnqueueChecked, PushStep, TypeInv, TypeOK, TypeOfMessages
  <2>5. ASSUME NEW m \in Msgs, DispatchAnotherHeartbeat(m) PROVE UNCHANGED coreVars
    BY <2>5 DEF DispatchAnotherHeartbeat
  <2> QED
    BY <1>1, <2>1, <2>2, <2>3, <2>4, <2>5 DEF Dispatch
<1>2. CASE Worker
  <2>1. CASE WorkerSendFails
    BY <2>1 DEF WorkerSendFails, FailStep, TypeInv
  <2>2. CASE WorkerSend
    BY <2>2 DEF WorkerSend
  <2> QED
    BY <1>2, <2>1, <2>2
    DEF Worker, WorkerExit, WorkerSleep, WorkerStartAction, WorkerEndAction,
        WorkerHoldsBack, WorkerFindsNothing, WorkerContinues
<1>3. CASE Receive
  <2>1. ASSUME NEW id \in sent, ReceiveCallError(id) PROVE FailStep
    BY <2>1 DEF ReceiveCallError, Answers, FailStep
  <2> QED
    BY <1>3, <2>1
    DEF Receive, ReceiveMismatch, ReceiveCall, AnswerCall, IgnoreCall,
        HandleBootNotificationResponse, set_registration_status_accepted, HandleBootAccepted,
        HandleStartTransactionResponse
<1>4. CASE Connection
  <2>1. CASE Disconnect
    BY <2>1 DEF Disconnect, FailStep
  <2> QED
    BY <1>4, <2>1 DEF Connection, Connect, run_when_idle
<1>5. CASE Timers
  <2>1. ASSUME NEW id \in timeout_callbacks, InFlightTimeoutCallback(id)
        PROVE  UNCHANGED coreVars \/ FailStep
    BY <2>1 DEF InFlightTimeoutCallback, Answers, FailStep
  <2> QED
    BY <1>5, <2>1
    DEF Timers, Tick, InFlightTimeoutExpires, NotifyQueueTimerExpires,
        NotifyQueueCallback, ResumeTimerExpires, resume_now
<1>6. CASE Lifecycle
  BY <1>6
  DEF Lifecycle, update_transaction_message_attempts,
      update_transaction_message_retry_interval, Stop, StopTimers
<1>7. CASE UNCHANGED vars
  BY <1>7 DEF vars
<1> QED
  BY <1>1, <1>2, <1>3, <1>4, <1>5, <1>6, <1>7 DEF Next

\* What is dropped was queued.
LEMMA DropsAreQueued ==
    ASSUME NEW T, NEW N, NEW A
    PROVE  /\ drop_messages_from_normal_message_queue(T, N, A) \subseteq N
           /\ drop_update_messages_from_transactional_message_queue(T, N, A) \subseteq T
  BY DEF drop_messages_from_normal_message_queue,
         drop_update_messages_from_transactional_message_queue

----------------------------------------------------------------------------
\* No step loses, duplicates or settles twice a message the queue holds.
LEMMA HeldNext ==
    ASSUME TypeInv, PendingIsHeldOnce, [Next]_vars
    PROVE  PendingIsHeldOnce'
<1> USE DEF TypeInv, TypeOK, TypeOfMessages, TypeOfDelivery, PendingIsHeldOnce, Live
<1>1. CASE UNCHANGED coreVars
  BY <1>1 DEF coreVars, dequeVars
<1>2. CASE PushStep
  <2>1. PICK m \in Msgs, fields \in ControlMessage :
          promise[m] # "pending" /\ Enqueue(m, fields) /\ UNCHANGED <<in_flight, modeVars>>
    BY <1>2 DEF PushStep
  <2> QED
    BY <2>1, DropsAreQueued DEF Enqueue, is_transaction_message
<1>3. CASE RefuseStep
  BY <1>3 DEF RefuseStep, dequeVars
<1>4. ASSUME NEW m \in Msgs, WorkerSelect(m) PROVE PendingIsHeldOnce'
  BY <1>4 DEF WorkerSelect, Selecting, Selected, TransactionSelected, FirstAllowedNormal,
              Pop, is_transaction_message
<1>5. CASE FailStep
  <2>1. PICK answer \in {"error", "offline"} : handle_timeout_or_callerror(answer)
    BY <1>5 DEF FailStep
  <2>2. in_flight \in Msgs
    BY <1>5 DEF FailStep
  <2>3. CASE SendAgain(in_flight)
    BY <2>1, <2>2, <2>3
    DEF handle_timeout_or_callerror, SendAgain, queue_type
  <2>4. CASE GiveUp(in_flight, answer)
    BY <2>1, <2>2, <2>4 DEF handle_timeout_or_callerror, GiveUp, dequeVars
  <2> QED
    BY <2>1, <2>3, <2>4 DEF handle_timeout_or_callerror
<1>6. ASSUME NEW id \in sent, ReceiveCallResult(id) PROVE PendingIsHeldOnce'
  BY <1>6 DEF ReceiveCallResult, Answers, dequeVars
<1>7. ASSUME NEW queue_all \in QueueAllModes, NEW kind \in RestartKinds,
             Restart(queue_all, kind)
      PROVE  PendingIsHeldOnce'
  <2>1. PICK rowsT \in SUBSET dbTransaction, rowsN \in SUBSET dbNormal, ignore \in BOOLEAN :
          get_persisted_messages_from_db(rowsT, rowsN, ignore)
    BY <1>7 DEF Restart, QueryResults
  <2> QED
    BY <1>7, <2>1 DEF Restart, get_persisted_messages_from_db
<1> QED
  BY <1>1, <1>2, <1>3, <1>4, <1>5, <1>6, <1>7, CoreSteps

\* A message whose promise is to be set is held exactly once, and a held
\* message's promise was never set, over all retries, timeouts and restarts.
THEOREM HeldOnceCorrect == Spec => []PendingIsHeldOnce
<1>1. Init => TypeInv /\ PendingIsHeldOnce
  BY InitType DEF Init, PendingIsHeldOnce, Live
<1>2. TypeInv /\ PendingIsHeldOnce /\ [Next]_vars => (TypeInv /\ PendingIsHeldOnce)'
  BY TypeNext, HeldNext
<1> QED
  BY <1>1, <1>2, PTL DEF Spec

----------------------------------------------------------------------------
\* As long as statements succeed the tables hold what must survive a restart.
LEMMA PersistedNext ==
    ASSUME TypeInv, PendingIsHeldOnce, PersistedExactly, [Next]_vars
    PROVE  PersistedExactly'
<1> SUFFICES ASSUME ~dbMayFail'
             PROVE  /\ dbTransaction' = {m \in Msgs : /\ promise'[m] = "pending"
                                                      /\ is_transaction_message(m)}
                    /\ dbNormal' = {m \in Msgs : /\ promise'[m] = "pending"
                                                 /\ queue_all_messages'
                                                 /\ Kind[m] # "Heartbeat"
                                                 /\ ~is_transaction_message(m)}
  BY DEF PersistedExactly, check_queue
<1> USE DEF TypeInv, TypeOK, TypeOfMessages, PersistedExactly, check_queue, modeVars
<1>0. ASSUME UNCHANGED dbMayFail, NEW S, NEW e \in DbEffects(S) PROVE e = S
  BY <1>0 DEF DbEffects
<1>1. CASE UNCHANGED coreVars
  BY <1>1 DEF coreVars, dbVars
<1>2. CASE PushStep
  <2>1. PICK m \in Msgs, fields \in ControlMessage :
          promise[m] # "pending" /\ Enqueue(m, fields) /\ UNCHANGED <<in_flight, modeVars>>
    BY <1>2 DEF PushStep
  <2> DEFINE tx == is_transaction_message(m)
             T  == IF tx THEN transaction_message_queue \cup {m} ELSE transaction_message_queue
             N  == IF tx THEN normal_message_queue ELSE normal_message_queue \cup {m}
             A  == IF is_boot_notification_message(m)
                   THEN PushFront(ahead, m, normal_message_queue)
                   ELSE PushBack(ahead, m, IF tx THEN transaction_message_queue
                                           ELSE normal_message_queue)
             DN == drop_messages_from_normal_message_queue(T, N, A)
             DT == drop_update_messages_from_transactional_message_queue(T, N \ DN, A)
  <2>2. DT \subseteq T /\ DN \subseteq N
    BY DropsAreQueued
  <2>3. promise' = [x \in Msgs |-> IF x \in DT \cup DN THEN "dropped"
                                   ELSE IF x = m THEN "pending" ELSE promise[x]]
    BY <2>1 DEF Enqueue
  <2>4. dbTransaction' = (IF tx THEN dbTransaction \cup {m} ELSE dbTransaction) \ DT
    BY <1>0, <2>1 DEF Enqueue
  <2>5. dbNormal' = (IF ~tx /\ check_queue(m) THEN dbNormal \cup {m} ELSE dbNormal)
                    \ (IF queue_all_messages THEN DN ELSE {})
    BY <1>0, <2>1 DEF Enqueue
  <2> HIDE DEF DT, DN
  <2> QED
    BY <2>1, <2>2, <2>3, <2>4, <2>5 DEF is_transaction_message
<1>3. CASE RefuseStep
  BY <1>3 DEF RefuseStep, dbVars
<1>4. ASSUME NEW m \in Msgs, WorkerSelect(m) PROVE UNCHANGED <<promise, dbVars, modeVars>>
  BY <1>4 DEF WorkerSelect, setupVars
<1>5. CASE FailStep
  <2>1. PICK answer \in {"error", "offline"} : handle_timeout_or_callerror(answer)
    BY <1>5 DEF FailStep
  <2>2. in_flight \in Msgs /\ UNCHANGED modeVars
    BY <1>5 DEF FailStep, TypeOfDelivery
  <2>3. CASE SendAgain(in_flight)
    BY <2>2, <2>3 DEF SendAgain, dbVars
  <2>4. CASE GiveUp(in_flight, answer)
    BY <1>0, <2>2, <2>4 DEF GiveUp, RemoveRow, Persisted, queue_type
  <2> QED
    BY <2>1, <2>3, <2>4 DEF handle_timeout_or_callerror
<1>6. CASE \E id \in sent : ReceiveCallResult(id)
  <2>1. in_flight \in Msgs /\ RemoveRow(in_flight) /\ UNCHANGED modeVars
        /\ promise' = [promise EXCEPT ![in_flight] = "result"]
    BY <1>6 DEF ReceiveCallResult, Answers, TypeOfDelivery, setupVars
  <2> QED
    BY <1>0, <2>1 DEF RemoveRow, Persisted, queue_type
<1>7. ASSUME NEW queue_all \in QueueAllModes, NEW kind \in RestartKinds,
             Restart(queue_all, kind)
      PROVE  /\ dbTransaction' = {m \in Msgs : promise'[m] = "pending"
                                               /\ is_transaction_message(m)}
             /\ dbNormal' = {m \in Msgs : /\ promise'[m] = "pending"
                                          /\ queue_all_messages'
                                          /\ Kind[m] # "Heartbeat"
                                          /\ ~is_transaction_message(m)}
  <2>1. ~dbMayFail /\ UNCHANGED dbMayFail /\ queue_all_messages' = queue_all
    BY <1>7 DEF Restart
  <2>2. PICK ignore \in BOOLEAN :
          get_persisted_messages_from_db(dbTransaction, dbNormal, ignore)
    BY <1>7, <2>1 DEF Restart, QueryResults
  <2>3. dbNormal' = IF queue_all THEN dbNormal ELSE {}
    BY <1>7, <2>1 DEF Restart
  <2> QED
    BY <1>0, <2>1, <2>2, <2>3 DEF get_persisted_messages_from_db
<1> QED
  BY <1>1, <1>2, <1>3, <1>4, <1>5, <1>6, <1>7, CoreSteps DEF dbVars

\* Unless a statement fails, the tables hold exactly the unsettled messages
\* that must survive: no crash loses one, and none comes back settled.
THEOREM PersistedCorrect == Spec => []PersistedExactly
<1>1. Init => TypeInv /\ PendingIsHeldOnce /\ PersistedExactly
  BY InitType DEF Init, PendingIsHeldOnce, Live, PersistedExactly
<1>2. TypeInv /\ PendingIsHeldOnce /\ PersistedExactly /\ [Next]_vars
        => (TypeInv /\ PendingIsHeldOnce /\ PersistedExactly)'
  BY TypeNext, HeldNext, PersistedNext
<1> QED
  BY <1>1, <1>2, PTL DEF Spec

----------------------------------------------------------------------------
\* Of two queued transaction messages the one accepted first is in front, and
\* nothing queued was accepted before the message in flight.
OrderInv ==
    /\ TransactionOrder
    /\ \A m \in transaction_message_queue :
          older[m] \cap transaction_message_queue \subseteq ahead[m]
    /\ \A m \in Msgs : m \notin older[m]

\* Every step keeps the order: a failed message goes back to the front, a new
\* one to the end, and rows come back in the order of their insertion.
LEMMA OrderNext ==
    ASSUME TypeInv, PendingIsHeldOnce, OrderInv, [Next]_vars
    PROVE  OrderInv'
<1> USE DEF TypeInv, TypeOK, TypeOfMessages, TypeOfDelivery, OrderInv, TransactionOrder,
            dequeVars
<1>1. CASE UNCHANGED coreVars
  BY <1>1 DEF coreVars
<1>2. CASE PushStep
  <2>1. PICK m \in Msgs, fields \in ControlMessage :
          promise[m] # "pending" /\ Enqueue(m, fields) /\ UNCHANGED <<in_flight, modeVars>>
    BY <1>2 DEF PushStep
  <2>2. m # in_flight /\ m \notin transaction_message_queue \cup normal_message_queue
    BY <2>1 DEF PendingIsHeldOnce, Live
  <2>3. transaction_message_queue' \subseteq
          transaction_message_queue \cup (IF is_transaction_message(m) THEN {m} ELSE {})
    BY <2>1 DEF Enqueue
  <2>4. \A x \in Msgs \ {m} : m \notin older'[x] /\ older'[x] \subseteq older[x]
    BY <2>1 DEF Enqueue
  <2> DEFINE tx == is_transaction_message(m)
             T  == IF tx THEN transaction_message_queue \cup {m} ELSE transaction_message_queue
             N  == IF tx THEN normal_message_queue ELSE normal_message_queue \cup {m}
             A  == IF is_boot_notification_message(m)
                   THEN PushFront(ahead, m, normal_message_queue)
                   ELSE PushBack(ahead, m, IF tx THEN transaction_message_queue
                                           ELSE normal_message_queue)
             DN == drop_messages_from_normal_message_queue(T, N, A)
             DT == drop_update_messages_from_transactional_message_queue(T, N \ DN, A)
  <2>5. DT \subseteq T /\ DN \subseteq N
    BY DropsAreQueued
  <2>6. transaction_message_queue' = T \ DT /\ ahead' = Erase(A, DT \cup DN)
    BY <2>1 DEF Enqueue
  <2>7. ASSUME NEW x \in transaction_message_queue, x # m PROVE ahead[x] \ {m} \subseteq A[x]
    BY <2>7 DEF PushFront, PushBack
  <2>8. tx => A[m] = transaction_message_queue
    BY DEF PushBack, is_transaction_message, is_boot_notification_message, TransactionKinds
  <2> HIDE DEF DT, DN, A
  <2>9. ASSUME NEW x \in transaction_message_queue'
        PROVE  older'[x] \cap transaction_message_queue' \subseteq ahead'[x]
    <3>1. x \in Msgs /\ x \notin DT \cup DN /\ ahead'[x] = A[x] \ (DT \cup DN)
      BY <2>3, <2>5, <2>6, <2>9 DEF Erase, is_transaction_message
    <3>2. transaction_message_queue' \cap (DT \cup DN) = {}
      BY <2>2, <2>5, <2>6 DEF is_transaction_message
    <3>3. CASE x = m
      BY <2>1, <2>2, <2>3, <2>8, <2>9, <3>1, <3>2, <3>3 DEF Enqueue
    <3>4. CASE x # m
      <4>1. x \in transaction_message_queue
        BY <2>3, <2>9, <3>4
      <4> QED
        BY <2>3, <2>4, <2>7, <3>1, <3>2, <3>4, <4>1
    <3> QED
      BY <3>3, <3>4
  <2>10. \A x \in Msgs : x \notin older'[x]
    BY <2>1, <2>4 DEF Enqueue
  <2> QED
    BY <2>1, <2>2, <2>3, <2>4, <2>9, <2>10
<1>3. CASE RefuseStep
  BY <1>3 DEF RefuseStep
<1>4. ASSUME NEW m \in Msgs, WorkerSelect(m) PROVE OrderInv'
  BY <1>4 DEF WorkerSelect, Selected, TransactionSelected, FirstAllowedNormal, Pop, Erase,
              is_transaction_message
<1>5. CASE FailStep
  <2>1. PICK answer \in {"error", "offline"} : handle_timeout_or_callerror(answer)
    BY <1>5 DEF FailStep
  <2>2. in_flight \in Msgs /\ in_flight' = None /\ UNCHANGED older
    BY <1>5, <2>1 DEF FailStep, handle_timeout_or_callerror
  <2>3. CASE SendAgain(in_flight)
    <3>1. CASE is_transaction_message(in_flight)
      <4>1. transaction_message_queue' = transaction_message_queue \cup {in_flight}
        BY <2>3, <3>1 DEF SendAgain, queue_type
      <4>2. \A x \in transaction_message_queue \ {in_flight} :
              ahead[x] \cup {in_flight} \subseteq ahead'[x]
        BY <2>2, <2>3, <3>1 DEF SendAgain, queue_type, PushFront
      <4>3. in_flight \notin transaction_message_queue
        BY <2>2 DEF PendingIsHeldOnce
      <4>4. /\ older[in_flight] \cap transaction_message_queue = {}
            /\ in_flight \notin older[in_flight]
        BY <2>2, <3>1
      <4> QED
        BY <2>2, <4>1, <4>2, <4>3, <4>4
    <3>2. CASE ~is_transaction_message(in_flight)
      <4>1. UNCHANGED transaction_message_queue
        BY <2>3, <3>2 DEF SendAgain, queue_type
      <4>2. \A x \in transaction_message_queue : ahead[x] \subseteq ahead'[x]
        BY <2>2, <2>3, <3>2 DEF SendAgain, queue_type, PushFront, is_transaction_message
      <4> QED
        BY <2>2, <4>1, <4>2
    <3> QED
      BY <3>1, <3>2
  <2>4. CASE GiveUp(in_flight, answer)
    BY <2>2, <2>4 DEF GiveUp
  <2> QED
    BY <2>1, <2>3, <2>4 DEF handle_timeout_or_callerror
<1>6. ASSUME NEW id \in sent, ReceiveCallResult(id) PROVE OrderInv'
  BY <1>6 DEF ReceiveCallResult
<1>7. ASSUME NEW queue_all \in QueueAllModes, NEW kind \in RestartKinds,
             Restart(queue_all, kind)
      PROVE  OrderInv'
  <2>1. PICK rowsT \in SUBSET dbTransaction, rowsN \in SUBSET dbNormal, ignore \in BOOLEAN :
          get_persisted_messages_from_db(rowsT, rowsN, ignore)
    BY <1>7 DEF Restart, QueryResults
  <2> QED
    BY <1>7, <2>1 DEF Restart, get_persisted_messages_from_db, RowsBefore
<1> QED
  BY <1>1, <1>2, <1>3, <1>4, <1>5, <1>6, <1>7, CoreSteps

\* Transaction messages are sent in the order in which they were accepted,
\* over retries and restarts.
THEOREM OrderCorrect == Spec => []TransactionOrder
<1>1. Init => TypeInv /\ PendingIsHeldOnce /\ OrderInv
  BY InitType DEF Init, PendingIsHeldOnce, Live, OrderInv, TransactionOrder
<1>2. TypeInv /\ PendingIsHeldOnce /\ OrderInv /\ [Next]_vars
        => (TypeInv /\ PendingIsHeldOnce /\ OrderInv)'
  BY TypeNext, HeldNext, OrderNext
<1>3. OrderInv => TransactionOrder
  BY DEF OrderInv
<1> QED
  BY <1>1, <1>2, <1>3, PTL DEF Spec

----------------------------------------------------------------------------
\* The message in flight keeps its id until it is settled.
LEMMA FlightKeepsId ==
    ASSUME TypeInv, PendingIsHeldOnce, [Next]_vars, in_flight \in Msgs, in_flight' = in_flight
    PROVE  control'[in_flight] = control[in_flight]
<1> USE DEF TypeInv, TypeOK, TypeOfMessages, TypeOfDelivery
<1>1. CASE UNCHANGED coreVars
  BY <1>1 DEF coreVars
<1>2. CASE PushStep
  <2>1. PICK m \in Msgs, fields \in ControlMessage :
          promise[m] # "pending" /\ Enqueue(m, fields) /\ UNCHANGED <<in_flight, modeVars>>
    BY <1>2 DEF PushStep
  <2> QED
    BY <2>1, DropsAreQueued DEF Enqueue, PendingIsHeldOnce, Live
<1>3. CASE RefuseStep
  BY <1>3 DEF RefuseStep, PendingIsHeldOnce, Live
<1>4. ASSUME NEW m \in Msgs, WorkerSelect(m) PROVE FALSE
  BY <1>4 DEF WorkerSelect, Selecting
<1>5. CASE FailStep
  BY <1>5 DEF FailStep, handle_timeout_or_callerror
<1>6. ASSUME NEW id \in sent, ReceiveCallResult(id) PROVE FALSE
  BY <1>6 DEF ReceiveCallResult
<1>7. ASSUME NEW queue_all \in QueueAllModes, NEW kind \in RestartKinds,
             Restart(queue_all, kind)
      PROVE  FALSE
  BY <1>7 DEF Restart
<1> QED
  BY <1>1, <1>2, <1>3, <1>4, <1>5, <1>6, <1>7, CoreSteps

\* The timer of the message in flight changes only as the message does, when
\* it expires, or once the worker is gone.
LEMMA WatchFrame ==
    ASSUME TypeInv, [Next]_vars
    PROVE  \/ /\ UNCHANGED <<in_flight, in_flight_timeout_timer, timeout_callbacks>>
              /\ worker \in {"sending", "exited"} => worker' = worker
           \/ in_flight' = None
           \/ \E m \in Msgs : WorkerSelect(m)
           \/ WorkerSend
           \/ InFlightTimeoutExpires
           \/ \E id \in timeout_callbacks : InFlightTimeoutCallback(id)
           \/ StopTimers
<1> USE DEF messageVars, flightVars, callbackVars, Notify
<1>1. CASE Dispatch
  <2>1. ASSUME NEW m \in Msgs, NEW triggered \in Triggers,
               \/ DispatchRefused(m, triggered)
               \/ DispatchQueued(m, triggered)
               \/ DispatchChecked(m, triggered)
        PROVE  /\ UNCHANGED <<in_flight, in_flight_timeout_timer, timeout_callbacks>>
               /\ worker \in {"sending", "exited"} => worker' = worker
    BY <2>1 DEF DispatchRefused, DispatchQueued, DispatchChecked, Enqueue
  <2>2. ASSUME NEW m \in Msgs, EnqueueChecked(m) \/ DispatchAnotherHeartbeat(m)
        PROVE  /\ UNCHANGED <<in_flight, in_flight_timeout_timer, timeout_callbacks>>
               /\ worker \in {"sending", "exited"} => worker' = worker
    BY <2>2 DEF EnqueueChecked, DispatchAnotherHeartbeat, Enqueue
  <2> QED
    BY <1>1, <2>1, <2>2 DEF Dispatch
<1>2. CASE Worker
  BY <1>2
  DEF Worker, WorkerExit, WorkerSleep, WorkerStartAction, WorkerEndAction, WorkerSendFails,
      handle_timeout_or_callerror, WorkerHoldsBack, WorkerFindsNothing, WorkerContinues,
      Selecting, AtWait
<1>3. CASE Receive
  BY <1>3
  DEF Receive, ReceiveCallResult, ReceiveCallError, handle_timeout_or_callerror,
      ReceiveMismatch, ReceiveCall, AnswerCall, IgnoreCall,
      HandleBootNotificationResponse, set_registration_status_accepted, HandleBootAccepted,
      HandleStartTransactionResponse
<1>4. CASE Connection
  BY <1>4 DEF Connection, Connect, Disconnect, run_when_idle, handle_timeout_or_callerror
<1>5. CASE Timers
  BY <1>5
  DEF Timers, Tick, NotifyQueueTimerExpires, NotifyQueueCallback, ResumeTimerExpires,
      resume_now
<1>6. CASE Lifecycle
  BY <1>6
  DEF Lifecycle, update_transaction_message_attempts,
      update_transaction_message_retry_interval, Stop, Restart
<1>7. CASE UNCHANGED vars
  BY <1>7 DEF vars
<1> QED
  BY <1>1, <1>2, <1>3, <1>4, <1>5, <1>6, <1>7 DEF Next

\* Every step keeps the message in flight watched.
LEMMA WatchNext ==
    ASSUME TypeInv, PendingIsHeldOnce, InFlightIsWatched, [Next]_vars
    PROVE  InFlightIsWatched'
<1> SUFFICES ASSUME in_flight' # None, worker' \notin {"sending", "exited"}
             PROVE  \/ in_flight_timeout_timer' = Id(in_flight)'
                    \/ Id(in_flight)' \in timeout_callbacks'
  BY DEF InFlightIsWatched
<1> USE DEF InFlightIsWatched, TypeInv, TypeOK, TypeOfDelivery
<1>0. ASSUME in_flight' = in_flight PROVE Id(in_flight)' = Id(in_flight)
  BY <1>0, FlightKeepsId DEF Id
<1>1. CASE /\ UNCHANGED <<in_flight, in_flight_timeout_timer, timeout_callbacks>>
           /\ worker \in {"sending", "exited"} => worker' = worker
  BY <1>0, <1>1
<1>2. ASSUME NEW m \in Msgs, WorkerSelect(m) PROVE FALSE
  BY <1>2 DEF WorkerSelect
<1>3. CASE WorkerSend
  BY <1>0, <1>3 DEF WorkerSend, StartTimeout
<1>4. CASE InFlightTimeoutExpires
  BY <1>0, <1>4 DEF InFlightTimeoutExpires
<1>5. ASSUME NEW id \in timeout_callbacks, InFlightTimeoutCallback(id)
      PROVE  in_flight_timeout_timer' = Id(in_flight)' \/ Id(in_flight)' \in timeout_callbacks'
  <2>1. CASE Answers(id)
    BY <1>5, <2>1 DEF InFlightTimeoutCallback, handle_timeout_or_callerror
  <2>2. CASE ~Answers(id)
    BY <1>0, <1>5, <2>2 DEF InFlightTimeoutCallback, Answers, messageVars, flightVars
  <2> QED
    BY <2>1, <2>2
<1>6. CASE StopTimers
  BY <1>6 DEF StopTimers
<1> QED
  BY <1>1, <1>2, <1>3, <1>4, <1>5, <1>6, WatchFrame

\* A message in flight always has a timeout that will settle it: its timer
\* runs, or the callback of the expired timer is still to come.
THEOREM WatchedCorrect == Spec => []InFlightIsWatched
<1>1. Init => TypeInv /\ PendingIsHeldOnce /\ InFlightIsWatched
  BY InitType DEF Init, PendingIsHeldOnce, Live, InFlightIsWatched
<1>2. TypeInv /\ PendingIsHeldOnce /\ InFlightIsWatched /\ [Next]_vars
        => (TypeInv /\ PendingIsHeldOnce /\ InFlightIsWatched)'
  BY TypeNext, HeldNext, WatchNext
<1> QED
  BY <1>1, <1>2, PTL DEF Spec

----------------------------------------------------------------------------
\* The ids under which an answer or a timeout may still arrive.
Outstanding == sent \cup timeout_callbacks \cup ({in_flight_timeout_timer} \ {NoId})

\* The attempt with this id has been made: the message has been given a new id
\* since, or it has been sent and is in flight.
Made(id) ==
    \/ id[2] < control[id[1]].uid
    \/ id[1] = in_flight /\ worker # "sending" /\ id[2] = control[id[1]].uid

\* What AttemptsDiffer needs to be inductive: of a message that is queued only
\* the ids of attempts that were made may come back, none of a message that is
\* just being pushed, and only what is in flight and sent has a timer.
AttemptInv ==
    /\ in_flight_timeout_timer # NoId => in_flight_timeout_timer[1] = in_flight /\ worker # "sending"
    /\ \A id \in Outstanding : /\ promise[id[1]] # "checked"
                               /\ id[1] \in Live => Made(id)

\* An outstanding id is one of a message.
LEMMA OutstandingType ==
    ASSUME TypeInv, NEW id \in Outstanding
    PROVE  id[1] \in Msgs /\ id[2] \in Nat /\ control[id[1]].uid \in Nat /\ id = <<id[1], id[2]>>
<1>1. id \in Ids
  BY DEF TypeInv, TypeOK, TypeOfDelivery, Outstanding
<1>2. id[1] \in Msgs /\ id[2] \in Nat /\ id = <<id[1], id[2]>>
  BY <1>1 DEF Ids
<1> QED
  BY <1>2 DEF TypeInv, TypeOK, TypeOfMessages, ControlMessage

\* A step that makes no id outstanding and starts no attempt.
LEMMA AttemptsStay ==
    ASSUME TypeInv, AttemptInv,
           \A id \in Outstanding' :
               /\ id \in Outstanding
               /\ promise'[id[1]] = "checked" => promise[id[1]] = "checked"
               /\ id[1] \in Live' =>
                    \/ id[2] < control'[id[1]].uid
                    \/ /\ id[1] \in Live /\ control'[id[1]].uid = control[id[1]].uid
                       /\ in_flight' = in_flight \/ id[1] # in_flight,
           worker' = "sending" => worker = "sending",
           in_flight_timeout_timer' # NoId => UNCHANGED <<in_flight, in_flight_timeout_timer>>
    PROVE  AttemptInv'
<1>1. ASSUME NEW id \in Outstanding', id[1] \in Live' PROVE Made(id)'
  BY <1>1 DEF AttemptInv, Made
<1> QED
  BY <1>1 DEF AttemptInv

\* The steps that leave every message where it is, and send nothing.
AttemptFrame ==
    /\ UNCHANGED <<control, promise, dequeVars, in_flight>>
    /\ Outstanding' \subseteq Outstanding
    /\ worker' = "sending" => worker = "sending"
    /\ in_flight_timeout_timer' \in {in_flight_timeout_timer, NoId}

\* Such a step keeps the invariant.
LEMMA FrameAttempts == ASSUME TypeInv, AttemptInv, AttemptFrame PROVE AttemptInv'
<1>1. Live' = Live
  BY DEF AttemptFrame, dequeVars, Live
<1> QED
  BY <1>1, AttemptsStay DEF AttemptFrame

\* A dispatched message starts without an outstanding id.
LEMMA DispatchAttempts == ASSUME TypeInv, PendingIsHeldOnce, AttemptInv, Dispatch PROVE AttemptInv'
<1> USE DEF TypeInv, TypeOK, TypeOfMessages, TypeOfDelivery
<1>0. ASSUME in_flight_timeout_timer # NoId
      PROVE  in_flight_timeout_timer[1] \in Live
  BY <1>0 DEF AttemptInv, Live, Ids, NoId
<1>1. ASSUME NEW m \in Msgs, promise[m] # "pending", Forget(m), \A id \in timeout_callbacks : id[1] # m,
             UNCHANGED <<timeout_callbacks, in_flight_timeout_timer>>
      PROVE  \A id \in Outstanding' : id \in Outstanding /\ id[1] # m
  BY <1>0, <1>1 DEF Forget, Outstanding, PendingIsHeldOnce
<1>2. ASSUME NEW m \in Msgs, NEW fields, promise[m] # "pending", Enqueue(m, fields), UNCHANGED in_flight
      PROVE  \A x \in Msgs \ {m} : /\ promise'[x] = "checked" => promise[x] = "checked"
                                   /\ x \in Live' => x \in Live /\ control'[x] = control[x]
  BY <1>2, DropsAreQueued DEF Enqueue, Live, PendingIsHeldOnce, is_transaction_message
<1>3. ASSUME NEW m \in Msgs, NEW triggered \in Triggers, DispatchRefused(m, triggered)
      PROVE  AttemptInv'
  <2>1. \A id \in Outstanding' : id \in Outstanding /\ id[1] # m
    BY <1>1, <1>3 DEF DispatchRefused, CanDispatch, callbackVars, flightVars
  <2>2. /\ UNCHANGED <<control, Live, in_flight, in_flight_timeout_timer>>
        /\ promise' = [promise EXCEPT ![m] = promise'[m]]
        /\ worker' = "sending" => worker = "sending"
    BY <1>3 DEF DispatchRefused, flightVars, dequeVars, Live, Notify
  <2> QED
    BY <2>1, <2>2, AttemptsStay, OutstandingType
<1>4. ASSUME NEW m \in Msgs, NEW triggered \in Triggers, DispatchChecked(m, triggered)
      PROVE  AttemptInv'
  <2>1. \A id \in Outstanding' : id \in Outstanding /\ id[1] # m
    BY <1>1, <1>4 DEF DispatchChecked, CanDispatch, callbackVars, flightVars
  <2>2. /\ UNCHANGED <<Live, in_flight, in_flight_timeout_timer, worker>>
        /\ \A x \in Msgs \ {m} : promise'[x] = promise[x] /\ control'[x] = control[x]
    BY <1>4 DEF DispatchChecked, flightVars, dequeVars, Live
  <2> QED
    BY <2>1, <2>2, AttemptsStay, OutstandingType
<1>5. ASSUME NEW m \in Msgs, NEW triggered \in Triggers, DispatchQueued(m, triggered)
      PROVE  AttemptInv'
  <2>1. /\ promise[m] # "pending"
        /\ \E fields : Enqueue(m, fields)
        /\ UNCHANGED <<in_flight, in_flight_timeout_timer, timeout_callbacks>>
    BY <1>5 DEF DispatchQueued, CanDispatch, callbackVars, flightVars
  <2>2. \A id \in Outstanding' : id \in Outstanding /\ id[1] # m
    BY <1>1, <1>5, <2>1 DEF DispatchQueued, CanDispatch
  <2>3. worker' = "sending" => worker = "sending"
    BY <2>1 DEF Enqueue, Notify
  <2>4. \A x \in Msgs \ {m} : /\ promise'[x] = "checked" => promise[x] = "checked"
                              /\ x \in Live' => x \in Live /\ control'[x] = control[x]
    BY <1>2, <2>1
  <2> QED
    BY <2>1, <2>2, <2>3, <2>4, AttemptsStay, OutstandingType
<1>6. ASSUME NEW m \in Msgs, EnqueueChecked(m) PROVE AttemptInv'
  <2>1. /\ promise[m] = "checked"
        /\ \E fields : Enqueue(m, fields)
        /\ UNCHANGED <<in_flight, in_flight_timeout_timer, timeout_callbacks, sent>>
    BY <1>6 DEF EnqueueChecked, callbackVars, flightVars
  <2>2. \A id \in Outstanding' : id \in Outstanding /\ id[1] # m
    BY <2>1 DEF Outstanding, AttemptInv
  <2>3. worker' = "sending" => worker = "sending"
    BY <2>1 DEF Enqueue, Notify
  <2>4. \A x \in Msgs \ {m} : /\ promise'[x] = "checked" => promise[x] = "checked"
                              /\ x \in Live' => x \in Live /\ control'[x] = control[x]
    BY <1>2, <2>1
  <2> QED
    BY <2>1, <2>2, <2>3, <2>4, AttemptsStay, OutstandingType
<1>7. ASSUME NEW m \in Msgs, DispatchAnotherHeartbeat(m) PROVE AttemptInv'
  <2>1. AttemptFrame
    BY <1>7 DEF DispatchAnotherHeartbeat, AttemptFrame, Outstanding, messageVars, dequeVars, flightVars, callbackVars,
                Notify
  <2> QED
    BY <2>1, FrameAttempts
<1> QED
  BY <1>3, <1>4, <1>5, <1>6, <1>7 DEF Dispatch

\* A delivery that fails: if the message is sent again, every id that may still
\* come back is older than its new one.
LEMMA FailAttempts ==
    ASSUME TypeInv, PendingIsHeldOnce, AttemptInv, FailStep, worker' # "sending",
           Outstanding' \subseteq Outstanding
    PROVE  AttemptInv'
<1> USE DEF TypeInv, TypeOK, TypeOfMessages, TypeOfDelivery
<1>1. PICK answer \in {"error", "offline"} : handle_timeout_or_callerror(answer)
  BY DEF FailStep
<1>2. in_flight \in Msgs /\ in_flight' = None /\ in_flight_timeout_timer' = NoId
  BY <1>1 DEF FailStep, handle_timeout_or_callerror
<1>3. \A x \in Msgs \ {in_flight} : /\ promise'[x] = promise[x] /\ control'[x] = control[x]
                                    /\ x \in Live' => x \in Live
  <2>1. CASE SendAgain(in_flight)
    BY <1>2, <2>1 DEF SendAgain, Live
  <2>2. CASE GiveUp(in_flight, answer)
    BY <1>2, <2>2 DEF GiveUp, Live, dequeVars
  <2> QED
    BY <1>1, <2>1, <2>2 DEF handle_timeout_or_callerror
<1>4. /\ promise'[in_flight] # "checked"
      /\ in_flight \in Live' => control'[in_flight].uid = control[in_flight].uid + 1
  <2>1. CASE SendAgain(in_flight)
    <3>1. promise'[in_flight] = "pending"
      BY <1>2, <2>1 DEF SendAgain, PendingIsHeldOnce, Live
    <3>2. control'[in_flight].uid = control[in_flight].uid + 1
      BY <1>2, <2>1 DEF SendAgain, NextUid, ControlMessage
    <3> QED
      BY <3>1, <3>2
  <2>2. CASE GiveUp(in_flight, answer)
    BY <1>2, <2>2 DEF GiveUp, Live, dequeVars, PendingIsHeldOnce
  <2> QED
    BY <1>1, <2>1, <2>2 DEF handle_timeout_or_callerror
<1>5. ASSUME NEW id \in Outstanding', id[1] = in_flight PROVE id[2] < control[in_flight].uid + 1
  <2>1. Made(id)
    BY <1>2, <1>5 DEF AttemptInv, Live
  <2> QED
    BY <1>5, <2>1, OutstandingType DEF Made
<1> QED
  BY <1>2, <1>3, <1>4, <1>5, AttemptsStay, OutstandingType

\* The queue thread.
LEMMA WorkerAttempts == ASSUME TypeInv, PendingIsHeldOnce, AttemptInv, Worker PROVE AttemptInv'
<1> USE DEF TypeInv, TypeOK, TypeOfMessages, TypeOfDelivery
<1>1. ASSUME NEW m \in Msgs, WorkerSelect(m) PROVE AttemptInv'
  <2>1. /\ in_flight = None /\ m \in Live /\ worker' = "sending" /\ in_flight' = m
        /\ UNCHANGED <<promise, sent, timeout_callbacks, in_flight_timeout_timer>>
    BY <1>1 DEF WorkerSelect, Selecting, Selected, TransactionSelected, FirstAllowedNormal, callbackVars, Live
  <2>2. Live' \subseteq Live /\ \A x \in Msgs : control'[x].uid = control[x].uid
    BY <1>1, <2>1 DEF WorkerSelect, Pop, Live, ControlMessage
  <2>3. in_flight_timeout_timer = NoId
    BY <2>1 DEF AttemptInv, Ids
  <2>4. Outstanding' = Outstanding
    BY <2>1 DEF Outstanding
  <2>5. ASSUME NEW id \in Outstanding', id[1] \in Live' PROVE Made(id)'
    <3>1. id[1] \in Msgs /\ id[2] < control[id[1]].uid
      BY <2>1, <2>2, <2>4, <2>5, OutstandingType DEF AttemptInv, Made
    <3> QED
      BY <2>2, <3>1 DEF Made
  <2> QED
    BY <2>1, <2>3, <2>4, <2>5 DEF AttemptInv
<1>2. CASE WorkerSend
  <2>1. /\ worker = "sending" /\ worker' = "top" /\ in_flight \in Msgs
        /\ UNCHANGED <<control, promise, dequeVars, in_flight, timeout_callbacks>>
        /\ in_flight_timeout_timer' = Id(in_flight) /\ sent' \subseteq sent \cup {Id(in_flight)}
    BY <1>2 DEF WorkerSend, AfterSending, StartTimeout, callbackVars
  <2>2. Live' = Live /\ promise[in_flight] = "pending"
    BY <2>1 DEF Live, dequeVars, PendingIsHeldOnce
  <2>3. Outstanding' \subseteq Outstanding \cup {Id(in_flight)}
    BY <2>1 DEF Outstanding
  <2>4. ASSUME NEW id \in Outstanding'
        PROVE  promise'[id[1]] # "checked" /\ (id[1] \in Live' => Made(id)')
    BY <2>1, <2>2, <2>3 DEF AttemptInv, Made, Id
  <2> QED
    BY <2>1, <2>4 DEF AttemptInv, Id
<1>3. CASE WorkerSendFails
  BY <1>3, FailAttempts
  DEF WorkerSendFails, FailStep, AfterSending, Outstanding, handle_timeout_or_callerror, callbackVars, setupVars
<1>4. CASE WorkerExit \/ WorkerSleep \/ WorkerStartAction \/ (\E c \in BOOLEAN : WorkerEndAction(c))
           \/ WorkerHoldsBack \/ WorkerFindsNothing \/ WorkerContinues
  <2>1. AttemptFrame
    BY <1>4 DEF WorkerExit, WorkerSleep, WorkerStartAction, WorkerEndAction, WorkerHoldsBack, WorkerFindsNothing,
                WorkerContinues, AttemptFrame, Outstanding, messageVars, dequeVars, flightVars, callbackVars
  <2> QED
    BY <2>1, FrameAttempts
<1> QED
  BY <1>1, <1>2, <1>3, <1>4 DEF Worker

\* The receive thread.
LEMMA ReceiveAttempts == ASSUME TypeInv, PendingIsHeldOnce, AttemptInv, Receive PROVE AttemptInv'
<1> USE DEF TypeInv, TypeOK, TypeOfMessages, TypeOfDelivery
<1>1. ASSUME NEW id \in sent, ReceiveCallResult(id) PROVE AttemptInv'
  <2>1. /\ in_flight \in Msgs /\ in_flight' = None /\ in_flight_timeout_timer' = NoId
        /\ sent' \subseteq sent /\ UNCHANGED <<timeout_callbacks, dequeVars>>
        /\ promise' = [promise EXCEPT ![in_flight] = "result"]
        /\ \A x \in Msgs \ {in_flight} : control'[x] = control[x]
        /\ worker' = "sending" => worker = "sending"
    BY <1>1 DEF ReceiveCallResult, Answers, callbackVars, Notify
  <2>2. Outstanding' \subseteq Outstanding
    BY <2>1 DEF Outstanding
  <2>3. \A x \in Msgs : x \in Live' => x \in Live \ {in_flight}
    BY <2>1 DEF Live, dequeVars, PendingIsHeldOnce
  <2> QED
    BY <2>1, <2>2, <2>3, AttemptsStay, OutstandingType
<1>2. ASSUME NEW id \in sent, ReceiveCallError(id) PROVE AttemptInv'
  BY <1>2, FailAttempts
  DEF ReceiveCallError, Answers, FailStep, Outstanding, handle_timeout_or_callerror, callbackVars, setupVars,
      Unlocked, Notify
<1>3. ASSUME \/ \E id \in sent : ReceiveMismatch(id)
             \/ \E c \in Calls : ReceiveCall(c) \/ AnswerCall(c) \/ IgnoreCall(c)
             \/ \E status \in {"Booted", "Pending", "Rejected"} : HandleBootNotificationResponse(status)
             \/ set_registration_status_accepted
             \/ HandleBootAccepted
             \/ \E known \in BOOLEAN : HandleStartTransactionResponse(known)
      PROVE  AttemptFrame
  BY <1>3 DEF ReceiveMismatch, ReceiveCall, AnswerCall, IgnoreCall, HandleBootNotificationResponse,
              set_registration_status_accepted, HandleBootAccepted, HandleStartTransactionResponse,
              AttemptFrame, Outstanding, messageVars, dequeVars, flightVars, callbackVars, Notify
<1> QED
  BY <1>1, <1>2, <1>3, FrameAttempts DEF Receive

\* The connection, the timers and the rest.
LEMMA OtherAttempts ==
    ASSUME TypeInv, PendingIsHeldOnce, AttemptInv, Connection \/ Timers \/ Lifecycle
    PROVE  AttemptInv'
<1> USE DEF TypeInv, TypeOK, TypeOfMessages, TypeOfDelivery
<1>1. CASE Disconnect
  <2>1. CASE in_flight = None
    <3>1. AttemptFrame
      BY <1>1, <2>1 DEF Disconnect, AttemptFrame, Outstanding, messageVars, dequeVars, flightVars, callbackVars, Notify
    <3> QED
      BY <3>1, FrameAttempts
  <2>2. CASE in_flight # None
    BY <1>1, <2>2, FailAttempts
    DEF Disconnect, FailStep, Outstanding, handle_timeout_or_callerror, callbackVars, setupVars, Unlocked, Notify
  <2> QED
    BY <2>1, <2>2
<1>2. ASSUME NEW id \in timeout_callbacks, InFlightTimeoutCallback(id) PROVE AttemptInv'
  <2>1. CASE Answers(id)
    BY <1>2, <2>1, FailAttempts
    DEF InFlightTimeoutCallback, Answers, FailStep, Outstanding, handle_timeout_or_callerror, setupVars, Unlocked, Notify
  <2>2. CASE ~Answers(id)
    <3>1. AttemptFrame
      BY <1>2, <2>2 DEF InFlightTimeoutCallback, AttemptFrame, Outstanding, messageVars, dequeVars, flightVars
    <3> QED
      BY <3>1, FrameAttempts
  <2> QED
    BY <2>1, <2>2
<1>3. ASSUME NEW queue_all \in QueueAllModes, NEW kind \in RestartKinds, Restart(queue_all, kind)
      PROVE  AttemptInv'
  BY <1>3 DEF Restart, AttemptInv, Outstanding
<1>4. CASE (\E delayed \in ResumeDelays : Connect(delayed)) \/ run_when_idle
  <2>1. AttemptFrame
    BY <1>4 DEF Connect, run_when_idle, AttemptFrame, Outstanding, messageVars, dequeVars, flightVars, callbackVars,
                Notify
  <2> QED
    BY <2>1, FrameAttempts
<1>5. CASE \/ Tick \/ InFlightTimeoutExpires \/ NotifyQueueTimerExpires \/ NotifyQueueCallback \/ ResumeTimerExpires
           \/ \E ctr \in resume_callbacks : resume_now(ctr)
  <2>1. AttemptFrame
    BY <1>5 DEF Tick, InFlightTimeoutExpires, NotifyQueueTimerExpires, NotifyQueueCallback, ResumeTimerExpires,
                resume_now, AttemptFrame, Outstanding, messageVars, dequeVars, flightVars, callbackVars, Notify
  <2> QED
    BY <2>1, FrameAttempts
<1>6. CASE \/ \E n \in AttemptLimits : update_transaction_message_attempts(n)
           \/ \E n \in RetryIntervals : update_transaction_message_retry_interval(n)
           \/ Stop \/ StopTimers
  <2>1. AttemptFrame
    BY <1>6 DEF update_transaction_message_attempts, update_transaction_message_retry_interval, Stop, StopTimers,
                AttemptFrame, Outstanding, messageVars, dequeVars, flightVars, callbackVars, Notify
  <2> QED
    BY <2>1, FrameAttempts
<1> QED
  BY <1>1, <1>2, <1>3, <1>4, <1>5, <1>6 DEF Connection, Timers, Lifecycle

\* Every attempt goes out under an id that no attempt before it may still be
\* answered or timed out under, over all retries, late answers, late callbacks and
\* restarts (createMessageId in handle_timeout_or_callerror).
THEOREM AttemptsCorrect == Spec => []AttemptsDiffer
<1>1. Init => TypeInv /\ PendingIsHeldOnce /\ AttemptInv
  BY InitType DEF Init, PendingIsHeldOnce, Live, AttemptInv, Outstanding
<1>2. TypeInv /\ PendingIsHeldOnce /\ AttemptInv /\ [Next]_vars
        => (TypeInv /\ PendingIsHeldOnce /\ AttemptInv)'
  <2> SUFFICES ASSUME TypeInv, PendingIsHeldOnce, AttemptInv, [Next]_vars PROVE AttemptInv'
    BY TypeNext, HeldNext
  <2>1. CASE UNCHANGED vars
    <3>1. AttemptFrame
      BY <2>1 DEF vars, AttemptFrame, Outstanding, messageVars, dequeVars, flightVars, callbackVars
    <3> QED
      BY <3>1, FrameAttempts
  <2> QED
    BY <2>1, DispatchAttempts, WorkerAttempts, ReceiveAttempts, OtherAttempts DEF Next
<1>3. TypeInv /\ AttemptInv => AttemptsDiffer
  <2> SUFFICES ASSUME TypeInv, AttemptInv, worker = "sending", Id(in_flight) \in Outstanding \cup {NoId} PROVE FALSE
    BY DEF AttemptsDiffer, Outstanding
  <2>1. in_flight \in Msgs /\ control[in_flight].uid \in Nat
    BY DEF TypeInv, TypeOK, TypeOfDelivery, TypeOfMessages, ControlMessage
  <2>2. Id(in_flight) \in Outstanding
    BY <2>1 DEF Id, NoId
  <2>3. Made(Id(in_flight))
    BY <2>1, <2>2 DEF AttemptInv, Id, Live
  <2> QED
    BY <2>1, <2>3 DEF Made, Id
<1> QED
  BY <1>1, <1>2, <1>3, PTL DEF Spec

-----------------------------------------------------------------------------
(***************************************************************************)
(* When the worker may send: the queue runs only while the websocket is    *)
(* connected, a CALL of the CSMS holds every other message back, and only  *)
(* a BootNotification goes out before the station is accepted.             *)
(***************************************************************************)
\* The counters that would resume the queue if they are current: that of the
\* running resume timer and those of callbacks still to run.
ResumeCounters == resume_callbacks \cup ({resume_timer} \ {0})

\* pause_resume_ctr is at least every counter somebody remembers, and who
\* remembers the current one remembers it since a connection that still lasts.
PauseInv ==
    /\ ResumedOnlyWhileConnected
    /\ \A ctr \in ResumeCounters :
          ctr =< pause_resume_ctr /\ (ctr = pause_resume_ctr => connected)
    /\ pause_resume_ctr_before =< pause_resume_ctr
    /\ paused_for_action /\ pause_resume_ctr_before = pause_resume_ctr => connected

\* Only these steps touch what decides on resuming.
LEMMA PauseFrame ==
    ASSUME TypeInv, Next
    PROVE  \/ UNCHANGED <<pauseVars, resume_callbacks, connected, paused_for_action,
                          pause_resume_ctr_before>>
           \/ WorkerStartAction
           \/ \E still_connected \in BOOLEAN : WorkerEndAction(still_connected)
           \/ \E delayed \in ResumeDelays : Connect(delayed)
           \/ Disconnect
           \/ ResumeTimerExpires
           \/ \E ctr \in resume_callbacks : resume_now(ctr)
           \/ StopTimers
           \/ \E queue_all \in QueueAllModes, kind \in RestartKinds : Restart(queue_all, kind)
<1> USE DEF pauseVars, callbackVars, actionVars, stationVars
<1>1. CASE Dispatch
  <2>1. ASSUME NEW m \in Msgs, NEW triggered \in Triggers,
               \/ DispatchRefused(m, triggered)
               \/ DispatchQueued(m, triggered)
               \/ DispatchChecked(m, triggered)
        PROVE  UNCHANGED <<pauseVars, resume_callbacks, connected, paused_for_action,
                           pause_resume_ctr_before>>
    BY <2>1 DEF DispatchRefused, DispatchQueued, DispatchChecked
  <2>2. ASSUME NEW m \in Msgs, EnqueueChecked(m) \/ DispatchAnotherHeartbeat(m)
        PROVE  UNCHANGED <<pauseVars, resume_callbacks, connected, paused_for_action,
                           pause_resume_ctr_before>>
    BY <2>2 DEF EnqueueChecked, DispatchAnotherHeartbeat
  <2> QED
    BY <1>1, <2>1, <2>2, Zenon DEF Dispatch
<1>2. CASE Worker
  BY <1>2 DEF Worker, WorkerExit, WorkerSleep, WorkerSelect, WorkerSend, WorkerSendFails,
              WorkerHoldsBack, WorkerFindsNothing, WorkerContinues
<1>3. CASE Receive
  BY <1>3 DEF Receive, ReceiveCallResult, ReceiveCallError, ReceiveMismatch, ReceiveCall,
              AnswerCall, IgnoreCall, HandleBootNotificationResponse,
              set_registration_status_accepted, HandleBootAccepted,
              HandleStartTransactionResponse
<1>4. CASE Connection
  BY <1>4 DEF Connection, run_when_idle
<1>5. CASE Timers
  BY <1>5 DEF Timers, Tick, InFlightTimeoutExpires, InFlightTimeoutCallback,
              NotifyQueueTimerExpires, NotifyQueueCallback
<1>6. CASE Lifecycle
  BY <1>6 DEF Lifecycle, update_transaction_message_attempts,
              update_transaction_message_retry_interval, Stop
<1> QED
  BY <1>1, <1>2, <1>3, <1>4, <1>5, <1>6 DEF Next

\* Every step keeps the remembered counters behind pause(), resume() and
\* connection changes.
LEMMA PauseNext == TypeInv /\ PauseInv /\ [Next]_vars => PauseInv'
<1> SUFFICES ASSUME TypeInv, PauseInv, [Next]_vars PROVE PauseInv'
  OBVIOUS
<1> USE DEF PauseInv, ResumeCounters, ResumedOnlyWhileConnected, pauseVars
<1>0. /\ pause_resume_ctr \in Nat /\ pause_resume_ctr_before \in Nat
      /\ resume_timer \in Nat /\ resume_callbacks \subseteq Nat
  BY DEF TypeInv, TypeOK, TypeOfPausing
<1>1. CASE UNCHANGED <<pauseVars, resume_callbacks, connected, paused_for_action,
                       pause_resume_ctr_before>>
  BY <1>1
<1>2. CASE WorkerStartAction
  <2>1. paused_for_action' => ~paused
    BY <1>2, Zenon DEF WorkerStartAction
  <2>2. CASE paused
    BY <1>0, <1>2, <2>1, <2>2 DEF WorkerStartAction, callbackVars, stationVars
  <2>3. CASE ~paused
    BY <1>0, <1>2, <2>3 DEF WorkerStartAction, callbackVars, stationVars
  <2> QED
    BY <2>2, <2>3
<1>3. ASSUME NEW still_connected \in BOOLEAN, WorkerEndAction(still_connected)
      PROVE  PauseInv'
  BY <1>0, <1>3 DEF WorkerEndAction, IsCurrent, callbackVars, stationVars
<1>4. ASSUME NEW delayed \in ResumeDelays, Connect(delayed) PROVE PauseInv'
  BY <1>0, <1>4 DEF Connect, callbackVars, actionVars
<1>5. CASE Disconnect
  BY <1>0, <1>5 DEF Disconnect, callbackVars, actionVars
<1>6. CASE ResumeTimerExpires
  BY <1>0, <1>6 DEF ResumeTimerExpires, actionVars, stationVars
<1>7. ASSUME NEW ctr \in resume_callbacks, resume_now(ctr) PROVE PauseInv'
  BY <1>0, <1>7 DEF resume_now, IsCurrent, actionVars, stationVars
<1>8. CASE StopTimers
  BY <1>0, <1>8 DEF StopTimers, callbackVars, actionVars, stationVars
<1>9. ASSUME NEW queue_all \in QueueAllModes, NEW kind \in RestartKinds,
             Restart(queue_all, kind)
      PROVE  PauseInv'
  BY <1>9 DEF Restart
<1>10. CASE UNCHANGED vars
  BY <1>10 DEF vars, callbackVars, actionVars, stationVars
<1> QED
  BY <1>1, <1>2, <1>3, <1>4, <1>5, <1>6, <1>7, <1>8, <1>9, <1>10, PauseFrame

\* The queue runs only while the websocket's last notification said connected,
\* whatever resume timers and idle actions are still under way.
THEOREM ResumedCorrect == Spec => []ResumedOnlyWhileConnected
<1>1. Init => TypeInv /\ PauseInv
  BY InitType DEF Init, PauseInv, ResumeCounters, ResumedOnlyWhileConnected
<1>2. TypeInv /\ PauseInv /\ [Next]_vars => (TypeInv /\ PauseInv)'
  BY TypeNext, PauseNext
<1>3. PauseInv => ResumedOnlyWhileConnected
  BY DEF PauseInv
<1> QED
  BY <1>1, <1>2, <1>3, PTL DEF Spec

----------------------------------------------------------------------------
\* The hold of receive() lasts as long as the CALL is handled.
HoldInv == handler \in Calls => next_message_to_send = handler

\* Only these steps change what the receive thread does or what is held back.
LEMMA HoldNext == TypeInv /\ HoldInv /\ [Next]_vars => HoldInv'
<1> SUFFICES ASSUME TypeInv, HoldInv, [Next]_vars PROVE HoldInv'
  OBVIOUS
<1> USE DEF HoldInv, receiveVars
<1>1. CASE UNCHANGED receiveVars
  BY <1>1
<1>2. ASSUME NEW id \in sent, ReceiveCallResult(id) PROVE HoldInv'
  BY <1>2 DEF ReceiveCallResult
<1>3. ASSUME NEW id \in sent, ReceiveCallError(id) \/ ReceiveMismatch(id) PROVE HoldInv'
  BY <1>3 DEF ReceiveCallError, ReceiveMismatch
<1>4. ASSUME NEW c \in Calls, ReceiveCall(c) \/ AnswerCall(c) \/ IgnoreCall(c)
      PROVE  HoldInv'
  BY <1>4 DEF ReceiveCall, AnswerCall, IgnoreCall
<1>5. ASSUME NEW status \in {"Booted", "Pending", "Rejected"},
             HandleBootNotificationResponse(status)
      PROVE  HoldInv'
  BY <1>5 DEF HandleBootNotificationResponse
<1>6. ASSUME NEW known \in BOOLEAN, HandleStartTransactionResponse(known) PROVE HoldInv'
  BY <1>6 DEF HandleStartTransactionResponse
<1>7. ASSUME NEW queue_all \in QueueAllModes, NEW kind \in RestartKinds,
             Restart(queue_all, kind)
      PROVE  HoldInv'
  BY <1>7 DEF Restart
<1>15. ASSUME set_registration_status_accepted \/ HandleBootAccepted PROVE HoldInv'
  BY <1>15 DEF set_registration_status_accepted, HandleBootAccepted
<1>8. CASE Dispatch
  <2>1. ASSUME NEW m \in Msgs, NEW triggered \in Triggers,
               \/ DispatchRefused(m, triggered)
               \/ DispatchQueued(m, triggered)
               \/ DispatchChecked(m, triggered)
        PROVE  UNCHANGED receiveVars
    BY <2>1 DEF DispatchRefused, DispatchQueued, DispatchChecked
  <2>2. ASSUME NEW m \in Msgs, EnqueueChecked(m) \/ DispatchAnotherHeartbeat(m)
        PROVE  UNCHANGED receiveVars
    BY <2>2 DEF EnqueueChecked, DispatchAnotherHeartbeat
  <2> QED
    BY <1>1, <1>8, <2>1, <2>2 DEF Dispatch
<1>9. CASE Worker
  BY <1>1, <1>9
  DEF Worker, WorkerExit, WorkerSleep, WorkerStartAction, WorkerEndAction, WorkerSelect,
      WorkerSend, WorkerSendFails, WorkerHoldsBack, WorkerFindsNothing, WorkerContinues
<1>10. CASE Connection
  BY <1>1, <1>10 DEF Connection, Connect, Disconnect, run_when_idle
<1>11. CASE Timers
  BY <1>1, <1>11
  DEF Timers, Tick, InFlightTimeoutExpires, InFlightTimeoutCallback,
      NotifyQueueTimerExpires, NotifyQueueCallback, ResumeTimerExpires, resume_now
<1>12. CASE Receive
  BY <1>2, <1>3, <1>4, <1>5, <1>6, <1>12, <1>15 DEF Receive
<1>13. CASE Lifecycle
  BY <1>1, <1>7, <1>13
  DEF Lifecycle, update_transaction_message_attempts,
      update_transaction_message_retry_interval, Stop, StopTimers
<1>14. CASE UNCHANGED vars
  BY <1>1, <1>14 DEF vars
<1> QED
  BY <1>8, <1>9, <1>10, <1>11, <1>12, <1>13, <1>14 DEF Next

\* A message gets in flight by WorkerSelect only.
LEMMA OnlySelectStarts ==
    ASSUME TypeInv, [Next]_vars, in_flight = None, in_flight' # None
    PROVE  \E m \in Msgs : WorkerSelect(m)
<1> USE DEF messageVars, flightVars
<1>1. CASE Dispatch
  <2>1. ASSUME NEW m \in Msgs, NEW triggered \in Triggers,
               \/ DispatchRefused(m, triggered)
               \/ DispatchQueued(m, triggered)
               \/ DispatchChecked(m, triggered)
        PROVE  UNCHANGED in_flight
    BY <2>1 DEF DispatchRefused, DispatchQueued, DispatchChecked
  <2>2. ASSUME NEW m \in Msgs, EnqueueChecked(m) \/ DispatchAnotherHeartbeat(m)
        PROVE  UNCHANGED in_flight
    BY <2>2 DEF EnqueueChecked, DispatchAnotherHeartbeat
  <2> QED
    BY <1>1, <2>1, <2>2 DEF Dispatch
<1>2. CASE Worker
  BY <1>2
  DEF Worker, WorkerExit, WorkerSleep, WorkerStartAction, WorkerEndAction, WorkerSend,
      WorkerSendFails, handle_timeout_or_callerror, WorkerHoldsBack, WorkerFindsNothing,
      WorkerContinues
<1>3. CASE Receive
  BY <1>3
  DEF Receive, ReceiveCallResult, ReceiveCallError, handle_timeout_or_callerror,
      ReceiveMismatch, ReceiveCall, AnswerCall, IgnoreCall,
      HandleBootNotificationResponse, set_registration_status_accepted, HandleBootAccepted,
      HandleStartTransactionResponse
<1>4. CASE Connection
  BY <1>4 DEF Connection, Connect, Disconnect, run_when_idle, handle_timeout_or_callerror
<1>5. CASE Timers
  BY <1>5
  DEF Timers, Tick, InFlightTimeoutExpires, InFlightTimeoutCallback,
      handle_timeout_or_callerror, NotifyQueueTimerExpires, NotifyQueueCallback,
      ResumeTimerExpires, resume_now
<1>6. CASE Lifecycle
  BY <1>6
  DEF Lifecycle, update_transaction_message_attempts,
      update_transaction_message_retry_interval, Stop, StopTimers, Restart
<1>7. CASE UNCHANGED vars
  BY <1>7 DEF vars
<1> QED
  BY <1>1, <1>2, <1>3, <1>4, <1>5, <1>6, <1>7 DEF Next

\* While a CALL of the CSMS is handled no message is taken from the queues.
THEOREM ResponseFirstCorrect == Spec => ResponseFirst
<1>1. Init => TypeInv /\ HoldInv
  BY InitType DEF Init, HoldInv
<1>2. TypeInv /\ HoldInv /\ [Next]_vars => (TypeInv /\ HoldInv)'
  BY TypeNext, HoldNext
<1>3. TypeInv /\ HoldInv /\ [Next]_vars =>
        [in_flight = None /\ in_flight' # None => handler \notin Calls]_vars
  BY OnlySelectStarts DEF HoldInv, WorkerSelect, MayGoOut
<1> QED
  BY <1>1, <1>2, <1>3, PTL DEF Spec, ResponseFirst

----------------------------------------------------------------------------
\* Before the station is accepted everything that waits but a BootNotification
\* is stalled.
BootInv ==
    ~is_registration_status_accepted /\ handler # "accepted" /\ TRUE \notin Triggers =>
        /\ ~RegistrationAccepted
        /\ \A m \in Msgs : ~is_boot_notification_message(m) =>
              /\ promise[m] # "checked"
              /\ m # in_flight
              /\ m \in transaction_message_queue \cup normal_message_queue =>
                    control[m].stall_until_accepted

\* A station is registered only by the response that accepts it.
LEMMA StationFrame ==
    ASSUME TypeInv, [Next]_vars, ~is_registration_status_accepted', handler' # "accepted"
    PROVE  \/ /\ ~is_registration_status_accepted /\ handler # "accepted"
              /\ RegistrationAccepted' => RegistrationAccepted
           \/ \E queue_all \in QueueAllModes, kind \in RestartKinds : Restart(queue_all, kind)
<1> USE DEF stationVars, receiveVars, RegistrationAccepted
<1>1. CASE Dispatch
  <2>1. ASSUME NEW m \in Msgs, NEW triggered \in Triggers,
               \/ DispatchRefused(m, triggered)
               \/ DispatchQueued(m, triggered)
               \/ DispatchChecked(m, triggered)
        PROVE  UNCHANGED <<is_registration_status_accepted, connection_state, handler>>
    BY <2>1 DEF DispatchRefused, DispatchQueued, DispatchChecked
  <2>2. ASSUME NEW m \in Msgs, EnqueueChecked(m) \/ DispatchAnotherHeartbeat(m)
        PROVE  UNCHANGED <<is_registration_status_accepted, connection_state, handler>>
    BY <2>2 DEF EnqueueChecked, DispatchAnotherHeartbeat
  <2> QED
    BY <1>1, <2>1, <2>2 DEF Dispatch
<1>2. CASE Worker
  BY <1>2
  DEF Worker, WorkerExit, WorkerSleep, WorkerStartAction, WorkerEndAction, WorkerSelect,
      WorkerSend, WorkerSendFails, WorkerHoldsBack, WorkerFindsNothing, WorkerContinues
<1>3. CASE Receive
  BY <1>3
  DEF Receive, ReceiveCallResult, ReceiveCallError, ReceiveMismatch, ReceiveCall,
      AnswerCall, IgnoreCall, HandleBootNotificationResponse,
      set_registration_status_accepted, HandleBootAccepted,
      HandleStartTransactionResponse
<1>4. CASE Connection
  BY <1>4 DEF Connection, Connect, Disconnect, run_when_idle
<1>5. CASE Timers
  BY <1>5
  DEF Timers, Tick, InFlightTimeoutExpires, InFlightTimeoutCallback,
      NotifyQueueTimerExpires, NotifyQueueCallback, ResumeTimerExpires, resume_now
<1>6. CASE Lifecycle
  BY <1>6
  DEF Lifecycle, update_transaction_message_attempts,
      update_transaction_message_retry_interval, Stop, StopTimers
<1>7. CASE UNCHANGED vars
  BY <1>7 DEF vars
<1> QED
  BY <1>1, <1>2, <1>3, <1>4, <1>5, <1>6, <1>7 DEF Next

\* Every step of a program that is never restarted in place keeps messages
\* stalled until the station is accepted.
LEMMA BootNext ==
    ASSUME "station" \notin RestartKinds, TypeInv, PendingIsHeldOnce, BootInv, [Next]_vars
    PROVE  BootInv'
<1> SUFFICES ASSUME ~is_registration_status_accepted', handler' # "accepted", TRUE \notin Triggers
             PROVE  BootInv'
  BY DEF BootInv
<1> USE DEF TypeInv, TypeOK, TypeOfMessages, TypeOfDelivery
<1>1. ASSUME NEW queue_all \in QueueAllModes, NEW kind \in RestartKinds,
             Restart(queue_all, kind)
      PROVE  BootInv'
  <2>1. PICK rowsT \in SUBSET dbTransaction, rowsN \in SUBSET dbNormal, ignore \in BOOLEAN :
          get_persisted_messages_from_db(rowsT, rowsN, ignore)
    BY <1>1 DEF Restart, QueryResults
  <2>2. connection_state' = "Disconnected" /\ in_flight' = None /\ handler' = "idle"
    BY <1>1 DEF Restart
  <2> QED
    BY <2>1, <2>2 DEF BootInv, RegistrationAccepted, get_persisted_messages_from_db, NewControl
<1>2. ASSUME ~\E queue_all \in QueueAllModes, kind \in RestartKinds :
                   Restart(queue_all, kind)
      PROVE  BootInv'
  <2>0. /\ ~is_registration_status_accepted /\ handler # "accepted"
        /\ ~RegistrationAccepted /\ ~RegistrationAccepted'
    BY <1>2, StationFrame DEF BootInv
  <2> DEFINE Waits(m) == /\ promise[m] # "checked"
                         /\ m # in_flight
                         /\ m \in transaction_message_queue \cup normal_message_queue =>
                              control[m].stall_until_accepted
  <2> SUFFICES ASSUME NEW m \in Msgs, ~is_boot_notification_message(m) PROVE Waits(m)'
    BY <2>0 DEF BootInv
  <2>1. Waits(m)
    BY <2>0 DEF BootInv
  <2>2. CASE UNCHANGED coreVars
    BY <2>1, <2>2 DEF coreVars, dequeVars
  <2>3. CASE PushStep
    <3>1. PICK p \in Msgs, fields \in ControlMessage :
            /\ promise[p] = "checked" \/ MayGoFirst(p) \/ fields.stall_until_accepted
            /\ Enqueue(p, fields) /\ UNCHANGED in_flight
      BY <2>3 DEF PushStep
    <3>2. m = p => fields.stall_until_accepted
      BY <2>0, <2>1, <3>1 DEF MayGoFirst
    <3>3. /\ transaction_message_queue' \subseteq transaction_message_queue \cup {p}
          /\ normal_message_queue' \subseteq normal_message_queue \cup {p}
      BY <3>1 DEF Enqueue
    <3>4. promise'[m] # "checked"
      BY <2>1, <3>1 DEF Enqueue
    <3>5. m \in transaction_message_queue' \cup normal_message_queue' =>
            control'[m] = IF m = p THEN fields ELSE control[m]
      BY <3>1, DropsAreQueued DEF Enqueue, is_transaction_message
    <3> QED
      BY <2>1, <3>1, <3>2, <3>3, <3>4, <3>5
  <2>4. CASE RefuseStep
    <3>1. PICK p \in Msgs, end \in {"offline", "discarded", "checked"} :
            /\ promise[p] # "pending"
            /\ promise' = [promise EXCEPT ![p] = end]
            /\ end = "checked" => MayGoFirst(p)
            /\ control' = [control EXCEPT ![p] = control'[p]]
            /\ UNCHANGED <<dequeVars, in_flight>>
      BY <2>4, Zenon DEF RefuseStep
    <3>2. promise'[m] # "checked"
      BY <2>0, <2>1, <3>1 DEF MayGoFirst
    <3>3. p \notin transaction_message_queue \cup normal_message_queue
      BY <3>1 DEF PendingIsHeldOnce, Live
    <3>4. m # p => control'[m] = control[m]
      BY <3>1
    <3> QED
      BY <2>1, <3>1, <3>2, <3>3, <3>4 DEF dequeVars
  <2>5. ASSUME NEW s \in Msgs, WorkerSelect(s) PROVE Waits(m)'
    <3>1. s # m
      BY <2>0, <2>1, <2>5 DEF WorkerSelect, Selected, TransactionSelected, FirstAllowedNormal,
                              allowed_to_send_message
    <3> QED
      BY <2>1, <2>5, <3>1 DEF WorkerSelect, Pop
  <2>6. CASE FailStep
    BY <2>1, <2>6 DEF FailStep, handle_timeout_or_callerror, SendAgain, GiveUp, dequeVars
  <2>7. ASSUME NEW id \in sent, ReceiveCallResult(id) PROVE Waits(m)'
    BY <2>1, <2>7 DEF ReceiveCallResult, Answers, dequeVars
  <2> QED
    BY <1>2, <2>2, <2>3, <2>4, <2>5, <2>6, <2>7, CoreSteps
<1> QED
  BY <1>1, <1>2

\* In every life of the program only a BootNotification is sent before the CSMS
\* accepts the station, unless the CSMS triggers messages.  ChargePointImpl::restart
\* does not have this property: it keeps the registration of the former life.
THEOREM BootFirstCorrect ==
    ASSUME "station" \notin RestartKinds
    PROVE  Spec => []BootFirst
<1>1. Init => TypeInv /\ PendingIsHeldOnce /\ BootInv
  BY InitType DEF Init, PendingIsHeldOnce, Live, BootInv, RegistrationAccepted
<1>2. TypeInv /\ PendingIsHeldOnce /\ BootInv /\ [Next]_vars
        => (TypeInv /\ PendingIsHeldOnce /\ BootInv)'
  BY TypeNext, HeldNext, BootNext
<1>3. TypeInv /\ BootInv => BootFirst
  BY DEF TypeInv, TypeOK, TypeOfDelivery, BootInv, BootFirst
<1> QED
  BY <1>1, <1>2, <1>3, PTL DEF Spec
=============================================================================
