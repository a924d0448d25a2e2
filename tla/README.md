# EVerest in TLA+

EVerest is the software stack of a charging station. This project specifies the parts of it in which several threads,
an unreliable network and restarts meet, checks the specifications with TLC on small instances, and proves the central
safety properties with TLAPS for every instance. All source lines below are relative to the repository; `message_queue.hpp`
is `lib/everest/ocpp/include/ocpp/common/message_queue.hpp`, `charge_point_impl.cpp` is
`lib/everest/ocpp/lib/ocpp/v16/charge_point_impl.cpp`.

## 1. The system

### Components

| Component | State | Operations | Interacts with | What is hard |
|---|---|---|---|---|
| **OCPP message queue** (`message_queue.hpp`) | two deques, the message in flight, promises, pause state, timers, idle actions, hold for a CALL's answer | push, send, receive, timeout, retry, evict, pause, resume, idle actions, reload, stop | dispatcher, websocket, database, timers | six kinds of threads on one mutex, some accesses without it; retries against late answers; crashes |
| **OCPP dispatchers** (`v16/message_dispatcher.cpp`, `v2/…`) | registration status | decide between send, stall and discard | queue | decision is stale when the queue acts on it |
| **Queue tables** (`common/database/database_handler_common.cpp`) | rows of `TRANSACTION_QUEUE`, `NORMAL_QUEUE` | insert, remove, read, clear | queue | failing statements, crashes between them |
| **OCPP 1.6 charge point** (`charge_point_impl.cpp`) | connection state, registration, transactions, configuration | one handler per message, timers, start/stop/restart | queue, connectivity, station | handler order, transaction ids that arrive late |
| **OCPP 2.x charge point** (`v2/functional_blocks`) | as 1.6, with a device model | as 1.6 | same queue | as 1.6 |
| **Connectivity manager and websocket** (`common/connectivity_manager.cpp`, `websocket_libwebsockets.cpp`) | profile, priority, connection attempts, deferred notifications | connect, back-off, switch profile | queue, charge point | notifications from other threads than received messages |
| **Smart charging** (`smart_charging.cpp`) | profiles | validate, composite schedule | charge point, energy manager | stacked profiles, boundaries in time |
| **Authorisation** (`modules/EVSE/Auth/lib/AuthHandler.cpp`, `Connector.cpp`, `ConnectorStateMachine.cpp`) | tokens in process, identifier and timer of every EVSE, connector states, plug-in queue | on_token, session events, timeouts, withdraw, faults, settings | validators, EvseManagers, OCPP | a thread per token that validates and waits without the mutex; session events that lag behind the charger; late timer callbacks |
| **Reservation** (`ReservationHandler.cpp`, parts of `AuthHandler.cpp`) | reservations of EVSEs and global ones, timers, the key-value store, restored reservations | reserve, cancel, expire, use, restore, check after every connector event | EvseManagers, OCPP | EvseManagers are called without a mutex; a search over arrival orders; crashes while the store is rewritten |
| **Charger** (`modules/EVSE/EvseManager/Charger.cpp`, `EvseManager.cpp`, `IECStateMachine.cpp`) | session, transaction, authorization, reservation and CP state | CP events, authorise, withdraw, enable, disable, reserve, pause, stop, errors | board support, SLAC, ISO 15118, Auth | events in any order, error handling |
| **SLAC** (`lib/everest/slac`, `EvseSlac`) | matching state per side | messages, timeouts, retries | Charger | lossy medium |
| **ISO 15118 / DIN 70121** | protocol state | one handler per request | Charger | sequence timeouts |
| **Energy manager** | tree of nodes, offers, budgets | market rounds | EvseManagers | limits over a tree |
| **Framework** (`lib/everest/framework`) | handlers, subscriptions, ready state | MQTT messages to handlers | all modules | thread hand-over |
| Timers, certificates and TLS, codecs, drivers, simulation, APIs | | | | thin wrappers, I/O or generated code |

`PROJECT.json` lists each with its files and status.

### Correctness, component by component

* **Queue**: a promise is set at most once; transaction messages leave in the order of their acceptance, over retries and
  restarts; the tables hold exactly what must survive; the queue is silent while offline, while a CALL is answered and
  before registration; it stays bounded; what it accepted is eventually settled.
* **Charge point**: a transaction's messages carry its id once the CSMS assigned it; handlers run before what depends on them.
* **Connectivity**: one connection at a time, attempts never stop while a profile is left.
* **Authorisation**: Auth's copy of a transaction follows the charger's; a token does not take over the authorization of
  another; every token is answered and every withdrawal returns; what is withdrawn is gone.
* **Reservation**: ids are unique and have one timer; what is accepted survives a crash and what ended does not come back;
  the global reservations that are kept can all be honoured; Auth and the EvseManagers agree once nothing is under way.
* **Charger**: contactor closed only in an authorised transaction; every session that started ends.
* **SLAC / ISO**: both sides agree on success or both return to unmatched. **Energy**: no node's limit is exceeded.

## 2. Modules

| Module | Content |
|---|---|
| `MessageQueue` | queue, dispatchers, tables and the part of the 1.6 charge point that acts on the queue |
| `ReliableDelivery` | the abstract specification of what the queue promises for transaction messages |
| `MessageQueueDelivery` | the refinement mapping from `MessageQueue` to `ReliableDelivery` |
| `ConnectorStateMachine` | the transition table of a connector as Auth keeps it |
| `ChargerSession` | session, transaction and authorization of one charger, as operators on a record |
| `Authorization` | the AuthHandler without reservations, composed with one `ChargerSession` per EVSE |
| `Reservations` | the ReservationHandler, the AuthHandler around it and the EvseManagers' side, composed with `ChargerSession` and `ConnectorStateMachine` |
| `MCMessageQueue`, `MCOverflow`, `MCAuthorization`, `MCReservations` | instances for TLC |
| `MessageQueueProofs` | types; what becomes of a message: held once, persisted, in order, watched, with an id of its own per attempt; when the queue may send |
| `MessageQueueBoundProofs` | the eviction and the bound it keeps |
| `MessageQueueRefinementProofs` | the queue implements `ReliableDelivery` |
| `Iteration` | lemmas for loops: least numbers, and that a function defined by recursion on a number exists |
| `AuthorizationProofs` | types, `TransactionIsKnown`, `GrantIsExclusive` and `PlugInsArePending` of `Authorization` |
| `ReservationsProofs` | types, `HeldOnce`, `HeldIsStored` and `CancelledIsForgotten` of `Reservations` |
| `ReservationArrivalProofs` | the search for arrival orders: `PossibleIsExtendable` and `GlobalsCanBeHonoured` |
| `ReservationAgreementProofs` | Auth and the EvseManagers agree: `HeldIsReserved` and `ReservedIsHeld` |

`Authorization` and `Reservations` are two views of one module of the code. They share the charger and the connector state
machine. `Authorization` leaves reservations out; `Reservations` reduces handle_token to what it does to a reservation
(`UseToken`, `notify_evse`) once an EVSE has been selected. Their product would be too large for TLC, and the two parts meet only in
matches_reserved_identifier, is_charging_possible and authorize_response, all of which are in `Reservations`.

### MessageQueue: state

A message is an element of `Msgs`; `Kind` gives what the code distinguishes: `Start` (StartTransaction), `Update`
(is_transaction_update_message), `Security`, other `Transaction` messages; `Boot`, `Heartbeat` (the types in
message_types_discard_for_queueing), `Event` (queue_until_accepted) and other `Normal` ones. Payloads are left out.

* A **deque** is a set plus `ahead[m]`, the messages in front of `m`. push_back, push_front and erase are operations on
  `ahead`; unlike sequences they need no induction in proofs.
* `control[m]` are the fields of the `ControlMessage`. A message id is the pair of the message and the number of times
  `handle_timeout_or_callerror` replaced its id, so an answer to an earlier attempt is recognisable.
* `promise[m]` says whether the promise exists and how it was set; `dropped` and `lost` are promises never set (evicted,
  or gone with the process).
* `dbTransaction`, `dbNormal`, `rowTimestamp` are the tables; `older[m]`, the messages accepted before `m`, is the row
  order and also the reference for `TransactionOrder`. It is a history variable otherwise.
* `worker` is the program counter of the thread of `start()`: `top` (loop condition), `woken` (after a notification),
  `prewait` (predicate of cv.wait was false, not yet blocked, mutex held), `waiting`, `action` (idle action, mutex free),
  `sending` (message chosen, mutex held), `exited`.
* A timer is its deadline or id; an expired timer posts a callback (`timeout_callbacks`, `notify_callback`,
  `resume_callbacks`) which `stop()` of the timer does not recall.
* `handler` is what the websocket's receive thread is busy with; it handles one message at a time.
* `sent` is the CSMS: the ids it may still answer.

### MessageQueue: actions

One action is one critical section of `message_mutex`; accesses without the mutex are actions of their own
(`NotifyQueueCallback`, `ReceiveCall`, the unlocked check `DispatchChecked`, the setters). `Unlocked` says when the mutex is
free although the worker is between two actions.

| Code | Actions |
|---|---|
| dispatch_call, dispatch_call_async, push_call, push_call_async | `DispatchRefused`, `DispatchQueued`, `DispatchChecked` + `EnqueueChecked` |
| add_to_*_message_queue with check_queue_sizes and drop_* | `Enqueue` (part of the pushing action, evictions included) |
| worker loop, lines 554–711 | `WorkerSleep`, `WorkerStartAction`, `WorkerEndAction`, `WorkerSelect`, `WorkerSend`, `WorkerSendFails`, `WorkerHoldsBack`, `WorkerFindsNothing`, `WorkerContinues`, `WorkerExit` |
| handle_timeout_or_callerror | `SendAgain`, `GiveUp`, used by timeout, CALLERROR, failed send and `pause()` |
| receive, handle_call_result, message_callback | `ReceiveCallResult`, `ReceiveCallError`, `ReceiveMismatch`, `ReceiveCall`, `AnswerCall`, `IgnoreCall` |
| handleBootNotificationResponse, in three steps | `HandleBootNotificationResponse` (registration_status), `set_registration_status_accepted` (the queue's flag, under the mutex), `HandleBootAccepted` (connection_state) |
| handleStartTransactionResponse | `HandleStartTransactionResponse` |
| on_websocket_connected/disconnected with resume(), pause() | `Connect`, `Disconnect`, `ResumeTimerExpires`, `resume_now` |
| run_when_idle, stop, update_* | `run_when_idle`, `Stop`, `StopTimers`, `update_*` |
| process start, ChargePointImpl::restart, get_persisted_messages_from_db | `Restart`, `get_persisted_messages_from_db` |

Database statements succeed, or (`dbMayFail`, fixed in a behaviour) may affect any part of their rows.

### Abstractions to know

* Time is a small clock that saturates at `MaxTime`; the in-flight and resume timers may expire at any moment.
* `MaxLate` bounds outstanding old answers and late timeout callbacks, `MaxUid` failed deliveries of a BootNotification
  (which is retried for ever), `MaxCtr` disconnections, `MaxIdle` idle actions, `MaxRestarts` restarts. The proofs hold for all
  values of them.
* The load order of OCPP 1.6 is modelled (rows are read before `start()`); OCPP 2.x starts the worker first, but the queue is
  paused then.
* registration_status of the charge point is no variable: it is Accepted in state Booted and from the first step of the
  handler that accepts the station (`RegistrationAccepted`). A stopped station is restarted after that handler has ended.
* A reloaded message has zero attempts, its first id and `stall_until_accepted`: the row was written before any attempt.
* `receive()` resets the hold and settles the message in two critical sections; they are one action, as only the receive
  thread sets the hold. Spurious wake-ups, TriggerMessage(BootNotification) and the `external_notify` callback are left out.
* What an idle action returns is arbitrary (`still_connected`).
* `booting` stands for the boot notification timer: a BootNotification is pushed at a start and after an answer that is not
  Accepted.
* The replacement of transaction ids in queued payloads is not modelled (section 7).

### ReliableDelivery

An item is `new`, `held`, `answered` or `failed`. It is accepted once, served when nothing older is held, one at a time and as
often as needed, and settled. `Crash` brings back what was held; only a storage that may fail (`faulty`) loses items or brings
settled ones back. Only expendable items (transaction updates) give way, and never the one being served.
`MessageQueueDelivery` maps the promise of a message to its status, `older` to itself, the message in flight to `serving`.

### ChargerSession and ConnectorStateMachine

A charger is a record: its state, whether an EV is plugged in, session, authorization, transaction, a cancellation, the two
flags of enable_disable, and `out`, the session events that are published and not yet handled by Auth. Every operation runs
under `state_machine_mutex`, so it is an operator from record to record; `run_state_machine` leaves at once the states that wait for
nothing. PrepareCharging, Charging, the paused states, SwitchPhases, the T_step states and StoppingCharging are one state:
they differ in the control pilot and the contactor. With HLC on AC a charger may stay in WaitingForAuthentication after the
transaction has started (`StartCharging`).

### Authorization

One step is what a thread does while it holds `event_mutex`: up to the release, the validators' answer or a wait on the
condition variable.

| Code | Actions |
|---|---|
| handle_token of a new token, up to the validators | `on_token` |
| the validators' answers, up to the result, a wait for a plug-in, or a wait for a timeout callback | `Validated` |
| select_evse waiting: plug-in or withdrawal, or connection timeout | `PlugInOrWithdrawn`, `SelectTimeout` |
| notify_evse after its wait | `Notify` |
| handle_withdraw_authorization before and after the wait | `handle_withdraw_authorization`, `ProcessingFinished` |
| timer expiry, the announcement of the callback, the callback | `Expire`, `BeginTimeout`, `Timeout` |
| handle_session_event, and its rest after a wait for the callback | `handle_session_event`, `ResumeHandler` |
| handle_token_validation_result_update, handle_permanent_fault_raised/_cleared, the setters | actions of these names, `SetConfig` |
| the chargers | `PlugIn`, `Unplug`, `DisableEvse`, `EnableEvse`, `MainLoop` |

A prevalidated token brings its own parent token (`ProvidedParent`). The first accepted result of a token is looked at for the
master pass once, before an EVSE is selected. A queued timer callback cannot be recalled by stop(): `expired` is a queue of
such callbacks. `withdrawn` is a history
variable. `budget` bounds the tokens, plug-ins and other occasions of a behaviour.

### Reservations

`book` is the ReservationHandler: `evse_reservations`, `global_reservations`, the ids with a timer, the armed ones, and what the
store holds. Operators compute with a whole book, as every public method of the class takes the mutex and calls
store_reservations before it returns. Four threads call EvseManagers without that mutex: `place` (reserve_now), `cancel`,
`restore` (restored reservations) and `event` (handle_session_event and initialize, which hold `event_mutex`); every call is a
step of its own (`CallerStep`), and so are, at an EVSE, the look at the charger's state (`call_reserved`) and what `reserve` does
under reservation_mutex. The reservation timer's callback holds the mutex throughout and is one step.

`waiting` are the threads that wait for a timeout callback with `event_mutex` released: the handlers of TransactionStarted and of
SessionFinished, which then go on to check the reservations (`ResumeHandler`), and the tokens in notify_evse. A token ends its
reservation at Auth (`UseToken`), waits, and tells the EvseManager (`notify_evse`); in between all other threads run, and may place
a reservation of the same EVSE. An EvseManager that waits for a Plug&Charge authorization (`PncEvses`, a choice at each call)
ignores the token and returns before use_reservation. Whether a callback is in progress is left open, so a wait can always
happen and always end.

is_reservation_possible is translated as the recursion it is (arrival orders, then places); `Extendable` states without
recursion what it is for. load_reservations is one step per stored reservation, as each writes the store, and a second crash
may come between two of them. Restart drops everything but the store; EVSEs may come up disabled, and their Enabled event
may come before or after Auth is ready (`Startups`). Two histories: `used`, Auth has consumed for a token the reservation the
EvseManager is reserved for, and `loading.again`, the ids of the reservations of single EVSEs that load_reservations has made
again in this life.

## 3. Runs

All runs use `CHECK_DEADLOCK FALSE`: with a bounded environment (clock, restarts, users) the station ends up with nothing to
do, legally.

| Run | Instance | Checks |
|---|---|---|
| `retry` | boot, start, stop; two attempts, retry interval, one late answer and callback | `TypeOK`, `PendingIsHeldOnce`, `TransactionOrder`, `InFlightIsWatched`, `AttemptsDiffer` |
| `crash` | boot, security event, stop; one restart at any point; QueueAllMessages and security events on or off in each life; database good or failing | `PersistedExactly`, `BootFirst`, `TransactionOrder`, `ImplementsReliableDelivery` |
| `connection` | boot, an asynchronous authorize, a CALL of the CSMS; one or two attempts, changed while running; two disconnections, resume delay, one idle action, restart of a stopped station; fairness | `ResumedOnlyWhileConnected`, `IdleActionsRun`, `ResponseFirst` |
| `overflow` | boot, three updates, one normal message, threshold 3 | `QueueBound`, `ImplementsReliableDelivery` |
| `live` | boot, start, heartbeat; failed attempts and retries of the first two, delays; fairness | `TransactionsSettle` |
| `auth` | two EVSEs, a card and a prevalidated remote start that brings a parent token, four settings, withdrawals; fairness | `TypeOK`, `TransactionIsKnown`, `PlugInsArePending`, `GrantIsExclusive`, `TokensAreAnswered`, `WithdrawReturns` |
| `reservation` | two EVSEs, one with a known connector type; two ids, two tokens, reservations of an EVSE and global ones, one of them without a connector type; one EVSE may wait for Plug&Charge | `TypeOK`, `HeldOnce`, `HeldIsStored`, `CancelledIsForgotten`, `GlobalsCanBeHonoured`, `PossibleIsExtendable`, `HeldIsReserved`, `ReservedIsHeld` |

Bounds of the queue runs: two transaction messages are the least for an order and two attempts the least for a retry; with
one stale answer and one stale callback both can meet a later attempt and another message; `MaxCtr` 4 is the least for a
delayed resume whose callback meets the second disconnection; three updates at threshold 3
make both eviction passes run and keep the two protected ones; one restart separates two lives. What lies beyond (retries
combined with restarts, more messages) is covered by the proofs.

Bounds of `auth`: two EVSEs are the least for a selection and for a plug-in queue, two tokens the least for a race. The budgets are
two tokens that meet on one plug-in, one token with two plug-ins, or one with two other occasions (unplug, disable, enable,
fault, withdrawal, change of settings). The theorems hold for any numbers.

Bounds of `reservation`: the budgets are three requests (so a replacement can be replaced again), one request with three other
occasions (plug in, use a token, unplug), two with one other occasion and a restart, one with two and a restart, two with two
restarts, and one with one other occasion and two restarts. The second restart may come while the store is read after the
first. After a
restart all EVSEs are ready, or one is disabled, or one is disabled and the other reports late. A request for an EVSE has a
connector type; `HeldIsReserved` speaks of those only (section 4).

Bounds of `live`: the BootNotification fails at most once (`MaxUid` 1) and the StartTransaction twice, so the retries of both
share notify_queue_timer and any of their notifications may be lost; the connection is up or comes up once.

Sizes (distinct states): `retry` 2.3 million, `crash` 850,000, `connection` 545,000, `overflow` 1.1 million, `live` 186,000, `auth`
467,000, `reservation` 1.2 million; each takes between one and three minutes with two workers.

Properties, and why they could fail:

* `PendingIsHeldOnce`: timeout callback, late answer, `pause()` and failed send all settle the message in flight, from four
  threads. `promise.set_value` throws when called twice.
* `TransactionOrder`: a failed message re-enters at the front while others are pushed, evicted or reloaded.
* `PersistedExactly`: rows and deques are changed by different code at different moments, and QueueAllMessages can change
  between two lives.
* `ImplementsReliableDelivery`: all of these together, as seen by the sender of a transaction message.
* `InFlightIsWatched`: nothing else recovers from an answer that never comes.
* `AttemptsDiffer`: answers, timers and timeout callbacks of earlier attempts stay about, and are told from those of the attempt
  in flight by the message id alone; every path that sends again has to renew it.
* `ResumedOnlyWhileConnected`: resume timers and idle actions outlive the connection they belong to.
* `BootFirst`: stalled messages, reloaded messages and unlocked checks meet a registration that ends with the process.
* `QueueBound`: eviction skips BootNotifications and protects updates; messages in flight come back unchecked. It is
  stated for databases that do not fail, and for one that may until the first restart (section 4).
* `ResponseFirst`: no message is taken while a CALL is handled.
* `TransactionIsKnown`: `transaction_active` decides what a re-swipe or a withdrawal does, and is fed by events that come late.
* `PlugInsArePending`: the queue is filled and emptied by events of several EVSEs, by tokens and by late timer callbacks.
* `GrantIsExclusive`: the EVSEs are picked before the validators are asked without the mutex.
* `HeldOnce`: three containers are updated by replacement, expiry, use and reload.
* `HeldIsStored`, `CancelledIsForgotten`: each change has to reach the store before the next crash, also while the store is read.
* `GlobalsCanBeHonoured`: after an EVSE is lost the code decides one by one which global reservations it keeps.
* `PossibleIsExtendable`: the recursive search against a definition without it.
* `HeldIsReserved`, `ReservedIsHeld`: a reservation can expire, be cancelled, be replaced, be used or lose its EVSE between
  every two calls, which are made without a mutex; the events that tell Auth of it come late and carry no reservation id.
  The first allows an EvseManager that a token has used for another reservation, the second leaves out reservations that
  Auth has consumed for a token and those load_reservations has made again in this life (section 4).
* `TransactionsSettle`, `IdleActionsRun`, `TokensAreAnswered`, `WithdrawReturns`: see fairness.

### Fairness

Of the queue (`LiveSpec` of `MessageQueue`). `StationFairness`: threads run and timers expire (weak fairness); an action that
needs `message_mutex`, which others take again and again, gets it (strong fairness, the mutex does not starve a waiter for
ever). `DispatchFairness`: the station pushes its BootNotification and heartbeats (its timers do). `NetworkFairness`: the
connection comes back and the CSMS answers again and again: without it no delivery can be promised. `TransactionsSettle` is
stated for a registered station, because there heartbeats make good a lost notification (section 4).
`IdleSpec`, for idle actions, assumes much less: the worker, the handlers of received messages and the in-flight timeout. An
answer is assumed only because `MaxUid` ends the timeouts of a BootNotification at some point.

Of `Authorization`: weak fairness of every thread's own steps. The validators answer or their call times out, timers expire,
published events are delivered in order, the main loop of a charger turns. Nothing is assumed of users, faults and requests.

## 4. Where the code differs from what it says

Each of these is a run that TLC refutes.

* `hold` (`charge_point_impl.cpp:1418`): a CALL received in state Disconnected is neither answered nor is
  `next_message_to_send` reset, as it is in Connected and Rejected. The queue stays held back until the CSMS sends
  something else.
* `bootdrop` (`message_queue.hpp:315`): with QueueAllMessages a BootNotification is treated as a persisted message and given up
  after `transaction_message_attempts`, although BootNotifications "are never dropped".
* `starthandler` (`message_queue.hpp:971`): omitting the notification does not keep an awake worker from taking the next
  message before the StartTransaction handler ran.
* `withdraw` (`AuthHandler.cpp:1133`): while TransactionStarted is on its way, `transaction_active` is still false, so
  withdraw_authorization does not stop the transaction; the charger has left WaitingForAuthentication and keeps its
  authorization. The caller is told Accepted, and the EV goes on charging.
* `unused` (`evse_managerImpl.cpp:456`): a token uses its reservation, and the EV leaves before the transaction starts. Auth has
  dropped the reservation, the session ends, and the EvseManager stays reserved for it.

These were met while modelling and have no run of their own; each can be reproduced by changing the constants named:

* `restart()` of a stopped station keeps the registration status of the former life (`charge_point_impl.cpp:1223`), so messages go
  out before the new BootNotification is accepted: `BootFirst` with `RestartKinds = {"station"}`.
* The retry timer's callback sets `new_message` and notifies without the mutex (`message_queue.hpp:386`); between predicate and
  blocking of `cv.wait` the notification is lost. After the registration the next heartbeat makes up for it. Before, nothing
  does: a station whose BootNotification failed and is to be sent again may sleep for ever. `TransactionsSettle` of `live`
  without its condition on the registration, under the assumption that the CSMS would accept the station.
* A restart loads the rows without comparing their number with the threshold. Rows of dropped messages that a failing database
  has kept come back so, and the queues are longer than allowed until the next push: `QueueBound` without its condition, with
  `DbModes = {TRUE}` and one restart.
* A global reservation without a connector type is not counted when it is looked at after the loss of a connector
  (`ReservationHandler.cpp:799`), so one too many is kept: `GlobalsCanBeHonoured` without its condition that all global
  reservations have a type. The ones with a type are safe from it (`TypedFitAlways`, section 5).
* A reservation of an EVSE without a connector type is not cancelled when that EVSE is disabled although the EvseManager has
  ended it: `HeldIsReserved` without its condition that the reservation has a type, with a request for an EVSE with
  `type = None`.
* A restored reservation is handed to its EvseManager after it expired, while one with the same id is placed and refused
  because of a plug-in (`AuthHandler.cpp:1211`); the EvseManager stays reserved: `ReservedIsHeld` without its condition on
  `loading.again`.
* A token that uses a global reservation waits in notify_evse with the mutex released (`AuthHandler.cpp:689`). A reservation of that
  EVSE that is accepted meanwhile has its id overwritten by use_reservation (`EvseManager.cpp:1928`) and ends with the other's
  transaction: `HeldIsReserved` without the alternative `em[e].used`.
* An EvseManager that waits for a Plug&Charge authorization ignores a token whose reservation Auth has already consumed
  (`evse_managerImpl.cpp:446`) and stays reserved for it: `UsedReservationEnds` with `PncEvses = {1}`, without an unplug.
* With PlugEvents two waiting tokens can get the EVSE of one plug-in; `GrantIsExclusive` is stated for FindFirst.
* A SessionFinished or Deauthorized that is handled after the next authorization drops the new identifier and stops its timer
  (`AuthHandler.cpp:934`).
* An enable that arrives while a disable winds the session down leaves `flag_disable_requested` set (`Charger.cpp:2124`): the EVSE
  ends Disabled.
* A CALL that arrives between the worker's check of `next_message_to_send` (line 660) and its send is overtaken by that one
  message, which is why `ResponseFirst` speaks of taking and not of sending; and eviction (line 456) destroys the promise
  of an asynchronous CALL without setting it, so the caller's `get()` throws.

## 5. Proofs

Assumptions: only the named ones of `MessageQueue` (types of the constants; `None` is no message; finitely many messages), of
`Authorization` (`AuthAssumption`: types, EVSEs are numbers and finitely many) and of `Reservations` (`ReservationAssumption`:
types, EVSEs are numbers and finitely many, there are tokens). The theorems hold for any number of messages, attempts, restarts,
disconnections, EVSEs, tokens, reservations, connector types and threads.

### The queue

* `TypeCorrect`. Inductive: `TypeInv`, i.e. `TypeOK` plus "while the worker sends, there is a message in flight": without it
  the failure handling would be applied to no message.
* `HeldOnceCorrect`. `PendingIsHeldOnce` is inductive relative to `TypeInv`. `CoreSteps` reduces every step to one of seven
  shapes (nothing, push, refuse, select, fail, result, restart); the other delivery proofs reuse it.
* `PersistedCorrect`. `PersistedExactly` is inductive with the former: evicted and settled messages lose row and place
  together, and a restart reloads what it keeps.
* `OrderCorrect`. `OrderInv` adds to `TransactionOrder` that older queued messages are in front of younger ones and that no
  message is older than itself. It needs `PendingIsHeldOnce`: only a message that is not held is pushed. Database failures
  are included.
* `WatchedCorrect`. Relative to `PendingIsHeldOnce`, as the message in flight keeps its id (`FlightKeepsId`).
* `AttemptsCorrect`. `AttemptInv`: what is outstanding (answers, the timer, timeout callbacks) carries a number of renewals that
  the message has had, and, unless that very attempt is in flight, an earlier one. It needs `PendingIsHeldOnce`: a message that is
  held again was given up before, under an id that is renewed or forgotten with it.
* `ResumedCorrect`. `PauseInv`: every remembered counter is at most `pause_resume_ctr`, and one that equals it dates from a
  connection that still lasts.
* `ResponseFirstCorrect`. `HoldInv`: while a CALL is handled the hold is its own; only `WorkerSelect` puts a message in flight.
* `BootFirstCorrect`, for restarts of the process only. `BootInv`: before acceptance the dispatcher does not see the station
  registered, no unlocked check is pending and everything queued is stalled. Acceptance is the first step of the handler: a
  message may go out before the queue itself knows.

* `BoundCorrect`. `QueueBound` needs three facts. (1) `RowInv`: each deque is in a row, i.e. what is in front of its elements is
  a strict total order within the deque; and so is the order of acceptance of everything held or in a table, out of which a
  restart makes the deques. (2) What the eviction achieves on two such deques: enough batches of normal messages leave the
  queues short enough or with no normal message but BootNotifications (`NormalDrops`); a pass over the transaction
  deque drops updates only, and something unless all updates are among the last two elements (`PassDrops`), so that after as
  many passes as there are messages the queues fit or at most two updates are left (`UpdateDrops`). Both count
  positions (`HighPositions`, `LowPositions`). (3) Every other step only takes from what is held (`LiveShrinks`; for a restart
  this is `PersistedExactly`), and the bound survives that although protected messages leave too (`WithinPart`).

* `RefinementCorrect`: `Spec => ImplementsReliableDelivery`. `DeliveryInv` is the conjunction of the invariants above with
  `FreshInv` (a message that has not been pushed is nowhere). The seven shapes of `CoreSteps` map to steps of `ReliableDelivery`:
  a push to Accept with what it evicts, a select to Serve (`OrderInv`: the front of the deque is the oldest), a failure to
  Postpone or Settle, a restart to Crash (`PersistedExactly`: what comes back is what was held).

### Loops

The code's loops over a container are recursive functions here. The prover cannot use the library's induction theorems, which
take an operator, but it can use that a nonempty set of numbers has a least one (`Iteration!Least`, from WFMin): a property of
every round is shown by taking the first round without it. `Iteration!CanIterate` shows by the same argument that the recursive
function exists, so that its equation may be unfolded. This carries `Kept`, `can_virtual_car_arrive`, `WithoutPlugIn`, the
passes of the eviction and the cancellation of several reservations one after the other.

### Authorization

* `TransactionCorrect`, `GrantCorrect`. Inductive: `IInv`, the types together with `Good` for every charger (the last
  transaction event in `out` says whether the charger has a transaction; with none, `transaction_active` does) and
  `WaitsForPlugIn` (a thread waits for a plug-in only under an algorithm other than FindFirst, which `GrantIsExclusive` needs: a
  thread that waited would not look at the identifiers again). Each charger operation has a lemma that it keeps `Good`; the
  branches of handle_token are summed up in one effect (`TokenEffect`).
* `PlugInsCorrect`, and with it `TypesAlways` (the type of the plug-in queue needs what remove_if leaves). `PlugInsArePending` is
  not inductive: SessionStarted appends an EVSE, and nothing in the property says that it is not in the queue yet. `PInv` looks
  at the events on their way: between two session starts there is an end, and after the last one too if there is no session
  (`Ordered`); if the EVSE's plug-in is in the queue, an end comes before the next start, and is on its way if there is no session
  (`Awaited`). So a start that is handled finds the EVSE's former plug-in gone. Every operation of a charger keeps both
  (`MayBecome`); a session that an authorization starts publishes no plug-in and does no harm. An end whose handler waits for a
  timeout callback counts as handled once the handler goes on (`Pending`).

### Reservations

* `TypesAlways`, `HeldOnceAlways`, `HeldIsStoredAlways`, `CancelledIsForgottenAlways`. Inductive: `IInv`, the types with
  the two properties for the book (`Once`, `Stored`) and `CallersOK` (a thread between two calls that will use its reservation has
  one). `Effect` adds what a step may do: either what is held stays, or the store has been written (`Saved`), which gives
  `CancelledIsForgotten`. Each method of the class is a lemma about the book it returns; the loop that cancels several
  reservations is a least-counterexample argument over its rounds.
* `PossibleMeansExtendable`: is_reservation_possible, with all orders, its recursion over places and its comparison of sizes, is
  equivalent to `Extendable`: however some of the cars have parked, every other one finds an EVSE. The recursion is unfolded from
  the last car to the first (`Fits`); a choice of places for a set of cars is turned into an order in which they arrive. The
  comparison of sizes, which the code makes first, follows. `PossibleIsExtendableAlways` is the instance that the run checks.
* `TypedFitAlways` and from it `GlobalsCanBeHonouredAlways`. `GlobalsCanBeHonoured` is not inductive: a car that is plugged in is not
  looked at until its transaction starts, a reservation without a type is not counted, and expiry and cancellation take any
  reservation out of the middle. The inductive statement is `Honoured`: any selection of the global reservations with a type is
  extendable on the EVSEs as they would be without the cars that are merely plugged in (`Free`, `Fit`). It is closed under removal
  (`StillFit`); a reservation without a type changes nothing (`UntypedFit`); the loop that decides what is kept establishes it
  whatever was lost (`KeptFit`); and placing one is allowed only if all of them are extendable.
* `HeldIsReservedAlways`. `HeldIsReserved` speaks of quiet moments only; the inductive `HeldInv` says of every moment why a
  reservation that is held for an EVSE (`Backed`) will be known there. The EvseManager is reserved for it, for one that a token
  has used, or for one that a thread will look at again (`Reserving`); or it has an event on its way that will make Auth drop
  the reservation (`Ending`: ReservationEnd, or TransactionStarted, which is where the type of the connector matters); or
  somebody has still to hand it over (`Promised`: place_reservation before its call or before it takes it back, or a restored
  reservation). Each operation of a charger either leaves the reservation alone or ends it and says so (`Plain`, `Loosened`), and
  the cancellation of several reservations in turn does the same for every EVSE (`Told`). `HeldInv` says
  nothing of the tokens that wait in notify_evse: what they do to the EvseManager in the end is allowed at any moment.
* `ReservedIsHeldAlways`, restarts included. `LifeInv`: whenever an EvseManager is reserved for a reservation that is neither used
  nor made again in this life (`Left`), somebody is `Accounted` for it: Auth holds the reservation, the canceller has taken it
  out and will say so, or place_reservation will look at it again, undo it, or drop the one it replaced. It needs that
  place_reservation knows, before it makes the reservation, which EVSE has the one with the same id, and that afterwards no other
  EVSE has one (`KnowsAt`); and that the EvseManagers start a life with no reservation (`FreshInv`). `ThreadsInv` says where each
  thread can be, and that only what has been made again is handed on by the restoring thread.

### Only model-checked

* Liveness: `TransactionsSettle`, `IdleActionsRun`, `TokensAreAnswered`, `WithdrawReturns` (fairness is outside the prover's reach).

## 6. Hazards

`PROJECT.json` lists what is hard to test in the modelled code, each at its line with the properties that would catch it. Those
without a property say why: mostly the model has the behaviour and the repository does not say what should happen.

## 7. Not modelled

* **Transaction ids** in queued payloads (`message_id_transaction_id_map`, `start_transaction_mid_meter_values_mid_map`) and the rest
  of the 1.6 and 2.x handlers.
* **Auth**: Plug&Charge at the charger, several connectors per EVSE, the published token status, a call to a charger that fails;
  in `Reservations` also permanent faults, which reach the ReservationHandler as a disabled connector does.
* **Charger**: control pilot, contactor, HLC states, phase switching, errors.
* **SLAC, ISO 15118, DIN 70121, energy manager, smart charging, connectivity manager, framework**: components of their own that
  have not been taken up; see the plan.
* **Generated code and I/O**: the EXI codecs and message types (most of the repository's lines), drivers, simulation, TLS. They
  have no protocol of their own, and a model of them would be a transliteration.

The map covers a small share of all lines for that reason; of `AuthHandler.cpp`, `ReservationHandler.cpp`, `Connector.cpp`,
`ConnectorStateMachine.cpp` and `message_queue.hpp` it covers nearly everything that changes state.

## 8. Plan

1. **Transaction ids** (`v16/transaction.cpp`): StartTransaction, MeterValues and StopTransaction of a transaction whose id comes
   late, over retries and restarts. Property: no StopTransaction or MeterValues goes out with the placeholder id after the
   id is known.
2. **Connectivity manager**: profiles, back-off, deferred notifications; composed with the queue's `Connect`/`Disconnect`.
3. **Charger** with the control pilot and error handling, refining `ChargerSession`.
4. **SLAC** matching of EVSE and EV over a lossy medium, with the MCS data link.
5. **Energy manager** and composite schedules as algorithms against a reference definition.

Theorems to come: the safety of 1.
