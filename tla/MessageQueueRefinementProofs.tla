--------------------- MODULE MessageQueueRefinementProofs ---------------------
(***************************************************************************)
(* The message queue implements ReliableDelivery, for every set of         *)
(* messages, every configuration and every interleaving of its threads.    *)
(***************************************************************************)
EXTENDS MessageQueueProofs, MessageQueueDelivery

USE KindAssumption, MsgsAssumption

\* A transaction message is never between the two steps of push_call, and
\* nothing knows of one that was not pushed yet.
FreshInv ==
    \A m \in TransactionMsgs :
        /\ promise[m] # "checked"
        /\ promise[m] = "new" => m \notin dbTransaction /\ \A x \in Msgs : m \notin older[x]

\* The invariants the step simulation rests on.
DeliveryInv == TypeInv /\ PendingIsHeldOnce /\ PersistedExactly /\ OrderInv /\ FreshInv

\* No step makes an unpushed message known.
LEMMA FreshNext ==
    ASSUME DeliveryInv, [Next]_vars
    PROVE  FreshInv'
<1> USE DEF DeliveryInv, TypeInv, TypeOK, TypeOfMessages, TypeOfDelivery, FreshInv,
            TransactionMsgs, dequeVars, dbVars
<1>1. CASE UNCHANGED coreVars
  BY <1>1 DEF coreVars
<1>2. CASE PushStep
  <2>1. PICK m \in Msgs, fields \in ControlMessage :
          promise[m] # "pending" /\ Enqueue(m, fields) /\ UNCHANGED <<in_flight, modeVars>>
    BY <1>2 DEF PushStep
  <2>2. dbTransaction' \subseteq dbTransaction \cup {m}
    BY <2>1, DbEffectsSubset DEF Enqueue
  <2>3. promise'[m] # "new" /\ promise'[m] # "checked"
    BY <2>1 DEF Enqueue
  <2>4. ASSUME NEW x \in Msgs, x # m
        PROVE  promise'[x] \in {"dropped", promise[x]}
    BY <2>1, <2>4 DEF Enqueue
  <2>5. ASSUME NEW x \in Msgs PROVE older'[x] \subseteq older[x] \cup Live \cup dbTransaction \cup dbNormal
    BY <2>1 DEF Enqueue, Live
  <2>6. ASSUME NEW x \in TransactionMsgs, promise[x] = "new"
        PROVE  x \notin Live \cup dbTransaction \cup dbNormal
    BY <2>6 DEF PendingIsHeldOnce
  <2> QED
    BY <2>2, <2>3, <2>4, <2>5, <2>6
<1>3. CASE RefuseStep
  BY <1>3 DEF RefuseStep
<1>4. ASSUME NEW m \in Msgs, WorkerSelect(m) PROVE FreshInv'
  BY <1>4 DEF WorkerSelect
<1>5. CASE FailStep
  <2>1. PICK answer \in {"error", "offline"} : handle_timeout_or_callerror(answer)
    BY <1>5 DEF FailStep
  <2>2. in_flight \in Msgs /\ UNCHANGED older
    BY <1>5 DEF FailStep
  <2>3. CASE SendAgain(in_flight)
    BY <2>2, <2>3 DEF SendAgain
  <2>4. CASE GiveUp(in_flight, answer)
    BY <2>2, <2>4 DEF GiveUp, RemoveRow
  <2> QED
    BY <2>1, <2>3, <2>4 DEF handle_timeout_or_callerror
<1>6. ASSUME NEW id \in sent, ReceiveCallResult(id) PROVE FreshInv'
  BY <1>6 DEF ReceiveCallResult, RemoveRow
<1>7. ASSUME NEW queue_all \in QueueAllModes, NEW kind \in RestartKinds,
             Restart(queue_all, kind)
      PROVE  FreshInv'
  <2>1. PICK rowsT \in SUBSET dbTransaction, rowsN \in SUBSET dbNormal, ignore \in BOOLEAN :
          get_persisted_messages_from_db(rowsT, rowsN, ignore)
    BY <1>7, ConfigAssumption DEF Restart, QueryResults
  <2> QED
    BY <1>7, <2>1 DEF Restart, get_persisted_messages_from_db
<1> QED
  BY <1>1, <1>2, <1>3, <1>4, <1>5, <1>6, <1>7, CoreSteps

\* A queued update that something follows may be dropped, and nothing else.
LEMMA DroppedUpdates ==
    ASSUME NEW T, NEW N, NEW A,
           NEW m \in drop_update_messages_from_transactional_message_queue(T, N, A)
    PROVE  m \in T /\ is_transaction_update_message(m) /\ \E x \in T : m \in A[x]
  BY DEF drop_update_messages_from_transactional_message_queue

\* The messages held, as seen from both sides of the refinement.
LEMMA HeldItems ==
    ASSUME DeliveryInv
    PROVE  /\ Delivery!Held = {m \in TransactionMsgs : promise[m] = "pending"}
           /\ Delivery!Held = TransactionMsgs \cap Live
           /\ Delivery!Settled = {m \in TransactionMsgs : promise[m] \notin {"new", "pending"}}
  BY DEF DeliveryInv, TypeInv, TypeOK, TypeOfMessages, FreshInv, PendingIsHeldOnce,
         TransactionMsgs, StatusOf, Delivery!Held, Delivery!Settled, PromiseStates

\* A pushed message is accepted, or only makes others give way.
LEMMA PushRefines ==
    ASSUME DeliveryInv, PushStep
    PROVE  Delivery!Next
<1> USE DEF DeliveryInv, TypeInv, TypeOK, TypeOfMessages, TypeOfDelivery
<1>1. PICK m \in Msgs, fields \in ControlMessage :
        /\ promise[m] # "pending" /\ Enqueue(m, fields) /\ UNCHANGED <<in_flight, modeVars>>
        /\ is_transaction_message(m) => promise[m] \in {"new", "checked"}
  BY DEF PushStep
<1> DEFINE tx == is_transaction_message(m)
           T  == IF tx THEN transaction_message_queue \cup {m} ELSE transaction_message_queue
           N  == IF tx THEN normal_message_queue ELSE normal_message_queue \cup {m}
           A  == IF is_boot_notification_message(m)
                 THEN PushFront(ahead, m, normal_message_queue)
                 ELSE PushBack(ahead, m, IF tx THEN transaction_message_queue
                                         ELSE normal_message_queue)
           DN == drop_messages_from_normal_message_queue(T, N, A)
           DT == drop_update_messages_from_transactional_message_queue(T, N \ DN, A)
<1>2. promise' = [x \in Msgs |-> IF x \in DT \cup DN THEN "dropped"
                                 ELSE IF x = m THEN "pending" ELSE promise[x]]
  BY <1>1 DEF Enqueue
<1>3. /\ DN \subseteq N
      /\ DT \subseteq T
      /\ \A x \in DT : is_transaction_update_message(x)
      /\ \A x \in DT : \E y \in T : x \in A[y]
  <2>1. ASSUME NEW x \in DT
        PROVE  x \in T /\ is_transaction_update_message(x) /\ \E y \in T : x \in A[y]
    BY DroppedUpdates
  <2>2. DN \subseteq N
    BY DropsAreQueued
  <2> QED
    BY <2>1, <2>2
<1>4. m \notin Live
  BY <1>1 DEF PendingIsHeldOnce
<1>5. tx => m \notin DT
  <2>1. ASSUME tx, NEW y \in T PROVE m \notin A[y]
    BY <1>4, <2>1 DEF PushBack, Live, is_transaction_message, is_boot_notification_message,
                      TransactionKinds
  <2> QED
    BY <1>3, <2>1
<1>6. DT \subseteq transaction_message_queue
  BY <1>3, <1>5
<1>7. PICK D : D = DT
  OBVIOUS
<1> HIDE DEF A, DN, DT
<1>8. /\ D \subseteq TransactionMsgs
      /\ Delivery!MayGiveWay(D)
  <2>1. D \subseteq TransactionMsgs \cap Live /\ in_flight \notin D
    BY <1>6, <1>7 DEF TransactionMsgs, Live, PendingIsHeldOnce
  <2>2. None \notin D
    BY <1>6, <1>7
  <2> QED
    BY <1>3, <1>7, <2>1, <2>2, HeldItems DEF Delivery!MayGiveWay, TransactionMsgs
<1>9. DN \cap TransactionMsgs = {}
  BY <1>3 DEF TransactionMsgs
<1>10. /\ UNCHANGED dbMayFail
       /\ (IF in_flight \in TransactionMsgs THEN in_flight ELSE None)'
            = IF in_flight \in TransactionMsgs THEN in_flight ELSE None
  BY <1>1 DEF modeVars
<1>11. CASE tx
  <2>1. promise[m] = "new" /\ m \in TransactionMsgs
    BY <1>1, <1>11 DEF FreshInv, TransactionMsgs
  <2>2. [x \in TransactionMsgs |-> StatusOf(promise[x])]'
          = [x \in TransactionMsgs |->
                IF x = m THEN "held" ELSE IF x \in D THEN "failed" ELSE StatusOf(promise[x])]
    BY <1>2, <1>5, <1>7, <1>9, <1>11 DEF StatusOf, TransactionMsgs
  <2> DEFINE ghosts == (dbTransaction \cap TransactionMsgs) \ Live
  <2>3. ghosts \in SUBSET Delivery!Settled /\ (dbMayFail \/ ghosts = {})
    <3>1. ghosts \in SUBSET Delivery!Settled
      BY HeldItems DEF FreshInv, PendingIsHeldOnce, TransactionMsgs
    <3>2. dbMayFail \/ ghosts = {}
      BY DEF PersistedExactly, PendingIsHeldOnce
    <3> QED
      BY <3>1, <3>2
  <2>4. older'[m] \cap TransactionMsgs = Delivery!Held \cup ghosts
    <3>1. older'[m] = (transaction_message_queue \cup normal_message_queue
                       \cup dbTransaction \cup dbNormal
                       \cup ({in_flight} \ {None})) \ {m}
      BY <1>1 DEF Enqueue
    <3>2. dbNormal \cap TransactionMsgs = {}
      BY DEF TransactionMsgs
    <3>3. m \notin Live \cup dbTransaction
      BY <1>4, <2>1 DEF FreshInv
    <3> QED
      BY <3>1, <3>2, <3>3, HeldItems DEF Live
  <2>5. ASSUME NEW x \in TransactionMsgs, x # m
        PROVE  older'[x] = older[x]
    <3>1. m \notin older[x] /\ x \in Msgs
      BY <2>1 DEF FreshInv, TransactionMsgs
    <3>2. older'[x] = older[x] \ {m}
      BY <1>1, <2>5, <3>1 DEF Enqueue
    <3> QED
      BY <3>1, <3>2
  <2>6. [x \in TransactionMsgs |-> older[x] \cap TransactionMsgs]'
          = [[x \in TransactionMsgs |-> older[x] \cap TransactionMsgs]
                EXCEPT ![m] = Delivery!Held \cup ghosts]
    BY <2>1, <2>4, <2>5
  <2>7. Delivery!Accept(m, D)
    <3>1. [x \in TransactionMsgs |-> StatusOf(promise[x])][m] = "new"
      BY <2>1 DEF StatusOf
    <3> QED
      BY <1>8, <1>10, <2>1, <2>2, <2>3, <2>6, <3>1 DEF Delivery!Accept
  <2>8. \E i \in TransactionMsgs, S \in SUBSET TransactionMsgs : Delivery!Accept(i, S)
    BY <1>8, <2>1, <2>7, Zenon
  <2> QED
    BY <2>8, Zenon DEF Delivery!Next
<1>12. CASE ~tx
  <2>1. m \notin TransactionMsgs
    BY <1>12 DEF TransactionMsgs
  <2>2. [x \in TransactionMsgs |-> StatusOf(promise[x])]'
          = [x \in TransactionMsgs |-> IF x \in D THEN "failed" ELSE StatusOf(promise[x])]
    BY <1>2, <1>7, <1>9, <2>1 DEF StatusOf, TransactionMsgs
  <2>3. ASSUME NEW x \in TransactionMsgs
        PROVE  older'[x] \cap TransactionMsgs = older[x] \cap TransactionMsgs
    BY <1>1, <2>1 DEF Enqueue, TransactionMsgs
  <2>4. Delivery!GiveWay(D)
    BY <1>8, <1>10, <2>2, <2>3 DEF Delivery!GiveWay
  <2> QED
    BY <1>8, <2>4 DEF Delivery!Next
<1> QED
  BY <1>11, <1>12

\* A restart is a crash after which the rows that were read come back.
LEMMA RestartRefines ==
    ASSUME DeliveryInv, NEW queue_all \in QueueAllModes, NEW kind \in RestartKinds,
           Restart(queue_all, kind)
    PROVE  Delivery!Next
<1> USE DEF DeliveryInv, TypeInv, TypeOK, TypeOfMessages
<1>1. PICK rowsT \in QueryResults(dbTransaction), rowsN \in QueryResults(dbNormal), ignore \in BOOLEAN :
        get_persisted_messages_from_db(rowsT, rowsN, ignore)
  BY ConfigAssumption DEF Restart
<1> DEFINE back == rowsT \ {m \in rowsT : ignore /\ Kind[m] = "Security"}
<1>2. /\ rowsT \subseteq dbTransaction /\ rowsN \subseteq dbNormal
      /\ dbMayFail \/ rowsT = dbTransaction
  BY DEF QueryResults
<1>3. back \subseteq TransactionMsgs /\ rowsN \cap TransactionMsgs = {}
  BY <1>2 DEF TransactionMsgs
<1>4. back \subseteq Delivery!Held \cup Delivery!Settled
  BY <1>2, <1>3, HeldItems DEF FreshInv
<1>5. \/ dbMayFail
      \/ Delivery!Held \ {m \in Msgs : Kind[m] = "Security"} \subseteq back /\ back \subseteq Delivery!Held
  BY <1>2, HeldItems DEF PersistedExactly, TransactionMsgs
<1>6. [x \in TransactionMsgs |-> StatusOf(promise[x])]'
        = [x \in TransactionMsgs |->
              IF x \in back THEN "held"
              ELSE IF x \in Delivery!Held THEN "failed" ELSE StatusOf(promise[x])]
  <2>1. promise' = [m \in Msgs |->
                       IF m \in back \cup rowsN THEN "pending"
                       ELSE IF promise[m] \in {"checked", "pending"} THEN "lost"
                       ELSE promise[m]]
    BY <1>1 DEF get_persisted_messages_from_db
  <2>2. ASSUME NEW x \in TransactionMsgs
        PROVE  StatusOf(promise'[x]) = IF x \in back THEN "held"
                                       ELSE IF x \in Delivery!Held THEN "failed"
                                       ELSE StatusOf(promise[x])
    <3>1. x \in Msgs /\ x \notin rowsN /\ promise[x] # "checked"
      BY <1>3 DEF FreshInv, TransactionMsgs
    <3> QED
      BY <2>1, <3>1, HeldItems DEF StatusOf
  <2> QED
    BY <2>2
<1>7. in_flight' = None /\ UNCHANGED <<older, dbMayFail>>
  BY DEF Restart
<1>8. (IF in_flight \in TransactionMsgs THEN in_flight ELSE None)' = None
  BY <1>7
<1>9. Delivery!Crash(back)
  BY <1>4, <1>5, <1>6, <1>7, <1>8 DEF Delivery!Crash
<1>10. \E S \in SUBSET TransactionMsgs : Delivery!Crash(S)
  BY <1>3, <1>9, Zenon
<1> QED
  BY <1>10, Zenon DEF Delivery!Next

\* Every other step on the messages refuses, serves, postpones or settles one.
LEMMA FlightRefines ==
    ASSUME DeliveryInv,
           \/ RefuseStep
           \/ \E m \in Msgs : WorkerSelect(m)
           \/ FailStep
           \/ \E id \in sent : ReceiveCallResult(id)
    PROVE  [Delivery!Next]_(Delivery!vars)
<1> USE DEF DeliveryInv, TypeInv, TypeOK, TypeOfMessages, TypeOfDelivery, TransactionMsgs
<1> DEFINE serving(f) == IF f \in TransactionMsgs THEN f ELSE None
           ItemStatus(p) == [x \in TransactionMsgs |-> StatusOf(p[x])]
<1>1. CASE RefuseStep
  <2>1. PICK m \in Msgs : \E end \in {"offline", "discarded", "checked"} :
          /\ promise' = [promise EXCEPT ![m] = end]
          /\ m \in TransactionMsgs => end # "checked" /\ promise[m] = "new"
          /\ UNCHANGED <<older, in_flight, dbMayFail>>
    BY <1>1 DEF RefuseStep, modeVars
  <2>2. CASE m \in TransactionMsgs
    <3>1. ItemStatus(promise') = [ItemStatus(promise) EXCEPT ![m] = "failed"]
      BY <2>1, <2>2 DEF StatusOf
    <3>2. ItemStatus(promise)[m] = "new"
      BY <2>1, <2>2 DEF StatusOf
    <3>3. Delivery!Refuse(m)
      BY <2>1, <3>1, <3>2 DEF Delivery!Refuse
    <3> QED
      BY <2>2, <3>3 DEF Delivery!Next
  <2>3. CASE m \notin TransactionMsgs
    <3>1. ItemStatus(promise') = ItemStatus(promise)
      BY <2>1, <2>3 DEF StatusOf
    <3> QED
      BY <2>1, <3>1 DEF Delivery!vars
  <2> QED
    BY <2>2, <2>3
<1>2. ASSUME NEW m \in Msgs, WorkerSelect(m) PROVE [Delivery!Next]_(Delivery!vars)
  <2>1. in_flight = None /\ in_flight' = m /\ UNCHANGED <<promise, older, dbMayFail>>
    BY <1>2 DEF WorkerSelect, Selecting, setupVars, modeVars
  <2>2. CASE m \in TransactionMsgs
    <3>1. m \in transaction_message_queue /\ ahead[m] = {}
      BY <1>2, <2>2 DEF WorkerSelect, Selected, TransactionSelected, FirstAllowedNormal
    <3>2. Delivery!Held \cap older[m] = {}
      <4>1. Delivery!Held = transaction_message_queue
        BY <2>1, HeldItems DEF Live
      <4>2. older[m] \cap transaction_message_queue = {}
        BY <3>1 DEF OrderInv
      <4> QED
        BY <4>1, <4>2
    <3>3. ItemStatus(promise)[m] = "held"
      BY <2>2, <3>1 DEF StatusOf, PendingIsHeldOnce, Live
    <3>4. Delivery!Serve(m)
      BY <2>1, <2>2, <3>2, <3>3 DEF Delivery!Serve
    <3> QED
      BY <2>2, <3>4 DEF Delivery!Next
  <2>3. CASE m \notin TransactionMsgs
    BY <2>1, <2>3 DEF Delivery!vars
  <2> QED
    BY <2>2, <2>3
<1>3. ASSUME in_flight \in Msgs, in_flight' = None, UNCHANGED <<older, dbMayFail>>,
             \/ UNCHANGED promise
             \/ \E end \in {"result", "error", "offline"} :
                   promise' = [promise EXCEPT ![in_flight] = end]
      PROVE  [Delivery!Next]_(Delivery!vars)
  <2>1. CASE in_flight \notin TransactionMsgs
    <3>1. ItemStatus(promise') = ItemStatus(promise)
      BY <1>3, <2>1 DEF StatusOf
    <3> QED
      BY <1>3, <2>1, <3>1 DEF Delivery!vars
  <2>2. CASE in_flight \in TransactionMsgs /\ UNCHANGED promise
    <3>1. Delivery!Postpone
      BY <1>3, <2>2 DEF Delivery!Postpone
    <3> QED
      BY <3>1 DEF Delivery!Next
  <2>3. ASSUME in_flight \in TransactionMsgs, NEW end \in {"result", "error", "offline"},
               promise' = [promise EXCEPT ![in_flight] = end]
        PROVE  Delivery!Next
    <3>1. ItemStatus(promise') = [ItemStatus(promise) EXCEPT ![in_flight] = StatusOf(end)]
      BY <1>3, <2>3
    <3>2. StatusOf(end) \in {"answered", "failed"}
      BY DEF StatusOf
    <3>3. Delivery!Settle(StatusOf(end))
      BY <1>3, <2>3, <3>1 DEF Delivery!Settle
    <3> QED
      BY <3>2, <3>3 DEF Delivery!Next
  <2> QED
    BY <1>3, <2>1, <2>2, <2>3
<1>4. CASE FailStep
  BY <1>3, <1>4 DEF FailStep, handle_timeout_or_callerror, SendAgain, GiveUp, modeVars
<1>5. ASSUME NEW id \in sent, ReceiveCallResult(id) PROVE [Delivery!Next]_(Delivery!vars)
  BY <1>3, <1>5 DEF ReceiveCallResult, Answers, setupVars, modeVars
<1> QED
  BY <1>1, <1>2, <1>4, <1>5

\* The queue implements the abstract delivery of transaction messages.
THEOREM RefinementCorrect == Spec => ImplementsReliableDelivery
<1>1. Init => DeliveryInv /\ Delivery!Init
  <2> SUFFICES ASSUME Init PROVE DeliveryInv /\ Delivery!Init
    OBVIOUS
  <2>1. TypeInv
    BY InitType
  <2>2. DeliveryInv
    BY <2>1 DEF Init, DeliveryInv, PendingIsHeldOnce, Live, PersistedExactly, OrderInv,
                TransactionOrder, FreshInv, TransactionMsgs
  <2>3. Delivery!Init
    BY <2>1 DEF Init, Delivery!Init, TransactionMsgs, StatusOf, TypeInv, TypeOK, TypeOfFlags
  <2> QED
    BY <2>2, <2>3
<1>2. DeliveryInv /\ [Next]_vars => DeliveryInv'
  BY TypeNext, HeldNext, PersistedNext, OrderNext, FreshNext DEF DeliveryInv
<1>3. DeliveryInv /\ [Next]_vars => [Delivery!Next]_(Delivery!vars)
  <2> SUFFICES ASSUME DeliveryInv, [Next]_vars PROVE [Delivery!Next]_(Delivery!vars)
    OBVIOUS
  <2>1. CASE UNCHANGED coreVars
    BY <2>1 DEF coreVars, modeVars, Delivery!vars
  <2> QED
    BY <2>1, CoreSteps, PushRefines, RestartRefines, FlightRefines DEF DeliveryInv
<1> QED
  BY <1>1, <1>2, <1>3, PTL DEF Spec, ImplementsReliableDelivery, Delivery!Spec
=============================================================================
