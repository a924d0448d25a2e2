------------------------ MODULE MessageQueueDelivery ------------------------
(* The message queue implements ReliableDelivery for transaction messages.  *)
EXTENDS MessageQueue

TransactionMsgs == {m \in Msgs : is_transaction_message(m)}

\* The status of a transaction message, by what became of its promise.
StatusOf(state) ==
    CASE state \in {"new", "checked"} -> "new"
      [] state = "pending" -> "held"
      [] state = "result" -> "answered"
      [] OTHER -> "failed"

Delivery == INSTANCE ReliableDelivery WITH
    Items        <- TransactionMsgs,
    Expendable   <- {m \in Msgs : is_transaction_update_message(m)},
    Suppressible <- {m \in Msgs : Kind[m] = "Security"},
    None         <- None,
    status       <- [m \in TransactionMsgs |-> StatusOf(promise[m])],
    older        <- [m \in TransactionMsgs |-> older[m] \cap TransactionMsgs],
    serving      <- IF in_flight \in TransactionMsgs THEN in_flight ELSE None,
    faulty       <- dbMayFail

\* push_call: transaction messages "have to be delivered in chronological
\* order", and the tables exist so that none is missed "if the charging station
\* just boots".  Whatever the threads, timers, retries, disconnections, late
\* answers and restarts do, the queue behaves like a store that serves its items
\* one by one in the order of their acceptance, loses none that it did not
\* report as failed, and serves none again that was answered.
ImplementsReliableDelivery == Delivery!Spec
=============================================================================
