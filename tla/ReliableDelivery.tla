-------------------------- MODULE ReliableDelivery --------------------------
(***************************************************************************)
(* What the OCPP message queue promises for transaction messages, without  *)
(* deques, ids, timers, threads or tables.  An item is accepted once, is   *)
(* served in the order of acceptance, one at a time and as often as        *)
(* needed, and is settled: answered by the CSMS, or failed.  It survives a *)
(* crash, and what is settled is not served again, as long as the storage  *)
(* works.                                                                  *)
(***************************************************************************)
CONSTANTS
    Items,
    Expendable,     \* items that may be dropped to make room
    Suppressible,   \* items the operator may switch off
    None            \* no item

VARIABLES
    status,         \* "new", "held", "answered" or "failed"
    older,          \* older[i]: the items accepted before i, if they may still be held
    serving,        \* the item the CSMS is asked to take, or None
    faulty          \* whether the storage may fail

vars == <<status, older, serving, faulty>>

Held == {i \in Items : status[i] = "held"}
Settled == {i \in Items : status[i] \in {"answered", "failed"}}

Init ==
    /\ status = [i \in Items |-> "new"]
    /\ older = [i \in Items |-> {}]
    /\ serving = None
    /\ faulty \in BOOLEAN

\* The item is not taken: its sender learns it at once.
Refuse(i) ==
    /\ status[i] = "new"
    /\ status' = [status EXCEPT ![i] = "failed"]
    /\ UNCHANGED <<older, serving, faulty>>

\* Expendable items that are not being served give way to others.
MayGiveWay(S) == S \subseteq (Held \cap Expendable) \ {serving}

\* The item is held behind all others; only a failing storage leaves records
\* of settled items that count as older.
Accept(i, S) ==
    /\ status[i] = "new"
    /\ MayGiveWay(S)
    /\ status' = [x \in Items |-> IF x = i THEN "held"
                                  ELSE IF x \in S THEN "failed" ELSE status[x]]
    /\ \E ghosts \in SUBSET Settled :
          /\ faulty \/ ghosts = {}
          /\ older' = [older EXCEPT ![i] = Held \cup ghosts]
    /\ UNCHANGED <<serving, faulty>>

GiveWay(S) ==
    /\ MayGiveWay(S)
    /\ status' = [x \in Items |-> IF x \in S THEN "failed" ELSE status[x]]
    /\ UNCHANGED <<older, serving, faulty>>

\* The oldest item is served.
Serve(i) ==
    /\ serving = None
    /\ status[i] = "held"
    /\ Held \cap older[i] = {}
    /\ serving' = i
    /\ UNCHANGED <<status, older, faulty>>

\* No answer, or not the one hoped for: the item will be served again.
Postpone ==
    /\ serving # None
    /\ serving' = None
    /\ UNCHANGED <<status, older, faulty>>

\* The item is answered, or given up.
Settle(outcome) ==
    /\ serving # None
    /\ status' = [status EXCEPT ![serving] = outcome]
    /\ serving' = None
    /\ UNCHANGED <<older, faulty>>

\* The station starts again with the items in back.  Unless the storage fails
\* these are all items that were held, but for suppressed ones.
Crash(back) ==
    /\ back \subseteq Held \cup Settled
    /\ faulty \/ (Held \ Suppressible \subseteq back /\ back \subseteq Held)
    /\ status' = [x \in Items |-> IF x \in back THEN "held"
                                  ELSE IF x \in Held THEN "failed" ELSE status[x]]
    /\ serving' = None
    /\ UNCHANGED <<older, faulty>>

Next ==
    \/ \E i \in Items : Refuse(i) \/ Serve(i)
    \/ \E i \in Items, S \in SUBSET Items : Accept(i, S)
    \/ \E S \in SUBSET Items : GiveWay(S) \/ Crash(S)
    \/ Postpone
    \/ \E outcome \in {"answered", "failed"} : Settle(outcome)

Spec == Init /\ [][Next]_vars
=============================================================================
