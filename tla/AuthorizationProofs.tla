------------------------ MODULE AuthorizationProofs ------------------------
(***************************************************************************)
(* Theorems about Authorization, for every value of its constants.         *)
(***************************************************************************)
EXTENDS Authorization, Iteration, TLAPS

USE AuthAssumption

-----------------------------------------------------------------------------
(* The operations on a charger.                                            *)

TransactionEvent == {"TransactionStarted", "TransactionFinished"}

\* What the charger c has published and what Auth believes, a, agree with the
\* transaction of c: TransactionIsKnown for one EVSE.
Known(c, a) ==
    LET I == {i \in DOMAIN c.out : c.out[i] \in TransactionEvent}
    IN  /\ I = {} => c.transaction = a
        /\ \A i \in I : (\A j \in I : j <= i) => c.transaction = (c.out[i] = "TransactionStarted")

\* A charger of the right type that agrees with what Auth believes.
Good(c, a) == c \in ChargerType /\ Known(c, a)

\* Publishing an event that is not about a transaction changes nothing.
LEMMA SignalOther ==
    ASSUME NEW c, NEW a \in BOOLEAN, Good(c, a), NEW event \in SessionEvent \ TransactionEvent
    PROVE  Good(Signal(c, event), a)
<1> DEFINE d == Signal(c, event)
           I(x) == {i \in DOMAIN x.out : x.out[i] \in TransactionEvent}
<1>1. d \in ChargerType
  <2>1. c.out \in Seq(SessionEvent) /\ event \in SessionEvent
    BY DEF Good, ChargerType
  <2>2. Append(c.out, event) \in Seq(SessionEvent)
    BY <2>1
  <2> QED
    BY <2>2 DEF Signal, Good, ChargerType
<1>2. /\ DOMAIN d.out = 1..(Len(c.out) + 1) /\ DOMAIN c.out = 1..Len(c.out)
      /\ d.out[Len(c.out) + 1] = event
      /\ \A i \in 1..Len(c.out) : d.out[i] = c.out[i]
      /\ d.transaction = c.transaction
  BY DEF Signal, Good, ChargerType
<1>3. I(d) = I(c)
  BY <1>2 DEF Good, ChargerType
<1> QED
  BY <1>1, <1>2, <1>3 DEF Good, Known

\* Publishing a transaction event with the change it reports.
LEMMA SignalTransaction ==
    ASSUME NEW c, NEW a \in BOOLEAN, c \in ChargerType, NEW event \in TransactionEvent,
           c.transaction = (event = "TransactionStarted")
    PROVE  Good(Signal(c, event), a)
<1> DEFINE d == Signal(c, event)
           I(x) == {i \in DOMAIN x.out : x.out[i] \in TransactionEvent}
<1>1. d \in ChargerType
  <2>1. c.out \in Seq(SessionEvent) /\ event \in SessionEvent
    BY DEF ChargerType, TransactionEvent, SessionEvent
  <2>2. Append(c.out, event) \in Seq(SessionEvent)
    BY <2>1
  <2> QED
    BY <2>2 DEF Signal, ChargerType
<1>2. /\ DOMAIN d.out = 1..(Len(c.out) + 1) /\ Len(c.out) \in Nat
      /\ d.out[Len(c.out) + 1] = event
      /\ d.transaction = c.transaction
  BY DEF Signal, ChargerType
<1>3. Len(c.out) + 1 \in I(d)
  BY <1>2
<1>4. \A i \in I(d) : (\A j \in I(d) : j <= i) => i = Len(c.out) + 1
  BY <1>2, <1>3
<1> QED
  BY <1>1, <1>2, <1>3, <1>4 DEF Good, Known

\* Changing neither the events nor the transaction.
LEMMA SameTransaction ==
    ASSUME NEW c, NEW d \in ChargerType, NEW a, Good(c, a), d.out = c.out, d.transaction = c.transaction
    PROVE  Good(d, a)
  BY DEF Good, Known

\* The end of a session.
LEMMA GoodStopSession ==
    ASSUME NEW c, NEW a \in BOOLEAN, Good(c, a)
    PROVE  Good(stop_session(c), a)
<1> DEFINE d == [c EXCEPT !.session = FALSE, !.authorized = FALSE, !.cancelled = FALSE]
<1>1. d \in ChargerType /\ d.out = c.out /\ d.transaction = c.transaction
  BY DEF Good, ChargerType
<1>2. Good(d, a)
  BY <1>1, SameTransaction
<1> QED
  BY <1>2, SignalOther DEF stop_session, SessionEvent, TransactionEvent

\* The start of a session.
LEMMA GoodStartSession ==
    ASSUME NEW c, NEW a \in BOOLEAN, Good(c, a)
    PROVE  Good(start_session(c), a)
<1>1. /\ start_session(c) \in ChargerType /\ start_session(c).out = c.out
      /\ start_session(c).transaction = c.transaction
  BY DEF Good, ChargerType, start_session
<1> QED
  BY <1>1, SameTransaction

\* The start of a transaction.
LEMMA GoodStartTransaction ==
    ASSUME NEW c, NEW a \in BOOLEAN, Good(c, a)
    PROVE  Good(start_transaction(c), a)
<1> DEFINE d == [c EXCEPT !.transaction = TRUE]
<1>1. d \in ChargerType /\ d.transaction = TRUE
  BY DEF Good, ChargerType
<1>2. "TransactionStarted" \in TransactionEvent
  BY DEF TransactionEvent
<1>3. Good(Signal(d, "TransactionStarted"), a)
  <2> HIDE DEF d
  <2> DEFINE event == "TransactionStarted"
  <2>1. d.transaction = (event = "TransactionStarted") /\ event \in TransactionEvent
    BY <1>1, <1>2
  <2> HIDE DEF event
  <2>2. Good(Signal(d, event), a)
    BY <1>1, <2>1, SignalTransaction
  <2> QED
    BY <2>2 DEF event
<1> QED
  BY <1>3 DEF start_transaction

\* The end of a transaction.
LEMMA GoodStopTransaction ==
    ASSUME NEW c, NEW a \in BOOLEAN, Good(c, a)
    PROVE  Good(stop_transaction(c), a)
<1> DEFINE d == [c EXCEPT !.transaction = FALSE]
<1>1. d \in ChargerType /\ d.transaction = FALSE
  BY DEF Good, ChargerType
<1>2. "TransactionFinished" \in TransactionEvent
  BY DEF TransactionEvent
<1>3. Good(Signal(d, "TransactionFinished"), a)
  <2> HIDE DEF d
  <2> QED
    BY <1>1, <1>2, SignalTransaction
<1> QED
  BY <1>3 DEF stop_transaction

\* deauthorize.
LEMMA GoodDeauthorize ==
    ASSUME NEW c, NEW a \in BOOLEAN, Good(c, a)
    PROVE  Good(deauthorize(c), a)
<1>1. Good(Signal(c, "Deauthorized"), a)
  BY SignalOther DEF SessionEvent, TransactionEvent
<1>2. Good(stop_session(Signal(c, "Deauthorized")), a)
  BY <1>1, GoodStopSession
<1> QED
  BY <1>1, <1>2 DEF deauthorize

\* authorize.
LEMMA GoodAuthorize ==
    ASSUME NEW c, NEW a \in BOOLEAN, Good(c, a)
    PROVE  Good(authorize(c), a)
<1> DEFINE d == IF c.session THEN c ELSE start_session(c)
           f == [d EXCEPT !.authorized = TRUE]
<1>1. Good(d, a)
  BY GoodStartSession
<1>2. f \in ChargerType /\ f.out = d.out /\ f.transaction = d.transaction
  BY <1>1 DEF Good, ChargerType
<1>3. Good(f, a)
  BY <1>1, <1>2, SameTransaction
<1> QED
  BY <1>3 DEF authorize

\* cancel_transaction.
LEMMA GoodCancel ==
    ASSUME NEW c, NEW a \in BOOLEAN, Good(c, a)
    PROVE  Good(cancel_transaction(c), a)
<1>1. /\ cancel_transaction(c) \in ChargerType /\ cancel_transaction(c).out = c.out
      /\ cancel_transaction(c).transaction = c.transaction
  BY DEF Good, ChargerType, cancel_transaction
<1> QED
  BY <1>1, SameTransaction

\* Finished.
LEMMA GoodFinish ==
    ASSUME NEW c, NEW a \in BOOLEAN, Good(c, a)
    PROVE  Good(Finish(c), a)
<1> DEFINE f == [stop_transaction(c) EXCEPT !.state = "Finished"]
           d == [stop_session(f) EXCEPT !.state = "Disabled"]
           i == [stop_session(f) EXCEPT !.state = "Idle"]
<1>1. Good(stop_transaction(c), a)
  BY GoodStopTransaction
<1>2. f \in ChargerType /\ f.out = stop_transaction(c).out /\ f.transaction = stop_transaction(c).transaction
  BY <1>1 DEF Good, ChargerType, EvseState
<1>3. Good(f, a)
  BY <1>1, <1>2, SameTransaction
<1>4. Good(stop_session(f), a)
  BY <1>3, GoodStopSession
<1>5. /\ d \in ChargerType /\ d.out = stop_session(f).out /\ d.transaction = stop_session(f).transaction
      /\ i \in ChargerType /\ i.out = stop_session(f).out /\ i.transaction = stop_session(f).transaction
  BY <1>4 DEF Good, ChargerType, EvseState
<1>6. Good(d, a) /\ Good(i, a)
  BY <1>4, <1>5, SameTransaction
<1>7. Good(Signal(d, "Disabled"), a)
  BY <1>6, SignalOther DEF SessionEvent, TransactionEvent
<1> QED
  BY <1>3, <1>6, <1>7 DEF Finish

\* run_state_machine.
LEMMA GoodRun ==
    ASSUME NEW c, NEW a \in BOOLEAN, Good(c, a)
    PROVE  Good(run_state_machine(c), a)
<1> DEFINE d == [c EXCEPT !.state = "Disabled"]
<1>1. d \in ChargerType /\ d.out = c.out /\ d.transaction = c.transaction
  BY DEF Good, ChargerType, EvseState
<1>2. Good(d, a)
  BY <1>1, SameTransaction
<1>3. Good(Signal(d, "Disabled"), a)
  BY <1>2, SignalOther DEF SessionEvent, TransactionEvent
<1>4. Good(Finish(c), a)
  BY GoodFinish
<1> QED
  BY <1>3, <1>4 DEF run_state_machine

\* The EV is plugged in.
LEMMA GoodPluggedIn ==
    ASSUME NEW c, NEW a \in BOOLEAN, Good(c, a)
    PROVE  Good(CarPluggedIn(c), a)
<1> DEFINE w == [c EXCEPT !.state = "WaitingForAuthentication", !.plugged = TRUE]
<1>1. w \in ChargerType /\ w.out = c.out /\ w.transaction = c.transaction
  BY DEF Good, ChargerType, EvseState
<1>2. Good(w, a)
  BY <1>1, SameTransaction
<1>3. Good(start_session(w), a)
  BY <1>2, GoodStartSession
<1>4. Good(Signal(start_session(w), "SessionStarted"), a)
  BY <1>3, SignalOther DEF SessionEvent, TransactionEvent
<1> QED
  BY <1>2, <1>4 DEF CarPluggedIn

\* The EV is unplugged, or the EVSE disabled.
LEMMA GoodUnplugged ==
    ASSUME NEW c, NEW a \in BOOLEAN, Good(c, a)
    PROVE  Good(CarUnplugged(c), a) /\ Good(Disable(c), a)
<1> DEFINE u == [c EXCEPT !.plugged = FALSE]
           d == [c EXCEPT !.enabled = FALSE, !.disable_requested = TRUE]
<1>1. /\ u \in ChargerType /\ u.out = c.out /\ u.transaction = c.transaction
      /\ d \in ChargerType /\ d.out = c.out /\ d.transaction = c.transaction
  BY DEF Good, ChargerType
<1>2. Good(u, a) /\ Good(d, a)
  BY <1>1, SameTransaction
<1> QED
  BY <1>2, GoodRun DEF CarUnplugged, Disable

\* The EVSE is enabled.
LEMMA GoodEnable ==
    ASSUME NEW c, NEW a \in BOOLEAN, Good(c, a)
    PROVE  Good(Enable(c), a)
<1> DEFINE d == [c EXCEPT !.enabled = TRUE]
           i == [c EXCEPT !.state = "Idle", !.enabled = TRUE, !.disable_requested = FALSE]
<1>1. /\ d \in ChargerType /\ d.out = c.out /\ d.transaction = c.transaction
      /\ i \in ChargerType /\ i.out = c.out /\ i.transaction = c.transaction
  BY DEF Good, ChargerType, EvseState
<1>2. Good(d, a) /\ Good(i, a)
  BY <1>1, SameTransaction
<1>3. Good(Signal(d, "Enabled"), a) /\ Good(Signal(i, "Enabled"), a)
  BY <1>2, SignalOther DEF SessionEvent, TransactionEvent
<1>4. Good(deauthorize(i), a) /\ Good(deauthorize(Signal(i, "Enabled")), a)
  BY <1>2, <1>3, GoodDeauthorize
<1> QED
  BY <1>3, <1>4 DEF Enable

\* The transaction starts.
LEMMA GoodStartCharging ==
    ASSUME NEW c, NEW a \in BOOLEAN, Good(c, a), NEW state \in EvseState
    PROVE  Good(StartCharging(c, state), a)
<1> DEFINE d == IF c.transaction THEN c ELSE start_transaction(c)
           f == [d EXCEPT !.state = state]
<1>1. Good(d, a)
  BY GoodStartTransaction
<1>2. f \in ChargerType /\ f.out = d.out /\ f.transaction = d.transaction
  BY <1>1 DEF Good, ChargerType
<1> QED
  BY <1>1, <1>2, SameTransaction DEF StartCharging

\* What Auth believes once it has handled an event.
Believed(event, a) ==
    IF event = "TransactionStarted" THEN TRUE ELSE IF event = "TransactionFinished" THEN FALSE ELSE a

\* Handling the oldest event.
LEMMA GoodHandled ==
    ASSUME NEW c, NEW a \in BOOLEAN, Good(c, a), c.out # <<>>
    PROVE  Good([c EXCEPT !.out = Tail(@)], Believed(Head(c.out), a))
<1> DEFINE d == [c EXCEPT !.out = Tail(@)]
           b == Believed(Head(c.out), a)
           I(x) == {i \in DOMAIN x.out : x.out[i] \in TransactionEvent}
<1>0. c \in ChargerType /\ c.out \in Seq(SessionEvent)
  BY DEF Good, ChargerType
<1>1. d \in ChargerType /\ d.out = Tail(c.out) /\ d.transaction = c.transaction
  <2>1. Tail(c.out) \in Seq(SessionEvent)
    BY <1>0
  <2> QED
    BY <1>0, <2>1 DEF ChargerType
<1>2. /\ DOMAIN c.out = 1..Len(c.out) /\ DOMAIN d.out = 1..(Len(c.out) - 1) /\ Len(c.out) \in Nat \ {0}
      /\ \A i \in DOMAIN d.out : i + 1 \in DOMAIN c.out /\ d.out[i] = c.out[i + 1]
      /\ Head(c.out) = c.out[1]
  BY <1>1 DEF Good, ChargerType
<1>3. \A i \in DOMAIN d.out : i \in I(d) <=> i + 1 \in I(c)
  BY <1>2
<1>4. \A i \in I(c) : i = 1 \/ i - 1 \in I(d)
  BY <1>2
<1>5. ASSUME I(d) = {} PROVE d.transaction = b
  <2>1. CASE c.out[1] \in TransactionEvent
    <3>1. 1 \in I(c) /\ \A j \in I(c) : j <= 1
      BY <1>2, <1>4, <1>5, <2>1
    <3>2. c.transaction = (c.out[1] = "TransactionStarted")
      BY <3>1 DEF Good, Known
    <3> QED
      BY <1>1, <1>2, <2>1, <3>2 DEF Believed, TransactionEvent
  <2>2. CASE c.out[1] \notin TransactionEvent
    <3>1. I(c) = {}
      BY <1>4, <1>5, <2>2
    <3>2. c.transaction = a
      BY <3>1 DEF Good, Known
    <3> QED
      BY <1>1, <1>2, <2>2, <3>2 DEF Believed, TransactionEvent
  <2> QED
    BY <2>1, <2>2
<1>6. ASSUME NEW i \in I(d), \A j \in I(d) : j <= i
      PROVE  d.transaction = (d.out[i] = "TransactionStarted")
  <2>0. i \in DOMAIN d.out /\ i \in Nat /\ i + 1 \in I(c)
    BY <1>2, <1>3, <1>6
  <2>1. i + 1 \in I(c) /\ \A j \in I(c) : j <= i + 1
    <3>1. SUFFICES ASSUME NEW j \in I(c) PROVE j <= i + 1
      BY <2>0
    <3>2. j \in Nat /\ (j = 1 \/ j - 1 \in I(d))
      BY <1>2, <1>4
    <3>3. j = 1 \/ j - 1 <= i
      BY <1>6, <3>2
    <3> QED
      BY <2>0, <3>2, <3>3
  <2>2. c.transaction = (c.out[i + 1] = "TransactionStarted")
    BY <2>1 DEF Good, Known
  <2> QED
    BY <1>1, <1>2, <1>6, <2>2
<1> QED
  BY <1>1, <1>5, <1>6 DEF Good, Known

-----------------------------------------------------------------------------
(* The invariant.                                                          *)

ThreadType == [pc: {"idle", "validating", "selecting", "notifying"}, tok: Tokens \cup {None},
               refs: SUBSET Evses, left: Seq(Results), evse: Evses \cup {None}]
IdType == [token: Tokens \cup {None}, parent: Parents \cup {None}]

\* Every charger agrees with what Auth believes of it, the chargers being cs.
AllGood(cs) == \A e \in Evses : Good(cs[e], transaction_active[e])

\* Only the algorithms that wait for a plug-in leave a thread waiting for one,
\* the threads being ts.
WaitsForPlugIn(ts) == \A s \in Threads : ts[s].pc = "selecting" => config.algorithm # "FindFirst"

\* With FindFirst only a free EVSE is granted, the identifiers becoming ids.
Exclusive(ids) ==
    \A e \in Evses :
       /\ identifier[e].token # None
       /\ ids[e].token # identifier[e].token
       /\ config.algorithm = "FindFirst"
       => ids[e].token = None

IInv == StateTypeOK /\ AllGood(charger) /\ WaitsForPlugIn(thread)

\* What a step of an on_token thread does to the variables it may change.
TokenEffect ==
    /\ thread' \in [Threads -> ThreadType] /\ WaitsForPlugIn(thread')
    /\ identifier' \in [Evses -> IdType] /\ Exclusive(identifier')
    /\ timer' \in [Evses -> {"off", "auth", "plugin"}]
    /\ withdrawn' \in SUBSET Evses
    /\ charger' \in [Evses -> ChargerType] /\ AllGood(charger')

\* The parts of the invariant that the steps of a thread use.
LEMMA Parts ==
    ASSUME IInv
    PROVE  /\ thread \in [Threads -> ThreadType] /\ WaitsForPlugIn(thread)
           /\ identifier \in [Evses -> IdType] /\ Exclusive(identifier)
           /\ timer \in [Evses -> {"off", "auth", "plugin"}]
           /\ withdrawn \in SUBSET Evses
           /\ charger \in [Evses -> ChargerType] /\ AllGood(charger)
           /\ \A e \in Evses : transaction_active[e] \in BOOLEAN
           /\ config.algorithm \in Algorithms
<1>1. config \in ConfigType
  BY DEF IInv, StateTypeOK
<1> QED
  BY <1>1 DEF IInv, StateTypeOK, ThreadType, IdType, Exclusive, ConfigType

\* The thread that has returned.
LEMMA IdleThreadType == IdleThread \in ThreadType /\ IdleThread.pc = "idle"
  BY DEF IdleThread, ThreadType

\* A thread that returns.
LEMMA ReturnEffect ==
    ASSUME IInv, NEW s \in Threads, Return(s)
    PROVE  thread' \in [Threads -> ThreadType] /\ WaitsForPlugIn(thread')
  BY Parts, IdleThreadType DEF Return, WaitsForPlugIn

\* A token that is turned away.
LEMMA RefuseEffect == ASSUME IInv, NEW s \in Threads, Refuse(s) PROVE TokenEffect
  BY Parts, ReturnEffect DEF Refuse, NoGrant, TokenEffect

\* A token that stops transactions.
LEMMA StopEffect ==
    ASSUME IInv, NEW s \in Threads, NEW stops, StopAndReturn(s, stops)
    PROVE  TokenEffect
<1>1. \A e \in Evses : Good(cancel_transaction(charger[e]), transaction_active[e])
  BY Parts, GoodCancel DEF AllGood
<1>2. charger' \in [Evses -> ChargerType] /\ AllGood(charger')
  BY <1>1, Parts DEF StopAndReturn, AllGood, Good
<1> QED
  BY <1>2, Parts, ReturnEffect DEF StopAndReturn, NoGrant, TokenEffect

\* The end of notify_evse.
LEMMA AuthorizeEffect ==
    ASSUME IInv, NEW s \in Threads, NEW e, Authorize(s, e)
    PROVE  /\ thread' \in [Threads -> ThreadType] /\ WaitsForPlugIn(thread')
           /\ timer' \in [Evses -> {"off", "auth", "plugin"}]
           /\ withdrawn' \in SUBSET Evses
           /\ charger' \in [Evses -> ChargerType] /\ AllGood(charger')
<1>1. \A f \in Evses : Good(authorize(charger[f]), transaction_active[f])
  BY Parts, GoodAuthorize DEF AllGood
<1>2. charger' \in [Evses -> ChargerType] /\ AllGood(charger')
  BY <1>1, Parts DEF Authorize, AllGood, Good
<1>3. timer' \in [Evses -> {"off", "auth", "plugin"}]
  BY Parts DEF Authorize
<1> QED
  BY <1>2, <1>3, Parts, ReturnEffect DEF Authorize

\* A token that an EVSE is given to.
LEMMA NotifyEffect ==
    ASSUME IInv, NEW s \in Threads, NEW t \in Tokens \cup {None}, NEW e \in Evses, NEW result \in Results,
           config.algorithm = "FindFirst" => identifier[e].token = None,
           notify_evse(s, t, e, result)
    PROVE  TokenEffect
<1>1. IdentifierOf(t, result) \in IdType
  BY DEF IdentifierOf, IdType, Results
<1>2. identifier' \in [Evses -> IdType] /\ Exclusive(identifier')
  BY <1>1, Parts DEF notify_evse, Exclusive
<1>3. CASE ~timeout_in_progress[e] /\ Authorize(s, e)
  BY <1>2, <1>3, AuthorizeEffect DEF TokenEffect
<1>4. CASE /\ thread' = [thread EXCEPT ![s] = [IdleThread EXCEPT !.pc = "notifying", !.tok = t, !.evse = e]]
           /\ UNCHANGED <<timer, plug_in_queue, charger, withdrawn>>
  <2>1. [IdleThread EXCEPT !.pc = "notifying", !.tok = t, !.evse = e] \in ThreadType
    BY IdleThreadType DEF ThreadType
  <2>2. thread' \in [Threads -> ThreadType] /\ WaitsForPlugIn(thread')
    BY <1>4, <2>1, Parts DEF WaitsForPlugIn, IdleThread
  <2> QED
    BY <1>2, <1>4, <2>2, Parts DEF TokenEffect
<1> QED
  BY <1>3, <1>4 DEF notify_evse

\* A token whose EVSE is selected.
LEMMA UseEffect ==
    ASSUME IInv, NEW s \in Threads, NEW t \in Tokens \cup {None}, NEW e \in Evses,
           NEW results \in Seq(Results),
           config.algorithm = "FindFirst" => identifier[e].token = None,
           UseEvse(s, t, e, results)
    PROVE  TokenEffect
<1>1. CASE Refuse(s)
  BY <1>1, RefuseEffect
<1>2. CASE \E i \in DOMAIN results : notify_evse(s, t, e, results[i])
  <2>1. PICK i \in DOMAIN results : notify_evse(s, t, e, results[i])
    BY <1>2
  <2>2. results[i] \in Results
    OBVIOUS
  <2> QED
    BY <2>1, <2>2, NotifyEffect
<1> QED
  BY <1>1, <1>2 DEF UseEvse, FirstOf

\* The selected EVSE is one of those looked at.
LEMMA SelectedIsReferenced ==
    ASSUME IInv, NEW refs
    PROVE  SelectedEvse(refs) \subseteq refs
  BY Parts DEF SelectedEvse, get_oldest_plugin, get_last_plugin, FirstOf, Algorithms

\* The code's walk over the EVSEs finds a first one.
LEMMA FirstExists == ASSUME NEW S \in SUBSET Evses, S # {} PROVE FirstOf(S) # {}
<1>1. S \in SUBSET Nat
  OBVIOUS
<1>2. PICK x \in S : \A y \in S : x <= y
  BY <1>1, Least
<1> QED
  BY <1>2 DEF FirstOf

\* FindFirst finds an EVSE where one is available: it never waits.
LEMMA FindFirstFinds ==
    ASSUME IInv, NEW refs \in SUBSET Evses, any_evse_available(refs), config.algorithm = "FindFirst"
    PROVE  SelectedEvse(WithoutIdentifier(refs)) # {}
<1> DEFINE S == WithoutIdentifier(refs)
           A == {e \in S : is_available(e)}
<1>1. A # {} /\ A \in SUBSET Evses
  BY DEF any_evse_available, WithoutIdentifier, is_available
<1>2. FirstOf(A) # {} /\ S # {}
  BY <1>1, FirstExists
<1> QED
  BY <1>2 DEF SelectedEvse

\* A token that waits for a plug-in or is given an EVSE.
LEMMA SelectEffect ==
    ASSUME IInv, NEW s \in Threads, NEW t \in Tokens \cup {None}, NEW refs \in SUBSET Evses,
           NEW results \in Seq(Results), any_evse_available(refs),
           select_evse(s, t, WithoutIdentifier(refs), results)
    PROVE  TokenEffect
<1> DEFINE S == WithoutIdentifier(refs)
<1>1. S \in SUBSET Evses /\ \A e \in S : identifier[e].token = None
  BY DEF WithoutIdentifier
<1>2. CASE /\ SelectedEvse(S) = {}
           /\ thread' = [thread EXCEPT ![s] = [IdleThread EXCEPT !.pc = "selecting", !.tok = t,
                                                                 !.refs = S, !.left = results]]
           /\ NoGrant
           /\ UNCHANGED charger
  <2>1. config.algorithm # "FindFirst"
    BY <1>2, FindFirstFinds
  <2>2. [IdleThread EXCEPT !.pc = "selecting", !.tok = t, !.refs = S, !.left = results] \in ThreadType
    BY <1>1 DEF IdleThread, ThreadType
  <2>3. thread' \in [Threads -> ThreadType] /\ WaitsForPlugIn(thread')
    BY <1>2, <2>1, <2>2, Parts DEF WaitsForPlugIn
  <2> QED
    BY <1>2, <2>3, Parts DEF TokenEffect, NoGrant
<1>3. CASE Refuse(s)
  BY <1>3, RefuseEffect
<1>4. CASE \E e \in SelectedEvse(S) : UseEvse(s, t, e, results)
  <2>1. PICK e \in SelectedEvse(S) : UseEvse(s, t, e, results)
    BY <1>4
  <2>2. e \in Evses /\ identifier[e].token = None
    BY <1>1, SelectedIsReferenced
  <2> QED
    BY <2>1, <2>2, UseEffect
<1> QED
  BY <1>2, <1>3, <1>4 DEF select_evse

\* A token with the validators' answer.
LEMMA DecideEffect ==
    ASSUME IInv, NEW s \in Threads, NEW t \in Tokens \cup {None}, NEW refs \in SUBSET Evses,
           NEW results \in Seq(Results), Decide(s, t, refs, results)
    PROVE  TokenEffect
<1>1. CASE \E stops : StopAndReturn(s, stops)
  BY <1>1, StopEffect
<1>2. CASE Refuse(s)
  BY <1>2, RefuseEffect
<1>3. CASE any_evse_available(refs) /\ select_evse(s, t, WithoutIdentifier(refs), results)
  BY <1>3, SelectEffect
<1> QED
  BY <1>1, <1>2, <1>3 DEF Decide

\* A token that arrives.
LEMMA HandleEffect ==
    ASSUME IInv, NEW s \in Threads, NEW t \in Tokens, NEW refs \in SUBSET Evses, handle_token(s, t, refs)
    PROVE  TokenEffect
<1>1. CASE \E stops : StopAndReturn(s, stops)
  BY <1>1, StopEffect
<1>2. CASE Refuse(s)
  BY <1>2, RefuseEffect
<1>3. CASE Decide(s, t, refs, PrevalidatedResult(t))
  <2>1. PrevalidatedResult(t) \in Seq(Results)
    BY AuthAssumption DEF PrevalidatedResult, Results
  <2> QED
    BY <1>3, <2>1, DecideEffect
<1>4. CASE /\ thread' = [thread EXCEPT ![s] = [IdleThread EXCEPT !.pc = "validating", !.tok = t,
                                                                 !.refs = refs]]
           /\ NoGrant
           /\ UNCHANGED charger
  <2>1. [IdleThread EXCEPT !.pc = "validating", !.tok = t, !.refs = refs] \in ThreadType
    BY IdleThreadType DEF ThreadType
  <2>2. thread' \in [Threads -> ThreadType] /\ WaitsForPlugIn(thread')
    BY <1>4, <2>1, Parts DEF WaitsForPlugIn, IdleThread
  <2> QED
    BY <1>4, <2>2, Parts DEF TokenEffect, NoGrant
<1> QED
  BY <1>1, <1>2, <1>3, <1>4 DEF handle_token

\* A step of an on_token thread keeps the invariant.
LEMMA EffectInv ==
    ASSUME IInv, TokenEffect, OnlyTokens, budget' \in [Occasions -> Nat]
    PROVE  IInv' /\ Exclusive(identifier')
<1>1. StateTypeOK'
  BY DEF IInv, StateTypeOK, TokenEffect, OnlyTokens, ThreadType, IdType
<1>2. AllGood(charger)' /\ WaitsForPlugIn(thread)'
  BY DEF TokenEffect, OnlyTokens, AllGood, WaitsForPlugIn
<1> QED
  BY <1>1, <1>2 DEF IInv, TokenEffect

\* A bounded occasion is spent.
LEMMA SpendType == ASSUME IInv, NEW o \in Occasions, Spend(o) PROVE budget' \in [Occasions -> Nat]
<1>1. budget \in [Occasions -> Nat]
  BY DEF IInv, StateTypeOK
<1> QED
  BY <1>1 DEF Spend

\* The steps of the on_token threads.
LEMMA TokenInv ==
    ASSUME IInv, NEW s \in Threads, TokenStep(s) \/ \E t \in Tokens : on_token(s, t)
    PROVE  IInv' /\ Exclusive(identifier')
<1>0. /\ thread[s] \in ThreadType /\ budget \in [Occasions -> Nat]
      /\ thread[s].refs \in SUBSET Evses /\ thread[s].tok \in Tokens \cup {None}
      /\ thread[s].left \in Seq(Results)
  BY Parts DEF ThreadType, IInv, StateTypeOK
<1>1. ASSUME NEW t \in Tokens, on_token(s, t) PROVE IInv' /\ Exclusive(identifier')
  <2>1. get_referenced_evses(t) \in SUBSET Evses
    BY DEF get_referenced_evses
  <2>2. TokenEffect
    BY <1>1, <2>1, RefuseEffect, HandleEffect DEF on_token
  <2>3. budget' \in [Occasions -> Nat] /\ OnlyTokens
    BY <1>1, SpendType DEF on_token, Occasions
  <2> QED
    BY <2>2, <2>3, EffectInv
<1>2. ASSUME NEW results \in Verdicts, Validated(s, results) PROVE IInv' /\ Exclusive(identifier')
  <2>1. results \in Seq(Results)
    OBVIOUS
  <2>2. TokenEffect
    BY <1>0, <1>2, <2>1, DecideEffect DEF Validated
  <2> QED
    BY <1>0, <1>2, <2>2, EffectInv DEF Validated
<1>3. ASSUME PlugInOrWithdrawn(s) PROVE IInv' /\ Exclusive(identifier')
  <2>1. config.algorithm # "FindFirst"
    BY <1>3, Parts DEF PlugInOrWithdrawn, WaitsForPlugIn
  <2>2. SelectedEvse(thread[s].refs) \subseteq Evses
    BY <1>0, SelectedIsReferenced
  <2>3. TokenEffect
    <3>1. CASE Refuse(s)
      BY <3>1, RefuseEffect
    <3>2. CASE \E e \in SelectedEvse(thread[s].refs) : UseEvse(s, thread[s].tok, e, thread[s].left)
      BY <1>0, <2>1, <2>2, <3>2, UseEffect
    <3> QED
      BY <1>3, <3>1, <3>2 DEF PlugInOrWithdrawn
  <2> QED
    BY <1>0, <1>3, <2>3, EffectInv DEF PlugInOrWithdrawn
<1>4. ASSUME SelectTimeout(s) PROVE IInv' /\ Exclusive(identifier')
  BY <1>0, <1>4, RefuseEffect, EffectInv DEF SelectTimeout
<1>5. ASSUME Notify(s) PROVE IInv' /\ Exclusive(identifier')
  <2>1. TokenEffect
    BY <1>5, AuthorizeEffect, Parts DEF Notify, TokenEffect
  <2> QED
    BY <1>0, <1>5, <2>1, EffectInv DEF Notify
<1> QED
  BY <1>1, <1>2, <1>3, <1>4, <1>5 DEF TokenStep

\* The steps that change what a charger does and nothing in Auth.
LEMMA ChargerInv ==
    ASSUME IInv, NEW e \in Evses, NEW c, Good(c, transaction_active[e]), ChargerStep(e, c),
           budget' \in [Occasions -> Nat]
    PROVE  IInv' /\ Exclusive(identifier')
<1>1. charger' \in [Evses -> ChargerType]
  BY Parts DEF ChargerStep, Good
<1>2. AllGood(charger)'
  BY Parts DEF ChargerStep, AllGood, authVars
<1>3. StateTypeOK'
  BY <1>1 DEF IInv, StateTypeOK, ChargerStep, authVars, timerVars
<1>4. WaitsForPlugIn(thread)' /\ Exclusive(identifier')
  BY Parts DEF ChargerStep, WaitsForPlugIn, Exclusive, authVars
<1> QED
  BY <1>2, <1>3, <1>4 DEF IInv

\* Everything a charger does.
LEMMA ChargersInv ==
    ASSUME IInv, NEW e \in Evses,
           PlugIn(e) \/ Unplug(e) \/ DisableEvse(e) \/ EnableEvse(e) \/ MainLoop(e)
    PROVE  IInv' /\ Exclusive(identifier')
<1> DEFINE a == transaction_active[e]
<1>0. a \in BOOLEAN /\ Good(charger[e], a) /\ budget \in [Occasions -> Nat]
  BY Parts DEF AllGood, IInv, StateTypeOK
<1>1. CASE PlugIn(e)
  <2>1. budget' \in [Occasions -> Nat]
    BY <1>1, SpendType DEF PlugIn, Occasions
  <2>2. Good(CarPluggedIn(charger[e]), a)
    BY <1>0, GoodPluggedIn
  <2> QED
    BY <1>1, <2>1, <2>2, ChargerInv DEF PlugIn
<1>2. CASE Unplug(e)
  BY <1>0, <1>2, GoodUnplugged, ChargerInv, SpendType DEF Unplug, Occasions
<1>3. CASE DisableEvse(e)
  BY <1>0, <1>3, GoodUnplugged, ChargerInv, SpendType DEF DisableEvse, Occasions
<1>4. CASE EnableEvse(e)
  <2>1. budget' \in [Occasions -> Nat]
    BY <1>4, SpendType DEF EnableEvse, Occasions
  <2>2. Good(Enable(charger[e]), a)
    BY <1>0, GoodEnable
  <2> QED
    BY <1>4, <2>1, <2>2, ChargerInv DEF EnableEvse
<1>5. CASE MainLoop(e)
  <2>1. budget' \in [Occasions -> Nat]
    BY <1>0, <1>5 DEF MainLoop
  <2>2. CASE \E state \in {"Charging", "WaitingForAuthentication"} :
                ChargerStep(e, StartCharging(charger[e], state))
    <3>1. PICK state \in {"Charging", "WaitingForAuthentication"} :
                ChargerStep(e, StartCharging(charger[e], state))
      BY <2>2
    <3>2. Good(StartCharging(charger[e], state), a)
      BY <1>0, GoodStartCharging DEF EvseState
    <3> QED
      BY <2>1, <3>1, <3>2, ChargerInv
  <2>3. CASE ChargerStep(e, Finish(charger[e]))
    BY <1>0, <2>1, <2>3, GoodFinish, ChargerInv
  <2> QED
    BY <1>5, <2>2, <2>3 DEF MainLoop
<1> QED
  BY <1>1, <1>2, <1>3, <1>4, <1>5

\* withdraw_authorization, in one step or after waiting.
LEMMA WithdrawInv ==
    ASSUME IInv, (\E request \in Requests : handle_withdraw_authorization(request)) \/ ProcessingFinished
    PROVE  IInv' /\ Exclusive(identifier')
<1>0. budget \in [Occasions -> Nat]
  BY DEF IInv, StateTypeOK
<1>1. ASSUME NEW request, Withdraw(request)
      PROVE  /\ charger' \in [Evses -> ChargerType] /\ AllGood(charger')
             /\ withdrawn' \in SUBSET Evses /\ withdraw' = NoRequest
  <2>1. \A e \in Evses : /\ Good(charger[e], transaction_active[e])
                         /\ Good(cancel_transaction(charger[e]), transaction_active[e])
                         /\ Good(deauthorize(charger[e]), transaction_active[e])
    BY Parts, GoodCancel, GoodDeauthorize DEF AllGood
  <2>2. \A e \in Evses : Good(charger'[e], transaction_active[e])
    BY <1>1, <2>1 DEF Withdraw
  <2>3. charger' \in [Evses -> ChargerType]
    BY <1>1, <2>1 DEF Withdraw, Good
  <2> QED
    BY <1>1, <2>2, <2>3, Parts DEF Withdraw, AllGood
<1>2. ASSUME /\ charger' \in [Evses -> ChargerType] /\ AllGood(charger')
             /\ withdrawn' \in SUBSET Evses
             /\ withdraw' \in [token: Tokens \cup {None}, evse: Evses \cup {None}, waiting: BOOLEAN]
             /\ budget' \in [Occasions -> Nat]
             /\ UNCHANGED <<config, authVars, timerVars, thread>>
      PROVE  IInv' /\ Exclusive(identifier')
  <2>1. StateTypeOK'
    BY <1>2 DEF IInv, StateTypeOK, authVars, timerVars
  <2>2. AllGood(charger)' /\ WaitsForPlugIn(thread)' /\ Exclusive(identifier')
    BY <1>2, Parts DEF AllGood, WaitsForPlugIn, Exclusive, authVars
  <2> QED
    BY <2>1, <2>2 DEF IInv
<1>3. NoRequest \in [token: Tokens \cup {None}, evse: Evses \cup {None}, waiting: BOOLEAN]
  BY DEF NoRequest
<1>4. CASE ProcessingFinished
  BY <1>0, <1>1, <1>2, <1>3, <1>4 DEF ProcessingFinished
<1>5. ASSUME NEW request \in Requests, handle_withdraw_authorization(request)
      PROVE  IInv' /\ Exclusive(identifier')
  <2>1. budget' \in [Occasions -> Nat] /\ UNCHANGED <<config, authVars, timerVars, thread>>
    BY <1>5, SpendType DEF handle_withdraw_authorization, Occasions
  <2>2. CASE Withdraw(request)
    BY <1>1, <1>2, <1>3, <2>1, <2>2
  <2>3. CASE /\ withdraw' = [token |-> request.token, evse |-> request.evse, waiting |-> TRUE]
             /\ UNCHANGED <<charger, withdrawn>>
    <3>1. withdraw' \in [token: Tokens \cup {None}, evse: Evses \cup {None}, waiting: BOOLEAN]
      BY <2>3 DEF RequestType
    <3> QED
      BY <1>2, <2>1, <2>3, <3>1, Parts
  <2> QED
    BY <1>5, <2>2, <2>3 DEF handle_withdraw_authorization
<1> QED
  BY <1>4, <1>5

\* The type of Auth's own records after a step that leaves the threads alone.
AuthType ==
    /\ identifier \in [Evses -> IdType]
    /\ transaction_active \in [Evses -> BOOLEAN]
    /\ plug_in_timeout \in [Evses -> BOOLEAN]
    /\ connector \in [Evses -> ConnectorState]
    /\ timer \in [Evses -> {"off", "auth", "plugin"}]
    /\ expired \in [Evses -> Seq({"auth", "plugin"})]
    /\ timeout_in_progress \in [Evses -> BOOLEAN]
    /\ handler \in [Evses -> {"none", "TransactionStarted", "SessionFinished", "Deauthorized"}]

\* A step that changes only these and the chargers keeps the invariant.
LEMMA AuthInv ==
    ASSUME IInv, AuthType', charger' \in [Evses -> ChargerType], AllGood(charger)',
           UNCHANGED <<config, thread, withdraw, withdrawn, budget>>
    PROVE  IInv'
<1>1. StateTypeOK'
  BY DEF IInv, StateTypeOK, AuthType, IdType
<1>2. WaitsForPlugIn(thread)'
  BY Parts DEF WaitsForPlugIn
<1> QED
  BY <1>1, <1>2 DEF IInv

\* Auth's records have their types.
LEMMA AuthTypeNow == ASSUME IInv PROVE AuthType
  BY DEF IInv, StateTypeOK, AuthType, IdType

\* The connector state machine stays within its states.
LEMMA ConnectorType ==
    ASSUME NEW state \in ConnectorState,
           NEW event \in {"TRANSACTION_STARTED", "SESSION_FINISHED", "ENABLE", "DISABLE", "FAULTED",
                          "ERROR_CLEARED"}
    PROVE  handle_event(state, event) \in ConnectorState
<1>1. CASE state = "AVAILABLE"
  BY <1>1 DEF handle_event, ConnectorState
<1>2. CASE state = "UNAVAILABLE"
  BY <1>2 DEF handle_event, ConnectorState
<1>3. CASE state = "FAULTED"
  BY <1>3 DEF handle_event, ConnectorState
<1>4. CASE state = "OCCUPIED"
  BY <1>4 DEF handle_event, ConnectorState
<1>5. CASE state = "FAULTED_OCCUPIED"
  BY <1>5 DEF handle_event, ConnectorState
<1>6. CASE state = "UNAVAILABLE_FAULTED"
  BY <1>6 DEF handle_event, ConnectorState
<1> QED
  BY <1>1, <1>2, <1>3, <1>4, <1>5, <1>6 DEF ConnectorState

\* As ConnectorType, for the connector of an EVSE.
LEMMA SubmitType ==
    ASSUME IInv, NEW e \in Evses,
           NEW event \in {"TRANSACTION_STARTED", "SESSION_FINISHED", "ENABLE", "DISABLE", "FAULTED",
                          "ERROR_CLEARED"},
           submit_event(e, event)
    PROVE  connector' \in [Evses -> ConnectorState]
<1>1. connector \in [Evses -> ConnectorState]
  BY AuthTypeNow DEF AuthType
<1> QED
  BY <1>1, ConnectorType DEF submit_event

\* Expiring timers and their callbacks.
LEMMA TimeoutInv ==
    ASSUME IInv, NEW e \in Evses, Expire(e) \/ BeginTimeout(e) \/ Timeout(e)
    PROVE  IInv' /\ Exclusive(identifier')
<1>1. CASE Expire(e)
  <2>1. Append(expired[e], timer[e]) \in Seq({"auth", "plugin"})
    BY <1>1, AuthTypeNow DEF Expire, AuthType
  <2>2. AuthType'
    BY <1>1, <2>1, AuthTypeNow DEF Expire, AuthType, authVars
  <2> QED
    BY <1>1, <2>2, AuthInv, Parts DEF Expire, AllGood, Exclusive, authVars
<1>2. CASE BeginTimeout(e)
  <2>1. AuthType'
    BY <1>2, AuthTypeNow DEF BeginTimeout, AuthType, authVars
  <2> QED
    BY <1>2, <2>1, AuthInv, Parts DEF BeginTimeout, AllGood, Exclusive, authVars
<1>3. CASE Timeout(e)
  <2>1. Tail(expired[e]) \in Seq({"auth", "plugin"})
    BY <1>3, AuthTypeNow DEF Timeout, AuthType
  <2>2. NoId \in IdType /\ NoId.token = None
    BY DEF NoId, IdType
  <2>3. identifier' \in [Evses -> IdType] /\ Exclusive(identifier')
    <3>1. CASE identifier' = [identifier EXCEPT ![e] = NoId]
      BY <2>2, <3>1, Parts DEF Exclusive
    <3>2. CASE UNCHANGED identifier
      BY <3>2, Parts
    <3> QED
      BY <1>3, <3>1, <3>2 DEF Timeout
  <2>4. plug_in_timeout' \in [Evses -> BOOLEAN]
    BY <1>3, AuthTypeNow DEF Timeout, AuthType
  <2>5. AuthType'
    BY <1>3, <2>1, <2>3, <2>4, AuthTypeNow DEF Timeout, EndTimeout, AuthType
  <2>6. Good(deauthorize(charger[e]), transaction_active[e])
    BY Parts, GoodDeauthorize DEF AllGood
  <2>7. charger' \in [Evses -> ChargerType] /\ AllGood(charger)'
    BY <1>3, <2>6, Parts DEF Timeout, AllGood, Good
  <2> QED
    BY <1>3, <2>3, <2>5, <2>7, AuthInv DEF Timeout
<1> QED
  BY <1>1, <1>2, <1>3

\* What the handler of a session event does to Auth's records.
LEMMA EventType ==
    ASSUME IInv, NEW e \in Evses,
           \/ SessionStarted(e) \/ TransactionStarted(e) \/ TransactionFinished(e)
           \/ SessionFinished(e) \/ Deauthorized(e) \/ Availability(e, "DISABLE")
           \/ Availability(e, "ENABLE"),
           UNCHANGED <<expired, timeout_in_progress>>
    PROVE  AuthType' /\ Exclusive(identifier')
<1>1. NoId \in IdType /\ NoId.token = None
  BY DEF NoId, IdType
<1>2. ASSUME Forget(e) PROVE identifier' \in [Evses -> IdType] /\ Exclusive(identifier')
  BY <1>1, <1>2, Parts DEF Forget, Exclusive
<1>3. ASSUME NEW event \in {"TransactionStarted", "SessionFinished", "Deauthorized"}, StopTimer(e, event)
      PROVE  /\ timer' \in [Evses -> {"off", "auth", "plugin"}]
             /\ handler' \in [Evses -> {"none", "TransactionStarted", "SessionFinished", "Deauthorized"}]
  <2>1. /\ timer \in [Evses -> {"off", "auth", "plugin"}]
        /\ handler \in [Evses -> {"none", "TransactionStarted", "SessionFinished", "Deauthorized"}]
    BY AuthTypeNow DEF AuthType
  <2>2. /\ timer' = timer \/ timer' = [timer EXCEPT ![e] = "off"]
        /\ handler' = handler \/ handler' = [handler EXCEPT ![e] = event]
    BY <1>3 DEF StopTimer, AfterTimeout
  <2>3. timer' \in [Evses -> {"off", "auth", "plugin"}]
    BY <2>1, <2>2
  <2>4. handler' \in [Evses -> {"none", "TransactionStarted", "SessionFinished", "Deauthorized"}]
    <3>1. event \in {"none", "TransactionStarted", "SessionFinished", "Deauthorized"}
      BY <1>3
    <3> QED
      BY <2>1, <2>2, <3>1
  <2> QED
    BY <2>3, <2>4
<1>4. CASE SessionStarted(e)
  BY <1>4, AuthTypeNow, Parts DEF SessionStarted, AuthType, Exclusive
<1>5. CASE TransactionStarted(e)
  BY <1>3, <1>5, SubmitType, AuthTypeNow, Parts DEF TransactionStarted, AuthType, Exclusive
<1>6. CASE TransactionFinished(e)
  BY <1>2, <1>6, AuthTypeNow DEF TransactionFinished, AuthType
<1>7. CASE SessionFinished(e)
  BY <1>2, <1>3, <1>7, SubmitType, AuthTypeNow DEF SessionFinished, AuthType
<1>8. CASE Deauthorized(e)
  BY <1>2, <1>3, <1>8, AuthTypeNow DEF Deauthorized, AuthType
<1>9. CASE Availability(e, "DISABLE") \/ Availability(e, "ENABLE")
  BY <1>9, SubmitType, AuthTypeNow, Parts DEF Availability, AuthType, Exclusive
<1> QED
  BY <1>4, <1>5, <1>6, <1>7, <1>8, <1>9

\* The session events.
LEMMA EventInv ==
    ASSUME IInv, NEW e \in Evses, handle_session_event(e) \/ ResumeHandler(e)
    PROVE  IInv' /\ Exclusive(identifier')
<1>1. CASE handle_session_event(e)
  <2> DEFINE event == Head(charger[e].out)
  <2>1. AuthType' /\ Exclusive(identifier')
    BY <1>1, EventType DEF handle_session_event
  <2>2. transaction_active'[e] = Believed(event, transaction_active[e])
    BY <1>1, AuthTypeNow DEF handle_session_event, SessionStarted, TransactionStarted, TransactionFinished,
       SessionFinished, Deauthorized, Availability, Believed, AuthType
  <2>3. \A f \in Evses \ {e} : transaction_active'[f] = transaction_active[f]
    BY <1>1, AuthTypeNow DEF handle_session_event, SessionStarted, TransactionStarted, TransactionFinished,
       SessionFinished, Deauthorized, Availability, AuthType
  <2>4. Good([charger[e] EXCEPT !.out = Tail(@)], Believed(event, transaction_active[e]))
    BY <1>1, Parts, GoodHandled DEF handle_session_event, AllGood
  <2>5. charger' = [charger EXCEPT ![e] = [charger[e] EXCEPT !.out = Tail(@)]]
    BY <1>1, Parts DEF handle_session_event
  <2>6. charger' \in [Evses -> ChargerType]
    BY <2>4, <2>5, Parts DEF Good
  <2>7. AllGood(charger)'
    BY <2>2, <2>3, <2>4, <2>5, Parts DEF AllGood
  <2> QED
    BY <1>1, <2>1, <2>6, <2>7, AuthInv DEF handle_session_event
<1>2. CASE ResumeHandler(e)
  <2>1. AuthType'
    BY <1>2, AuthTypeNow DEF ResumeHandler, AfterTimeout, AuthType
  <2> QED
    BY <1>2, <2>1, AuthInv, Parts DEF ResumeHandler, AllGood, Exclusive
<1> QED
  BY <1>1, <1>2

\* What comes from outside: corrections of the validators, faults, settings.
LEMMA OutsideInv ==
    ASSUME IInv,
           \/ \E e \in Evses, parent \in Parents \cup {None} : handle_token_validation_result_update(e, parent)
           \/ \E e \in Evses, event \in {"FAULTED", "ERROR_CLEARED"} : handle_permanent_fault(e, event)
           \/ \E c \in Configs : SetConfig(c)
    PROVE  IInv' /\ Exclusive(identifier')
<1>1. ASSUME NEW e \in Evses, NEW parent \in Parents \cup {None},
             handle_token_validation_result_update(e, parent)
      PROVE  IInv' /\ Exclusive(identifier')
  <2>1. [identifier[e] EXCEPT !.parent = parent] \in IdType
    <3>1. identifier[e] \in IdType
      BY Parts
    <3> QED
      BY <3>1 DEF IdType
  <2>2. identifier' \in [Evses -> IdType] /\ Exclusive(identifier')
    BY <1>1, <2>1, Parts DEF handle_token_validation_result_update, Exclusive, IdType
  <2>3. budget' \in [Occasions -> Nat]
    BY <1>1, SpendType DEF handle_token_validation_result_update, Occasions
  <2>4. StateTypeOK'
    BY <1>1, <2>2, <2>3 DEF handle_token_validation_result_update, IInv, StateTypeOK, timerVars, IdType
  <2>5. AllGood(charger)' /\ WaitsForPlugIn(thread)'
    BY <1>1, Parts DEF handle_token_validation_result_update, AllGood, WaitsForPlugIn
  <2> QED
    BY <2>2, <2>4, <2>5 DEF IInv
<1>2. ASSUME NEW e \in Evses, NEW event \in {"FAULTED", "ERROR_CLEARED"}, handle_permanent_fault(e, event)
      PROVE  IInv' /\ Exclusive(identifier')
  <2>1. connector' \in [Evses -> ConnectorState]
    BY <1>2, SubmitType DEF handle_permanent_fault
  <2>2. budget' \in [Occasions -> Nat]
    BY <1>2, SpendType DEF handle_permanent_fault, Occasions
  <2>3. StateTypeOK'
    BY <1>2, <2>1, <2>2 DEF handle_permanent_fault, IInv, StateTypeOK, timerVars
  <2>4. AllGood(charger)' /\ WaitsForPlugIn(thread)' /\ Exclusive(identifier')
    BY <1>2, Parts DEF handle_permanent_fault, AllGood, WaitsForPlugIn, Exclusive
  <2> QED
    BY <2>3, <2>4 DEF IInv
<1>3. ASSUME NEW c \in Configs, SetConfig(c) PROVE IInv' /\ Exclusive(identifier')
  <2>1. budget' \in [Occasions -> Nat]
    BY <1>3, SpendType DEF SetConfig, Occasions
  <2>2. StateTypeOK'
    BY <1>3, <2>1 DEF SetConfig, IInv, StateTypeOK, authVars, timerVars
  <2>3. AllGood(charger)' /\ WaitsForPlugIn(thread)' /\ Exclusive(identifier')
    BY <1>3, Parts DEF SetConfig, AllGood, WaitsForPlugIn, Exclusive, authVars
  <2> QED
    BY <2>2, <2>3 DEF IInv
<1> QED
  BY <1>1, <1>2, <1>3

-----------------------------------------------------------------------------
(* The theorems.                                                           *)

\* The invariant holds when the module starts.
LEMMA InitInv == Init => IInv
<1> SUFFICES ASSUME Init PROVE IInv
  OBVIOUS
<1>1. FreshCharger \in ChargerType /\ FreshCharger.out = <<>> /\ FreshCharger.transaction = FALSE
  BY DEF FreshCharger, ChargerType, EvseState
<1>2. NoId \in IdType /\ IdleThread \in ThreadType /\ IdleThread.pc = "idle"
  BY IdleThreadType DEF NoId, IdType
<1>3. StateTypeOK
  BY <1>1, <1>2 DEF Init, StateTypeOK, ConnectorState, NoRequest, IdType, ThreadType
<1>4. Good(FreshCharger, FALSE)
  BY <1>1 DEF Good, Known
<1>5. AllGood(charger) /\ WaitsForPlugIn(thread)
  BY <1>2, <1>4 DEF Init, AllGood, WaitsForPlugIn
<1> QED
  BY <1>3, <1>5 DEF IInv

\* Every step keeps the invariant and grants only free EVSEs with FindFirst.
LEMMA NextInv == IInv /\ [Next]_vars => IInv' /\ Exclusive(identifier')
<1> SUFFICES ASSUME IInv, [Next]_vars PROVE IInv' /\ Exclusive(identifier')
  OBVIOUS
<1>1. CASE UNCHANGED vars
  <2>1. StateTypeOK'
    BY <1>1 DEF IInv, StateTypeOK, vars, authVars, timerVars
  <2>2. AllGood(charger)' /\ WaitsForPlugIn(thread)' /\ Exclusive(identifier')
    BY <1>1, Parts DEF AllGood, WaitsForPlugIn, Exclusive, vars, authVars
  <2> QED
    BY <2>1, <2>2 DEF IInv
<1>2. CASE \E s \in Threads : TokenStep(s) \/ \E t \in Tokens : on_token(s, t)
  BY <1>2, TokenInv
<1>3. CASE \/ \E request \in Requests : handle_withdraw_authorization(request)
           \/ ProcessingFinished
  BY <1>3, WithdrawInv
<1>4. CASE \E e \in Evses : EvseStep(e)
  BY <1>4, TimeoutInv, EventInv, ChargersInv DEF EvseStep
<1>5. CASE \E e \in Evses : PlugIn(e) \/ Unplug(e) \/ DisableEvse(e) \/ EnableEvse(e)
  BY <1>5, ChargersInv
<1>6. CASE \/ \E e \in Evses, parent \in Parents \cup {None} :
                 handle_token_validation_result_update(e, parent)
           \/ \E e \in Evses, event \in {"FAULTED", "ERROR_CLEARED"} : handle_permanent_fault(e, event)
           \/ \E c \in Configs : SetConfig(c)
  BY <1>6, OutsideInv
<1> QED
  BY <1>1, <1>2, <1>3, <1>4, <1>5, <1>6 DEF Next

\* handle_session_event and the charger: what Auth believes of an EVSE's
\* transaction is right once the events on their way are handled.
THEOREM TransactionCorrect == Spec => []TransactionIsKnown
<1>1. IInv => TransactionIsKnown
  BY DEF IInv, AllGood, Good, Known, TransactionIsKnown, TransactionEvents, TransactionEvent
<1> QED
  BY <1>1, InitInv, NextInv, PTL DEF Spec

\* handle_token: with FindFirst an EVSE that a token holds is not given to
\* another one before it is released.
THEOREM GrantCorrect == Spec => GrantIsExclusive
<1>1. IInv /\ [Next]_vars =>
        [\A e \in Evses :
            /\ identifier[e].token # None
            /\ identifier'[e].token # identifier[e].token
            /\ config.algorithm = "FindFirst"
            => identifier'[e].token = None]_vars
  BY NextInv DEF Exclusive
<1> QED
  BY <1>1, InitInv, NextInv, PTL DEF Spec, GrantIsExclusive

-----------------------------------------------------------------------------
(* The plug-in queue: the order of the events on their way.                *)

\* Between two session starts on their way there is an end, and after the last
\* one too if there is no session.
Ordered(c) ==
    /\ \A i, k \in DOMAIN c.out :
          i < k /\ c.out[i] = "SessionStarted" /\ c.out[k] = "SessionStarted"
          => \E j \in DOMAIN c.out : i < j /\ j < k /\ c.out[j] = "SessionFinished"
    /\ ~c.session => \A i \in DOMAIN c.out :
          c.out[i] = "SessionStarted" => \E j \in DOMAIN c.out : i < j /\ c.out[j] = "SessionFinished"

\* The end of the session whose plug-in is in the queue comes before the next
\* start, and is on its way if there is no session.
Awaited(c) ==
    /\ \A i \in DOMAIN c.out :
          c.out[i] = "SessionStarted" => \E j \in DOMAIN c.out : j < i /\ c.out[j] = "SessionFinished"
    /\ ~c.session => \E j \in DOMAIN c.out : c.out[j] = "SessionFinished"

Fine(c) == c \in ChargerType /\ Ordered(c)

\* The charger c may become d, whether its plug-in is in the queue or not.
MayBecome(c, d) == Fine(d) /\ (Awaited(c) => Awaited(d))

\* Doing nothing.
LEMMA FineSelf == ASSUME NEW c, Fine(c) PROVE MayBecome(c, c)
  BY DEF MayBecome

\* One thing after the other.
LEMMA FineThen ==
    ASSUME NEW c, NEW d, NEW f, MayBecome(c, d), MayBecome(d, f)
    PROVE  MayBecome(c, f)
  BY DEF MayBecome

\* A change that is no event and no end of a session.
LEMMA FineSame ==
    ASSUME NEW c, Fine(c), NEW d \in ChargerType, d.out = c.out, d.session = c.session \/ d.session = TRUE
    PROVE  MayBecome(c, d)
  BY DEF MayBecome, Fine, Ordered, Awaited

\* One more event on its way.
LEMMA SignalFacts ==
    ASSUME NEW c \in ChargerType, NEW event \in SessionEvent
    PROVE  LET d == Signal(c, event)
               n == Len(c.out)
           IN  /\ d \in ChargerType /\ d.session = c.session /\ n \in Nat
               /\ DOMAIN c.out = 1..n /\ DOMAIN d.out = 1..(n + 1) /\ d.out[n + 1] = event
               /\ \A i \in 1..n : d.out[i] = c.out[i]
               /\ \A i \in 1..n : i \in 1..(n + 1) /\ i < n + 1
               /\ \A i \in 1..(n + 1) : i = n + 1 \/ (i \in 1..n /\ i # n + 1)
<1>1. c.out \in Seq(SessionEvent)
  BY DEF ChargerType
<1>2. Append(c.out, event) \in Seq(SessionEvent)
  BY <1>1
<1>3. Signal(c, event) \in ChargerType
  BY <1>2 DEF Signal, ChargerType
<1>4. Signal(c, event).out = Append(c.out, event) /\ Signal(c, event).session = c.session
  BY DEF Signal, ChargerType
<1>5. /\ Len(c.out) \in Nat /\ DOMAIN c.out = 1..Len(c.out)
      /\ DOMAIN Append(c.out, event) = 1..(Len(c.out) + 1)
      /\ Append(c.out, event)[Len(c.out) + 1] = event
      /\ \A i \in 1..Len(c.out) : Append(c.out, event)[i] = c.out[i]
  BY <1>1
<1>6. ASSUME NEW n \in Nat
      PROVE  /\ \A i \in 1..n : i \in 1..(n + 1) /\ i < n + 1
             /\ \A i \in 1..(n + 1) : i = n + 1 \/ (i \in 1..n /\ i # n + 1)
  OBVIOUS
<1> QED
  BY <1>3, <1>4, <1>5, <1>6

\* An event that neither starts nor ends a session.
LEMMA FineSignal ==
    ASSUME NEW c, Fine(c), NEW event \in SessionEvent \ {"SessionStarted", "SessionFinished"}
    PROVE  MayBecome(c, Signal(c, event))
<1> DEFINE d == Signal(c, event)
           n == Len(c.out)
<1>0. c \in ChargerType /\ Ordered(c)
  BY DEF Fine
<1>1. /\ d \in ChargerType /\ d.session = c.session /\ n \in Nat
      /\ DOMAIN c.out = 1..n /\ DOMAIN d.out = 1..(n + 1) /\ d.out[n + 1] = event
      /\ \A i \in 1..n : d.out[i] = c.out[i]
      /\ \A i \in 1..n : i \in 1..(n + 1)
      /\ \A i \in 1..(n + 1) : i = n + 1 \/ i \in 1..n
  BY <1>0, SignalFacts
<1> HIDE DEF d, n
<1>2. \A i \in DOMAIN d.out : d.out[i] = "SessionStarted" => i \in DOMAIN c.out /\ c.out[i] = "SessionStarted"
  BY <1>1
<1>3. \A i \in DOMAIN c.out : c.out[i] = "SessionFinished" => i \in DOMAIN d.out /\ d.out[i] = "SessionFinished"
  BY <1>1
<1>4. Ordered(d)
  BY <1>0, <1>1, <1>2, <1>3 DEF Ordered
<1>5. Awaited(c) => Awaited(d)
  BY <1>1, <1>2, <1>3 DEF Awaited
<1> QED
  BY <1>1, <1>4, <1>5 DEF MayBecome, Fine, d

\* The end of a session.
LEMMA FineStop ==
    ASSUME NEW c, Fine(c)
    PROVE  MayBecome(c, stop_session(c))
<1> DEFINE f == [c EXCEPT !.session = FALSE, !.authorized = FALSE, !.cancelled = FALSE]
           d == Signal(f, "SessionFinished")
           n == Len(f.out)
<1>0. c \in ChargerType /\ Ordered(c)
  BY DEF Fine
<1>a. f \in ChargerType /\ f.out = c.out
  BY <1>0 DEF ChargerType
<1>1. /\ d \in ChargerType /\ n \in Nat
      /\ DOMAIN f.out = 1..n /\ DOMAIN d.out = 1..(n + 1) /\ d.out[n + 1] = "SessionFinished"
      /\ \A i \in 1..n : d.out[i] = f.out[i]
      /\ \A i \in 1..n : i \in 1..(n + 1) /\ i < n + 1
      /\ \A i \in 1..(n + 1) : i = n + 1 \/ i \in 1..n
  BY <1>a, SignalFacts DEF SessionEvent
<1>b. d = stop_session(c)
  BY DEF stop_session
<1> HIDE DEF d, n, f
<1>2. \A i \in DOMAIN d.out : d.out[i] = "SessionStarted"
         => i \in DOMAIN c.out /\ c.out[i] = "SessionStarted" /\ i < n + 1
  BY <1>1, <1>a
<1>3. \A i \in DOMAIN c.out : c.out[i] = "SessionFinished" => i \in DOMAIN d.out /\ d.out[i] = "SessionFinished"
  BY <1>1, <1>a
<1>c. n + 1 \in DOMAIN d.out /\ d.out[n + 1] = "SessionFinished"
  BY <1>1
<1>4. Ordered(d)
  BY <1>0, <1>2, <1>3, <1>c DEF Ordered
<1>5. Awaited(c) => Awaited(d)
  BY <1>2, <1>3, <1>c DEF Awaited
<1> QED
  BY <1>1, <1>4, <1>5, <1>b DEF MayBecome, Fine

\* The start of a session with a plug-in.
LEMMA FineStart ==
    ASSUME NEW c, Fine(c), ~c.session
    PROVE  MayBecome(c, Signal(start_session(c), "SessionStarted"))
<1> DEFINE f == start_session(c)
           d == Signal(f, "SessionStarted")
           n == Len(f.out)
<1>0. c \in ChargerType /\ Ordered(c)
  BY DEF Fine
<1>a. f \in ChargerType /\ f.out = c.out /\ f.session = TRUE
  BY <1>0 DEF ChargerType, start_session
<1>1. /\ d \in ChargerType /\ n \in Nat /\ d.session = f.session
      /\ DOMAIN f.out = 1..n /\ DOMAIN d.out = 1..(n + 1) /\ d.out[n + 1] = "SessionStarted"
      /\ \A i \in 1..n : d.out[i] = f.out[i]
      /\ \A i \in 1..n : i \in 1..(n + 1) /\ i < n + 1
      /\ \A i \in 1..(n + 1) : i = n + 1 \/ i \in 1..n
  BY <1>a, SignalFacts DEF SessionEvent
<1> HIDE DEF d, n, f
<1>2. \A i \in DOMAIN d.out : i = n + 1 \/ (i \in DOMAIN c.out /\ c.out[i] = d.out[i])
  BY <1>1, <1>a
<1>3. \A i \in DOMAIN c.out : /\ i < n + 1 /\ i \in DOMAIN d.out
                              /\ c.out[i] = "SessionFinished" => d.out[i] = "SessionFinished"
  BY <1>1, <1>a
<1>4. ASSUME NEW i \in DOMAIN d.out, NEW k \in DOMAIN d.out,
             i < k, d.out[i] = "SessionStarted", d.out[k] = "SessionStarted"
      PROVE  \E j \in DOMAIN d.out : i < j /\ j < k /\ d.out[j] = "SessionFinished"
  <2>1. i \in DOMAIN c.out /\ c.out[i] = "SessionStarted"
    BY <1>1, <1>2, <1>4
  <2>2. CASE k = n + 1
    <3>1. PICK j \in DOMAIN c.out : i < j /\ c.out[j] = "SessionFinished"
      BY <1>0, <2>1 DEF Ordered
    <3> QED
      BY <1>3, <2>2, <3>1
  <2>3. CASE k # n + 1
    <3>1. k \in DOMAIN c.out /\ c.out[k] = "SessionStarted"
      BY <1>2, <1>4, <2>3
    <3>2. PICK j \in DOMAIN c.out : i < j /\ j < k /\ c.out[j] = "SessionFinished"
      BY <1>0, <1>4, <2>1, <3>1 DEF Ordered
    <3> QED
      BY <1>3, <3>2
  <2> QED
    BY <2>2, <2>3
<1>5. Ordered(d)
  BY <1>1, <1>4, <1>a DEF Ordered
<1>6. ASSUME Awaited(c), NEW i \in DOMAIN d.out, d.out[i] = "SessionStarted"
      PROVE  \E j \in DOMAIN d.out : j < i /\ d.out[j] = "SessionFinished"
  <2>1. CASE i = n + 1
    <3>1. PICK j \in DOMAIN c.out : c.out[j] = "SessionFinished"
      BY <1>6 DEF Awaited
    <3> QED
      BY <1>3, <2>1, <3>1
  <2>2. CASE i # n + 1
    <3>1. i \in DOMAIN c.out /\ c.out[i] = "SessionStarted"
      BY <1>2, <1>6, <2>2
    <3>2. PICK j \in DOMAIN c.out : j < i /\ c.out[j] = "SessionFinished"
      BY <1>6, <3>1 DEF Awaited
    <3> QED
      BY <1>3, <3>2
  <2> QED
    BY <2>1, <2>2
<1>7. Awaited(c) => Awaited(d)
  BY <1>1, <1>6, <1>a DEF Awaited
<1> QED
  BY <1>1, <1>5, <1>7 DEF MayBecome, Fine, d, f

\* Handling the oldest event: what is left is in order; if it was a start, the
\* end of this session is awaited; if it was no end, what was awaited still is.
LEMMA FineHandled ==
    ASSUME NEW c, Fine(c), c.out # <<>>
    PROVE  LET d == [c EXCEPT !.out = Tail(@)]
           IN  /\ Fine(d)
               /\ Head(c.out) = "SessionStarted" => Awaited(d) /\ ~Awaited(c)
               /\ Awaited(c) /\ Head(c.out) # "SessionFinished" => Awaited(d)
<1> DEFINE d == [c EXCEPT !.out = Tail(@)]
           n == Len(c.out)
<1>0. c \in ChargerType /\ Ordered(c)
  BY DEF Fine
<1>1. d \in ChargerType /\ d.out = Tail(c.out) /\ d.session = c.session
  <2>1. c.out \in Seq(SessionEvent)
    BY <1>0 DEF ChargerType
  <2>2. Tail(c.out) \in Seq(SessionEvent)
    BY <2>1
  <2> QED
    BY <1>0, <2>2 DEF ChargerType
<1>2. /\ n \in Nat \ {0} /\ DOMAIN c.out = 1..n /\ DOMAIN d.out = 1..(n - 1)
      /\ \A i \in 1..(n - 1) : d.out[i] = c.out[i + 1]
      /\ Head(c.out) = c.out[1]
  BY <1>0, <1>1 DEF ChargerType
<1> HIDE DEF d, n
<1>3. \A i \in DOMAIN d.out : i + 1 \in DOMAIN c.out /\ d.out[i] = c.out[i + 1] /\ i \in Nat /\ 1 < i + 1
  BY <1>2
<1>4. \A j \in DOMAIN c.out : j \in Nat /\ (j # 1 => j - 1 \in DOMAIN d.out /\ d.out[j - 1] = c.out[j])
  BY <1>2
<1>5. 1 \in DOMAIN c.out
  BY <1>2
<1>6. ASSUME NEW i \in DOMAIN d.out, NEW k \in DOMAIN d.out,
             i < k, d.out[i] = "SessionStarted", d.out[k] = "SessionStarted"
      PROVE  \E j \in DOMAIN d.out : i < j /\ j < k /\ d.out[j] = "SessionFinished"
  <2>1. /\ i + 1 \in DOMAIN c.out /\ k + 1 \in DOMAIN c.out /\ i + 1 < k + 1 /\ i \in Nat /\ k \in Nat
        /\ c.out[i + 1] = "SessionStarted" /\ c.out[k + 1] = "SessionStarted"
    BY <1>3, <1>6
  <2>2. PICK j \in DOMAIN c.out : i + 1 < j /\ j < k + 1 /\ c.out[j] = "SessionFinished"
    BY <1>0, <2>1 DEF Ordered
  <2>3. j \in Nat /\ j # 1
    BY <1>4, <2>1, <2>2
  <2>4. j - 1 \in DOMAIN d.out /\ d.out[j - 1] = "SessionFinished" /\ i < j - 1 /\ j - 1 < k
    BY <1>4, <2>1, <2>2, <2>3
  <2> QED
    BY <2>4
<1>7. ASSUME ~d.session, NEW i \in DOMAIN d.out, d.out[i] = "SessionStarted"
      PROVE  \E j \in DOMAIN d.out : i < j /\ d.out[j] = "SessionFinished"
  <2>1. i + 1 \in DOMAIN c.out /\ i \in Nat /\ c.out[i + 1] = "SessionStarted"
    BY <1>3, <1>7
  <2>2. PICK j \in DOMAIN c.out : i + 1 < j /\ c.out[j] = "SessionFinished"
    BY <1>0, <1>1, <1>7, <2>1 DEF Ordered
  <2>3. j \in Nat /\ j # 1
    BY <1>4, <2>1, <2>2
  <2>4. j - 1 \in DOMAIN d.out /\ d.out[j - 1] = "SessionFinished" /\ i < j - 1
    BY <1>4, <2>1, <2>2, <2>3
  <2> QED
    BY <2>4
<1>8. Fine(d)
  BY <1>1, <1>6, <1>7 DEF Fine, Ordered
\* After the first event there is an end before every start.
<1>9. ASSUME \A i \in DOMAIN c.out : 1 < i /\ c.out[i] = "SessionStarted"
                => \E j \in DOMAIN c.out : 1 < j /\ j < i /\ c.out[j] = "SessionFinished",
             ~c.session => \E j \in DOMAIN c.out : 1 < j /\ c.out[j] = "SessionFinished"
      PROVE  Awaited(d)
  <2>1. ASSUME NEW i \in DOMAIN d.out, d.out[i] = "SessionStarted"
        PROVE  \E j \in DOMAIN d.out : j < i /\ d.out[j] = "SessionFinished"
    <3>1. i + 1 \in DOMAIN c.out /\ i \in Nat /\ 1 < i + 1 /\ c.out[i + 1] = "SessionStarted"
      BY <1>3, <2>1
    <3>2. PICK j \in DOMAIN c.out : 1 < j /\ j < i + 1 /\ c.out[j] = "SessionFinished"
      BY <1>9, <3>1
    <3>3. j \in Nat /\ j # 1
      BY <1>4, <3>2
    <3>4. j - 1 \in DOMAIN d.out /\ d.out[j - 1] = "SessionFinished" /\ j - 1 < i
      BY <1>4, <3>1, <3>2, <3>3
    <3> QED
      BY <3>4
  <2>2. ASSUME ~d.session PROVE \E j \in DOMAIN d.out : d.out[j] = "SessionFinished"
    <3>1. PICK j \in DOMAIN c.out : 1 < j /\ c.out[j] = "SessionFinished"
      BY <1>1, <1>9, <2>2
    <3>2. j # 1
      BY <1>4, <3>1
    <3> QED
      BY <1>4, <3>1, <3>2
  <2> QED
    BY <2>1, <2>2 DEF Awaited
<1>10. ASSUME Head(c.out) = "SessionStarted" PROVE Awaited(d) /\ ~Awaited(c)
  <2>1. c.out[1] = "SessionStarted"
    BY <1>2, <1>10
  <2>2. Awaited(d)
    BY <1>0, <1>5, <1>9, <2>1 DEF Ordered
  <2>3. \A j \in DOMAIN c.out : ~(j < 1)
    BY <1>2
  <2> QED
    BY <1>5, <2>1, <2>2, <2>3 DEF Awaited
<1>11. ASSUME Awaited(c), Head(c.out) # "SessionFinished" PROVE Awaited(d)
  <2>1. \A j \in DOMAIN c.out : c.out[j] = "SessionFinished" => 1 < j
    BY <1>2, <1>11
  <2> QED
    BY <1>9, <1>11, <2>1 DEF Awaited
<1> QED
  BY <1>8, <1>10, <1>11 DEF d

\* The end of a transaction.
LEMMA FineStopTransaction ==
    ASSUME NEW c, Fine(c)
    PROVE  MayBecome(c, stop_transaction(c))
<1> DEFINE d == [c EXCEPT !.transaction = FALSE]
<1>1. d \in ChargerType /\ d.out = c.out /\ d.session = c.session
  BY DEF Fine, ChargerType
<1>2. MayBecome(c, d)
  BY <1>1, FineSame
<1>3. MayBecome(d, Signal(d, "TransactionFinished"))
  BY <1>2, FineSignal DEF SessionEvent, MayBecome
<1>4. MayBecome(c, Signal(d, "TransactionFinished"))
  BY <1>2, <1>3, FineThen
<1> QED
  BY <1>4, FineSelf DEF stop_transaction

\* The start of a transaction.
LEMMA FineStartCharging ==
    ASSUME NEW c, Fine(c), NEW state \in EvseState
    PROVE  MayBecome(c, StartCharging(c, state))
<1> DEFINE d == [c EXCEPT !.transaction = TRUE]
           g == IF c.transaction THEN c ELSE start_transaction(c)
           f == [g EXCEPT !.state = state]
<1>1. d \in ChargerType /\ d.out = c.out /\ d.session = c.session
  BY DEF Fine, ChargerType
<1>2. MayBecome(c, d)
  BY <1>1, FineSame
<1>3. MayBecome(d, Signal(d, "TransactionStarted"))
  BY <1>2, FineSignal DEF SessionEvent, MayBecome
<1>4. MayBecome(c, start_transaction(c))
  BY <1>2, <1>3, FineThen DEF start_transaction
<1>5. MayBecome(c, g)
  BY <1>4, FineSelf
<1> HIDE DEF g
<1>6. g \in ChargerType /\ Fine(g)
  BY <1>5 DEF MayBecome, Fine
<1>7. f \in ChargerType /\ f.out = g.out /\ f.session = g.session
  BY <1>6 DEF ChargerType
<1>8. MayBecome(g, f)
  BY <1>6, <1>7, FineSame
<1>9. MayBecome(c, f)
  BY <1>5, <1>8, FineThen
<1> QED
  BY <1>9 DEF StartCharging, g

\* deauthorize.
LEMMA FineDeauthorize ==
    ASSUME NEW c, Fine(c)
    PROVE  MayBecome(c, deauthorize(c))
<1> DEFINE d == Signal(c, "Deauthorized")
<1>1. MayBecome(c, d)
  BY FineSignal DEF SessionEvent
<1>2. MayBecome(d, stop_session(d))
  BY <1>1, FineStop DEF MayBecome
<1>3. MayBecome(c, stop_session(d))
  BY <1>1, <1>2, FineThen
<1> QED
  BY <1>1, <1>3, FineSelf DEF deauthorize

\* authorize: a session it starts has no plug-in yet.
LEMMA FineAuthorize ==
    ASSUME NEW c, Fine(c)
    PROVE  MayBecome(c, authorize(c))
<1> DEFINE d == [(IF c.session THEN c ELSE start_session(c)) EXCEPT !.authorized = TRUE]
<1>1. d \in ChargerType /\ d.out = c.out /\ (d.session = c.session \/ d.session = TRUE)
  BY DEF Fine, ChargerType, start_session
<1>2. MayBecome(c, d)
  BY <1>1, FineSame
<1> QED
  BY <1>2, FineSelf DEF authorize

\* cancel_transaction.
LEMMA FineCancel ==
    ASSUME NEW c, Fine(c)
    PROVE  MayBecome(c, cancel_transaction(c))
<1>1. /\ cancel_transaction(c) \in ChargerType /\ cancel_transaction(c).out = c.out
      /\ cancel_transaction(c).session = c.session
  BY DEF Fine, ChargerType, cancel_transaction
<1> QED
  BY <1>1, FineSame

\* Another state of the charger, without an event.
LEMMA FineState ==
    ASSUME NEW c, Fine(c), NEW state \in EvseState
    PROVE  MayBecome(c, [c EXCEPT !.state = state])
<1> DEFINE d == [c EXCEPT !.state = state]
<1>1. d \in ChargerType /\ d.out = c.out /\ d.session = c.session
  BY DEF Fine, ChargerType
<1> QED
  BY <1>1, FineSame

\* Finished.
LEMMA FineFinish ==
    ASSUME NEW c, Fine(c)
    PROVE  MayBecome(c, Finish(c))
<1> DEFINE f == [stop_transaction(c) EXCEPT !.state = "Finished"]
           d == [stop_session(f) EXCEPT !.state = "Disabled"]
           i == [stop_session(f) EXCEPT !.state = "Idle"]
<1>0. {"Finished", "Disabled", "Idle"} \subseteq EvseState
  BY DEF EvseState
<1>1. MayBecome(c, f) /\ Fine(f)
  <2>1. MayBecome(c, stop_transaction(c))
    BY FineStopTransaction
  <2>2. MayBecome(stop_transaction(c), f)
    BY <1>0, <2>1, FineState DEF MayBecome
  <2> QED
    BY <2>1, <2>2, FineThen DEF MayBecome
<1> HIDE DEF f
<1>2. MayBecome(c, stop_session(f)) /\ Fine(stop_session(f))
  BY <1>1, FineStop, FineThen DEF MayBecome
<1>3. MayBecome(stop_session(f), d) /\ MayBecome(stop_session(f), i)
  BY <1>0, <1>2, FineState
<1>4. MayBecome(c, d) /\ MayBecome(c, i) /\ Fine(d)
  BY <1>2, <1>3, FineThen DEF MayBecome
<1> HIDE DEF d, i
<1>5. MayBecome(d, Signal(d, "Disabled"))
  BY <1>4, FineSignal DEF SessionEvent
<1>6. MayBecome(c, Signal(d, "Disabled"))
  BY <1>4, <1>5, FineThen
<1> QED
  BY <1>1, <1>4, <1>6 DEF Finish, f, d, i

\* run_state_machine.
LEMMA FineRun ==
    ASSUME NEW c, Fine(c)
    PROVE  MayBecome(c, run_state_machine(c))
<1> DEFINE d == [c EXCEPT !.state = "Disabled"]
<1>1. MayBecome(c, d)
  BY FineState DEF EvseState
<1>2. MayBecome(d, Signal(d, "Disabled"))
  BY <1>1, FineSignal DEF SessionEvent, MayBecome
<1>3. MayBecome(c, Signal(d, "Disabled"))
  BY <1>1, <1>2, FineThen
<1> QED
  BY <1>3, FineFinish, FineSelf DEF run_state_machine

\* The EV is plugged in.
LEMMA FinePluggedIn ==
    ASSUME NEW c, Fine(c)
    PROVE  MayBecome(c, CarPluggedIn(c))
<1> DEFINE w == [c EXCEPT !.state = "WaitingForAuthentication", !.plugged = TRUE]
<1>1. w \in ChargerType /\ w.out = c.out /\ w.session = c.session
  BY DEF Fine, ChargerType, EvseState
<1>2. MayBecome(c, w) /\ Fine(w)
  BY <1>1, FineSame DEF MayBecome
<1>3. ASSUME ~c.session PROVE MayBecome(c, Signal(start_session(w), "SessionStarted"))
  <2>1. MayBecome(w, Signal(start_session(w), "SessionStarted"))
    BY <1>1, <1>2, <1>3, FineStart
  <2> QED
    BY <1>2, <2>1, FineThen
<1> QED
  BY <1>2, <1>3 DEF CarPluggedIn

\* The EV is unplugged, or the EVSE disabled.
LEMMA FineUnplugged ==
    ASSUME NEW c, Fine(c)
    PROVE  MayBecome(c, CarUnplugged(c)) /\ MayBecome(c, Disable(c))
<1> DEFINE u == [c EXCEPT !.plugged = FALSE]
           d == [c EXCEPT !.enabled = FALSE, !.disable_requested = TRUE]
<1>1. /\ u \in ChargerType /\ u.out = c.out /\ u.session = c.session
      /\ d \in ChargerType /\ d.out = c.out /\ d.session = c.session
  BY DEF Fine, ChargerType
<1>2. MayBecome(c, u) /\ MayBecome(c, d) /\ Fine(u) /\ Fine(d)
  BY <1>1, FineSame DEF MayBecome
<1> QED
  BY <1>2, FineRun, FineThen DEF CarUnplugged, Disable

\* The EVSE is enabled.
LEMMA FineEnable ==
    ASSUME NEW c, Fine(c)
    PROVE  MayBecome(c, Enable(c))
<1> DEFINE d == [c EXCEPT !.enabled = TRUE]
           i == [c EXCEPT !.state = "Idle", !.enabled = TRUE, !.disable_requested = FALSE]
<1>1. /\ d \in ChargerType /\ d.out = c.out /\ d.session = c.session
      /\ i \in ChargerType /\ i.out = c.out /\ i.session = c.session
  BY DEF Fine, ChargerType, EvseState
<1>2. MayBecome(c, d) /\ MayBecome(c, i) /\ Fine(d) /\ Fine(i)
  BY <1>1, FineSame DEF MayBecome
<1>a. "Enabled" \in SessionEvent \ {"SessionStarted", "SessionFinished"}
  BY DEF SessionEvent
<1>3. MayBecome(d, Signal(d, "Enabled")) /\ MayBecome(i, Signal(i, "Enabled"))
  BY <1>2, <1>a, FineSignal
<1>4. MayBecome(c, Signal(d, "Enabled")) /\ MayBecome(c, Signal(i, "Enabled")) /\ Fine(Signal(i, "Enabled"))
  BY <1>2, <1>3, FineThen DEF MayBecome
<1>5. MayBecome(i, deauthorize(i)) /\ MayBecome(Signal(i, "Enabled"), deauthorize(Signal(i, "Enabled")))
  BY <1>2, <1>4, FineDeauthorize
<1>6. MayBecome(c, deauthorize(i)) /\ MayBecome(c, deauthorize(Signal(i, "Enabled")))
  BY <1>2, <1>4, <1>5, FineThen
<1> QED
  BY <1>4, <1>6 DEF Enable

-----------------------------------------------------------------------------
(* The plug-in queue: what remove_if leaves.                               *)

\* An EVSE is in the queue once at most.
Distinct(q) == \A i, j \in DOMAIN q : q[i] = q[j] => i = j

\* s is what may be left of the first k entries of the queue without e.
Rest(s, e, k) ==
    /\ s \in Seq(Evses) /\ Distinct(s)
    /\ \A i \in DOMAIN s : s[i] # e /\ \E m \in 1..k : plug_in_queue[m] = s[i]

\* One round of remove_if.
RemoveStep(s, e, k) == IF plug_in_queue[k] = e THEN s ELSE Append(s, plug_in_queue[k])

\* f is the function that WithoutPlugIn defines by recursion.
Removes(f, e) ==
    f = [i \in 0..Len(plug_in_queue) |->
            IF i = 0 THEN <<>>
            ELSE IF plug_in_queue[i] = e THEN f[i - 1] ELSE Append(f[i - 1], plug_in_queue[i])]

\* A round keeps the order and drops e.
LEMMA RestStep ==
    ASSUME plug_in_queue \in Seq(Evses), Distinct(plug_in_queue), NEW e,
           NEW k \in 1..Len(plug_in_queue), NEW s, Rest(s, e, k - 1)
    PROVE  Rest(RemoveStep(s, e, k), e, k)
<1> DEFINE x == plug_in_queue[k]
           t == Append(s, x)
           n == Len(s)
<1>1. /\ Len(plug_in_queue) \in Nat /\ DOMAIN plug_in_queue = 1..Len(plug_in_queue)
      /\ x \in Evses /\ s \in Seq(Evses)
  BY DEF Rest
<1>2. \A m \in 1..(k - 1) : m \in 1..k /\ m \in 1..Len(plug_in_queue) /\ m # k
  BY <1>1
<1>3. k \in 1..k
  BY <1>1
<1>4. \A i \in DOMAIN s : s[i] # e /\ s[i] # x /\ \E m \in 1..k : plug_in_queue[m] = s[i]
  BY <1>1, <1>2 DEF Rest, Distinct
<1>5. CASE x = e
  BY <1>4, <1>5 DEF Rest, RemoveStep
<1>6. CASE x # e
  <2>1. /\ n \in Nat /\ DOMAIN s = 1..n /\ DOMAIN t = 1..(n + 1) /\ t[n + 1] = x
        /\ \A i \in 1..n : t[i] = s[i]
        /\ t \in Seq(Evses)
    BY <1>1
  <2>2. \A i \in 1..(n + 1) : i = n + 1 \/ i \in 1..n
    BY <2>1
  <2> HIDE DEF x, t, n
  <2>3. \A i \in DOMAIN t : i = n + 1 \/ (i \in DOMAIN s /\ t[i] = s[i])
    BY <2>1, <2>2
  <2>4. Distinct(t)
    BY <1>4, <2>1, <2>3 DEF Rest, Distinct
  <2>5. \A i \in DOMAIN t : t[i] # e /\ \E m \in 1..k : plug_in_queue[m] = t[i]
    BY <1>3, <1>4, <1>6, <2>1, <2>3 DEF x
  <2>6. Rest(t, e, k)
    BY <2>1, <2>4, <2>5 DEF Rest
  <2> QED
    BY <1>6, <2>6 DEF RemoveStep, t, x
<1> QED
  BY <1>5, <1>6

\* The recursion of WithoutPlugIn has a solution, and WithoutPlugIn is one.
LEMMA RemovesChosen ==
    ASSUME NEW e, NEW f, Removes(f, e)
    PROVE  \E h : Removes(h, e) /\ WithoutPlugIn(e) = h[Len(plug_in_queue)]
<1> DEFINE h == CHOOSE g : Removes(g, e)
<1>1. Removes(h, e)
  BY Zenon
<1>2. WithoutPlugIn(e) = h[Len(plug_in_queue)]
  BY Zenon DEF WithoutPlugIn, Removes
<1> QED
  BY <1>1, <1>2

\* remove_if leaves a queue without e, without repetitions and with nothing new.
LEMMA WithoutPlugInRest ==
    ASSUME plug_in_queue \in Seq(Evses), Distinct(plug_in_queue), NEW e
    PROVE  Rest(WithoutPlugIn(e), e, Len(plug_in_queue))
<1> DEFINE n == Len(plug_in_queue)
           S == Seq(Evses)
           D == [i \in 1..n |-> [s \in S |-> RemoveStep(s, e, i)]]
<1>0. n \in Nat /\ \A i \in 1..n : plug_in_queue[i] \in Evses
  OBVIOUS
<1>1. \A i \in 1..n : \A s \in S : RemoveStep(s, e, i) \in S
  <2> SUFFICES ASSUME NEW i \in 1..n, NEW s \in S PROVE RemoveStep(s, e, i) \in S
    OBVIOUS
  <2>1. Append(s, plug_in_queue[i]) \in S
    BY <1>0
  <2> QED
    BY <2>1 DEF RemoveStep
<1>2. <<>> \in S
  OBVIOUS
<1> HIDE DEF S
<1>3. \A i \in 1..n : \A s \in S : D[i][s] = RemoveStep(s, e, i)
  OBVIOUS
<1>4. PICK f : Iterates(f, n, S, D, <<>>)
  BY <1>0, <1>1, <1>2, <1>3, CanIterate
<1>5. f \in [0..n -> S] /\ f[0] = <<>> /\ \A i \in 1..n : f[i] = D[i][f[i - 1]]
  BY <1>4 DEF Iterates
<1>6. \A i \in 1..n : i - 1 \in 0..n /\ f[i] = RemoveStep(f[i - 1], e, i)
  <2>1. \A i \in 1..n : i - 1 \in 0..n
    BY <1>0
  <2> HIDE DEF D
  <2> QED
    BY <1>3, <1>5, <2>1
<1>7. f = [i \in 0..n |-> IF i = 0 THEN <<>> ELSE RemoveStep(f[i - 1], e, i)]
  BY <1>0, <1>5, <1>6
<1>8. Removes(f, e)
  BY <1>7 DEF Removes, RemoveStep
<1>9. PICK h : Removes(h, e) /\ WithoutPlugIn(e) = h[n]
  BY <1>8, RemovesChosen
<1>10. h = [i \in 0..n |-> IF i = 0 THEN <<>> ELSE RemoveStep(h[i - 1], e, i)]
  BY <1>9, Zenon DEF Removes, RemoveStep
<1>11. h[0] = <<>> /\ \A i \in 1..n : i - 1 \in 0..n /\ h[i] = RemoveStep(h[i - 1], e, i)
  <2>1. ASSUME NEW i \in 0..n PROVE h[i] = IF i = 0 THEN <<>> ELSE RemoveStep(h[i - 1], e, i)
    BY <1>10, Zenon
  <2>2. 0 \in 0..n /\ \A i \in 1..n : i \in 0..n /\ i # 0 /\ i - 1 \in 0..n
    BY <1>0
  <2> QED
    BY <2>1, <2>2
<1> DEFINE T == {k \in 0..n : ~Rest(h[k], e, k)}
<1>12. T = {}
  <2>1. SUFFICES ASSUME T # {} PROVE FALSE
    BY <2>1
  <2>2. PICK k \in T : \A m \in T : k <= m
    <3>1. T \in SUBSET Nat
      BY <1>0
    <3> HIDE DEF T
    <3> QED
      BY <2>1, <3>1, Least
  <2>3. k # 0
    <3>1. <<>> \in Seq(Evses) /\ DOMAIN <<>> = {}
      OBVIOUS
    <3>2. Rest(<<>>, e, 0)
      BY <3>1 DEF Rest, Distinct
    <3> QED
      BY <1>11, <2>2, <3>2
  <2>4. k \in 1..n /\ k - 1 \in 0..n /\ k - 1 \notin T
    BY <1>0, <2>2, <2>3
  <2>5. Rest(RemoveStep(h[k - 1], e, k), e, k)
    BY <2>4, RestStep
  <2> QED
    BY <1>11, <2>4, <2>5
<1>13. n \in 0..n
  BY <1>0
<1>14. Rest(h[n], e, n)
  BY <1>12, <1>13
<1> QED
  BY <1>9, <1>14

-----------------------------------------------------------------------------
(* The plug-in queue: the invariant.                                       *)

\* The plug-in of e is in the queue and will stay there.
Pending(e) == handler[e] # "SessionFinished" /\ \E i \in DOMAIN plug_in_queue : plug_in_queue[i] = e

PInv ==
    /\ plug_in_queue \in Seq(Evses) /\ Distinct(plug_in_queue)
    /\ \A e \in Evses : Fine(charger[e]) /\ (Pending(e) => Awaited(charger[e]))

\* What every step does that handles no session event.
PlugEffect ==
    /\ \A e \in Evses : MayBecome(charger[e], charger'[e])
    /\ UNCHANGED handler
    /\ UNCHANGED plug_in_queue \/ \E e : plug_in_queue' = WithoutPlugIn(e)

\* What is left of the queue without the plug-in of e.
LEMMA Shrinks ==
    ASSUME PInv, NEW e, plug_in_queue' = WithoutPlugIn(e)
    PROVE  /\ plug_in_queue' \in Seq(Evses) /\ Distinct(plug_in_queue')
           /\ \A i \in DOMAIN plug_in_queue' :
                 /\ plug_in_queue'[i] # e
                 /\ \E m \in DOMAIN plug_in_queue : plug_in_queue[m] = plug_in_queue'[i]
<1>1. Rest(plug_in_queue', e, Len(plug_in_queue))
  BY WithoutPlugInRest DEF PInv
<1>2. DOMAIN plug_in_queue = 1..Len(plug_in_queue)
  BY DEF PInv
<1> QED
  BY <1>1, <1>2 DEF Rest

\* Such a step keeps the invariant.
LEMMA PlugEffectInv == ASSUME PInv, PlugEffect PROVE PInv'
<1>1. /\ plug_in_queue' \in Seq(Evses) /\ Distinct(plug_in_queue')
      /\ \A i \in DOMAIN plug_in_queue' :
            \E m \in DOMAIN plug_in_queue : plug_in_queue[m] = plug_in_queue'[i]
  <2>1. CASE UNCHANGED plug_in_queue
    BY <2>1 DEF PInv
  <2>2. CASE \E e : plug_in_queue' = WithoutPlugIn(e)
    BY <2>2, Shrinks
  <2> QED
    BY <2>1, <2>2 DEF PlugEffect
<1>2. \A e \in Evses : Pending(e)' => Pending(e)
  BY <1>1 DEF Pending, PlugEffect
<1>3. \A e \in Evses : Fine(charger'[e]) /\ (Awaited(charger[e]) => Awaited(charger'[e]))
  BY DEF PlugEffect, MayBecome
<1>4. \A e \in Evses : Pending(e)' => Awaited(charger'[e])
  BY <1>2, <1>3 DEF PInv
<1> QED
  BY <1>1, <1>3, <1>4 DEF PInv

\* A step that leaves the chargers alone.
LEMMA ChargersStay ==
    ASSUME PInv, UNCHANGED <<charger, handler>>,
           UNCHANGED plug_in_queue \/ \E e : plug_in_queue' = WithoutPlugIn(e)
    PROVE  PlugEffect
  BY FineSelf DEF PInv, PlugEffect

\* A step that changes one charger.
LEMMA OneCharger ==
    ASSUME IInv, PInv, NEW e, NEW d, MayBecome(charger[e], d) \/ e \notin Evses,
           charger' = [charger EXCEPT ![e] = d], UNCHANGED handler,
           UNCHANGED plug_in_queue \/ \E f : plug_in_queue' = WithoutPlugIn(f)
    PROVE  PlugEffect
<1>1. charger \in [Evses -> ChargerType]
  BY Parts
<1>2. \A f \in Evses : MayBecome(charger[f], charger'[f])
  BY <1>1, FineSelf DEF PInv
<1> QED
  BY <1>2 DEF PlugEffect

\* A token that is turned away.
LEMMA RefusePlug == ASSUME PInv, NEW s, Refuse(s), OnlyTokens PROVE PlugEffect
  BY ChargersStay DEF Refuse, NoGrant, OnlyTokens

\* A token that stops transactions.
LEMMA StopPlug == ASSUME PInv, NEW s, NEW stops, StopAndReturn(s, stops), OnlyTokens PROVE PlugEffect
<1>1. \A e \in Evses : MayBecome(charger[e], cancel_transaction(charger[e])) /\ MayBecome(charger[e], charger[e])
  BY FineCancel, FineSelf DEF PInv
<1>2. \A e \in Evses : MayBecome(charger[e], charger'[e])
  BY <1>1 DEF StopAndReturn
<1> QED
  BY <1>2 DEF StopAndReturn, NoGrant, OnlyTokens, PlugEffect

\* The end of notify_evse.
LEMMA AuthorizePlug ==
    ASSUME IInv, PInv, NEW s, NEW e, Authorize(s, e), OnlyTokens
    PROVE  PlugEffect
<1>1. MayBecome(charger[e], authorize(charger[e])) \/ e \notin Evses
  BY FineAuthorize DEF PInv
<1>2. charger' = [charger EXCEPT ![e] = authorize(charger[e])]
  BY Parts DEF Authorize
<1>3. UNCHANGED handler /\ plug_in_queue' = WithoutPlugIn(e)
  BY DEF Authorize, OnlyTokens
<1> QED
  BY <1>1, <1>2, <1>3, OneCharger

\* A token whose EVSE is selected.
LEMMA UsePlug ==
    ASSUME IInv, PInv, NEW s, NEW t, NEW e, NEW results, UseEvse(s, t, e, results), OnlyTokens
    PROVE  PlugEffect
<1>1. CASE Refuse(s)
  BY <1>1, RefusePlug
<1>2. CASE Authorize(s, e)
  BY <1>2, AuthorizePlug
<1>3. CASE UNCHANGED <<plug_in_queue, charger>>
  BY <1>3, ChargersStay DEF OnlyTokens
<1> QED
  BY <1>1, <1>2, <1>3 DEF UseEvse, notify_evse

\* A token with the validators' answer.
LEMMA DecidePlug ==
    ASSUME IInv, PInv, NEW s, NEW t, NEW refs, NEW results, Decide(s, t, refs, results), OnlyTokens
    PROVE  PlugEffect
<1>1. CASE \E stops : StopAndReturn(s, stops)
  BY <1>1, StopPlug
<1>2. CASE Refuse(s)
  BY <1>2, RefusePlug
<1>3. CASE \E S : select_evse(s, t, S, results)
  <2>1. CASE NoGrant /\ UNCHANGED charger
    BY <2>1, ChargersStay DEF NoGrant, OnlyTokens
  <2>2. CASE \E e : UseEvse(s, t, e, results)
    BY <2>2, UsePlug
  <2> QED
    BY <1>2, <1>3, <2>1, <2>2 DEF select_evse, Refuse
<1> QED
  BY <1>1, <1>2, <1>3 DEF Decide

\* The steps of the on_token threads.
LEMMA TokenPlug ==
    ASSUME IInv, PInv, NEW s \in Threads, TokenStep(s) \/ \E t \in Tokens : on_token(s, t)
    PROVE  PlugEffect
<1>1. ASSUME NEW t, on_token(s, t) PROVE PlugEffect
  <2>0. OnlyTokens
    BY <1>1 DEF on_token
  <2>1. CASE Refuse(s)
    BY <2>0, <2>1, RefusePlug
  <2>2. CASE \E refs : handle_token(s, t, refs)
    <3>1. CASE \E stops : StopAndReturn(s, stops)
      BY <2>0, <3>1, StopPlug
    <3>2. CASE \E refs : Decide(s, t, refs, PrevalidatedResult(t))
      BY <2>0, <3>2, DecidePlug
    <3>3. CASE NoGrant /\ UNCHANGED charger
      BY <2>0, <3>3, ChargersStay DEF NoGrant, OnlyTokens
    <3> QED
      BY <2>0, <2>1, <2>2, <3>1, <3>2, <3>3 DEF handle_token, Refuse
  <2> QED
    BY <1>1, <2>1, <2>2 DEF on_token
<1>2. ASSUME NEW results, Validated(s, results) PROVE PlugEffect
  BY <1>2, DecidePlug DEF Validated
<1>3. CASE PlugInOrWithdrawn(s)
  BY <1>3, RefusePlug, UsePlug DEF PlugInOrWithdrawn
<1>4. CASE SelectTimeout(s)
  BY <1>4, RefusePlug DEF SelectTimeout
<1>5. CASE Notify(s)
  BY <1>5, AuthorizePlug DEF Notify
<1> QED
  BY <1>1, <1>2, <1>3, <1>4, <1>5 DEF TokenStep

\* Everything a charger does.
LEMMA ChargersPlug ==
    ASSUME IInv, PInv, NEW e \in Evses,
           PlugIn(e) \/ Unplug(e) \/ DisableEvse(e) \/ EnableEvse(e) \/ MainLoop(e)
    PROVE  PlugEffect
<1>0. Fine(charger[e])
  BY DEF PInv
<1>1. ASSUME NEW d, MayBecome(charger[e], d), ChargerStep(e, d) PROVE PlugEffect
  BY <1>1, OneCharger DEF ChargerStep, authVars, timerVars
<1>2. CASE PlugIn(e)
  BY <1>0, <1>1, <1>2, FinePluggedIn DEF PlugIn
<1>3. CASE Unplug(e)
  BY <1>0, <1>1, <1>3, FineUnplugged DEF Unplug
<1>4. CASE DisableEvse(e)
  BY <1>0, <1>1, <1>4, FineUnplugged DEF DisableEvse
<1>5. CASE EnableEvse(e)
  BY <1>0, <1>1, <1>5, FineEnable DEF EnableEvse
<1>6. CASE MainLoop(e)
  <2>1. \A state \in {"Charging", "WaitingForAuthentication"} :
           MayBecome(charger[e], StartCharging(charger[e], state))
    BY <1>0, FineStartCharging DEF EvseState
  <2>2. MayBecome(charger[e], Finish(charger[e]))
    BY <1>0, FineFinish
  <2> QED
    BY <1>1, <1>6, <2>1, <2>2 DEF MainLoop
<1> QED
  BY <1>2, <1>3, <1>4, <1>5, <1>6

\* withdraw_authorization.
LEMMA WithdrawPlug ==
    ASSUME PInv, (\E request \in Requests : handle_withdraw_authorization(request)) \/ ProcessingFinished
    PROVE  PlugEffect
<1>1. UNCHANGED <<handler, plug_in_queue>>
  BY DEF handle_withdraw_authorization, ProcessingFinished, authVars, timerVars
<1>2. CASE UNCHANGED charger
  BY <1>1, <1>2, ChargersStay
<1>3. CASE \E request : Withdraw(request)
  <2>1. \A e \in Evses : /\ MayBecome(charger[e], charger[e])
                         /\ MayBecome(charger[e], cancel_transaction(charger[e]))
                         /\ MayBecome(charger[e], deauthorize(charger[e]))
    BY FineSelf, FineCancel, FineDeauthorize DEF PInv
  <2>2. \A e \in Evses : MayBecome(charger[e], charger'[e])
    BY <1>3, <2>1 DEF Withdraw
  <2> QED
    BY <1>1, <2>2 DEF PlugEffect
<1> QED
  BY <1>2, <1>3 DEF handle_withdraw_authorization, ProcessingFinished

\* Expiring timers and their callbacks.
LEMMA TimeoutPlug ==
    ASSUME IInv, PInv, NEW e \in Evses, Expire(e) \/ BeginTimeout(e) \/ Timeout(e)
    PROVE  PlugEffect
<1>1. CASE Expire(e) \/ BeginTimeout(e)
  BY <1>1, ChargersStay DEF Expire, BeginTimeout, authVars
<1>2. CASE Timeout(e)
  <2>1. MayBecome(charger[e], deauthorize(charger[e]))
    BY FineDeauthorize DEF PInv
  <2>2. charger' = [charger EXCEPT ![e] = deauthorize(charger[e])]
    BY <1>2, Parts DEF Timeout
  <2>3. UNCHANGED handler /\ (UNCHANGED plug_in_queue \/ \E f : plug_in_queue' = WithoutPlugIn(f))
    BY <1>2 DEF Timeout
  <2> QED
    BY <2>1, <2>2, <2>3, OneCharger
<1> QED
  BY <1>1, <1>2

\* The session events: a start finds no plug-in of its EVSE in the queue, and
\* an end leaves none, at once or when the timeout callback has ended.
LEMMA EventPlug ==
    ASSUME IInv, PInv, NEW e \in Evses, handle_session_event(e)
    PROVE  PInv'
<1> DEFINE c == charger[e]
           d == [c EXCEPT !.out = Tail(@)]
           event == Head(c.out)
<1>0. /\ handler[e] = "none" /\ c.out # <<>> /\ Fine(c)
      /\ handler \in [Evses -> {"none", "TransactionStarted", "SessionFinished", "Deauthorized"}]
  BY AuthTypeNow DEF handle_session_event, PInv, AuthType
<1>1. charger' = [charger EXCEPT ![e] = d]
  BY Parts DEF handle_session_event
<1>2. /\ Fine(d)
      /\ event = "SessionStarted" => Awaited(d) /\ ~Awaited(c)
      /\ Awaited(c) /\ event # "SessionFinished" => Awaited(d)
  BY <1>0, FineHandled
<1> HIDE DEF d, event
<1>3. charger'[e] = d /\ \A f \in Evses \ {e} : charger'[f] = charger[f]
  BY <1>1, Parts
<1>4. \A f \in Evses : Fine(charger'[f])
  BY <1>2, <1>3 DEF PInv
<1>5. CASE event = "SessionStarted" /\ SessionStarted(e)
  <2>1. \A i \in DOMAIN plug_in_queue : plug_in_queue[i] # e
    BY <1>0, <1>2, <1>5 DEF PInv, Pending
  <2> DEFINE n == Len(plug_in_queue)
  <2>2. /\ n \in Nat /\ DOMAIN plug_in_queue = 1..n /\ DOMAIN plug_in_queue' = 1..(n + 1)
        /\ plug_in_queue'[n + 1] = e /\ plug_in_queue' \in Seq(Evses)
        /\ \A i \in 1..n : plug_in_queue'[i] = plug_in_queue[i]
    BY <1>5 DEF SessionStarted, PInv
  <2>3. \A i \in 1..(n + 1) : i = n + 1 \/ i \in 1..n
    BY <2>2
  <2> HIDE DEF n
  <2>4. \A i \in DOMAIN plug_in_queue' :
           i = n + 1 \/ (i \in DOMAIN plug_in_queue /\ plug_in_queue'[i] = plug_in_queue[i])
    BY <2>2, <2>3
  <2>5. Distinct(plug_in_queue')
    BY <2>1, <2>2, <2>4 DEF PInv, Distinct
  <2>6. \A f \in Evses : Pending(f)' => f = e \/ Pending(f)
    BY <1>5, <2>2, <2>4 DEF Pending, SessionStarted
  <2>7. \A f \in Evses : Pending(f)' => Awaited(charger'[f])
    BY <1>2, <1>3, <1>5, <2>6 DEF PInv
  <2> QED
    BY <1>4, <2>2, <2>5, <2>7 DEF PInv
<1>6. CASE event = "SessionFinished" /\ SessionFinished(e)
  <2>1. CASE plug_in_queue' = WithoutPlugIn(e) /\ UNCHANGED handler
    <3>1. \A f \in Evses : Pending(f)' => f # e /\ Pending(f)
      BY <2>1, Shrinks DEF Pending
    <3>2. \A f \in Evses : Pending(f)' => Awaited(charger'[f])
      BY <1>3, <3>1 DEF PInv
    <3> QED
      BY <1>4, <2>1, <3>2, Shrinks DEF PInv
  <2>2. CASE handler' = [handler EXCEPT ![e] = "SessionFinished"] /\ UNCHANGED plug_in_queue
    <3>1. \A f \in Evses : Pending(f)' => f # e /\ Pending(f)
      BY <1>0, <2>2 DEF Pending
    <3>2. \A f \in Evses : Pending(f)' => Awaited(charger'[f])
      BY <1>3, <3>1 DEF PInv
    <3> QED
      BY <1>4, <2>2, <3>2 DEF PInv
  <2> QED
    BY <1>6, <2>1, <2>2 DEF SessionFinished, StopTimer, AfterTimeout
<1>7. ASSUME event # "SessionFinished", UNCHANGED plug_in_queue,
             \A f \in Evses \ {e} : handler'[f] = handler[f]
      PROVE  PInv'
  <2>1. \A f \in Evses : Pending(f)' => Pending(f)
    BY <1>0, <1>7 DEF Pending
  <2>2. \A f \in Evses : Pending(f)' => Awaited(charger'[f])
    BY <1>2, <1>3, <1>7, <2>1 DEF PInv
  <2> QED
    BY <1>4, <1>7, <2>2 DEF PInv
<1>8. CASE event = "TransactionStarted" /\ TransactionStarted(e)
  BY <1>0, <1>7, <1>8 DEF TransactionStarted, StopTimer, AfterTimeout
<1>9. CASE event = "Deauthorized" /\ Deauthorized(e)
  BY <1>0, <1>7, <1>9 DEF Deauthorized, StopTimer, AfterTimeout
<1>10. CASE event = "TransactionFinished" /\ TransactionFinished(e)
  BY <1>7, <1>10 DEF TransactionFinished
<1>11. CASE \/ event = "Disabled" /\ Availability(e, "DISABLE")
            \/ event = "Enabled" /\ Availability(e, "ENABLE")
  BY <1>7, <1>11 DEF Availability
<1> QED
  BY <1>5, <1>6, <1>8, <1>9, <1>10, <1>11 DEF handle_session_event, event

\* The handler goes on after the timeout callback it waited for.
LEMMA ResumePlug ==
    ASSUME IInv, PInv, NEW e \in Evses, ResumeHandler(e)
    PROVE  PInv'
<1>0. /\ handler \in [Evses -> {"none", "TransactionStarted", "SessionFinished", "Deauthorized"}]
      /\ handler' = [handler EXCEPT ![e] = "none"] /\ UNCHANGED charger
  BY AuthTypeNow DEF ResumeHandler, AuthType
<1>1. CASE plug_in_queue' = WithoutPlugIn(e)
  <2>1. \A f \in Evses : Pending(f)' => f # e /\ Pending(f)
    BY <1>0, <1>1, Shrinks DEF Pending
  <2>2. \A f \in Evses : Pending(f)' => Awaited(charger'[f])
    BY <1>0, <2>1 DEF PInv
  <2> QED
    BY <1>0, <1>1, <2>2, Shrinks DEF PInv
<1>2. CASE handler[e] # "SessionFinished" /\ UNCHANGED plug_in_queue
  <2>1. \A f \in Evses : Pending(f)' => Pending(f)
    BY <1>0, <1>2 DEF Pending
  <2>2. \A f \in Evses : Pending(f)' => Awaited(charger'[f])
    BY <1>0, <2>1 DEF PInv
  <2> QED
    BY <1>0, <1>2, <2>2 DEF PInv
<1> QED
  BY <1>1, <1>2 DEF ResumeHandler, AfterTimeout

\* The invariant holds when the module starts.
LEMMA InitPlug == Init => PInv
<1> SUFFICES ASSUME Init PROVE PInv
  OBVIOUS
<1>1. FreshCharger \in ChargerType /\ FreshCharger.out = <<>> /\ DOMAIN <<>> = {}
  BY DEF FreshCharger, ChargerType, EvseState
<1>2. Fine(FreshCharger)
  BY <1>1 DEF Fine, Ordered
<1>3. <<>> \in Seq(Evses)
  OBVIOUS
<1> QED
  BY <1>1, <1>2, <1>3 DEF Init, PInv, Distinct, Pending

\* Every step keeps it.
LEMMA NextPlug == IInv /\ PInv /\ [Next]_vars => PInv'
<1> SUFFICES ASSUME IInv, PInv, [Next]_vars PROVE PInv'
  OBVIOUS
<1>1. CASE UNCHANGED vars
  BY <1>1, ChargersStay, PlugEffectInv DEF vars, authVars, timerVars
<1>2. CASE \E s \in Threads : TokenStep(s) \/ \E t \in Tokens : on_token(s, t)
  BY <1>2, TokenPlug, PlugEffectInv
<1>3. CASE \/ \E request \in Requests : handle_withdraw_authorization(request)
           \/ ProcessingFinished
  BY <1>3, WithdrawPlug, PlugEffectInv
<1>4. CASE \E e \in Evses : EvseStep(e)
  BY <1>4, TimeoutPlug, EventPlug, ResumePlug, ChargersPlug, PlugEffectInv DEF EvseStep
<1>5. CASE \E e \in Evses : PlugIn(e) \/ Unplug(e) \/ DisableEvse(e) \/ EnableEvse(e)
  BY <1>5, ChargersPlug, PlugEffectInv
<1>6. CASE \/ \E e \in Evses, parent \in Parents \cup {None} :
                 handle_token_validation_result_update(e, parent)
           \/ \E e \in Evses, event \in {"FAULTED", "ERROR_CLEARED"} : handle_permanent_fault(e, event)
           \/ \E c \in Configs : SetConfig(c)
  <2>1. UNCHANGED <<charger, handler, plug_in_queue>>
    BY <1>6 DEF handle_token_validation_result_update, handle_permanent_fault, SetConfig, authVars, timerVars
  <2> QED
    BY <2>1, ChargersStay, PlugEffectInv
<1> QED
  BY <1>1, <1>2, <1>3, <1>4, <1>5, <1>6 DEF Next

\* Both invariants together, in every state.
LEMMA PlugInvariance == Spec => [](IInv /\ PInv)
  BY InitInv, NextInv, InitPlug, NextPlug, PTL DEF Spec

\* Type correctness of the Auth module, the plug-in queue included: remove_if
\* and the session events leave EVSE ids in it and nothing else.
THEOREM TypesAlways == Spec => []TypeOK
<1>1. IInv /\ PInv => TypeOK
  BY DEF IInv, PInv, TypeOK
<1> QED
  BY <1>1, PlugInvariance, PTL

\* The plug-in queue holds an EVSE once at most, and only while the session of
\* that plug-in lasts or the end of it has not been handled.
THEOREM PlugInsCorrect == Spec => []PlugInsArePending
<1>1. IInv /\ PInv => PlugInsArePending
  <2> SUFFICES ASSUME IInv, PInv PROVE PlugInsArePending
    OBVIOUS
  <2>1. ASSUME NEW i \in DOMAIN plug_in_queue
        PROVE  LET e == plug_in_queue[i]
               IN  \/ charger[e].session
                   \/ handler[e] = "SessionFinished"
                   \/ \E j \in DOMAIN charger[e].out : charger[e].out[j] = "SessionFinished"
    <3>1. plug_in_queue[i] \in Evses
      BY DEF PInv
    <3> QED
      BY <3>1 DEF PInv, Pending, Awaited
  <2> QED
    BY <2>1 DEF PlugInsArePending, PInv, Distinct
<1> QED
  BY <1>1, PlugInvariance, PTL
=============================================================================
