--------------------- MODULE ReservationAgreementProofs ---------------------
(***************************************************************************)
(* Theorems about Reservations, for every value of its constants: Auth and *)
(* the EvseManagers agree on the reservations of the EVSEs.                *)
(***************************************************************************)
EXTENDS ReservationsProofs

-----------------------------------------------------------------------------
(* What an EvseManager still has to report, and how an operation loosens   *)
(* what it keeps of a reservation.                                         *)

Has(c, event) == \E i \in DOMAIN c.out : c.out[i] = event

\* Auth will hear that the reservation at this EVSE is over.
Ending(c) == Has(c, "ReservationEnd") \/ Has(c, "TransactionStarted")

\* No event is lost.
Keeps(c, d) == \A event \in Events : Has(c, event) => Has(d, event)

\* Nothing is left of a reservation that has ended, and an EVSE is only
\* disabled on request.
Proper(c) ==
    /\ ~c.reserved => c.reservation_id = Global /\ ~c.used
    /\ c.state = "Disabled" => c.disable_requested

\* The charger alone has changed; a transaction that has started is reported.
Plain(c, d) ==
    /\ d.reserved = c.reserved /\ d.reservation_id = c.reservation_id /\ d.used = c.used
    /\ Keeps(c, d)
    /\ ~c.transaction /\ d.transaction => Has(d, "TransactionStarted")
    /\ (c.state = "Disabled" => c.disable_requested) => (d.state = "Disabled" => d.disable_requested)

\* The reservation is as it was, or over with Auth about to hear of it.
Loosened(c, d) ==
    /\ Keeps(c, d)
    /\ Proper(c) => Proper(d)
    /\ \/ d.reservation_id = c.reservation_id /\ d.used = c.used /\ (c.reserved => d.reserved)
       \/ d.reservation_id = Global /\ ~d.used /\ (c.reserved => Ending(d))

\* The events that are waiting.
LEMMA EndEvents == "ReservationEnd" \in Events /\ "TransactionStarted" \in Events
  BY EventNames

\* An event is published behind the ones that are waiting.
LEMMA SignalKeeps ==
    ASSUME NEW c \in EvseManagerType, NEW event \in Events
    PROVE  Plain(c, Signal(c, event)) /\ Has(Signal(c, event), event)
<1> DEFINE d == Signal(c, event)
<1>1. c.out \in Seq(Events)
  BY DEF EvseManagerType
<1>2. d = [c EXCEPT !.out = Append(c.out, event)]
  BY DEF Signal
<1>3. /\ d.out = Append(c.out, event) /\ d.reserved = c.reserved /\ d.reservation_id = c.reservation_id
      /\ d.used = c.used /\ d.transaction = c.transaction /\ d.state = c.state
      /\ d.disable_requested = c.disable_requested
  BY <1>2 DEF EvseManagerType
<1> HIDE DEF d
<1>4. /\ DOMAIN d.out = 1..(Len(c.out) + 1) /\ DOMAIN c.out = 1..Len(c.out)
      /\ d.out[Len(c.out) + 1] = event /\ \A i \in 1..Len(c.out) : d.out[i] = c.out[i]
      /\ Len(c.out) \in Nat
  BY <1>1, <1>3
<1>5. Keeps(c, d) /\ Has(d, event)
  BY <1>4 DEF Keeps, Has
<1> QED
  BY <1>3, <1>5 DEF Plain, d

\* One change after another.
LEMMA PlainTrans ==
    ASSUME NEW c, NEW d, NEW x, Plain(c, d), Plain(d, x)
    PROVE  Plain(c, x)
  BY EndEvents DEF Plain, Keeps

\* An operation that touches neither the events nor the reservation.
LEMMA PlainQuiet ==
    ASSUME NEW c, NEW d, d.out = c.out, d.reserved = c.reserved, d.reservation_id = c.reservation_id,
           d.used = c.used, d.transaction => c.transaction,
           (c.state = "Disabled" => c.disable_requested) => (d.state = "Disabled" => d.disable_requested)
    PROVE  Plain(c, d)
  BY DEF Plain, Keeps, Has

\* The start and the end of a session and of a transaction.
LEMMA SessionPlain ==
    ASSUME NEW c \in EvseManagerType
    PROVE  /\ Plain(c, start_session(c)) /\ Plain(c, stop_session(c))
           /\ Plain(c, start_transaction(c)) /\ Plain(c, stop_transaction(c))
           /\ stop_session(c).disable_requested = c.disable_requested
           /\ stop_transaction(c).disable_requested = c.disable_requested
           /\ stop_session(c).state = c.state
           /\ stop_session(c).transaction = c.transaction
<1> DEFINE s == [c EXCEPT !.session = FALSE, !.authorized = FALSE, !.cancelled = FALSE]
           t == [c EXCEPT !.transaction = TRUE]
           u == [c EXCEPT !.transaction = FALSE]
<1>1. Plain(c, c)
  BY PlainQuiet
<1>2. Plain(c, start_session(c))
  <2>1. /\ start_session(c).out = c.out /\ start_session(c).reserved = c.reserved
        /\ start_session(c).reservation_id = c.reservation_id /\ start_session(c).used = c.used
        /\ start_session(c).transaction = c.transaction /\ start_session(c).state = c.state
        /\ start_session(c).disable_requested = c.disable_requested
    BY DEF start_session, EvseManagerType
  <2> QED
    BY <2>1, PlainQuiet
<1>3. s \in EvseManagerType /\ t \in EvseManagerType /\ u \in EvseManagerType
  BY DEF EvseManagerType
<1>4. /\ s.out = c.out /\ s.reserved = c.reserved /\ s.reservation_id = c.reservation_id /\ s.used = c.used
      /\ s.transaction = c.transaction /\ s.state = c.state /\ s.disable_requested = c.disable_requested
  BY DEF EvseManagerType
<1>5. /\ t.out = c.out /\ t.reserved = c.reserved /\ t.reservation_id = c.reservation_id /\ t.used = c.used
      /\ t.state = c.state /\ t.disable_requested = c.disable_requested
  BY DEF EvseManagerType
<1>6. /\ u.out = c.out /\ u.reserved = c.reserved /\ u.reservation_id = c.reservation_id /\ u.used = c.used
      /\ u.transaction = FALSE /\ u.state = c.state /\ u.disable_requested = c.disable_requested
  BY DEF EvseManagerType
<1>7. /\ stop_session(c) = Signal(s, "SessionFinished")
      /\ start_transaction(c) = Signal(t, "TransactionStarted")
      /\ stop_transaction(c) = IF c.transaction THEN Signal(u, "TransactionFinished") ELSE c
  BY DEF stop_session, start_transaction, stop_transaction
<1> HIDE DEF s, t, u
<1>8. \A x \in EvseManagerType, event \in Events :
         /\ Signal(x, event).state = x.state /\ Signal(x, event).disable_requested = x.disable_requested
         /\ Signal(x, event).transaction = x.transaction
  BY DEF Signal, EvseManagerType
<1>9. {"SessionFinished", "TransactionStarted", "TransactionFinished"} \subseteq Events
  BY EventNames
<1>10. Plain(c, stop_session(c))
  BY <1>3, <1>4, <1>7, <1>9, SignalKeeps, PlainQuiet, PlainTrans
<1>11. Plain(c, stop_transaction(c))
  BY <1>1, <1>3, <1>6, <1>7, <1>9, SignalKeeps, PlainQuiet, PlainTrans
<1>12. Plain(c, start_transaction(c))
  <2>1. Plain(t, Signal(t, "TransactionStarted")) /\ Has(Signal(t, "TransactionStarted"), "TransactionStarted")
    BY <1>3, <1>9, SignalKeeps
  <2>2. Keeps(c, t)
    BY <1>5 DEF Keeps, Has
  <2> QED
    BY <1>5, <1>7, <2>1, <2>2 DEF Plain, Keeps
<1> QED
  BY <1>2, <1>3, <1>4, <1>6, <1>7, <1>8, <1>9, <1>10, <1>11, <1>12

\* authorize and deauthorize; neither starts a transaction or changes the state.
LEMMA AuthorizePlain ==
    ASSUME NEW c \in EvseManagerType
    PROVE  /\ Plain(c, authorize(c)) /\ Plain(c, deauthorize(c))
           /\ deauthorize(c).state = c.state /\ deauthorize(c).transaction = c.transaction
<1> DEFINE s == IF c.session THEN c ELSE start_session(c)
           a == [s EXCEPT !.authorized = TRUE]
           d == Signal(c, "Deauthorized")
<1>1. Plain(c, c)
  BY PlainQuiet
<1>2. s \in EvseManagerType /\ Plain(c, s)
  BY <1>1, SessionPlain, SessionType
<1>3. authorize(c) = c \/ authorize(c) = a
  BY DEF authorize
<1> HIDE DEF s
<1>4. /\ a.out = s.out /\ a.reserved = s.reserved /\ a.reservation_id = s.reservation_id /\ a.used = s.used
      /\ a.transaction = s.transaction /\ a.state = s.state /\ a.disable_requested = s.disable_requested
  BY <1>2 DEF EvseManagerType
<1>5. Plain(c, authorize(c))
  BY <1>1, <1>2, <1>3, <1>4, PlainQuiet, PlainTrans
<1>6. d \in EvseManagerType /\ Plain(c, d)
  BY EventNames, SignalKeeps, SignalType
<1>7. d.state = c.state /\ d.transaction = c.transaction
  BY DEF Signal, EvseManagerType
<1>8. deauthorize(c) = c \/ deauthorize(c) = d \/ deauthorize(c) = stop_session(d)
  BY DEF deauthorize
<1> HIDE DEF d
<1>9. Plain(d, stop_session(d)) /\ stop_session(d).state = d.state /\ stop_session(d).transaction = d.transaction
  BY <1>6, SessionPlain
<1> QED
  BY <1>1, <1>5, <1>6, <1>7, <1>8, <1>9, PlainTrans

\* A change of state; to Disabled on request only.
LEMMA StatePlain ==
    ASSUME NEW c \in EvseManagerType, NEW state \in EvseState, state = "Disabled" => c.disable_requested
    PROVE  /\ Plain(c, [c EXCEPT !.state = state]) /\ [c EXCEPT !.state = state] \in EvseManagerType
           /\ [c EXCEPT !.state = state].disable_requested = c.disable_requested
<1> DEFINE d == [c EXCEPT !.state = state]
<1>1. /\ d.out = c.out /\ d.reserved = c.reserved /\ d.reservation_id = c.reservation_id /\ d.used = c.used
      /\ d.transaction = c.transaction /\ d.state = state /\ d.disable_requested = c.disable_requested
  BY DEF EvseManagerType
<1>2. d \in EvseManagerType
  BY StateType
<1> HIDE DEF d
<1>3. Plain(c, d)
  BY <1>1, PlainQuiet
<1> QED
  BY <1>1, <1>2, <1>3 DEF d

\* Finish and run_state_machine.
LEMMA RunPlain ==
    ASSUME NEW c \in EvseManagerType
    PROVE  Plain(c, Finish(c)) /\ Plain(c, run_state_machine(c))
<1> DEFINE t == stop_transaction(c)
           f == [t EXCEPT !.state = "Finished"]
           s == stop_session(f)
           i == [s EXCEPT !.state = "Idle"]
           d == [s EXCEPT !.state = "Disabled"]
           e == [c EXCEPT !.state = "Disabled"]
<1>0. {"Disabled", "Idle", "Finished"} \subseteq EvseState /\ "Disabled" \in Events
  BY EventNames DEF EvseState
<1>1. t \in EvseManagerType /\ Plain(c, t) /\ t.disable_requested = c.disable_requested
  BY SessionPlain, TransactionType
<1>2. Finish(c) = IF c.disable_requested THEN Signal(d, "Disabled") ELSE IF ~c.plugged THEN i ELSE f
  BY DEF Finish
<1> HIDE DEF t
<1>3. Plain(t, f) /\ f \in EvseManagerType /\ f.disable_requested = t.disable_requested
  BY <1>0, <1>1, StatePlain
<1> HIDE DEF f
<1>4. s \in EvseManagerType /\ Plain(f, s) /\ s.disable_requested = f.disable_requested
  BY <1>3, SessionPlain, SessionType
<1> HIDE DEF s
<1>5. Plain(s, i)
  BY <1>0, <1>4, StatePlain
<1>6. ASSUME c.disable_requested PROVE Plain(s, d) /\ d \in EvseManagerType
  BY <1>0, <1>1, <1>3, <1>4, <1>6, StatePlain
<1>7. ASSUME c.disable_requested PROVE Plain(c, e) /\ e \in EvseManagerType
  BY <1>0, <1>7, StatePlain
<1> HIDE DEF i, d
<1>8. Plain(c, f) /\ Plain(c, s) /\ Plain(c, i)
  BY <1>1, <1>3, <1>4, <1>5, PlainTrans
<1>9. ASSUME c.disable_requested PROVE Plain(c, Signal(d, "Disabled"))
  <2>1. Plain(c, d) /\ Plain(d, Signal(d, "Disabled"))
    BY <1>0, <1>6, <1>8, <1>9, PlainTrans, SignalKeeps
  <2> QED
    BY <2>1, PlainTrans
<1>10. Plain(c, Finish(c))
  BY <1>2, <1>8, <1>9
<1>11. run_state_machine(c) = Finish(c) \/ (c.disable_requested /\ run_state_machine(c) = Signal(e, "Disabled"))
       \/ run_state_machine(c) = c
  BY DEF run_state_machine
<1> HIDE DEF e
<1>12. ASSUME c.disable_requested PROVE Plain(c, Signal(e, "Disabled"))
  <2>1. Plain(c, e) /\ Plain(e, Signal(e, "Disabled"))
    BY <1>0, <1>7, <1>12, SignalKeeps
  <2> QED
    BY <2>1, PlainTrans
<1>13. Plain(c, c)
  BY PlainQuiet
<1> QED
  BY <1>10, <1>11, <1>12, <1>13

\* What the user of the EVSE does, and what the main loop does.
LEMMA UserPlain ==
    ASSUME NEW c \in EvseManagerType
    PROVE  /\ Plain(c, CarPluggedIn(c)) /\ Plain(c, CarUnplugged(c))
           /\ Plain(c, Disable(c)) /\ Plain(c, Enable(c)) /\ Plain(c, StartCharging(c, "Charging"))
<1> DEFINE w == [c EXCEPT !.state = "WaitingForAuthentication", !.plugged = TRUE]
           i == [c EXCEPT !.state = "Idle", !.enabled = TRUE, !.disable_requested = FALSE]
           p == [c EXCEPT !.plugged = FALSE]
           q == [c EXCEPT !.enabled = FALSE, !.disable_requested = TRUE]
           r == [c EXCEPT !.enabled = TRUE]
           s == IF c.transaction THEN c ELSE start_transaction(c)
           j == IF c.enabled THEN i ELSE Signal(i, "Enabled")
<1>0. {"Idle", "WaitingForAuthentication", "Charging"} \subseteq EvseState /\ {"Enabled", "SessionStarted"} \subseteq Events
  BY EventNames DEF EvseState
<1>1. /\ w \in EvseManagerType /\ i \in EvseManagerType /\ p \in EvseManagerType /\ q \in EvseManagerType
      /\ r \in EvseManagerType
  BY <1>0 DEF EvseManagerType
<1>2. ASSUME NEW x \in {w, i, p, q, r} PROVE Plain(c, x)
  <2>1. /\ x.out = c.out /\ x.reserved = c.reserved /\ x.reservation_id = c.reservation_id /\ x.used = c.used
        /\ x.transaction = c.transaction
        /\ (c.state = "Disabled" => c.disable_requested) => (x.state = "Disabled" => x.disable_requested)
    BY DEF EvseManagerType
  <2> QED
    BY <2>1, PlainQuiet
<1>3. /\ CarPluggedIn(c) = w \/ CarPluggedIn(c) = Signal(start_session(w), "SessionStarted")
      /\ CarUnplugged(c) = run_state_machine(p)
      /\ Disable(c) = run_state_machine(q)
      /\ Enable(c) = Signal(r, "Enabled") \/ Enable(c) = deauthorize(j)
      /\ StartCharging(c, "Charging") = [s EXCEPT !.state = "Charging"]
  BY DEF CarPluggedIn, CarUnplugged, Disable, Enable, StartCharging
<1> HIDE DEF w, i, p, q, r
<1>4. Plain(c, CarPluggedIn(c))
  <2>1. start_session(w) \in EvseManagerType /\ Plain(w, start_session(w))
    BY <1>1, SessionPlain, SessionType
  <2>2. Plain(start_session(w), Signal(start_session(w), "SessionStarted"))
    BY <1>0, <2>1, SignalKeeps
  <2> QED
    BY <1>2, <1>3, <2>1, <2>2, PlainTrans
<1>5. Plain(c, CarUnplugged(c)) /\ Plain(c, Disable(c))
  BY <1>1, <1>2, <1>3, RunPlain, PlainTrans
<1>6. Plain(c, Enable(c))
  <2>1. Plain(c, Signal(r, "Enabled"))
    BY <1>0, <1>1, <1>2, SignalKeeps, PlainTrans
  <2>2. j \in EvseManagerType /\ Plain(c, j)
    <3>1. Signal(i, "Enabled") \in EvseManagerType /\ Plain(i, Signal(i, "Enabled"))
      BY <1>0, <1>1, SignalType, SignalKeeps
    <3> QED
      BY <1>1, <1>2, <3>1, PlainTrans
  <2> HIDE DEF j
  <2>3. Plain(c, deauthorize(j))
    BY <2>2, AuthorizePlain, PlainTrans
  <2> QED
    BY <1>3, <2>1, <2>3
<1>7. Plain(c, StartCharging(c, "Charging"))
  <2>1. s \in EvseManagerType /\ Plain(c, s)
    BY SessionPlain, TransactionType, PlainQuiet
  <2> HIDE DEF s
  <2>2. Plain(s, [s EXCEPT !.state = "Charging"])
    BY <1>0, <2>1, StatePlain
  <2> QED
    BY <1>3, <2>1, <2>2, PlainTrans
<1> QED
  BY <1>4, <1>5, <1>6, <1>7

-----------------------------------------------------------------------------
(* The operations of the EvseManager loosen the reservation.               *)

\* One change after another.
LEMMA LoosenedTrans ==
    ASSUME NEW c, NEW d, NEW x, Loosened(c, d), Loosened(d, x)
    PROVE  Loosened(c, x)
  BY EndEvents DEF Loosened, Keeps, Ending

\* The charger alone leaves the reservation as it is.
LEMMA PlainLoosened ==
    ASSUME NEW c, NEW d, Plain(c, d)
    PROVE  Loosened(c, d)
  BY DEF Plain, Loosened, Proper

\* EndReservation with its event; afterwards nothing is left of the reservation.
LEMMA EndLoosened ==
    ASSUME NEW c \in EvseManagerType
    PROVE  /\ Loosened(c, EndReservation(c, TRUE))
           /\ Proper(c) => EndReservation(c, TRUE).reservation_id = Global
<1> DEFINE d == [c EXCEPT !.reserved = FALSE, !.reservation_id = Global, !.used = FALSE]
           x == Signal(d, "ReservationEnd")
<1>1. CASE ~c.reserved
  BY <1>1, PlainQuiet, PlainLoosened DEF EndReservation, Proper
<1>2. CASE c.reserved
  <2>1. EndReservation(c, TRUE) = x
    BY <1>2 DEF EndReservation
  <2>2. /\ d \in EvseManagerType /\ d.out = c.out /\ d.reserved = FALSE /\ d.reservation_id = Global
        /\ d.used = FALSE /\ d.state = c.state /\ d.disable_requested = c.disable_requested
    BY DEF EvseManagerType
  <2> HIDE DEF d
  <2>3. Plain(d, x) /\ Has(x, "ReservationEnd")
    BY <2>2, EndEvents, SignalKeeps
  <2> HIDE DEF x
  <2>4. Keeps(c, d)
    BY <2>2 DEF Keeps, Has
  <2>5. Keeps(c, x)
    BY <2>3, <2>4 DEF Plain, Keeps
  <2>6. x.reserved = FALSE /\ x.reservation_id = Global /\ x.used = FALSE
    BY <2>2, <2>3 DEF Plain
  <2>7. Proper(c) => Proper(x)
    BY <2>2, <2>3, <2>6 DEF Plain, Proper
  <2> QED
    BY <2>1, <2>3, <2>5, <2>6, <2>7 DEF Loosened, Ending
<1> QED
  BY <1>1, <1>2

\* Auth will hear of it.
LEMMA EndsNow ==
    ASSUME NEW c \in EvseManagerType, c.reserved
    PROVE  Ending(EndReservation(c, TRUE))
<1> DEFINE d == [c EXCEPT !.reserved = FALSE, !.reservation_id = Global, !.used = FALSE]
<1>1. EndReservation(c, TRUE) = Signal(d, "ReservationEnd")
  BY DEF EndReservation
<1>2. d \in EvseManagerType
  BY DEF EvseManagerType
<1> QED
  BY <1>1, <1>2, EndEvents, SignalKeeps DEF Ending

\* reserve for a global reservation.
LEMMA ReserveGlobalLoosened ==
    ASSUME NEW c \in EvseManagerType
    PROVE  Loosened(c, reserve_global(c))
<1> DEFINE d == reserve_global(c)
<1>1. /\ d.out = c.out /\ d.reservation_id = c.reservation_id /\ d.used = c.used /\ (c.reserved => d.reserved)
      /\ d.state = c.state /\ d.disable_requested = c.disable_requested
      /\ d.reserved = c.reserved \/ d.reserved = TRUE
  BY DEF reserve_global, set_reserved, EvseManagerType
<1> HIDE DEF d
<1>2. Loosened(c, d)
  BY <1>1 DEF Loosened, Keeps, Has, Proper
<1> QED
  BY <1>2 DEF d

\* What follows from an event of the charger.
LEMMA PublishedLoosened ==
    ASSUME NEW c \in EvseManagerType, NEW d \in EvseManagerType, Plain(c, d)
    PROVE  Loosened(c, Published(c, d))
<1>1. Loosened(c, d)
  BY PlainLoosened
<1>2. CASE Published(c, d) = d
  BY <1>1, <1>2
<1>3. CASE Published(c, d) = EndReservation(d, TRUE)
  BY <1>1, <1>3, EndLoosened, LoosenedTrans
<1>4. CASE ~c.transaction /\ d.transaction /\ d.reserved
  <2> DEFINE x == [d EXCEPT !.reserved = FALSE, !.reservation_id = Global, !.used = FALSE]
  <2>1. Published(c, d) = x
    BY <1>4 DEF Published, EndReservation
  <2>2. Has(d, "TransactionStarted")
    BY <1>4 DEF Plain
  <2>3. /\ x.out = d.out /\ x.reserved = FALSE /\ x.reservation_id = Global
        /\ x.used = FALSE /\ x.state = d.state /\ x.disable_requested = d.disable_requested
    BY DEF EvseManagerType
  <2> HIDE DEF x
  <2>4. Loosened(d, x)
    BY <2>2, <2>3 DEF Loosened, Keeps, Has, Ending, Proper
  <2> QED
    BY <1>1, <2>1, <2>4, LoosenedTrans
<1> QED
  BY <1>2, <1>3, <1>4 DEF Published, EndReservation

\* withdraw_authorization: the reservation ends, the charger does the rest.
LEMMA WithdrawLoosened ==
    ASSUME NEW c \in EvseManagerType
    PROVE  Loosened(c, Published(c, withdraw_authorization(c)))
<1> DEFINE x == IF c.authorized /\ c.reserved THEN EndReservation(c, TRUE) ELSE c
           d == deauthorize(x)
<1>1. x \in EvseManagerType /\ Loosened(c, x)
  BY ReserveType, EndLoosened, PlainQuiet, PlainLoosened
<1>2. x.state = c.state /\ x.transaction = c.transaction
  BY DEF EndReservation, Signal, EvseManagerType
<1>3. withdraw_authorization(c) = d
  BY DEF withdraw_authorization
<1> HIDE DEF x
<1>4. Plain(x, d) /\ d.state = x.state /\ d.transaction = x.transaction
  BY <1>1, AuthorizePlain
<1> HIDE DEF d
<1>5. Published(c, d) = d
  BY <1>2, <1>4 DEF Published
<1> QED
  BY <1>1, <1>3, <1>4, <1>5, PlainLoosened, LoosenedTrans
-----------------------------------------------------------------------------
(* What Auth does with a mutex held: reservations go, and the EvseManagers *)
(* are told.                                                               *)

\* From w to x reservations of EVSEs only go, the EvseManagers' own are only
\* loosened, and nothing is left at an EVSE that has lost its reservation.
Told(w, x) ==
    \A e \in Evses :
        /\ x.book.evse[e] \in {w.book.evse[e], None}
        /\ Loosened(w.em[e], x.em[e])
        /\ x.book.evse[e] # w.book.evse[e] /\ Proper(w.em[e]) => x.em[e].reservation_id = Global

\* Nothing happens.
LEMMA ToldSame == ASSUME NEW w PROVE Told(w, w)
  BY PlainQuiet, PlainLoosened DEF Told

\* One step after another.
LEMMA ToldTrans ==
    ASSUME NEW w, NEW x, NEW y, Told(w, x), Told(x, y)
    PROVE  Told(w, y)
<1> SUFFICES ASSUME NEW e \in Evses
             PROVE  /\ y.book.evse[e] \in {w.book.evse[e], None}
                    /\ Loosened(w.em[e], y.em[e])
                    /\ y.book.evse[e] # w.book.evse[e] /\ Proper(w.em[e]) => y.em[e].reservation_id = Global
  BY DEF Told
<1>1. /\ x.book.evse[e] \in {w.book.evse[e], None} /\ Loosened(w.em[e], x.em[e])
      /\ x.book.evse[e] # w.book.evse[e] /\ Proper(w.em[e]) => x.em[e].reservation_id = Global
  BY DEF Told
<1>2. /\ y.book.evse[e] \in {x.book.evse[e], None} /\ Loosened(x.em[e], y.em[e])
      /\ y.book.evse[e] # x.book.evse[e] /\ Proper(x.em[e]) => y.em[e].reservation_id = Global
  BY DEF Told
<1>3. Loosened(w.em[e], y.em[e])
  BY <1>1, <1>2, LoosenedTrans
<1>4. Proper(w.em[e]) => Proper(x.em[e])
  BY <1>1 DEF Loosened
<1>5. x.em[e].reservation_id = Global => y.em[e].reservation_id = Global
  BY <1>2 DEF Loosened
<1> QED
  BY <1>1, <1>2, <1>3, <1>4, <1>5

\* Telling the EvseManagers about global reservations.
LEMMA SendLoosened ==
    ASSUME NEW m \in [Evses -> EvseManagerType], NEW u, NEW e \in Evses
    PROVE  Loosened(m[e], SendUpdates(m, u)[e])
<1>1. m[e] \in EvseManagerType
  OBVIOUS
<1>2. SendUpdates(m, u)[e] = IF e \in u.available THEN EndReservation(m[e], TRUE)
                             ELSE IF e \in u.reserved THEN reserve_global(m[e])
                             ELSE m[e]
  BY DEF SendUpdates
<1>3. Loosened(m[e], m[e])
  BY PlainQuiet, PlainLoosened
<1> QED
  BY <1>1, <1>2, <1>3, EndLoosened, ReserveGlobalLoosened

\* call_reservation_cancelled ends the reservation at the EVSEs it is told of.
LEMMA CancelledLoosened ==
    ASSUME NEW w \in WorldType, NEW v, NEW at, NEW e \in Evses
    PROVE  LET x == call_reservation_cancelled(w, v, at)
           IN  /\ Loosened(w.em[e], x.em[e])
               /\ e \in at /\ Proper(w.em[e]) => x.em[e].reservation_id = Global
<1> DEFINE m == [f \in Evses |-> IF f \in at THEN EndReservation(w.em[f], TRUE) ELSE w.em[f]]
           y == [w EXCEPT !.em = m]
           u == check_number_global_reservations_match_number_available_evses(y.book, v, y.last)
           x == call_reservation_cancelled(w, v, at)
<1>1. m \in [Evses -> EvseManagerType] /\ w.em[e] \in EvseManagerType
  BY ReserveType DEF WorldType
<1>2. x = check_evse_reserved_and_send_updates(y, v)
  BY DEF call_reservation_cancelled, WorldType
<1>3. m[e] = IF e \in at THEN EndReservation(w.em[e], TRUE) ELSE w.em[e]
  OBVIOUS
<1> HIDE DEF m
<1>4. y \in WorldType /\ y.em = m
  BY <1>1 DEF WorldType
<1>5. x.em = SendUpdates(m, u)
  BY <1>2, <1>4 DEF check_evse_reserved_and_send_updates, WorldType
<1> HIDE DEF x, y, u
<1>6. Loosened(m[e], x.em[e])
  BY <1>1, <1>5, SendLoosened
<1>7. Loosened(w.em[e], m[e]) /\ (e \in at /\ Proper(w.em[e]) => m[e].reservation_id = Global)
  BY <1>1, <1>3, EndLoosened, PlainQuiet, PlainLoosened
<1>8. Loosened(w.em[e], x.em[e])
  BY <1>6, <1>7, LoosenedTrans
<1>9. e \in at /\ Proper(w.em[e]) => x.em[e].reservation_id = Global
  BY <1>6, <1>7 DEF Loosened
<1> QED
  BY <1>8, <1>9 DEF x

\* cancel_reservation: a reservation of an EVSE stays unless it has that id.
LEMMA CancelAt ==
    ASSUME NEW b, BookOK(b), NEW id \in Ids, NEW e \in Evses
    PROVE  LET c == cancel_reservation(b, id)
           IN  /\ c.evse[e] \in {b.evse[e], None}
               /\ c.evse[e] # b.evse[e] => is_evse_reserved(b, e, id) /\ id \in b.timer
               /\ ~is_evse_reserved(c, e, id)
<1> DEFINE c == cancel_reservation(b, id)
<1>1. CancelEffect(b, c, id)
  BY CancelIs
<1>2. b.evse \in Maps /\ Once(b)
  BY DEF BookOK, BookType
<1>3. BookOK(c) /\ id \notin HeldIds(c)
  BY CancelOK
<1> HIDE DEF c
<1>4. ~is_evse_reserved(c, e, id)
  BY <1>3 DEF is_evse_reserved, HeldIds, Taken
<1>5. ASSUME NEW f \in Taken(b), b.evse[f].id = id, c.evse = [b.evse EXCEPT ![f] = None]
      PROVE  /\ c.evse[e] \in {b.evse[e], None}
             /\ c.evse[e] # b.evse[e] => is_evse_reserved(b, e, id) /\ id \in b.timer
  <2>1. id \in b.timer
    BY <1>2, <1>5 DEF Once, HeldIds
  <2>2. c.evse[e] = IF e = f THEN None ELSE b.evse[e]
    BY <1>2, <1>5 DEF Maps, Taken
  <2> QED
    BY <1>5, <2>1, <2>2 DEF is_evse_reserved, Taken
<1>6. /\ c.evse[e] \in {b.evse[e], None}
      /\ c.evse[e] # b.evse[e] => is_evse_reserved(b, e, id) /\ id \in b.timer
  BY <1>1, <1>5 DEF CancelEffect
<1> QED
  BY <1>4, <1>6 DEF c

\* cancel_reservation with its callback; no EVSE has a reservation with that id
\* afterwards.
LEMMA CancelTold ==
    ASSUME NEW w \in WorldType, BookOK(w.book), NEW v, NEW id \in Ids
    PROVE  LET x == CancelAndTell(w, v, id)
           IN  Told(w, x) /\ \A e \in Evses : ~is_evse_reserved(x.book, e, id)
<1> DEFINE x == CancelAndTell(w, v, id)
           b == cancel_reservation(w.book, id)
           y == [w EXCEPT !.book = b]
           at == {e \in Evses : is_evse_reserved(w.book, e, id)}
<1>1. x \in WorldType /\ x.book = b
  BY CancelAndTellOK
<1>2. b \in BookType
  BY CancelOK DEF BookOK
<1>3. \A e \in Evses : /\ b.evse[e] \in {w.book.evse[e], None}
                       /\ b.evse[e] # w.book.evse[e] => is_evse_reserved(w.book, e, id) /\ id \in w.book.timer
                       /\ ~is_evse_reserved(b, e, id)
  BY CancelAt
<1>4. CASE id \notin w.book.timer
  <2>1. x = w
    BY <1>4 DEF CancelAndTell
  <2> QED
    BY <1>1, <1>3, <2>1, ToldSame
<1>5. CASE id \in w.book.timer
  <2>1. x = call_reservation_cancelled(y, v, at)
    BY <1>5 DEF CancelAndTell, WorldType
  <2> HIDE DEF b
  <2>2. y \in WorldType /\ y.em = w.em
    BY <1>2 DEF WorldType
  <2>3. \A e \in Evses : b.evse[e] # w.book.evse[e] => e \in at
    BY <1>3
  <2> HIDE DEF y, at, x
  <2>4. \A e \in Evses : /\ Loosened(w.em[e], x.em[e])
                         /\ e \in at /\ Proper(w.em[e]) => x.em[e].reservation_id = Global
    BY <2>1, <2>2, CancelledLoosened
  <2>5. Told(w, x)
    BY <1>1, <1>3, <2>3, <2>4 DEF Told
  <2> QED
    BY <1>1, <1>3, <2>5 DEF x
<1> QED
  BY <1>4, <1>5

\* check_reservations_and_cancel_if_not_possible cancels one reservation after
\* another.
LEMMA CheckTold ==
    ASSUME NEW w \in WorldType, BookOK(w.book), NEW v
    PROVE  Told(w, check_reservations_and_cancel_if_not_possible(w, v))
<1> DEFINE kept == Kept(w.book.global, v, Taken(w.book))
           n == Len(w.book.global)
<1>0. w.book.global \in Seq(Reservation) /\ n \in Nat
  BY DEF BookOK, BookType
<1>1. PICK g : /\ g[0] = w
               /\ \A i \in 1..n : g[i] = IF kept[i] # kept[i - 1] THEN g[i - 1]
                                         ELSE CancelAndTell(g[i - 1], v, w.book.global[i].id)
               /\ check_reservations_and_cancel_if_not_possible(w, v) = g[n]
  BY LoopExists
<1> HIDE DEF kept
<1> DEFINE P(x) == x \in WorldType /\ BookOK(x.book) /\ Told(w, x)
           T == {i \in 0..n : ~P(g[i])}
<1>2. P(w)
  BY ToldSame
<1>3. ASSUME NEW x, P(x), NEW i \in 1..n PROVE P(CancelAndTell(x, v, w.book.global[i].id))
  <2>1. w.book.global[i].id \in Ids
    BY <1>0, HasId
  <2>2. Saved(x.book, x.book)
    BY DEF Saved
  <2>3. /\ CancelAndTell(x, v, w.book.global[i].id) \in WorldType
        /\ BookOK(CancelAndTell(x, v, w.book.global[i].id).book)
    BY <1>3, <2>1, <2>2, CancelStep
  <2>4. Told(x, CancelAndTell(x, v, w.book.global[i].id))
    BY <1>3, <2>1, CancelTold
  <2> QED
    BY <1>3, <2>3, <2>4, ToldTrans
<1> HIDE DEF P
<1>4. T = {}
  <2>1. SUFFICES ASSUME T # {} PROVE FALSE
    BY <2>1
  <2>2. T \in SUBSET Nat
    OBVIOUS
  <2>3. PICK m \in T : \A k \in T : m <= k
    BY <2>1, <2>2, Least
  <2>4. m # 0
    BY <1>1, <1>2, <2>3
  <2>5. m \in 1..n /\ m - 1 \in 0..n /\ m - 1 \notin T
    BY <2>3, <2>4
  <2>6. P(g[m - 1])
    BY <2>5
  <2>7. P(g[m])
    BY <1>1, <1>3, <2>5, <2>6
  <2> QED
    BY <2>3, <2>7
<1>5. P(g[n])
  BY <1>0, <1>4
<1> QED
  BY <1>1, <1>5 DEF P

\* An event of a connector.  A reservation of the EVSE that has a type its
\* connector suits goes if the connector is not available.
LEMMA ConnectorTold ==
    ASSUME NEW w \in WorldType, BookOK(w.book), NEW v, NEW e \in Evses
    PROVE  LET x == on_connector_state_changed(w, v, e)
               r == w.book.evse[e]
           IN  /\ Told(w, x)
               /\ v[e].connector # "AVAILABLE" /\ r # None /\ r.type # None /\ has_evse_connector_type(e, r.type)
                  => x.book.evse[e] = None
<1> DEFINE r == w.book.evse[e]
           x == on_connector_state_changed(w, v, e)
           y == CancelAndTell(w, v, r.id)
<1>1. ASSUME r # None PROVE Told(w, y) /\ y.book.evse[e] = None
  <2>1. r \in Reservation
    BY <1>1 DEF BookOK, BookType, Maps
  <2>2. r.id \in Ids
    BY <2>1 DEF Reservation
  <2>3. Told(w, y) /\ ~is_evse_reserved(y.book, e, r.id)
    BY <2>2, CancelTold
  <2>4. y.book.evse[e] \in {r, None}
    BY <2>3 DEF Told
  <2> QED
    BY <2>3, <2>4 DEF is_evse_reserved
<1>2. Told(w, w) /\ Told(w, check_reservations_and_cancel_if_not_possible(w, v))
  BY ToldSame, CheckTold
<1> QED
  BY <1>1, <1>2 DEF on_connector_state_changed
\* make_reservation: a reservation of an EVSE stays, or goes because of its id,
\* or is the new one; after an accepted request no other EVSE has one with the
\* same id.
LEMMA MakeAt ==
    ASSUME NEW b, BookOK(b), NEW v, NEW r \in Reservation, NEW late \in BOOLEAN, NEW e \in Evses
    PROVE  LET made == make_reservation(b, v, r, late)
               x == made.book
           IN  /\ \/ x.evse[e] = b.evse[e]
                  \/ x.evse[e] = None /\ is_evse_reserved(b, e, r.id)
                  \/ /\ made.ok /\ e = r.evse /\ x.evse[e] = r /\ has_evse_connector_type(e, TypeOf(r))
                     /\ b.evse[e] = None \/ is_evse_reserved(b, e, r.id)
               /\ made.ok => (is_evse_reserved(x, e, r.id) <=> e = r.evse)
               /\ made.ok /\ e = r.evse => x.evse[e] = r /\ has_evse_connector_type(e, TypeOf(r))
<1> DEFINE c == cancel_reservation(b, r.id)
           ok == ~late /\ Acceptable(c, v, r)
           a == Added(c, r)
           d == store_reservations([Added(c, r) EXCEPT !.timer = @ \cup {r.id}, !.armed = @ \cup {r.id}])
           made == make_reservation(b, v, r, late)
<1>0. r # None /\ None \notin Evses
  BY ReservationAssumption
<1>1. r.id \in Ids /\ r.evse \in Evses \cup {None}
  BY DEF Reservation
<1>2. BookOK(c) /\ r.id \notin HeldIds(c) /\ c \in BookType
  BY <1>1, CancelOK DEF BookOK
<1>3. made = [ok |-> ok, book |-> IF ok THEN d ELSE IF late THEN b ELSE c]
  BY DEF make_reservation, Added
<1>4. /\ c.evse[e] \in {b.evse[e], None}
      /\ c.evse[e] # b.evse[e] => is_evse_reserved(b, e, r.id)
      /\ ~is_evse_reserved(c, e, r.id)
  BY <1>1, CancelAt
<1> HIDE DEF c
<1>5. ASSUME ok
      PROVE  /\ d.evse[e] = IF e = r.evse THEN r ELSE c.evse[e]
             /\ e = r.evse => has_evse_connector_type(e, TypeOf(r)) /\ c.evse[e] = None
  <2>1. r.evse # None => CanArriveAt(v, r.evse, TypeOf(r), Taken(c))
    BY <1>5 DEF Acceptable
  <2>2. r.evse # None => c.evse[r.evse] = None /\ has_evse_connector_type(r.evse, TypeOf(r))
    BY <1>1, <2>1 DEF CanArriveAt, get_evse_connector_state_reservation_result,
                      get_connector_availability_reservation_result, Taken
  <2>3. d.evse = a.evse
    BY <1>2, <2>2, AddOK
  <2> HIDE DEF d
  <2>4. c.evse \in Maps
    BY <1>2 DEF BookType
  <2>5. a.evse = IF r.evse = None THEN c.evse ELSE [c.evse EXCEPT ![r.evse] = r]
    BY <1>2 DEF Added, BookType
  <2>6. a.evse[e] = IF e = r.evse THEN r ELSE c.evse[e]
    BY <1>0, <1>1, <2>4, <2>5 DEF Maps
  <2> QED
    BY <1>0, <1>1, <2>2, <2>3, <2>6
<1> HIDE DEF ok, d
<1>6. made.ok = ok /\ made.book = IF ok THEN d ELSE IF late THEN b ELSE c
  BY <1>3
<1> HIDE DEF made
<1>7. CASE ok
  BY <1>0, <1>1, <1>4, <1>5, <1>6, <1>7 DEF is_evse_reserved, made
<1>8. CASE ~ok
  BY <1>4, <1>6, <1>8 DEF made
<1> QED
  BY <1>7, <1>8

-----------------------------------------------------------------------------
(* Where the threads are.                                                  *)

\* Where the thread t with state c can be; the one that restores has one of the
\* reservations that were made again at the restart.
Position(t, c, again) ==
    /\ t = "place" => c.next \in {"idle", "reserve", "confirm"} /\ c.pc \notin {"cancelled", "take"}
    /\ t = "cancel" => c.pc \in {"idle", "cancelled", "check", "send"} /\ c.next = "idle"
    /\ t = "event" => c.pc \in {"idle", "check", "send", "take"} /\ c.next \in {"idle", "take"}
    /\ t = "restore" /\ c.pc # "idle" => c.r.id \in again

\* No thread is under way while Auth loads its reservations, and what is handed
\* on afterwards has been made again then.
ThreadsInv ==
    /\ \A t \in Callers : Position(t, caller[t], loading.again) /\ (caller[t].pc # "idle" => loading.done)
    /\ \A e \in Evses : /\ loading.done /\ restored[e] # None => restored[e] \in loading.again
                        /\ apply[e] # None => loading.done /\ apply[e] \in loading.again

\* The threads by name.
LEMMA ThreadNames == Callers = {"place", "cancel", "restore", "event"}
  BY DEF Callers

\* Changing the state of one thread.
LEMMA CallerSet ==
    ASSUME IInv, NEW t \in Callers, NEW c, SetCaller(t, c)
    PROVE  \A u \in Callers : caller'[u] = IF u = t THEN c ELSE caller[u]
  BY DEF SetCaller, IInv, TypeOK

\* A step of one thread, the others and what is restored being left alone.
LEMMA ThreadMoves ==
    ASSUME IInv, ThreadsInv, NEW t \in Callers, NEW c, SetCaller(t, c), UNCHANGED <<loading, restored, apply>>,
           Position(t, c, loading.again), c.pc # "idle" => loading.done
    PROVE  ThreadsInv'
<1>1. \A u \in Callers : caller'[u] = IF u = t THEN c ELSE caller[u]
  BY CallerSet
<1>2. \A u \in Callers : Position(u, caller'[u], loading'.again) /\ (caller'[u].pc # "idle" => loading'.done)
  BY <1>1 DEF ThreadsInv
<1>3. \A u \in Callers : Position(u, caller[u], loading.again)' /\ (caller[u].pc # "idle" => loading.done)'
  BY <1>2 DEF Position
<1> QED
  BY <1>3 DEF ThreadsInv

\* An idle thread may be anywhere it can be.
LEMMA IdlePosition == ASSUME NEW t, NEW again PROVE Position(t, IdleCaller, again) /\ IdleCaller.pc = "idle"
  BY DEF Position, IdleCaller

\* The steps that a thread takes without a mutex.
LEMMA CallerThreads ==
    ASSUME IInv, ThreadsInv, NEW t \in Callers, CallerStep(t)
    PROVE  ThreadsInv'
<1> DEFINE p == caller[t]
<1>1. p \in CallerType /\ Position(t, p, loading.again) /\ (p.pc # "idle" => loading.done)
  BY DEF IInv, TypeOK, ThreadsInv
<1>2. UNCHANGED <<loading, restored, apply>>
  BY DEF CallerStep, cancel_replaced_if_dropped, call_reserved, reserve, Undo, Confirm, CheckReserved, CallEvses
<1>3. ASSUME NEW d, SetCaller(t, d), Position(t, d, loading.again), p.pc # "idle" PROVE ThreadsInv'
  BY <1>1, <1>2, <1>3, ThreadMoves
<1>4. CASE cancel_replaced_if_dropped(t)
  <2> DEFINE next == IF p.ok THEN "reserve" ELSE "idle"
             x == [p EXCEPT !.pc = "check", !.next = next, !.replaced = None]
             y == [p EXCEPT !.pc = next]
  <2>1. p.pc = "drop" /\ (SetCaller(t, x) \/ SetCaller(t, IF p.ok THEN y ELSE IdleCaller))
    BY <1>4 DEF cancel_replaced_if_dropped
  <2>2. Position(t, x, loading.again) /\ Position(t, IF p.ok THEN y ELSE IdleCaller, loading.again)
    BY <1>1, <2>1, ThreadNames DEF Position, CallerType, IdleCaller
  <2> QED
    BY <1>3, <2>1, <2>2
<1>5. CASE call_reserved(t)
  <2> DEFINE x == [p EXCEPT !.pc = "check", !.next = "confirm"]
             y == [p EXCEPT !.pc = IF em[p.r.evse].state = "Idle" THEN "set" ELSE "undo"]
  <2>1. p.pc = "reserve" /\ (SetCaller(t, x) \/ SetCaller(t, y))
    BY <1>5 DEF call_reserved
  <2>2. Position(t, x, loading.again) /\ Position(t, y, loading.again)
    BY <1>1, <2>1, ThreadNames DEF Position, CallerType
  <2> QED
    BY <1>3, <2>1, <2>2
<1>6. CASE reserve(t)
  <2> DEFINE x == [p EXCEPT !.pc = "check", !.next = "confirm"]
             y == [p EXCEPT !.pc = "undo"]
  <2>1. p.pc = "set" /\ (SetCaller(t, x) \/ SetCaller(t, y))
    BY <1>6 DEF reserve
  <2>2. Position(t, x, loading.again) /\ Position(t, y, loading.again)
    BY <1>1, <2>1, ThreadNames DEF Position, CallerType
  <2> QED
    BY <1>3, <2>1, <2>2
<1>7. CASE Undo(t)
  <2> DEFINE f == IF t # "restore" THEN p.replaced ELSE IF p.r.id \in book.timer THEN p.r.evse ELSE None
             x == [p EXCEPT !.pc = "drop", !.ok = FALSE, !.replaced = f]
  <2>1. p.pc = "undo" /\ SetCaller(t, x)
    BY <1>7 DEF Undo
  <2> HIDE DEF f
  <2>2. Position(t, x, loading.again)
    BY <1>1, <2>1, ThreadNames DEF Position, CallerType
  <2> QED
    BY <1>3, <2>1, <2>2
<1>8. CASE Confirm(t)
  <2>1. p.pc = "confirm" /\ SetCaller(t, IdleCaller)
    BY <1>8 DEF Confirm
  <2> QED
    BY <1>3, <2>1, IdlePosition
<1>9. CASE CheckReserved(t)
  <2> DEFINE u == check_number_global_reservations_match_number_available_evses(book, seen, last_reserved_status)
             v == [available |-> u.available, reserved |-> u.reserved]
             x == [p EXCEPT !.pc = "send", !.updates = v]
  <2>1. p.pc = "check" /\ SetCaller(t, x)
    BY <1>9 DEF CheckReserved
  <2> HIDE DEF v
  <2>2. Position(t, x, loading.again)
    BY <1>1, <2>1, ThreadNames DEF Position, CallerType
  <2> QED
    BY <1>3, <2>1, <2>2
<1>10. CASE CallEvses(t)
  <2> DEFINE x == [p EXCEPT !.pc = p.next, !.next = "idle", !.updates = NoUpdates]
  <2>1. p.pc = "send" /\ SetCaller(t, IF p.next = "idle" THEN IdleCaller ELSE x)
    BY <1>10 DEF CallEvses
  <2>2. Position(t, x, loading.again)
    BY <1>1, <2>1, ThreadNames DEF Position, CallerType
  <2> QED
    BY <1>3, <2>1, <2>2, IdlePosition
<1> QED
  BY <1>4, <1>5, <1>6, <1>7, <1>8, <1>9, <1>10 DEF CallerStep

\* The first step of a thread, and the steps it takes with a mutex held.
LEMMA OtherThreads ==
    ASSUME IInv, ThreadsInv,
           \/ \E r \in Requests : place_reservation(r)
           \/ \E late \in BOOLEAN : handle_reservation(late)
           \/ \E id \in Ids : handle_cancel_reservation(id)
           \/ TellCancelled
           \/ \E e \in Evses : handle_session_event(e) \/ ResumeHandler(e)
    PROVE  ThreadsInv'
<1>1. UNCHANGED <<loading, restored, apply>> /\ loading.done
  <2>1. caller["cancel"].pc # "idle" => loading.done
    BY ThreadNames DEF ThreadsInv
  <2> QED
    BY <2>1 DEF place_reservation, handle_reservation, handle_cancel_reservation, TellCancelled,
                handle_session_event, ResumeHandler, Unlocked, Running
<1>2. ASSUME NEW t \in Callers, NEW d, SetCaller(t, d), Position(t, d, loading.again) PROVE ThreadsInv'
  BY <1>1, <1>2, ThreadMoves
<1>3. \A t \in Callers : caller[t] \in CallerType /\ Position(t, caller[t], loading.again)
  BY DEF IInv, TypeOK, ThreadsInv
<1>4. ASSUME NEW r \in Requests, place_reservation(r) PROVE ThreadsInv'
  <2>1. PICK f : SetCaller("place", [IdleCaller EXCEPT !.pc = "make", !.r = r, !.replaced = f])
    BY <1>4 DEF place_reservation
  <2>2. Position("place", [IdleCaller EXCEPT !.pc = "make", !.r = r, !.replaced = f], loading.again)
    BY DEF Position, IdleCaller
  <2> QED
    BY <1>2, <2>1, <2>2, ThreadNames
<1>5. ASSUME NEW late \in BOOLEAN, handle_reservation(late) PROVE ThreadsInv'
  <2> DEFINE p == caller["place"]
             made == make_reservation(book, seen, p.r, late)
             d == [p EXCEPT !.pc = "drop", !.ok = made.ok]
  <2>1. SetCaller("place", d)
    BY <1>5 DEF handle_reservation
  <2> HIDE DEF made
  <2>2. Position("place", d, loading.again)
    BY <1>3, ThreadNames DEF Position, CallerType
  <2> QED
    BY <1>2, <2>1, <2>2, ThreadNames
<1>6. ASSUME NEW id \in Ids, handle_cancel_reservation(id) PROVE ThreadsInv'
  <2>1. PICK f : SetCaller("cancel", [IdleCaller EXCEPT !.pc = "cancelled", !.replaced = f])
    BY <1>6 DEF handle_cancel_reservation
  <2>2. Position("cancel", [IdleCaller EXCEPT !.pc = "cancelled", !.replaced = f], loading.again)
    BY DEF Position, IdleCaller
  <2> QED
    BY <1>2, <2>1, <2>2, ThreadNames
<1>7. ASSUME TellCancelled PROVE ThreadsInv'
  <2> DEFINE d == [caller["cancel"] EXCEPT !.pc = "check", !.replaced = None]
  <2>1. SetCaller("cancel", d)
    BY <1>7 DEF TellCancelled
  <2>2. Position("cancel", d, loading.again)
    BY <1>3, ThreadNames DEF Position, CallerType
  <2> QED
    BY <1>2, <2>1, <2>2, ThreadNames
<1>8. ASSUME NEW e \in Evses, handle_session_event(e) \/ ResumeHandler(e) PROVE ThreadsInv'
  <2> DEFINE c(next) == [IdleCaller EXCEPT !.pc = "check", !.next = next, !.replaced = e]
  <2>1. PICK next \in {"idle", "take"} : SetCaller("event", c(next)) \/ SetCaller("event", IdleCaller)
                                         \/ SetCaller("event", [IdleCaller EXCEPT !.pc = "check", !.replaced = e])
    BY <1>8 DEF handle_session_event, ResumeHandler
  <2>2. /\ Position("event", c(next), loading.again)
        /\ Position("event", [IdleCaller EXCEPT !.pc = "check", !.replaced = e], loading.again)
    BY DEF Position, IdleCaller
  <2> QED
    BY <1>2, <2>1, <2>2, IdlePosition, ThreadNames, SMTT(40)
<1> QED
  BY <1>4, <1>5, <1>6, <1>7, <1>8, SMTT(40)

\* The steps that hand on what is restored.
LEMMA RestoreThreads ==
    ASSUME IInv, ThreadsInv, take_restored_reservation \/ \E e \in Evses : apply_restored_reservation(e)
    PROVE  ThreadsInv'
<1>1. loading' = loading /\ restored \in [Evses -> Ids \cup {None}] /\ apply \in [Evses -> Ids \cup {None}]
  BY DEF take_restored_reservation, apply_restored_reservation, IInv, TypeOK
<1>0. loading.done
  BY ThreadNames DEF take_restored_reservation, apply_restored_reservation, Running, ThreadsInv
<1>2. \A e \in Evses : /\ restored'[e] # None => restored'[e] \in loading.again
                       /\ apply'[e] # None => apply'[e] \in loading.again
  BY <1>0, <1>1 DEF take_restored_reservation, apply_restored_reservation, ThreadsInv
<1>3. ASSUME NEW t \in Callers, NEW d, SetCaller(t, d), Position(t, d, loading.again), d.pc # "idle" => loading.done
      PROVE  ThreadsInv'
  <2>1. \A u \in Callers : caller'[u] = IF u = t THEN d ELSE caller[u]
    BY <1>3, CallerSet
  <2>2. \A u \in Callers : Position(u, caller'[u], loading.again) /\ (caller'[u].pc # "idle" => loading.done)
    BY <1>3, <2>1 DEF ThreadsInv
  <2>3. \A u \in Callers : Position(u, caller[u], loading.again)' /\ (caller[u].pc # "idle" => loading.done)'
    BY <1>1, <2>2 DEF Position
  <2> QED
    BY <1>0, <1>1, <1>2, <2>3 DEF ThreadsInv
<1>4. CASE take_restored_reservation
  BY <1>3, <1>4, IdlePosition, ThreadNames DEF take_restored_reservation
<1>5. ASSUME NEW e \in Evses, apply_restored_reservation(e) PROVE ThreadsInv'
  <2> DEFINE r == [id |-> apply[e], evse |-> e, type |-> None, token |-> CHOOSE t \in Tokens : TRUE, parent |-> None]
             d == [IdleCaller EXCEPT !.pc = "reserve", !.r = r]
  <2>1. SetCaller("restore", d) /\ loading.done /\ apply[e] # None
    BY <1>5 DEF apply_restored_reservation, Running
  <2>2. d.pc = "reserve" /\ d.r.id = apply[e]
    BY DEF IdleCaller
  <2>3. apply[e] \in loading.again
    BY <2>1 DEF ThreadsInv
  <2> HIDE DEF d
  <2> QED
    BY <1>3, <2>1, <2>2, <2>3, ThreadNames DEF Position
<1> QED
  BY <1>4, <1>5

\* A step that leaves the threads alone.
LEMMA ThreadsStay ==
    ASSUME ThreadsInv, UNCHANGED <<loading, restored, apply, caller>>
    PROVE  ThreadsInv'
  BY DEF ThreadsInv, Position

\* Restart, load_reservations and initialize.
LEMMA StartThreads ==
    ASSUME IInv, ThreadsInv,
           \/ \E late \in BOOLEAN : load_reservations(late)
           \/ initialize
           \/ \E s \in Startups : Restart(s.disabled, s.late)
    PROVE  ThreadsInv'
<1>1. /\ loading \in [evse: Maps, global: Seq(Reservation), done: BOOLEAN, again: SUBSET Ids]
      /\ restored \in [Evses -> Ids \cup {None}]
  BY DEF IInv, TypeOK
<1>2. ASSUME NEW late \in BOOLEAN, load_reservations(late) PROVE ThreadsInv'
  <2>1. UNCHANGED <<apply, caller>> /\ ~loading.done /\ loading'.again = loading.again /\ loading'.done = FALSE
    BY <1>1, <1>2 DEF load_reservations
  <2> QED
    BY <2>1 DEF ThreadsInv, Position
<1>3. ASSUME initialize PROVE ThreadsInv'
  <2> DEFINE d == [IdleCaller EXCEPT !.pc = "check", !.next = "take"]
  <2>1. /\ ~loading.done /\ SetCaller("event", d) /\ UNCHANGED <<restored, apply>>
        /\ loading'.done = TRUE /\ loading'.again = Ids \cap {restored[e] : e \in Evses}
    BY <1>1, <1>3 DEF initialize
  <2>2. Position("event", d, loading'.again)
    BY DEF Position, IdleCaller
  <2>3. \A u \in Callers : caller'[u] = IF u = "event" THEN d ELSE caller[u]
    BY <2>1, CallerSet, ThreadNames
  <2> HIDE DEF d
  <2>4. \A u \in Callers : Position(u, caller[u], loading'.again)
    BY <2>1 DEF ThreadsInv, Position
  <2>5. \A u \in Callers : Position(u, caller'[u], loading'.again)
    BY <2>2, <2>3, <2>4
  <2>6. \A u \in Callers : Position(u, caller[u], loading.again)'
    BY <2>5 DEF Position
  <2>7. \A e \in Evses : restored[e] # None => restored[e] \in loading'.again
    BY <1>1, <2>1
  <2> QED
    BY <2>1, <2>6, <2>7 DEF ThreadsInv
<1>4. ASSUME NEW s \in Startups, Restart(s.disabled, s.late) PROVE ThreadsInv'
  <2>1. /\ \A u \in Callers : caller'[u] = IdleCaller
        /\ \A e \in Evses : restored'[e] = None /\ apply'[e] = None
    BY <1>4 DEF Restart
  <2>2. \A u \in Callers : Position(u, caller'[u], loading'.again) /\ caller'[u].pc = "idle"
    BY <2>1, IdlePosition
  <2>3. \A u \in Callers : Position(u, caller[u], loading.again)' /\ (caller[u].pc = "idle")'
    BY <2>2 DEF Position
  <2> QED
    BY <2>1, <2>3 DEF ThreadsInv
<1> QED
  BY <1>2, <1>3, <1>4

\* Every step leaves the threads where they can be.
LEMMA ThreadsStep == ASSUME IInv, ThreadsInv, [Next]_vars PROVE ThreadsInv'
<1>1. CASE \E t \in Callers : CallerStep(t)
  BY <1>1, CallerThreads
<1>2. CASE \/ \E r \in Requests : place_reservation(r)
           \/ \E late \in BOOLEAN : handle_reservation(late)
           \/ \E id \in Ids : handle_cancel_reservation(id)
           \/ TellCancelled
           \/ \E e \in Evses : handle_session_event(e) \/ ResumeHandler(e)
  BY <1>2, OtherThreads
<1>3. CASE take_restored_reservation \/ \E e \in Evses : apply_restored_reservation(e)
  BY <1>3, RestoreThreads
<1>4. CASE \/ \E late \in BOOLEAN : load_reservations(late)
           \/ initialize
           \/ \E s \in Startups : Restart(s.disabled, s.late)
  BY <1>4, StartThreads
<1>5. CASE ReservationExpired \/ \E id \in Ids : Expire(id)
  BY <1>5, ThreadsStay DEF ReservationExpired, Expire
<1>6. CASE \E e \in Evses : \/ PlugIn(e) \/ Unplug(e) \/ DisableEvse(e) \/ EnableEvse(e) \/ MainLoop(e)
                            \/ WithdrawAuthorization(e)
  BY <1>6, ThreadsStay DEF PlugIn, Unplug, DisableEvse, EnableEvse, MainLoop, WithdrawAuthorization, EvseChange
<1>7. CASE \/ \E e \in Evses : \E t \in Tokens, parent \in Parents \cup {None} : UseToken(e, t, parent)
           \/ \E w \in waiting, waiting_for_pnc \in BOOLEAN : notify_evse(w, waiting_for_pnc)
  BY <1>7, ThreadsStay DEF UseToken, notify_evse
<1>8. CASE UNCHANGED vars
  BY <1>8, ThreadsStay DEF vars
<1> QED
  BY <1>1, <1>2, <1>3, <1>4, <1>5, <1>6, <1>7, <1>8 DEF Next

\* At the start every thread is idle.
LEMMA ThreadsInitially == Init => ThreadsInv
<1> SUFFICES ASSUME Init PROVE ThreadsInv
  OBVIOUS
<1>1. \A t \in Callers : caller[t] = IdleCaller
  BY DEF Init
<1> QED
  BY <1>1, IdlePosition DEF Init, ThreadsInv

\* The threads are always where they can be.
LEMMA ThreadsAlways == Spec => []ThreadsInv
<1>1. IInv /\ ThreadsInv /\ [Next]_vars => ThreadsInv'
  BY ThreadsStep
<1> QED
  BY Invariance, ThreadsInitially, <1>1, PTL DEF Spec

-----------------------------------------------------------------------------
(* What Auth holds is reserved: the invariant.                             *)

\* A thread that will hand the reservation it has to the EvseManager, or take
\* it back.
Placing(c) ==
    \/ c.pc = "drop" /\ c.ok
    \/ c.pc \in {"check", "send"} /\ c.next = "reserve"
    \/ c.pc \in {"reserve", "set", "undo"}

\* A thread that will look whether the reservation has gone meanwhile.
Confirming(c) == c.pc = "confirm" \/ (c.pc \in {"check", "send"} /\ c.next = "confirm")

For(c, e, id) == c.r # None /\ c.r.evse = e /\ c.r.id = id

\* The EvseManager of e will be told of the reservation id.
Promised(e, id) ==
    \/ restored[e] = id
    \/ apply[e] = id
    \/ \E t \in {"place", "restore"} : Placing(caller[t]) /\ For(caller[t], e, id)

\* One of the threads will look at the reservation id again.
Rechecked(threads, e, id) == \E t \in {"place", "restore"} : Confirming(threads[t]) /\ For(threads[t], e, id)

\* The EvseManager c of e is reserved: for the reservation id, for one that a
\* token has used, or for one that is looked at again and is then over unless
\* Auth holds it.
Reserving(c, threads, e, id) ==
    c.reserved /\ (c.reservation_id = id \/ c.used \/ Rechecked(threads, e, c.reservation_id))

\* A reservation of e that has a type suits its connector, and the EvseManager
\* is reserved, will be told of it, or has told Auth that it is over.
Backed(e) ==
    book.evse[e] # None /\ book.evse[e].type # None =>
        /\ has_evse_connector_type(e, book.evse[e].type)
        /\ \/ Reserving(em[e], caller, e, book.evse[e].id)
           \/ Ending(em[e])
           \/ Promised(e, book.evse[e].id)

HeldInv == \A e \in Evses : Backed(e)

\* A thread that will look at a reservation again still will.
ChecksKept == \A e \in Evses, id \in Ids \cup {Global} : Rechecked(caller, e, id) => Rechecked(caller', e, id)

\* No promise is withdrawn.
PromisesKept == ChecksKept /\ \A e \in Evses, id \in Ids : Promised(e, id) => Promised(e, id)'

\* A reservation of an EVSE and its id.
LEMMA HeldType ==
    ASSUME IInv, NEW e \in Evses, book.evse[e] # None
    PROVE  book.evse[e] \in Reservation /\ book.evse[e].id \in Ids
<1>1. book.evse[e] \in Reservation
  BY DEF IInv, TypeOK, BookType, Maps
<1> QED
  BY <1>1 DEF Reservation

\* The EvseManager backs a reservation after a step.
LEMMA BackedNext ==
    ASSUME NEW e \in Evses, NEW id, book'.evse[e].id = id,
           has_evse_connector_type(e, book'.evse[e].type),
           Reserving(em'[e], caller', e, id) \/ Ending(em'[e]) \/ Promised(e, id)'
    PROVE  Backed(e)'
<1>1. has_evse_connector_type(e, book.evse[e].type)'
  BY DEF has_evse_connector_type
<1>2. Ending(em'[e]) => Ending(em[e])'
  BY DEF Ending, Has
<1>3. Promised(e, id)' => Promised(e, book.evse[e].id)'
  BY DEF Promised, For
<1>4. Reserving(em'[e], caller', e, id) => Reserving(em[e], caller, e, book.evse[e].id)'
  BY DEF Reserving, Rechecked, Confirming, For
<1> QED
  BY <1>1, <1>2, <1>3, <1>4 DEF Backed

\* An EvseManager that loosens its reservation is still reserved, or Auth will
\* hear that it is not.
LEMMA ReservingStays ==
    ASSUME IInv, NEW e \in Evses, NEW c, c.reservation_id \in Ids \cup {Global}, Loosened(c, em'[e]), ChecksKept,
           NEW id, Reserving(c, caller, e, id)
    PROVE  Reserving(em'[e], caller', e, id) \/ Ending(em'[e])
  BY DEF Loosened, Reserving, ChecksKept

\* What an EvseManager keeps as the id of its reservation.
LEMMA IdAtEvse ==
    ASSUME IInv, NEW e \in Evses
    PROVE  em[e] \in EvseManagerType /\ em[e].reservation_id \in Ids \cup {Global}
<1>1. em[e] \in EvseManagerType
  BY DEF IInv, TypeOK
<1> QED
  BY <1>1 DEF EvseManagerType

\* An EVSE whose reservation stays, whose EvseManager has only loosened its own,
\* and to which nobody breaks a promise.
LEMMA BackedStays ==
    ASSUME IInv, NEW e \in Evses, Backed(e),
           book'.evse[e] \in {book.evse[e], None},
           book'.evse[e] # None =>
             /\ Loosened(em[e], em'[e])
             /\ \A id \in Ids : id = book.evse[e].id /\ Promised(e, id) => Promised(e, id)',
           ChecksKept
    PROVE  Backed(e)'
<1> SUFFICES ASSUME book'.evse[e] # None, book'.evse[e].type # None
             PROVE  Backed(e)'
  BY DEF Backed
<1>1. book'.evse[e] = book.evse[e] /\ Loosened(em[e], em'[e])
  OBVIOUS
<1>2. PICK id \in Ids : id = book.evse[e].id
  BY <1>1, HeldType
<1>3. Promised(e, id) => Promised(e, id)'
  BY <1>2
<1>4. Ending(em[e]) => Ending(em'[e])
  BY <1>1, EndEvents DEF Loosened, Keeps, Ending
<1>5. Reserving(em[e], caller, e, id) => Reserving(em'[e], caller', e, id) \/ Ending(em'[e])
  BY <1>1, IdAtEvse, ReservingStays
<1>6. /\ has_evse_connector_type(e, book'.evse[e].type)
      /\ Reserving(em[e], caller, e, id) \/ Ending(em[e]) \/ Promised(e, id)
  BY <1>1, <1>2 DEF Backed
<1>7. Reserving(em'[e], caller', e, id) \/ Ending(em'[e]) \/ Promised(e, id)'
  BY <1>3, <1>4, <1>5, <1>6
<1> QED
  BY <1>1, <1>2, <1>6, <1>7, BackedNext

\* Reservations only go, the EvseManagers only loosen theirs and the promises
\* are kept.
LEMMA HeldStays ==
    ASSUME IInv, HeldInv, \A e \in Evses : book'.evse[e] \in {book.evse[e], None},
           \A e \in Evses : Loosened(em[e], em'[e]), PromisesKept
    PROVE  HeldInv'
<1>1. ASSUME NEW e \in Evses PROVE Backed(e)'
  <2>1. \A id \in Ids : id = book.evse[e].id /\ Promised(e, id) => Promised(e, id)'
    BY DEF PromisesKept
  <2> QED
    BY <2>1, BackedStays DEF HeldInv, PromisesKept
<1> QED
  BY <1>1 DEF HeldInv

\* What does not change is not disturbed.
LEMMA LoosenedSame == ASSUME NEW c PROVE Loosened(c, c)
  BY PlainQuiet, PlainLoosened

\* A thread that is to look at its reservation again goes on to that.
LEMMA CallerChecks ==
    ASSUME IInv, NEW t \in Callers, NEW c, SetCaller(t, c),
           Confirming(caller[t]) => Confirming(c) /\ c.r = caller[t].r
    PROVE  ChecksKept
<1>1. \A u \in {"place", "restore"} : caller'[u] = IF u = t THEN c ELSE caller[u]
  BY DEF SetCaller, IInv, TypeOK, Callers
<1> QED
  BY <1>1 DEF ChecksKept, Rechecked, For

\* The threads keep a promise that none of them drops.
LEMMA CallerKeeps ==
    ASSUME IInv, NEW t \in Callers, NEW c, SetCaller(t, c), UNCHANGED <<restored, apply>>,
           Placing(caller[t]) => Placing(c) /\ c.r = caller[t].r,
           Confirming(caller[t]) => Confirming(c) /\ c.r = caller[t].r
    PROVE  PromisesKept
<1>1. \A u \in Callers : caller'[u] = IF u = t THEN c ELSE caller[u]
  BY DEF SetCaller, IInv, TypeOK
<1>2. {"place", "restore"} \subseteq Callers
  BY DEF Callers
<1>3. ASSUME NEW e \in Evses, NEW id \in Ids, NEW u \in {"place", "restore"},
             Placing(caller[u]) /\ For(caller[u], e, id)
      PROVE  Placing(caller'[u]) /\ For(caller'[u], e, id)
  BY <1>1, <1>2, <1>3 DEF For
<1>4. ASSUME NEW e \in Evses, NEW id \in Ids, Promised(e, id) PROVE Promised(e, id)'
  <2>1. CASE restored[e] = id \/ apply[e] = id
    BY <2>1 DEF Promised
  <2>2. CASE \E u \in {"place", "restore"} : Placing(caller[u]) /\ For(caller[u], e, id)
    <3>1. PICK u \in {"place", "restore"} : Placing(caller'[u]) /\ For(caller'[u], e, id)
      BY <1>3, <2>2
    <3>2. (Placing(caller[u]) /\ For(caller[u], e, id))'
      BY <3>1 DEF Placing, For
    <3> QED
      BY <3>2 DEF Promised
  <2> QED
    BY <1>4, <2>1, <2>2 DEF Promised
<1> QED
  BY <1>4, CallerChecks DEF PromisesKept

\* A step of a thread that tells one EvseManager that a reservation is over, or
\* none.
LEMMA TellHeld ==
    ASSUME IInv, HeldInv, UNCHANGED book, PromisesKept, NEW f,
           em' = em \/ (f \in Evses /\ em' = [em EXCEPT ![f] = EndReservation(@, TRUE)])
    PROVE  HeldInv'
<1>1. em \in [Evses -> EvseManagerType]
  BY DEF IInv, TypeOK
<1>2. ASSUME NEW e \in Evses PROVE Loosened(em[e], em'[e])
  <2>1. em'[e] = em[e] \/ em'[e] = EndReservation(em[e], TRUE)
    BY <1>1
  <2>2. em[e] \in EvseManagerType
    BY <1>1
  <2> QED
    BY <2>1, <2>2, LoosenedSame, EndLoosened
<1> QED
  BY <1>2, HeldStays

-----------------------------------------------------------------------------
(* The steps of the threads.                                               *)

\* place_reservation: nothing has been promised yet.
LEMMA PlaceHeld ==
    ASSUME IInv, HeldInv, NEW r \in Requests, place_reservation(r)
    PROVE  HeldInv'
<1>1. PICK c : SetCaller("place", c) /\ caller["place"].pc = "idle"
  BY DEF place_reservation
<1>2. PromisesKept
  BY <1>1, CallerKeeps DEF place_reservation, Placing, Confirming, Callers
<1> QED
  BY <1>2, TellHeld DEF place_reservation

\* cancel_replaced_if_dropped: an EvseManager that loses a younger reservation
\* says so.
LEMMA DropHeld ==
    ASSUME IInv, HeldInv, NEW t \in Callers, cancel_replaced_if_dropped(t)
    PROVE  HeldInv'
<1> DEFINE c == caller[t]
           next == IF c.ok THEN "reserve" ELSE "idle"
           d == [c EXCEPT !.pc = "check", !.next = next, !.replaced = None]
           x == IF c.ok THEN [c EXCEPT !.pc = next] ELSE IdleCaller
<1>1. c \in CallerType /\ c.pc = "drop"
  BY DEF cancel_replaced_if_dropped, IInv, TypeOK
<1>2. \/ /\ c.replaced # None /\ em' = [em EXCEPT ![c.replaced] = EndReservation(@, TRUE)]
         /\ SetCaller(t, d)
      \/ em' = em /\ SetCaller(t, x)
  BY DEF cancel_replaced_if_dropped
<1>3. c.replaced \in Evses \cup {None}
  BY <1>1 DEF CallerType
<1>4. Placing(c) => Placing(d) /\ d.r = c.r
  BY <1>1 DEF Placing, CallerType
<1>5. Placing(c) => Placing(x) /\ x.r = c.r
  BY <1>1 DEF Placing, CallerType
<1> HIDE DEF d, x
<1>6. UNCHANGED <<restored, apply>> /\ UNCHANGED book
  BY DEF cancel_replaced_if_dropped
<1>8. ~Confirming(c)
  BY <1>1 DEF Confirming
<1>7. PromisesKept
  BY <1>2, <1>4, <1>5, <1>6, <1>8, CallerKeeps
<1> HIDE DEF c
<1> QED
  BY <1>2, <1>3, <1>6, <1>7, TellHeld

\* Confirm: so does one whose reservation has gone meanwhile; one that has not
\* gone is the reservation Auth holds.
LEMMA ConfirmHeld ==
    ASSUME IInv, HeldInv, NEW t \in Callers, Confirm(t)
    PROVE  HeldInv'
<1> DEFINE c == caller[t]
           f == c.r.evse
           gone == f # None /\ (f # None => ~is_evse_reserved(book, f, c.r.id))
<1>1. c \in CallerType /\ c.pc = "confirm" /\ SetCaller(t, IdleCaller) /\ em \in [Evses -> EvseManagerType]
  BY DEF Confirm, IInv, TypeOK
<1>2. UNCHANGED <<restored, apply>> /\ UNCHANGED book
  BY DEF Confirm
<1>3. c.r # None
  BY <1>1 DEF IInv, CallersOK, HasReservation, WithReservation
<1>4. c.r \in Reservation
  BY <1>1, <1>3 DEF CallerType
<1>5. f \in Evses \cup {None} /\ None \notin Evses
  BY <1>4, ReservationAssumption DEF Reservation
<1>6. em' = IF gone THEN [em EXCEPT ![f] = EndReservation(@, TRUE)] ELSE em
  BY DEF Confirm
<1>7. \A u \in {"place", "restore"} : caller'[u] = IF u = t THEN IdleCaller ELSE caller[u]
  BY <1>1 DEF SetCaller, IInv, TypeOK, Callers
<1>8. \A e \in Evses, id \in Ids : Promised(e, id) => Promised(e, id)'
  BY <1>1, <1>2, <1>7 DEF Promised, Placing, For
<1>9. ASSUME NEW e \in Evses, book.evse[e] # None, book.evse[e].type # None
      PROVE  Backed(e)'
  <2>1. em'[e] = IF gone /\ e = f THEN EndReservation(em[e], TRUE) ELSE em[e]
    BY <1>1, <1>5, <1>6
  <2>2. em[e] \in EvseManagerType
    BY <1>1
  <2>3. Loosened(em[e], em'[e]) /\ (gone /\ e = f /\ em[e].reserved => Ending(em'[e]))
    BY <2>1, <2>2, LoosenedSame, EndLoosened, EndsNow
  <2>4. PICK id \in Ids : id = book.evse[e].id
    BY <1>9, HeldType
  <2>5. /\ has_evse_connector_type(e, book.evse[e].type)
        /\ Reserving(em[e], caller, e, id) \/ Ending(em[e]) \/ Promised(e, id)
    BY <1>9, <2>4 DEF HeldInv, Backed
  <2>6. Ending(em[e]) => Ending(em'[e])
    BY <2>3, EndEvents DEF Loosened, Keeps, Ending
  <2>7. ASSUME Reserving(em[e], caller, e, id), ~Ending(em'[e]) PROVE Reserving(em'[e], caller', e, id)
    <3>1. em'[e] = em[e]
      BY <2>1, <2>3, <2>7 DEF Reserving
    <3>2. CASE For(c, e, em[e].reservation_id)
      <4>1. is_evse_reserved(book, e, em[e].reservation_id)
        BY <1>5, <2>3, <2>7, <3>2 DEF For, Reserving
      <4> QED
        BY <2>4, <2>7, <3>1, <4>1 DEF Reserving, is_evse_reserved
    <3>3. CASE ~For(c, e, em[e].reservation_id)
      <4>1. Rechecked(caller, e, em[e].reservation_id) => Rechecked(caller', e, em[e].reservation_id)
        BY <1>7, <3>3 DEF Rechecked
      <4> QED
        BY <2>7, <3>1, <4>1 DEF Reserving
    <3> QED
      BY <3>2, <3>3
  <2>8. book'.evse[e].id = id /\ has_evse_connector_type(e, book'.evse[e].type)
    BY <1>2, <2>4, <2>5
  <2> QED
    BY <1>8, <2>5, <2>6, <2>7, <2>8, BackedNext
<1>10. ASSUME NEW e \in Evses PROVE Backed(e)'
  BY <1>2, <1>9 DEF Backed
<1> QED
  BY <1>10 DEF HeldInv

\* TellCancelled.
LEMMA TellCancelledHeld ==
    ASSUME IInv, HeldInv, TellCancelled
    PROVE  HeldInv'
<1> DEFINE c == caller["cancel"]
           d == [c EXCEPT !.pc = "check", !.replaced = None]
<1>1. c \in CallerType /\ c.pc = "cancelled" /\ SetCaller("cancel", d) /\ "cancel" \in Callers
  BY DEF TellCancelled, IInv, TypeOK, Callers
<1>2. UNCHANGED <<restored, apply>> /\ UNCHANGED book
  BY DEF TellCancelled
<1>3. em' = em \/ (c.replaced # None /\ em' = [em EXCEPT ![c.replaced] = EndReservation(@, TRUE)])
  BY DEF TellCancelled
<1>4. c.replaced \in Evses \cup {None}
  BY <1>1 DEF CallerType
<1>5. ~Placing(c) /\ ~Confirming(c)
  BY <1>1 DEF Placing, Confirming
<1> HIDE DEF d
<1>6. PromisesKept
  BY <1>1, <1>2, <1>5, CallerKeeps
<1> HIDE DEF c
<1> QED
  BY <1>2, <1>3, <1>4, <1>6, TellHeld

\* CheckReserved and CallEvses: the reservation in hand is not forgotten.
LEMMA UpdatesHeld ==
    ASSUME IInv, HeldInv, NEW t \in Callers, CheckReserved(t) \/ CallEvses(t)
    PROVE  HeldInv'
<1> DEFINE c == caller[t]
<1>1. c \in CallerType /\ em \in [Evses -> EvseManagerType]
  BY DEF IInv, TypeOK
<1>2. CASE CheckReserved(t)
  <2> DEFINE u == check_number_global_reservations_match_number_available_evses(book, seen, last_reserved_status)
             d == [c EXCEPT !.pc = "send", !.updates = [available |-> u.available, reserved |-> u.reserved]]
  <2>1. SetCaller(t, d) /\ c.pc = "check" /\ UNCHANGED <<restored, apply>> /\ UNCHANGED book /\ em' = em
    BY <1>2 DEF CheckReserved
  <2> HIDE DEF u
  <2>2. (Placing(c) => Placing(d) /\ d.r = c.r) /\ (Confirming(c) => Confirming(d) /\ d.r = c.r)
    BY <1>1, <2>1 DEF Placing, Confirming, CallerType
  <2> HIDE DEF d
  <2>3. PromisesKept
    BY <2>1, <2>2, CallerKeeps
  <2> QED
    BY <2>1, <2>3, TellHeld
<1>3. CASE CallEvses(t)
  <2> DEFINE d == IF c.next = "idle" THEN IdleCaller
                  ELSE [c EXCEPT !.pc = c.next, !.next = "idle", !.updates = NoUpdates]
  <2>1. /\ SetCaller(t, d) /\ c.pc = "send" /\ UNCHANGED <<restored, apply>> /\ UNCHANGED book
        /\ em' = SendUpdates(em, c.updates)
    BY <1>3 DEF CallEvses
  <2>2. (Placing(c) => Placing(d) /\ d.r = c.r) /\ (Confirming(c) => Confirming(d) /\ d.r = c.r)
    BY <1>1, <2>1 DEF Placing, Confirming, CallerType
  <2> HIDE DEF d
  <2>3. PromisesKept
    BY <2>1, <2>2, CallerKeeps
  <2>4. \A e \in Evses : Loosened(em[e], em'[e])
    BY <1>1, <2>1, SendLoosened
  <2> QED
    BY <2>1, <2>3, <2>4, HeldStays
<1> QED
  BY <1>2, <1>3
\* handle_reservation: the EvseManager will be told of the new reservation.
LEMMA MakeHeld ==
    ASSUME IInv, HeldInv, NEW late \in BOOLEAN, handle_reservation(late)
    PROVE  HeldInv'
<1> DEFINE c == caller["place"]
           r == c.r
           made == make_reservation(book, seen, r, late)
           d == [c EXCEPT !.pc = "drop", !.ok = made.ok]
<1>0. "place" \in Callers
  BY DEF Callers
<1>1. c \in CallerType /\ c.pc = "make" /\ HasReservation(c)
  BY <1>0 DEF handle_reservation, IInv, TypeOK, CallersOK
<1>2. r # None /\ r \in Reservation
  BY <1>1 DEF CallerType, HasReservation, WithReservation
<1>3. /\ book' = made.book /\ SetCaller("place", d) /\ em' = em /\ UNCHANGED <<restored, apply>>
  BY DEF handle_reservation
<1>4. BookOK(book)
  BY BookNow
<1>5. \A e \in Evses :
         \/ made.book.evse[e] = book.evse[e]
         \/ made.book.evse[e] = None
         \/ made.ok /\ e = r.evse /\ made.book.evse[e] = r /\ has_evse_connector_type(e, TypeOf(r))
  BY <1>2, <1>4, MakeAt
<1> HIDE DEF made
<1>6. d.pc = "drop" /\ d.ok = made.ok /\ d.r = r
  BY <1>1 DEF CallerType
<1>7. caller'["place"] = d
  BY <1>0, <1>3 DEF SetCaller, IInv, TypeOK
<1> HIDE DEF d
<1>8. PromisesKept
  BY <1>0, <1>1, <1>3, CallerKeeps DEF Placing, Confirming
<1>9. ASSUME NEW e \in Evses PROVE Backed(e)'
  <2>1. CASE made.book.evse[e] = book.evse[e] \/ made.book.evse[e] = None
    <3>1. \A id \in Ids : id = book.evse[e].id /\ Promised(e, id) => Promised(e, id)'
      BY <1>8 DEF PromisesKept
    <3> QED
      BY <1>3, <1>8, <2>1, <3>1, LoosenedSame, BackedStays DEF HeldInv, PromisesKept
  <2>2. CASE made.ok /\ e = r.evse /\ made.book.evse[e] = r /\ has_evse_connector_type(e, TypeOf(r))
    <3>1. (Placing(caller["place"]) /\ For(caller["place"], e, r.id))'
      BY <1>2, <1>3, <1>6, <1>7, <2>2 DEF Placing, For
    <3>2. PICK id : id = r.id
      OBVIOUS
    <3>3. Promised(e, id)'
      BY <1>2, <1>6, <1>7, <2>2, <3>2 DEF Promised, Placing, For
    <3>4. CASE r.type # None
      <4>1. book'.evse[e] = r /\ has_evse_connector_type(e, book'.evse[e].type)
        BY <1>3, <2>2, <3>4 DEF TypeOf
      <4> QED
        BY <3>2, <3>3, <4>1, BackedNext
    <3>5. CASE r.type = None
      BY <1>3, <2>2, <3>5 DEF Backed
    <3> QED
      BY <3>4, <3>5
  <2> QED
    BY <1>5, <2>1, <2>2
<1> QED
  BY <1>9 DEF HeldInv

\* set_reserved for a reservation of the EVSE.
LEMMA ReserveIs ==
    ASSUME NEW c \in EvseManagerType, NEW id \in Ids
    PROVE  LET d == set_reserved(c, id)
           IN  /\ d.out = c.out
               /\ MayReserve(c, id) => d.reserved /\ d.reservation_id = id /\ ~d.used
               /\ ~MayReserve(c, id) => d = c
               /\ Proper(c) => Proper(d)
<1>1. id # Global
  BY ReservationAssumption DEF Global
<1> QED
  BY <1>1 DEF set_reserved, MayReserve, Proper, EvseManagerType

\* call_reserved: the reservation in hand is not forgotten.
LEMMA CallReservedHeld ==
    ASSUME IInv, HeldInv, NEW t \in Callers, call_reserved(t)
    PROVE  HeldInv'
<1> DEFINE c == caller[t]
           x == [c EXCEPT !.pc = "check", !.next = "confirm"]
           y == [c EXCEPT !.pc = IF em[c.r.evse].state = "Idle" THEN "set" ELSE "undo"]
<1>1. c \in CallerType /\ c.pc = "reserve"
  BY DEF call_reserved, IInv, TypeOK
<1>2. (c.r.evse = None /\ SetCaller(t, x)) \/ SetCaller(t, y)
  BY DEF call_reserved
<1>3. UNCHANGED <<restored, apply>> /\ UNCHANGED book /\ em' = em
  BY DEF call_reserved
<1>4. ~Confirming(c)
  BY <1>1 DEF Confirming
<1>5. Placing(y) /\ y.r = c.r
  BY <1>1 DEF Placing, CallerType
<1> HIDE DEF x, y
<1>6. CASE SetCaller(t, y)
  <2>1. PromisesKept
    BY <1>3, <1>4, <1>5, <1>6, CallerKeeps
  <2> QED
    BY <1>3, <2>1, TellHeld
<1>7. CASE c.r.evse = None /\ SetCaller(t, x)
  <2>1. ChecksKept
    BY <1>4, <1>7, CallerChecks
  <2>2. \A u \in {"place", "restore"} : u # t => caller'[u] = caller[u]
    BY <1>7 DEF SetCaller, IInv, TypeOK, Callers
  <2>3. \A e \in Evses : ~For(c, e, 0) /\ \A id : ~For(c, e, id)
    BY <1>7, ReservationAssumption DEF For
  <2>4. \A e \in Evses, id \in Ids : Promised(e, id) => Promised(e, id)'
    BY <1>3, <2>2, <2>3 DEF Promised, Placing, For
  <2>5. PromisesKept
    BY <2>1, <2>4 DEF PromisesKept
  <2> QED
    BY <1>3, <2>5, TellHeld
<1> QED
  BY <1>2, <1>6, <1>7

\* reserve: the EvseManager is reserved for what the thread will look at again,
\* or the reservation will be taken back.
LEMMA ReserveHeld ==
    ASSUME IInv, ThreadsInv, HeldInv, NEW t \in Callers, reserve(t)
    PROVE  HeldInv'
<1> DEFINE c == caller[t]
           r == c.r
           refused == ~MayReserve(em[r.evse], r.id)
           d == IF refused THEN [c EXCEPT !.pc = "undo"] ELSE [c EXCEPT !.pc = "check", !.next = "confirm"]
<1>1. c \in CallerType /\ c.pc = "set" /\ HasReservation(c) /\ em \in [Evses -> EvseManagerType]
  BY DEF reserve, IInv, TypeOK, CallersOK
<1>2. r # None /\ r \in Reservation /\ r.evse # None
  BY <1>1 DEF CallerType, HasReservation, WithReservation
<1>3. r.evse \in Evses /\ r.id \in Ids
  BY <1>2 DEF Reservation
<1>4. /\ em' = [em EXCEPT ![r.evse] = set_reserved(@, r.id)]
      /\ SetCaller(t, d) /\ UNCHANGED book /\ UNCHANGED <<restored, apply>>
  BY DEF reserve
<1>5. /\ d.r = r
      /\ refused => Placing(d)
      /\ ~refused => Confirming(d)
  BY <1>1 DEF Placing, Confirming, CallerType
<1>6. \A u \in Callers : caller'[u] = IF u = t THEN d ELSE caller[u]
  BY <1>4 DEF SetCaller, IInv, TypeOK
<1>7. ~Confirming(c)
  BY <1>1 DEF Confirming
<1> HIDE DEF d
<1>8. CASE refused
  <2>1. PromisesKept
    BY <1>4, <1>5, <1>7, <1>8, CallerKeeps
  <2>2. \A e \in Evses : em'[e] = em[e]
    BY <1>1, <1>3, <1>4, <1>8, ReserveIs
  <2> QED
    BY <1>4, <2>1, <2>2, LoosenedSame, HeldStays
<1>9. CASE ~refused
  <2>1. ASSUME NEW e \in Evses, NEW id \in Ids, Promised(e, id), e # r.evse
        PROVE  Promised(e, id)'
    <3>1. CASE restored[e] = id \/ apply[e] = id
      BY <1>4, <3>1 DEF Promised
    <3>2. CASE \E u \in {"place", "restore"} : Placing(caller[u]) /\ For(caller[u], e, id)
      <4>1. PICK u \in {"place", "restore"} : Placing(caller[u]) /\ For(caller[u], e, id)
        BY <3>2
      <4>2. u # t /\ u \in Callers
        BY <2>1, <4>1 DEF For, Callers
      <4>3. caller'[u] = caller[u]
        BY <1>6, <4>2
      <4> QED
        BY <4>1, <4>3 DEF Promised, Placing, For
    <3> QED
      BY <2>1, <3>1, <3>2 DEF Promised
  <2>2. ChecksKept
    BY <1>4, <1>7, CallerChecks
  <2>3. ASSUME NEW e \in Evses, e # r.evse PROVE Backed(e)'
    <3>1. em'[e] = em[e]
      BY <1>1, <1>3, <1>4, <2>3
    <3>2. \A id \in Ids : id = book.evse[e].id /\ Promised(e, id) => Promised(e, id)'
      BY <2>1, <2>3
    <3> QED
      BY <1>4, <2>2, <3>1, <3>2, LoosenedSame, BackedStays DEF HeldInv
  <2>4. ASSUME NEW e \in Evses, e = r.evse, book.evse[e] # None, book.evse[e].type # None PROVE Backed(e)'
    <3>1. em'[e] = set_reserved(em[e], r.id) /\ em[e] \in EvseManagerType /\ MayReserve(em[e], r.id)
      BY <1>1, <1>4, <1>9, <2>4
    <3>2. em'[e].reserved /\ em'[e].reservation_id = r.id
      BY <1>3, <3>1, ReserveIs
    <3>3. For(d, e, r.id)
      BY <1>2, <1>5, <2>4 DEF For
    <3>4. t \in {"place", "restore"}
      BY <1>1 DEF ThreadsInv, Position, Callers
    <3>5. Rechecked(caller', e, em'[e].reservation_id)
      BY <1>5, <1>6, <1>9, <3>2, <3>3, <3>4 DEF Rechecked
    <3>6. Reserving(em'[e], caller', e, book'.evse[e].id)
      BY <3>2, <3>5 DEF Reserving
    <3>7. has_evse_connector_type(e, book'.evse[e].type)
      BY <1>4, <2>4 DEF HeldInv, Backed
    <3> QED
      BY <3>6, <3>7, BackedNext
  <2>5. ASSUME NEW e \in Evses PROVE Backed(e)'
    BY <1>4, <2>3, <2>4 DEF Backed
  <2> QED
    BY <2>5 DEF HeldInv
<1> QED
  BY <1>8, <1>9

\* Undo: what is taken back is not held any more.
LEMMA UndoHeld ==
    ASSUME IInv, HeldInv, NEW t \in Callers, Undo(t)
    PROVE  HeldInv'
<1> DEFINE c == caller[t]
           r == c.r
<1>1. c \in CallerType /\ c.pc = "undo" /\ HasReservation(c)
  BY DEF Undo, IInv, TypeOK, CallersOK
<1>2. r # None /\ r \in Reservation
  BY <1>1 DEF CallerType, HasReservation, WithReservation
<1>3. r.id \in Ids
  BY <1>2 DEF Reservation
<1>4. PICK d : SetCaller(t, d)
  BY DEF Undo
<1>5. book' = cancel_reservation(book, r.id) /\ em' = em /\ UNCHANGED <<restored, apply>>
  BY DEF Undo
<1>6. \A e \in Evses : book'.evse[e] \in {book.evse[e], None} /\ ~is_evse_reserved(book', e, r.id)
  BY <1>3, <1>5, BookNow, CancelAt
<1>7. \A u \in Callers : caller'[u] = IF u = t THEN d ELSE caller[u]
  BY <1>4 DEF SetCaller, IInv, TypeOK
<1>8. ASSUME NEW e \in Evses, NEW id \in Ids, Promised(e, id), id # r.id
      PROVE  Promised(e, id)'
  <2>1. CASE restored[e] = id \/ apply[e] = id
    BY <1>5, <2>1 DEF Promised
  <2>2. CASE \E u \in {"place", "restore"} : Placing(caller[u]) /\ For(caller[u], e, id)
    <3>1. PICK u \in {"place", "restore"} : Placing(caller[u]) /\ For(caller[u], e, id)
      BY <2>2
    <3>2. u # t /\ u \in Callers
      BY <1>8, <3>1 DEF For, Callers
    <3>3. caller'[u] = caller[u]
      BY <1>7, <3>2
    <3> QED
      BY <3>1, <3>3 DEF Promised, Placing, For
  <2> QED
    BY <1>8, <2>1, <2>2 DEF Promised
<1>9. ASSUME NEW e \in Evses PROVE Backed(e)'
  <2>1. book'.evse[e] # None => book.evse[e].id # r.id
    BY <1>6 DEF is_evse_reserved
  <2>2. book'.evse[e] # None => \A id \in Ids : id = book.evse[e].id /\ Promised(e, id) => Promised(e, id)'
    BY <1>8, <2>1
  <2>3. ChecksKept
    BY <1>1, <1>4, CallerChecks DEF Confirming
  <2> QED
    BY <1>5, <1>6, <2>2, <2>3, LoosenedSame, BackedStays DEF HeldInv
<1> QED
  BY <1>9 DEF HeldInv

\* handle_cancel_reservation.
LEMMA CancelHeld ==
    ASSUME IInv, HeldInv, NEW id \in Ids, handle_cancel_reservation(id)
    PROVE  HeldInv'
<1>1. PICK d : SetCaller("cancel", d) /\ caller["cancel"].pc = "idle"
  BY DEF handle_cancel_reservation
<1>2. PromisesKept
  BY <1>1, CallerKeeps DEF handle_cancel_reservation, Placing, Confirming, Callers
<1>3. \A e \in Evses : book'.evse[e] \in {book.evse[e], None}
  BY BookNow, CancelAt DEF handle_cancel_reservation
<1> QED
  BY <1>2, <1>3, LoosenedSame, HeldStays DEF handle_cancel_reservation

\* take_restored_reservation: one that is held is handed on.
LEMMA TakeHeld ==
    ASSUME IInv, HeldInv, take_restored_reservation
    PROVE  HeldInv'
<1> DEFINE c == caller["event"]
           S == IF c.replaced = None THEN {e \in Evses : seen[e].enabled} ELSE {c.replaced}
<1>1. /\ apply' = [e \in Evses |-> IF e \in S /\ restored[e] # None /\ is_evse_reserved(book, e, restored[e])
                                   THEN restored[e] ELSE apply[e]]
      /\ restored' = [e \in Evses |-> IF e \in S THEN None ELSE restored[e]]
      /\ SetCaller("event", IdleCaller) /\ book' = book /\ em' = em
  BY DEF take_restored_reservation
<1> HIDE DEF S
<1>2. \A u \in {"place", "restore"} : caller'[u] = caller[u]
  BY <1>1 DEF SetCaller, IInv, TypeOK, Callers
<1>3. ASSUME NEW e \in Evses, book.evse[e] # None, NEW id \in Ids, id = book.evse[e].id, Promised(e, id)
      PROVE  Promised(e, id)'
  <2>0. id # None
    BY ReservationAssumption
  <2>1. CASE restored[e] = id
    BY <1>1, <1>3, <2>0, <2>1 DEF Promised, is_evse_reserved
  <2>2. CASE apply[e] = id
    BY <1>1, <1>3, <2>0, <2>2 DEF Promised, is_evse_reserved
  <2>3. CASE \E u \in {"place", "restore"} : Placing(caller[u]) /\ For(caller[u], e, id)
    BY <1>2, <2>3 DEF Promised, Placing, For
  <2> QED
    BY <1>3, <2>1, <2>2, <2>3 DEF Promised
<1>4. ChecksKept
  BY <1>2 DEF ChecksKept, Rechecked
<1>5. ASSUME NEW e \in Evses PROVE Backed(e)'
  BY <1>1, <1>3, <1>4, LoosenedSame, BackedStays DEF HeldInv
<1> QED
  BY <1>5 DEF HeldInv

\* apply_restored_reservation: the thread that restores has it in hand.
LEMMA ApplyHeld ==
    ASSUME IInv, HeldInv, NEW f \in Evses, apply_restored_reservation(f)
    PROVE  HeldInv'
<1> DEFINE r == [id |-> apply[f], evse |-> f, type |-> None, token |-> CHOOSE t \in Tokens : TRUE, parent |-> None]
           d == [IdleCaller EXCEPT !.pc = "reserve", !.r = r]
<1>1. /\ apply' = [apply EXCEPT ![f] = None] /\ SetCaller("restore", d) /\ caller["restore"].pc = "idle"
      /\ restored' = restored /\ book' = book /\ em' = em /\ apply[f] # None
  BY DEF apply_restored_reservation
<1>2. apply \in [Evses -> Ids \cup {None}]
  BY DEF IInv, TypeOK
<1>3. d.pc = "reserve" /\ d.r = r /\ r.evse = f /\ r.id = apply[f]
  BY DEF IdleCaller
<1>4. r # None
  <2>1. apply[f] \in Ids
    BY <1>1, <1>2
  <2>2. r \in Reservation
    BY <2>1, ReservationAssumption DEF Reservation
  <2> QED
    BY <2>2, ReservationAssumption
<1> HIDE DEF r, d
<1>5. caller'["restore"] = d /\ caller'["place"] = caller["place"]
  BY <1>1 DEF SetCaller, IInv, TypeOK, Callers
<1>6. ASSUME NEW e \in Evses, NEW id \in Ids, Promised(e, id)
      PROVE  Promised(e, id)'
  <2>1. CASE restored[e] = id
    BY <1>1, <2>1 DEF Promised
  <2>2. CASE apply[e] = id /\ e # f
    BY <1>1, <1>2, <2>2 DEF Promised
  <2>3. CASE apply[e] = id /\ e = f
    BY <1>3, <1>4, <1>5, <2>3 DEF Promised, Placing, For
  <2>4. CASE \E u \in {"place", "restore"} : Placing(caller[u]) /\ For(caller[u], e, id)
    <3>1. Placing(caller["place"]) /\ For(caller["place"], e, id)
      BY <1>1, <2>4 DEF Placing
    <3> QED
      BY <1>5, <3>1 DEF Promised, Placing, For
  <2> QED
    BY <1>6, <2>1, <2>2, <2>3, <2>4 DEF Promised
<1>7. ChecksKept
  BY <1>1, CallerChecks DEF Confirming, Callers
<1> QED
  BY <1>1, <1>6, <1>7, LoosenedSame, HeldStays DEF PromisesKept
-----------------------------------------------------------------------------
(* The steps of the timers, of the event handler and of the EVSEs.         *)

\* A step that leaves the threads and the restored reservations alone.
LEMMA OthersKeep ==
    ASSUME UNCHANGED <<restored, apply, caller>>
    PROVE  PromisesKept
  BY DEF PromisesKept, ChecksKept, Promised, Placing, For

\* A step with a mutex held.
LEMMA ToldHeld ==
    ASSUME IInv, HeldInv, NEW w, Become(w), Told(World, w), PromisesKept
    PROVE  HeldInv'
<1>1. World.book = book /\ World.em = em /\ book' = w.book /\ em' = w.em
  BY DEF World, Become
<1> HIDE DEF World
<1>2. \A e \in Evses : book'.evse[e] \in {book.evse[e], None} /\ Loosened(em[e], em'[e])
  BY <1>1 DEF Told
<1> QED
  BY <1>2, HeldStays

\* Expire and ReservationExpired.
LEMMA TimerHeld ==
    ASSUME IInv, HeldInv, ReservationExpired \/ \E id \in Ids : Expire(id)
    PROVE  HeldInv'
<1>1. CASE ReservationExpired
  <2> DEFINE id == Head(expired)
  <2>1. expired \in Seq(Ids) /\ expired # <<>>
    BY <1>1 DEF ReservationExpired, IInv, TypeOK
  <2>2. id \in Ids
    BY <2>1
  <2>3. World \in WorldType /\ World.book = book /\ BookOK(book)
    BY WorldNow, BookNow
  <2>4. Become(CancelAndTell(World, seen, id))
    BY <1>1 DEF ReservationExpired
  <2>5. PromisesKept
    BY <1>1, OthersKeep DEF ReservationExpired
  <2> HIDE DEF World, id
  <2>6. Told(World, CancelAndTell(World, seen, id))
    BY <2>2, <2>3, CancelTold
  <2> QED
    BY <2>4, <2>5, <2>6, ToldHeld
<1>2. CASE \E id \in Ids : Expire(id)
  <2>1. book'.evse = book.evse
    BY <1>2 DEF Expire, IInv, TypeOK, BookType
  <2>2. PromisesKept /\ em' = em
    BY <1>2, OthersKeep DEF Expire
  <2> QED
    BY <2>1, <2>2, LoosenedSame, HeldStays
<1> QED
  BY <1>1, <1>2

\* After its TransactionStarted a connector is not available.
LEMMA Occupied ==
    ASSUME NEW s \in ViewType
    PROVE  View(s, "TransactionStarted").connector # "AVAILABLE"
<1>1. s.connector \in ConnectorState
  BY DEF ViewType
<1>2. ASSUME NEW state \in ConnectorState PROVE handle_event(state, "TRANSACTION_STARTED") # "AVAILABLE"
  <2>1. CASE state = "AVAILABLE"
    BY <2>1 DEF handle_event
  <2>2. CASE state = "UNAVAILABLE"
    BY <2>2 DEF handle_event
  <2>3. CASE state = "FAULTED"
    BY <2>3 DEF handle_event
  <2>4. CASE state = "OCCUPIED"
    BY <2>4 DEF handle_event
  <2>5. CASE state = "FAULTED_OCCUPIED"
    BY <2>5 DEF handle_event
  <2>6. CASE state = "UNAVAILABLE_FAULTED"
    BY <2>6 DEF handle_event
  <2> QED
    BY <2>1, <2>2, <2>3, <2>4, <2>5, <2>6 DEF ConnectorState
<1>3. View(s, "TransactionStarted").connector = handle_event(s.connector, "TRANSACTION_STARTED")
  BY DEF View, ViewType
<1> QED
  BY <1>1, <1>2, <1>3

\* The events that wait behind the one that is handled.
LEMMA HandledKeeps ==
    ASSUME NEW c \in EvseManagerType, c.out # <<>>, NEW event \in Events, event # Head(c.out), Has(c, event)
    PROVE  Has([c EXCEPT !.out = Tail(@)], event)
<1>1. c.out \in Seq(Events)
  BY DEF EvseManagerType
<1>2. PICK i \in DOMAIN c.out : c.out[i] = event
  BY DEF Has
<1>3. i \in 1..Len(c.out) /\ i # 1 /\ Len(c.out) \in Nat
  BY <1>1, <1>2
<1>4. i - 1 \in DOMAIN Tail(c.out) /\ Tail(c.out)[i - 1] = event
  BY <1>1, <1>2, <1>3
<1>5. [c EXCEPT !.out = Tail(@)].out = Tail(c.out)
  BY DEF EvseManagerType
<1> QED
  BY <1>4, <1>5 DEF Has

\* handle_session_event: the reservation goes with the event that ended it at
\* the EvseManager, the others are told of what goes besides.
LEMMA EventHeld ==
    ASSUME IInv, HeldInv, NEW f \in Evses, handle_session_event(f)
    PROVE  HeldInv'
<1> DEFINE event == Head(em[f].out)
           v == [seen EXCEPT ![f] = View(@, event)]
           m == [em EXCEPT ![f].out = Tail(@)]
           w == [World EXCEPT !.em[f].out = Tail(@)]
           x == on_connector_state_changed(w, v, f)
           y == CancelAndTell(w, v, book.evse[f].id)
           checks == event \in {"TransactionStarted", "SessionFinished"} \/ event \in {"Disabled", "Enabled"}
           z == IF checks THEN x ELSE IF event = "ReservationEnd" /\ book.evse[f] # None THEN y ELSE w
<1>1. /\ em \in [Evses -> EvseManagerType] /\ em[f] \in EvseManagerType
      /\ em[f].out \in Seq(Events) /\ em[f].out # <<>> /\ seen \in [Evses -> ViewType]
  BY DEF handle_session_event, IInv, TypeOK, EvseManagerType
<1>2. event \in Events /\ Tail(em[f].out) \in Seq(Events)
  BY <1>1
<1>3. m[f] = [em[f] EXCEPT !.out = Tail(@)] /\ \A e \in Evses : e # f => m[e] = em[e]
  BY <1>1
<1>4. w \in WorldType /\ w.book = book /\ w.em = m
  <2>1. [em[f] EXCEPT !.out = Tail(@)] \in EvseManagerType
    BY <1>1, <1>2 DEF EvseManagerType
  <2>2. m \in [Evses -> EvseManagerType]
    BY <1>1, <2>1
  <2>3. w = [World EXCEPT !.em = m]
    BY DEF World
  <2>4. World \in WorldType /\ World.book = book
    BY WorldNow
  <2> HIDE DEF w, World, m
  <2> QED
    BY <2>2, <2>3, <2>4 DEF WorldType
<1>5. Become(z)
  BY DEF handle_session_event
<1>6. PICK c : SetCaller("event", c)
  BY DEF handle_session_event
<1>7. UNCHANGED <<restored, apply>> /\ caller["event"].pc = "idle"
  BY DEF handle_session_event, Unlocked
<1>8. PromisesKept
  BY <1>6, <1>7, CallerKeeps DEF Placing, Confirming, Callers
<1>9. v[f] = View(seen[f], event)
  BY <1>1
<1>10. book'.evse = z.book.evse /\ em' = z.em
  BY <1>5 DEF Become
<1> HIDE DEF w, v, m, z
<1>11. Told(w, w) /\ Told(w, x)
  BY <1>4, BookNow, ConnectorTold, ToldSame, SMTT(40)
<1>12. ASSUME book.evse[f] # None PROVE Told(w, y) /\ y.book.evse[f] = None
  <2>1. book.evse[f].id \in Ids
    BY <1>12, HeldType
  <2>2. Told(w, y) /\ ~is_evse_reserved(y.book, f, book.evse[f].id)
    BY <1>4, <2>1, BookNow, CancelTold
  <2> QED
    BY <1>4, <2>2 DEF Told, is_evse_reserved
<1>13. Told(w, z)
  BY <1>11, <1>12 DEF z
<1>14. \A e \in Evses : book'.evse[e] \in {book.evse[e], None} /\ Loosened(m[e], em'[e])
  BY <1>4, <1>10, <1>13 DEF Told
<1>15. \A e \in Evses : \A id \in Ids : id = book.evse[e].id /\ Promised(e, id) => Promised(e, id)'
  BY <1>8 DEF PromisesKept
<1>16. ASSUME NEW e \in Evses, e # f PROVE Backed(e)'
  BY <1>3, <1>8, <1>14, <1>15, <1>16, BackedStays DEF HeldInv, PromisesKept
<1>17. ASSUME book'.evse[f] # None, book'.evse[f].type # None PROVE Backed(f)'
  <2>1. book'.evse[f] = book.evse[f]
    BY <1>14, <1>17
  <2>2. PICK id \in Ids : id = book.evse[f].id
    BY <1>17, <2>1, HeldType
  <2>3. /\ has_evse_connector_type(f, book.evse[f].type)
        /\ Reserving(em[f], caller, f, id) \/ Ending(em[f]) \/ Promised(f, id)
    BY <1>17, <2>1, <2>2 DEF HeldInv, Backed
  <2>4. event # "ReservationEnd"
    BY <1>10, <1>12, <1>17, <2>1 DEF z
  <2>5. event # "TransactionStarted"
    <3>1. SUFFICES ASSUME event = "TransactionStarted" PROVE FALSE
      OBVIOUS
    <3>2. v[f].connector # "AVAILABLE"
      BY <1>1, <1>9, <3>1, Occupied
    <3>3. x.book.evse[f] = None
      BY <1>4, <1>17, <2>1, <2>3, <3>2, BookNow, ConnectorTold
    <3> QED
      BY <1>10, <1>17, <3>1, <3>3 DEF z
  <2> HIDE DEF event
  <2>6. Ending(em[f]) => Ending(m[f])
    BY <1>1, <1>3, <2>4, <2>5, EndEvents, HandledKeeps DEF Ending, event
  <2>7. /\ m[f].reserved = em[f].reserved /\ m[f].reservation_id = em[f].reservation_id /\ m[f].used = em[f].used
        /\ m[f].reservation_id \in Ids \cup {Global}
    BY <1>1, <1>3 DEF EvseManagerType
  <2>8. Ending(m[f]) => Ending(em'[f])
    BY <1>14, EndEvents DEF Loosened, Keeps, Ending
  <2>9. Reserving(m[f], caller, f, id) => Reserving(em'[f], caller', f, id) \/ Ending(em'[f])
    BY <1>8, <1>14, <2>7, ReservingStays DEF PromisesKept
  <2>10. Reserving(em[f], caller, f, id) => Reserving(m[f], caller, f, id)
    BY <2>7 DEF Reserving
  <2>12. Reserving(em'[f], caller', f, id) \/ Ending(em'[f]) \/ Promised(f, id)'
    BY <1>15, <2>2, <2>3, <2>6, <2>8, <2>9, <2>10
  <2>11. book'.evse[f].id = id /\ has_evse_connector_type(f, book'.evse[f].type)
    BY <2>1, <2>2, <2>3
  <2> QED
    BY <2>11, <2>12, BackedNext
<1>18. ASSUME ~(book'.evse[f] # None /\ book'.evse[f].type # None) PROVE Backed(f)'
  BY <1>18 DEF Backed
<1>19. Backed(f)'
  BY <1>17, <1>18
<1>20. ASSUME NEW e \in Evses PROVE Backed(e)'
  BY <1>16, <1>19
<1> QED
  BY <1>20 DEF HeldInv
\* What the users and the main loop do at an EVSE loosens its reservation.
LEMMA UserLoosened ==
    ASSUME IInv, NEW f \in Evses,
           \/ PlugIn(f) \/ Unplug(f) \/ DisableEvse(f) \/ EnableEvse(f) \/ MainLoop(f) \/ WithdrawAuthorization(f)
    PROVE  /\ \A e \in Evses : Loosened(em[e], em'[e])
           /\ UNCHANGED <<book, expired, loading, restored, apply, seen, last_reserved_status, caller>>
<1>1. em \in [Evses -> EvseManagerType] /\ em[f] \in EvseManagerType
  BY DEF IInv, TypeOK
<1>2. /\ UNCHANGED <<book, expired, loading, restored, apply, seen, last_reserved_status, caller>>
      /\ em' = [em EXCEPT ![f] = em'[f]]
      /\ \/ em'[f] = Published(em[f], CarPluggedIn(em[f]))
         \/ em'[f] = Published(em[f], CarUnplugged(em[f]))
         \/ em'[f] = Published(em[f], Disable(em[f]))
         \/ em'[f] = Published(em[f], Enable(em[f]))
         \/ em'[f] = Published(em[f], StartCharging(em[f], "Charging"))
         \/ em'[f] = Published(em[f], Finish(em[f]))
         \/ em'[f] = Published(em[f], withdraw_authorization(em[f]))
  <2>1. ASSUME NEW d, EvseChange(f, d)
        PROVE  /\ UNCHANGED <<book, expired, loading, restored, apply, seen, last_reserved_status, caller>>
               /\ em' = [em EXCEPT ![f] = em'[f]] /\ em'[f] = Published(em[f], d)
    BY <1>1, <2>1 DEF EvseChange
  <2> QED
    BY <2>1 DEF PlugIn, Unplug, DisableEvse, EnableEvse, MainLoop, WithdrawAuthorization
<1>3. Loosened(em[f], em'[f])
  BY <1>1, <1>2, UserPlain, UserType, RunPlain, RunType, PublishedLoosened, WithdrawLoosened
<1>4. \A e \in Evses : e # f => em'[e] = em[e]
  BY <1>1, <1>2
<1> QED
  BY <1>2, <1>3, <1>4, LoosenedSame

\* The same for the invariant.
LEMMA UserHeld ==
    ASSUME IInv, HeldInv, NEW f \in Evses,
           \/ PlugIn(f) \/ Unplug(f) \/ DisableEvse(f) \/ EnableEvse(f) \/ MainLoop(f) \/ WithdrawAuthorization(f)
    PROVE  HeldInv'
<1>1. /\ \A e \in Evses : Loosened(em[e], em'[e])
      /\ UNCHANGED <<book, restored, apply, caller>>
  BY UserLoosened
<1>2. PromisesKept
  BY <1>1, OthersKeep
<1> QED
  BY <1>1, <1>2, HeldStays

\* UseToken: the EVSE has no reservation afterwards.
LEMMA TokenAt ==
    ASSUME IInv, NEW f \in Evses, NEW t \in Tokens, NEW parent, UseToken(f, t, parent)
    PROVE  /\ book'.evse[f] = None
           /\ \A e \in Evses : book'.evse[e] \in {book.evse[e], None}
           /\ \A e \in Evses : e # f => em'[e] = em[e]
<1>1. em \in [Evses -> EvseManagerType] /\ BookOK(book)
  BY BookNow DEF IInv, TypeOK
<1>2. PICK id \in Ids \cup {None} :
         /\ id = None => is_charging_possible(book, seen, f)
         /\ id # None => id \in matches_reserved_identifier(book, t, f, parent)
         /\ book' = IF id = None THEN book ELSE cancel_reservation(book, id)
         /\ em' = [em EXCEPT ![f].used = @ \/ (em[f].reserved /\ em[f].reservation_id = id)]
  BY TokenIs
<1>3. CASE id = None
  BY <1>1, <1>2, <1>3 DEF is_charging_possible
<1>4. CASE id # None
  <2>1. \A e \in Evses : book'.evse[e] \in {book.evse[e], None} /\ ~is_evse_reserved(book', e, id)
    BY <1>1, <1>2, <1>4, CancelAt
  <2>2. book.evse[f] # None => id = book.evse[f].id
    BY <1>2, <1>4 DEF matches_reserved_identifier
  <2> QED
    BY <1>1, <1>2, <2>1, <2>2 DEF is_evse_reserved
<1> QED
  BY <1>3, <1>4

\* The same for the invariant.
LEMMA TokenHeld ==
    ASSUME IInv, HeldInv, NEW f \in Evses, NEW t \in Tokens, NEW parent, UseToken(f, t, parent)
    PROVE  HeldInv'
<1>1. /\ book'.evse[f] = None
      /\ \A e \in Evses : book'.evse[e] \in {book.evse[e], None}
      /\ \A e \in Evses : e # f => em'[e] = em[e]
  BY TokenAt
<1>2. PromisesKept
  BY OthersKeep DEF UseToken
<1>3. ASSUME NEW e \in Evses PROVE Backed(e)'
  <2>1. CASE e = f
    BY <1>1, <2>1 DEF Backed
  <2>2. CASE e # f
    <3>1. \A id \in Ids : id = book.evse[e].id /\ Promised(e, id) => Promised(e, id)'
      BY <1>2 DEF PromisesKept
    <3> QED
      BY <1>1, <1>2, <2>2, <3>1, LoosenedSame, BackedStays DEF HeldInv, PromisesKept
  <2> QED
    BY <2>1, <2>2
<1> QED
  BY <1>3 DEF HeldInv

\* authorize_response: the reservation stays as it was or is over, or the one
\* that was given is used.
LEMMA ResponseIs ==
    ASSUME NEW c \in EvseManagerType, NEW id \in Ids \cup {None}, NEW waiting_for_pnc \in BOOLEAN
    PROVE  LET d == authorize_response(c, id, waiting_for_pnc)
           IN  \/ Loosened(c, d)
               \/ Keeps(c, d) /\ ((d.reserved /\ d.used) \/ Ending(d))
<1> DEFINE u == use_reservation(c, id)
<1>1. Loosened(c, c) /\ Loosened(c, authorize(c)) /\ Loosened(c, EndReservation(c, TRUE))
  BY LoosenedSame, AuthorizePlain, PlainLoosened, EndLoosened
<1>2. CASE id = None \/ waiting_for_pnc \/ c.state = "Disabled"
  BY <1>1, <1>2 DEF authorize_response, use_reservation
<1>3. CASE id # None /\ ~waiting_for_pnc /\ c.state # "Disabled"
  <2>1. authorize_response(c, id, waiting_for_pnc) = IF Refuses(u) THEN EndReservation(u, TRUE) ELSE authorize(u)
    BY <1>3 DEF authorize_response
  <2>2. u \in EvseManagerType /\ u.reserved /\ u.used /\ u.out = c.out
    BY <1>3 DEF use_reservation, EvseManagerType
  <2> HIDE DEF u
  <2>3. Keeps(c, u)
    BY <2>2 DEF Keeps, Has
  <2>4. Plain(u, authorize(u)) /\ Loosened(u, EndReservation(u, TRUE)) /\ Ending(EndReservation(u, TRUE))
    BY <2>2, AuthorizePlain, EndLoosened, EndsNow
  <2> QED
    BY <2>1, <2>2, <2>3, <2>4 DEF Plain, Loosened, Keeps
<1> QED
  BY <1>2, <1>3

\* notify_evse: an EvseManager that has to serve the reservation of a token is
\* reserved, whatever Auth holds by now.
LEMMA NotifyHeld ==
    ASSUME IInv, HeldInv, NEW w \in waiting, NEW waiting_for_pnc \in BOOLEAN, notify_evse(w, waiting_for_pnc)
    PROVE  HeldInv'
<1>1. w \in Wait /\ em \in [Evses -> EvseManagerType]
  BY DEF IInv, TypeOK
<1>2. w.evse \in Evses /\ w.id \in Ids \cup {None}
  BY <1>1 DEF Wait
<1>3. /\ em' = [em EXCEPT ![w.evse] = authorize_response(@, w.id, waiting_for_pnc)]
      /\ UNCHANGED <<book, restored, apply, caller>>
  BY DEF notify_evse
<1>4. PromisesKept
  BY <1>3, OthersKeep
<1>5. ASSUME NEW e \in Evses PROVE Backed(e)'
  <2>1. \A id \in Ids : id = book.evse[e].id /\ Promised(e, id) => Promised(e, id)'
    BY <1>4 DEF PromisesKept
  <2>2. CASE Loosened(em[e], em'[e])
    BY <1>3, <1>4, <2>1, <2>2, BackedStays DEF HeldInv, PromisesKept
  <2>3. CASE (em'[e].reserved /\ em'[e].used) \/ Ending(em'[e])
    <3>1. ASSUME book.evse[e] # None, book.evse[e].type # None PROVE Backed(e)'
      <4>1. Reserving(em'[e], caller', e, book'.evse[e].id) \/ Ending(em'[e])
        BY <2>3 DEF Reserving
      <4>2. has_evse_connector_type(e, book'.evse[e].type)
        BY <1>3, <3>1 DEF HeldInv, Backed
      <4> QED
        BY <4>1, <4>2, BackedNext
    <3> QED
      BY <1>3, <3>1 DEF Backed
  <2>4. CASE e # w.evse
    BY <1>1, <1>3, <2>2, <2>4, LoosenedSame
  <2>5. CASE e = w.evse
    <3>1. em'[e] = authorize_response(em[e], w.id, waiting_for_pnc) /\ em[e] \in EvseManagerType
      BY <1>1, <1>3, <2>5
    <3> QED
      BY <1>2, <2>2, <2>3, <3>1, ResponseIs
  <2> QED
    BY <2>4, <2>5
<1> QED
  BY <1>5 DEF HeldInv

\* ResumeHandler.
LEMMA ResumeHeld ==
    ASSUME IInv, HeldInv, NEW f \in Evses, ResumeHandler(f)
    PROVE  HeldInv'
<1>1. PICK d : SetCaller("event", d) /\ caller["event"].pc = "idle"
  BY DEF ResumeHandler, Unlocked
<1>2. PromisesKept
  BY <1>1, CallerKeeps DEF ResumeHandler, Placing, Confirming, Callers
<1> QED
  BY <1>2, TellHeld DEF ResumeHandler

\* Restart: nothing is held.
LEMMA RestartHeld ==
    ASSUME IInv, NEW disabled \in SUBSET Evses, NEW late \in SUBSET Evses, Restart(disabled, late)
    PROVE  HeldInv'
<1>1. book'.evse = NoReservations
  BY DEF Restart, EmptyBook
<1>2. \A e \in Evses : book'.evse[e] = None
  BY <1>1 DEF NoReservations
<1> QED
  BY <1>2 DEF HeldInv, Backed

\* load_reservations loosens the reservations of the EvseManagers.
LEMMA LoadLoosened ==
    ASSUME IInv, NEW late \in BOOLEAN, load_reservations(late)
    PROVE  \A e \in Evses : Loosened(em[e], em'[e])
<1> DEFINE first == {e \in Evses : loading.evse[e] # None /\ \A f \in Evses : loading.evse[f] # None => e <= f}
           R == IF first # {} THEN {loading.evse[e] : e \in first}
                ELSE {loading.global[i] : i \in DOMAIN loading.global \cap {1}}
           made(r) == make_reservation(book, seen, r, late)
           w(r) == [World EXCEPT !.book = made(r).book]
           x(r) == IF made(r).ok THEN w(r) ELSE call_reservation_cancelled(w(r), seen, Evses \cap {r.evse})
<1>1. loading \in [evse: Maps, global: Seq(Reservation), done: BOOLEAN, again: SUBSET Ids]
  BY DEF IInv, TypeOK
<1>2. R \subseteq Reservation
  <2>1. \A e \in first : loading.evse[e] \in Reservation
    BY <1>1 DEF Maps
  <2>2. \A i \in DOMAIN loading.global : loading.global[i] \in Reservation
    BY <1>1
  <2> QED
    BY <2>1, <2>2
<1>3. PICK r \in R : Become(x(r))
  BY Zenon DEF load_reservations
<1>4. BookOK(made(r).book)
  BY <1>2, BookNow, MakeOK
<1> HIDE DEF made, R, first
<1>5. w(r) \in WorldType /\ w(r).em = em
  <2>1. World \in WorldType /\ World.em = em
    BY WorldNow DEF World
  <2> HIDE DEF World
  <2> QED
    BY <1>4, <2>1 DEF WorldType, BookOK
<1> HIDE DEF w
<1>6. \A e \in Evses : Loosened(em[e], x(r).em[e])
  BY <1>5, CancelledLoosened, LoosenedSame
<1> QED
  BY <1>3, <1>6 DEF Become

\* load_reservations: what is made again is among the restored reservations.
LEMMA LoadHeld ==
    ASSUME IInv, HeldInv, NEW late \in BOOLEAN, load_reservations(late)
    PROVE  HeldInv'
<1> DEFINE first == {e \in Evses : loading.evse[e] # None /\ \A f \in Evses : loading.evse[f] # None => e <= f}
           R == IF first # {} THEN {loading.evse[e] : e \in first}
                ELSE {loading.global[i] : i \in DOMAIN loading.global \cap {1}}
           made(r) == make_reservation(book, seen, r, late)
           w(r) == [World EXCEPT !.book = made(r).book]
           x(r) == IF made(r).ok THEN w(r) ELSE call_reservation_cancelled(w(r), seen, Evses \cap {r.evse})
<1>0. loading \in [evse: Maps, global: Seq(Reservation), done: BOOLEAN, again: SUBSET Ids]
  BY DEF IInv, TypeOK
<1>1. R \subseteq Reservation
  <2>1. \A e \in first : loading.evse[e] \in Reservation
    BY <1>0 DEF Maps
  <2>2. \A i \in DOMAIN loading.global : loading.global[i] \in Reservation
    BY <1>0
  <2> QED
    BY <2>1, <2>2
<1>2. PICK r \in R : /\ Become(x(r))
                     /\ restored' = IF made(r).ok /\ r.evse # None THEN [restored EXCEPT ![r.evse] = r.id]
                                    ELSE restored
  BY Zenon DEF load_reservations
<1>3. r \in Reservation /\ r.id \in Ids /\ r.evse \in Evses \cup {None}
  BY <1>1 DEF Reservation
<1>4. UNCHANGED <<apply, caller>>
  BY DEF load_reservations
<1>5. BookOK(made(r).book)
  BY <1>3, BookNow, MakeOK
<1>6. \A e \in Evses :
         \/ made(r).book.evse[e] = book.evse[e]
         \/ made(r).book.evse[e] = None
         \/ made(r).ok /\ e = r.evse /\ made(r).book.evse[e] = r /\ has_evse_connector_type(e, TypeOf(r))
  BY <1>3, BookNow, MakeAt
<1> HIDE DEF made, R, first
<1>7. w(r) \in WorldType /\ w(r).book = made(r).book /\ w(r).em = em
  <2>1. World \in WorldType /\ World.em = em
    BY WorldNow DEF World
  <2> HIDE DEF World
  <2> QED
    BY <1>5, <2>1 DEF WorldType, BookOK
<1> HIDE DEF w
<1>8. x(r).book = made(r).book
  BY <1>7, TellOK
<1>9. \A e \in Evses : Loosened(em[e], x(r).em[e])
  BY <1>7, CancelledLoosened, LoosenedSame
<1>10. book' = made(r).book /\ em' = x(r).em
  BY <1>2, <1>8 DEF Become
<1> HIDE DEF x
<1>11. restored \in [Evses -> Ids \cup {None}]
  BY DEF IInv, TypeOK
<1>12. ASSUME NEW e \in Evses, book'.evse[e] = book.evse[e] \/ book'.evse[e] = None,
             ~(made(r).ok /\ e = r.evse)
      PROVE  Backed(e)'
  <2>1. restored'[e] = restored[e]
    BY <1>2, <1>3, <1>11, <1>12
  <2>2. \A id \in Ids : id = book.evse[e].id /\ Promised(e, id) => Promised(e, id)'
    BY <1>4, <2>1 DEF Promised, Placing, For
  <2>3. ChecksKept
    BY <1>4 DEF ChecksKept
  <2> QED
    BY <1>9, <1>10, <1>12, <2>2, <2>3, BackedStays DEF HeldInv
<1>13. ASSUME NEW e \in Evses, made(r).ok, e = r.evse PROVE Backed(e)'
  <2>1. is_evse_reserved(made(r).book, e, r.id)
    BY <1>3, <1>13, BookNow, MakeAt DEF made
  <2>2. restored'[e] = r.id
    BY <1>2, <1>11, <1>13, ReservationAssumption
  <2>3. book'.evse[e].id = r.id /\ book'.evse[e] # None
    BY <1>10, <2>1 DEF is_evse_reserved
  <2>4. Promised(e, r.id)'
    BY <2>2 DEF Promised
  <2>5. CASE book'.evse[e] = r /\ r.type # None
    <3>1. has_evse_connector_type(e, TypeOf(r))
      BY <1>3, <1>13, BookNow, MakeAt DEF made
    <3>2. has_evse_connector_type(e, book'.evse[e].type)
      BY <2>5, <3>1 DEF TypeOf
    <3> QED
      BY <2>3, <2>4, <3>2, BackedNext
  <2>6. CASE ~(book'.evse[e] = r /\ r.type # None)
    <3>1. book'.evse[e] = r
      BY <1>3, <1>10, <1>13, BookNow, MakeAt DEF made
    <3> QED
      BY <2>6, <3>1 DEF Backed
  <2> QED
    BY <2>5, <2>6
<1> QED
  BY <1>6, <1>10, <1>12, <1>13 DEF HeldInv

\* initialize: the thread of the event handler never has a reservation in hand.
LEMMA InitializeHeld ==
    ASSUME IInv, HeldInv, initialize
    PROVE  HeldInv'
<1>1. caller'["place"] = caller["place"] /\ caller'["restore"] = caller["restore"]
  BY DEF initialize, SetCaller, IInv, TypeOK, Callers
<1>2. PromisesKept
  BY <1>1 DEF initialize, PromisesKept, ChecksKept, Rechecked, Promised, Placing, For
<1> QED
  BY <1>2, TellHeld DEF initialize

-----------------------------------------------------------------------------
(* What Auth holds is reserved: the theorem.                               *)

\* At the start nothing is held.
LEMMA HeldInitially == Init => HeldInv
<1> SUFFICES ASSUME Init PROVE HeldInv
  OBVIOUS
<1>1. \A e \in Evses : book.evse[e] = None
  BY DEF Init, EmptyBook, NoReservations
<1> QED
  BY <1>1 DEF HeldInv, Backed

\* Every step keeps the invariant.
LEMMA HeldStep == ASSUME IInv, ThreadsInv, HeldInv, [Next]_vars PROVE HeldInv'
<1>1. CASE \E r \in Requests : place_reservation(r)
  BY <1>1, PlaceHeld
<1>2. CASE \E late \in BOOLEAN : handle_reservation(late)
  BY <1>2, MakeHeld
<1>3. CASE \E late \in BOOLEAN : load_reservations(late)
  BY <1>3, LoadHeld
<1>4. CASE \E t \in Callers : CallerStep(t)
  BY <1>4, DropHeld, CallReservedHeld, ReserveHeld, UndoHeld, ConfirmHeld, UpdatesHeld DEF CallerStep
<1>5. CASE \E id \in Ids : handle_cancel_reservation(id)
  BY <1>5, CancelHeld
<1>6. CASE ReservationExpired \/ \E id \in Ids : Expire(id)
  BY <1>6, TimerHeld
<1>7. CASE TellCancelled
  BY <1>7, TellCancelledHeld
<1>8. CASE take_restored_reservation
  BY <1>8, TakeHeld
<1>9. CASE initialize
  BY <1>9, InitializeHeld
<1>10. CASE \E e \in Evses : apply_restored_reservation(e)
  BY <1>10, ApplyHeld
<1>11. CASE \E e \in Evses : handle_session_event(e)
  BY <1>11, EventHeld
<1>12. CASE \E e \in Evses : \/ PlugIn(e) \/ Unplug(e) \/ DisableEvse(e) \/ EnableEvse(e) \/ MainLoop(e)
                             \/ WithdrawAuthorization(e)
  BY <1>12, UserHeld
<1>13. CASE \E e \in Evses : \E t \in Tokens, parent \in Parents \cup {None} : UseToken(e, t, parent)
  BY <1>13, TokenHeld
<1>14. CASE \E s \in Startups : Restart(s.disabled, s.late)
  BY <1>14, RestartHeld, ReservationAssumption
<1>15. CASE \E e \in Evses : ResumeHandler(e)
  BY <1>15, ResumeHeld
<1>16. CASE \E w \in waiting, waiting_for_pnc \in BOOLEAN : notify_evse(w, waiting_for_pnc)
  BY <1>16, NotifyHeld
<1>17. CASE UNCHANGED vars
  <2>1. PromisesKept
    BY <1>17, OthersKeep DEF vars
  <2> QED
    BY <1>17, <2>1, TellHeld DEF vars
<1> QED
  BY <1>1, <1>2, <1>3, <1>4, <1>5, <1>6, <1>7, <1>8, <1>9, <1>10, <1>11, <1>12, <1>13, <1>14, <1>15, <1>16,
     <1>17 DEF Next

\* Whatever expires, is cancelled, plugged in, disabled or restarted while the
\* EvseManagers are called without a mutex: once no thread is under way and no
\* event is waiting, the EvseManager of an EVSE for which Auth holds a reservation
\* (with a connector type) is reserved, for that one or for one a token has used.
THEOREM HeldIsReservedAlways == Spec => []HeldIsReserved
<1>1. IInv /\ ThreadsInv /\ HeldInv /\ [Next]_vars => HeldInv'
  BY HeldStep
<1>2. IInv /\ HeldInv => HeldIsReserved
  <2> SUFFICES ASSUME IInv, HeldInv, Quiet, NEW e \in Evses, book.evse[e] # None, book.evse[e].type # None
               PROVE  em[e].reserved /\ (em[e].reservation_id = book.evse[e].id \/ em[e].used)
    BY DEF HeldIsReserved
  <2>1. book.evse[e].id \in Ids /\ book.evse[e].id # None
    BY HeldType, ReservationAssumption
  <2>2. ~Ending(em[e])
    BY DEF Quiet, Ending, Has
  <2>3. ~Promised(e, book.evse[e].id)
    BY <2>1 DEF Quiet, Promised, Placing, Callers
  <2>4. ~Rechecked(caller, e, em[e].reservation_id)
    BY DEF Quiet, Rechecked, Confirming, Callers
  <2> QED
    BY <2>2, <2>3, <2>4 DEF HeldInv, Backed, Reserving
<1> QED
  BY Invariance, ThreadsAlways, HeldInitially, <1>1, <1>2, PTL DEF Spec
-----------------------------------------------------------------------------
(* What is reserved is held: the invariant.                                *)

Placer == caller["place"]
Canceller == caller["cancel"]

\* The EvseManager is reserved for a reservation of the EVSE that no token has
\* used and that was not made again at the restart.
Left(c) == c.reserved /\ c.reservation_id # Global /\ ~c.used /\ c.reservation_id \notin loading.again

\* Who will end the reservation id at the EvseManager of e: the canceller c that
\* has cancelled it, the placer p that looks at it again or has replaced it, or
\* Auth, which holds it in b.
Accounted(b, p, c, e, id) ==
    \/ c.pc = "cancelled" /\ c.replaced = e
    \/ Confirming(p) /\ For(p, e, id)
    \/ p.pc = "drop" /\ p.r.id = id /\ p.replaced = e
    \/ p.pc \in {"reserve", "set", "undo"} /\ For(p, e, id) /\ p.replaced = e
    \/ is_evse_reserved(b, e, id) /\ ~(Placing(p) /\ For(p, e, id))

\* Before it makes the reservation place_reservation knows which EVSE has the
\* one it replaces; afterwards no other EVSE has one with its id.
Knows(b, p, e) ==
    /\ p.pc = "make" /\ is_evse_reserved(b, e, p.r.id) => p.replaced = e
    /\ Placing(p) /\ is_evse_reserved(b, e, p.r.id) => p.r.evse = e

LeftAt(e) == Left(em[e]) => Accounted(book, Placer, Canceller, e, em[e].reservation_id)
KnowsAt(e) == Knows(book, Placer, e)

\* Every EVSE by itself.
EvseInv == \A e \in Evses : Proper(em[e]) /\ LeftAt(e) /\ KnowsAt(e)

\* While Auth loads its reservations no EvseManager is reserved for one of its own.
FreshInv == ~loading.done => \A e \in Evses : em[e].reservation_id = Global

\* What a reservation that is left after a step had been before it.
LEMMA LoosenedLeft ==
    ASSUME NEW c, NEW d, Loosened(c, d), Proper(c)
    PROVE  Proper(d) /\ (Left(d) => Left(c) /\ d.reservation_id = c.reservation_id)
  BY DEF Loosened, Proper, Left

\* A step that leaves place_reservation and cancel_reservation where they are.
LEMMA EvseStays ==
    ASSUME EvseInv, NEW e \in Evses, loading'.again = loading.again,
           caller'["place"] = caller["place"], caller'["cancel"] = caller["cancel"],
           Proper(em'[e]), Left(em'[e]) => Left(em[e]) /\ em'[e].reservation_id = em[e].reservation_id,
           book'.evse[e] \in {book.evse[e], None},
           book'.evse[e] # book.evse[e] => ~Left(em'[e]) \/ ~is_evse_reserved(book, e, em[e].reservation_id)
    PROVE  (Proper(em[e]) /\ LeftAt(e) /\ KnowsAt(e))'
<1>1. Proper(em[e])'
  BY DEF Proper
<1>2. LeftAt(e)'
  <2>1. SUFFICES ASSUME Left(em'[e]) PROVE Accounted(book, Placer, Canceller, e, em[e].reservation_id)'
    BY DEF LeftAt, Left
  <2>2. /\ em'[e].reservation_id = em[e].reservation_id
        /\ Accounted(book, Placer, Canceller, e, em[e].reservation_id)
        /\ book'.evse[e] = book.evse[e] \/ ~is_evse_reserved(book, e, em[e].reservation_id)
    BY <2>1 DEF EvseInv, LeftAt
  <2> QED
    BY <2>2 DEF Accounted, Placer, Canceller, Confirming, Placing, For, is_evse_reserved
<1>3. KnowsAt(e)'
  BY DEF EvseInv, KnowsAt, Knows, Placer, Placing, is_evse_reserved
<1> QED
  BY <1>1, <1>2, <1>3

\* The same for all EVSEs, where the EvseManagers only loosen.
LEMMA EvsesStay ==
    ASSUME EvseInv, loading'.again = loading.again, caller'["place"] = caller["place"], caller'["cancel"] = caller["cancel"],
           \A e \in Evses : /\ Loosened(em[e], em'[e])
                            /\ book'.evse[e] \in {book.evse[e], None}
                            /\ book'.evse[e] # book.evse[e] => em'[e].reservation_id = Global
    PROVE  EvseInv'
<1>1. ASSUME NEW e \in Evses PROVE (Proper(em[e]) /\ LeftAt(e) /\ KnowsAt(e))'
  <2>1. Proper(em'[e]) /\ (Left(em'[e]) => Left(em[e]) /\ em'[e].reservation_id = em[e].reservation_id)
    BY LoosenedLeft DEF EvseInv
  <2>2. book'.evse[e] # book.evse[e] => ~Left(em'[e])
    BY DEF Left
  <2> QED
    BY <2>1, <2>2, EvseStays
<1> QED
  BY <1>1 DEF EvseInv

\* The EVSE by itself, in the next state: d and c are where place_reservation
\* and cancel_reservation are then.
LEMMA EvseNext ==
    ASSUME NEW e \in Evses, loading'.again = loading.again, NEW d, NEW c, caller'["place"] = d, caller'["cancel"] = c, Proper(em'[e]),
           NEW id, Left(em'[e]) => em'[e].reservation_id = id /\ Accounted(book', d, c, e, id),
           Knows(book', d, e)
    PROVE  (Proper(em[e]) /\ LeftAt(e) /\ KnowsAt(e))'
<1>1. Proper(em[e])'
  BY DEF Proper
<1>2. LeftAt(e)'
  <2>1. SUFFICES ASSUME Left(em'[e]) PROVE Accounted(book, Placer, Canceller, e, em[e].reservation_id)'
    BY DEF LeftAt, Left
  <2> QED
    BY <2>1 DEF Accounted, Placer, Canceller, Confirming, Placing, For, is_evse_reserved
<1>3. KnowsAt(e)'
  BY DEF KnowsAt, Knows, Placer, Placing, is_evse_reserved
<1> QED
  BY <1>1, <1>2, <1>3

\* Nothing is left at any EVSE.
LEMMA NothingLeft ==
    ASSUME caller'["place"].pc = "idle", \A e \in Evses : Proper(em'[e]) /\ em'[e].reservation_id = Global
    PROVE  EvseInv'
<1>1. \A e \in Evses : (Proper(em[e]) /\ ~Left(em[e]) /\ KnowsAt(e))'
  BY DEF Proper, Left, KnowsAt, Knows, Placer, Placing
<1> QED
  BY <1>1 DEF EvseInv, LeftAt

\* What the invariant says of an EVSE.
LEMMA EvseNow ==
    ASSUME EvseInv, NEW e \in Evses
    PROVE  /\ Proper(em[e]) /\ Knows(book, caller["place"], e)
           /\ Left(em[e]) => Accounted(book, caller["place"], caller["cancel"], e, em[e].reservation_id)
  BY DEF EvseInv, LeftAt, KnowsAt, Placer, Canceller

\* An id is held by one EVSE.
LEMMA HeldAlone ==
    ASSUME IInv, NEW e \in Evses, NEW f \in Evses, NEW id,
           is_evse_reserved(book, e, id), is_evse_reserved(book, f, id)
    PROVE  e = f
  BY DEF IInv, Once, is_evse_reserved, Taken

-----------------------------------------------------------------------------
(* The steps of the threads.                                               *)

\* place_reservation.
LEMMA PlaceLife ==
    ASSUME IInv, ThreadsInv, EvseInv, NEW r \in Requests, place_reservation(r)
    PROVE  EvseInv'
<1> DEFINE at == {e \in Evses : is_evse_reserved(book, e, r.id)}
           P == caller["place"]
           C == caller["cancel"]
<1>1. PICK f \in IF at = {} THEN {None} ELSE at :
         SetCaller("place", [IdleCaller EXCEPT !.pc = "make", !.r = r, !.replaced = f])
  BY DEF place_reservation
<1> DEFINE d == [IdleCaller EXCEPT !.pc = "make", !.r = r, !.replaced = f]
<1>2. d.pc = "make" /\ d.next = "idle" /\ d.replaced = f /\ d.r = r
  BY DEF IdleCaller
<1>3. SetCaller("place", d)
  BY <1>1
<1> HIDE DEF d
<1>4. \A u \in Callers : caller'[u] = IF u = "place" THEN d ELSE caller[u]
  BY <1>3, CallerSet, ThreadNames
<1>5. P.pc = "idle" /\ book' = book /\ em' = em /\ UNCHANGED <<loading, restored, apply>>
  BY DEF place_reservation
<1>7. ASSUME NEW e \in Evses PROVE (Proper(em[e]) /\ LeftAt(e) /\ KnowsAt(e))'
  <2>1. Proper(em[e]) /\ (Left(em[e]) => (C.pc = "cancelled" /\ C.replaced = e)
                                         \/ is_evse_reserved(book, e, em[e].reservation_id))
    BY <1>5, EvseNow DEF Accounted, Knows, Confirming
  <2>2. ~Placing(d)
    BY <1>2 DEF Placing
  <2>3. is_evse_reserved(book, e, r.id) => f = e
    BY <1>1, HeldAlone
  <2>4. caller'["place"] = d /\ caller'["cancel"] = C /\ Proper(em'[e])
    BY <1>4, <1>5, <2>1, ThreadNames
  <2> QED
    BY <1>2, <1>5, <2>1, <2>2, <2>3, <2>4, EvseNext DEF Accounted, Knows
<1> QED
  BY <1>7 DEF EvseInv

\* handle_reservation: the EVSE that loses its reservation to a new one with
\* the same id is the one place_reservation has looked up.
LEMMA MakeLife ==
    ASSUME IInv, ThreadsInv, EvseInv, NEW late \in BOOLEAN, handle_reservation(late)
    PROVE  EvseInv'
<1> DEFINE P == caller["place"]
           C == caller["cancel"]
           r == P.r
           made == make_reservation(book, seen, r, late)
           d == [P EXCEPT !.pc = "drop", !.ok = made.ok]
<1>1. P \in CallerType /\ P.pc = "make" /\ HasReservation(P)
  BY ThreadNames DEF handle_reservation, IInv, TypeOK, CallersOK
<1>2. r # None /\ r \in Reservation
  BY <1>1 DEF CallerType, HasReservation, WithReservation
<1>3. book' = made.book /\ SetCaller("place", d) /\ em' = em /\ UNCHANGED <<loading, restored, apply>>
  BY DEF handle_reservation
<1>4. \A e \in Evses :
         /\ \/ made.book.evse[e] = book.evse[e]
            \/ is_evse_reserved(book, e, r.id)
            \/ book.evse[e] = None
         /\ made.ok /\ is_evse_reserved(made.book, e, r.id) => e = r.evse
  BY <1>2, BookNow, MakeAt
<1> HIDE DEF made
<1>5. d.pc = "drop" /\ d.ok = made.ok /\ d.r = r /\ d.replaced = P.replaced /\ d.next = P.next
  BY <1>1 DEF CallerType
<1> HIDE DEF d
<1>6. \A u \in Callers : caller'[u] = IF u = "place" THEN d ELSE caller[u]
  BY <1>3, CallerSet, ThreadNames
<1>8. ASSUME NEW e \in Evses PROVE (Proper(em[e]) /\ LeftAt(e) /\ KnowsAt(e))'
  <2>1. Proper(em[e]) /\ (Left(em[e]) => (C.pc = "cancelled" /\ C.replaced = e)
                                         \/ is_evse_reserved(book, e, em[e].reservation_id))
    BY <1>1, EvseNow DEF Accounted, Knows, Confirming
  <2>2. is_evse_reserved(book, e, r.id) => P.replaced = e
    BY <1>1, EvseNow DEF Accounted, Knows
  <2>3. ASSUME Left(em[e]), ~(C.pc = "cancelled" /\ C.replaced = e)
        PROVE  \/ d.r.id = em[e].reservation_id /\ d.replaced = e
               \/ is_evse_reserved(book', e, em[e].reservation_id) /\ ~(Placing(d) /\ For(d, e, em[e].reservation_id))
    <3>1. is_evse_reserved(book, e, em[e].reservation_id)
      BY <2>1, <2>3
    <3>2. CASE r.id = em[e].reservation_id
      BY <1>5, <2>2, <3>1, <3>2
    <3>3. CASE r.id # em[e].reservation_id
      <4>1. ~For(d, e, em[e].reservation_id)
        BY <1>5, <3>3 DEF For
      <4>2. made.book.evse[e] = book.evse[e]
        BY <1>4, <3>1, <3>3 DEF is_evse_reserved
      <4> QED
        BY <1>3, <3>1, <4>1, <4>2 DEF is_evse_reserved
    <3> QED
      BY <3>2, <3>3
  <2>4. Placing(d) => made.ok
    BY <1>5 DEF Placing
  <2>5. Placing(d) /\ is_evse_reserved(book', e, d.r.id) => d.r.evse = e
    BY <1>3, <1>4, <1>5, <2>4
  <2>6. caller'["place"] = d /\ caller'["cancel"] = C /\ Proper(em'[e])
    BY <1>3, <1>6, <2>1, ThreadNames
  <2> QED
    BY <1>3, <1>5, <2>3, <2>5, <2>6, EvseNext DEF Accounted, Knows
<1> QED
  BY <1>8 DEF EvseInv

\* cancel_replaced_if_dropped: the reservation that was replaced ends, or is
\* the one that has been made.
LEMMA DropLife ==
    ASSUME IInv, ThreadsInv, EvseInv, cancel_replaced_if_dropped("place")
    PROVE  EvseInv'
<1> DEFINE P == caller["place"]
           C == caller["cancel"]
           next == IF P.ok THEN "reserve" ELSE "idle"
           dropped == P.replaced # None /\ (P.replaced # None => ~is_evse_reserved(book, P.replaced, P.r.id))
<1>1. P \in CallerType /\ P.pc = "drop" /\ em \in [Evses -> EvseManagerType]
  BY ThreadNames DEF cancel_replaced_if_dropped, IInv, TypeOK
<1>2. book' = book /\ UNCHANGED <<loading, restored, apply>>
  BY DEF cancel_replaced_if_dropped
<1>3. P.replaced \in Evses \cup {None} /\ None \notin Evses
  BY <1>1, ReservationAssumption DEF CallerType
<1>4. CASE dropped
  <2> DEFINE d == [P EXCEPT !.pc = "check", !.next = next, !.replaced = None]
  <2>1. em' = [em EXCEPT ![P.replaced] = EndReservation(@, TRUE)] /\ SetCaller("place", d)
    BY <1>4 DEF cancel_replaced_if_dropped
  <2>2. d.pc = "check" /\ d.next = next /\ d.r = P.r
    BY <1>1 DEF CallerType
  <2> HIDE DEF d
  <2>3. \A u \in Callers : caller'[u] = IF u = "place" THEN d ELSE caller[u]
    BY <2>1, CallerSet, ThreadNames
  <2>5. ASSUME NEW e \in Evses PROVE (Proper(em[e]) /\ LeftAt(e) /\ KnowsAt(e))'
    <3>1. Placing(d) <=> Placing(P)
      BY <1>1, <2>2 DEF Placing
    <3>2. Proper(em'[e]) /\ (Left(em'[e]) => em'[e] = em[e] /\ e # P.replaced)
      <4>1. em'[e] = IF e = P.replaced THEN EndReservation(em[e], TRUE) ELSE em[e]
        BY <1>1, <1>3, <1>4, <2>1
      <4>2. Proper(em[e]) /\ em[e] \in EvseManagerType
        BY <1>1 DEF EvseInv
      <4>3. Proper(EndReservation(em[e], TRUE)) /\ ~Left(EndReservation(em[e], TRUE))
        BY <4>2, EndLoosened DEF Loosened, Left
      <4> QED
        BY <4>1, <4>2, <4>3
    <3>3. Left(em'[e]) => \/ C.pc = "cancelled" /\ C.replaced = e
                          \/ /\ is_evse_reserved(book, e, em[e].reservation_id)
                             /\ ~(Placing(d) /\ For(d, e, em[e].reservation_id))
      BY <1>1, <2>2, <3>1, <3>2, EvseNow DEF Accounted, Knows, Confirming, For
    <3>4. Placing(d) /\ is_evse_reserved(book', e, d.r.id) => d.r.evse = e
      BY <1>2, <2>2, <3>1, EvseNow DEF Accounted, Knows
    <3>5. caller'["place"] = d /\ caller'["cancel"] = C
      BY <2>3, ThreadNames
    <3> QED
      BY <1>2, <2>2, <3>2, <3>3, <3>4, <3>5, EvseNext DEF Accounted, Knows
  <2> QED
    BY <2>5 DEF EvseInv
<1>5. CASE ~dropped
  <2> DEFINE d == IF P.ok THEN [P EXCEPT !.pc = next] ELSE IdleCaller
  <2>1. em' = em /\ SetCaller("place", d)
    BY <1>5 DEF cancel_replaced_if_dropped
  <2>2. /\ P.ok => d.pc = "reserve" /\ d.next = P.next /\ d.r = P.r /\ d.replaced = P.replaced
        /\ ~P.ok => d.pc = "idle" /\ d.next = "idle"
    BY <1>1 DEF CallerType, IdleCaller
  <2> HIDE DEF d
  <2>3. \A u \in Callers : caller'[u] = IF u = "place" THEN d ELSE caller[u]
    BY <2>1, CallerSet, ThreadNames
  <2>5. ASSUME NEW e \in Evses PROVE (Proper(em[e]) /\ LeftAt(e) /\ KnowsAt(e))'
    <3>1. (Placing(d) <=> P.ok) /\ (Placing(P) <=> P.ok)
      BY <1>1, <2>2 DEF Placing
    <3>2. ASSUME Left(em[e]), ~(C.pc = "cancelled" /\ C.replaced = e)
          PROVE  \/ d.pc = "reserve" /\ For(d, e, em[e].reservation_id) /\ d.replaced = e
                 \/ is_evse_reserved(book, e, em[e].reservation_id) /\ ~(Placing(d) /\ For(d, e, em[e].reservation_id))
      <4>1. \/ P.r.id = em[e].reservation_id /\ P.replaced = e
            \/ is_evse_reserved(book, e, em[e].reservation_id) /\ ~(Placing(P) /\ For(P, e, em[e].reservation_id))
        BY <1>1, <3>2, EvseNow DEF Accounted, Knows, Confirming
      <4>2. CASE P.r.id = em[e].reservation_id /\ P.replaced = e
        <5>1. is_evse_reserved(book, e, P.r.id)
          BY <1>3, <1>5, <4>2
        <5>2. P.ok => P.r.evse = e
          BY <3>1, <5>1, EvseNow DEF Accounted, Knows
        <5>3. P.r # None
          BY <1>1, ThreadNames DEF IInv, CallersOK, HasReservation, WithReservation
        <5> QED
          BY <2>2, <3>1, <4>2, <5>1, <5>2, <5>3 DEF For
      <4>3. CASE is_evse_reserved(book, e, em[e].reservation_id) /\ ~(Placing(P) /\ For(P, e, em[e].reservation_id))
        BY <2>2, <3>1, <4>3 DEF For
      <4> QED
        BY <4>1, <4>2, <4>3
    <3>3. Placing(d) /\ is_evse_reserved(book', e, d.r.id) => d.r.evse = e
      BY <1>2, <2>2, <3>1, EvseNow DEF Accounted, Knows
    <3>4. caller'["place"] = d /\ caller'["cancel"] = C /\ Proper(em'[e])
      BY <2>1, <2>3, ThreadNames DEF EvseInv
    <3> QED
      BY <1>2, <2>1, <2>2, <3>2, <3>3, <3>4, EvseNext DEF Accounted, Knows
  <2> QED
    BY <2>5 DEF EvseInv
<1> QED
  BY <1>4, <1>5
\* call_reserved: the reservation in hand is not forgotten.
LEMMA CallReservedLife ==
    ASSUME IInv, EvseInv, call_reserved("place")
    PROVE  EvseInv'
<1> DEFINE P == caller["place"]
           C == caller["cancel"]
           x == [P EXCEPT !.pc = "check", !.next = "confirm"]
           y == [P EXCEPT !.pc = IF em[P.r.evse].state = "Idle" THEN "set" ELSE "undo"]
<1>1. P \in CallerType /\ P.pc = "reserve"
  BY ThreadNames DEF call_reserved, IInv, TypeOK
<1>2. book' = book /\ em' = em /\ loading' = loading
  BY DEF call_reserved
<1>3. PICK d : /\ SetCaller("place", d) /\ d.r = P.r /\ d.replaced = P.replaced
               /\ d.pc \in {"set", "undo"} \/ (d.pc = "check" /\ P.r.evse = None)
  <2>1. (P.r.evse = None /\ SetCaller("place", x)) \/ SetCaller("place", y)
    BY DEF call_reserved
  <2>2. /\ x.r = P.r /\ x.replaced = P.replaced /\ x.pc = "check"
        /\ y.r = P.r /\ y.replaced = P.replaced /\ y.pc \in {"set", "undo"}
    BY <1>1 DEF CallerType
  <2> HIDE DEF x, y
  <2> QED
    BY <2>1, <2>2
<1>4. caller'["place"] = d /\ caller'["cancel"] = C
  BY <1>3, CallerSet, ThreadNames
<1>5. ASSUME NEW e \in Evses PROVE (Proper(em[e]) /\ LeftAt(e) /\ KnowsAt(e))'
  <2>1. Proper(em[e]) /\ Knows(book, P, e) /\ (Left(em[e]) => Accounted(book, P, C, e, em[e].reservation_id))
    BY EvseNow
  <2>2. Placing(P) /\ ~Confirming(P)
    BY <1>1 DEF Placing, Confirming
  <2>3. Knows(book, d, e)
    BY <1>3, <2>1, <2>2 DEF Knows
  <2>4. For(d, e, em[e].reservation_id) <=> For(P, e, em[e].reservation_id)
    BY <1>3 DEF For
  <2>5. P.r.evse = None => ~For(P, e, em[e].reservation_id)
    BY ReservationAssumption DEF For
  <2>6. Left(em[e]) => Accounted(book, d, C, e, em[e].reservation_id)
    BY <1>1, <1>3, <2>1, <2>2, <2>4, <2>5 DEF Accounted
  <2> QED
    BY <1>2, <1>4, <2>1, <2>3, <2>6, EvseNext
<1> QED
  BY <1>5 DEF EvseInv

\* reserve: the reservation in hand is looked at again afterwards.
LEMMA ReserveLife ==
    ASSUME IInv, EvseInv, reserve("place")
    PROVE  EvseInv'
<1> DEFINE P == caller["place"]
           C == caller["cancel"]
           r == P.r
           refused == ~MayReserve(em[r.evse], r.id)
           d == IF refused THEN [P EXCEPT !.pc = "undo"] ELSE [P EXCEPT !.pc = "check", !.next = "confirm"]
<1>1. P \in CallerType /\ P.pc = "set" /\ HasReservation(P) /\ em \in [Evses -> EvseManagerType]
  BY ThreadNames DEF reserve, IInv, TypeOK, CallersOK
<1>2. r # None /\ r \in Reservation /\ r.evse # None
  BY <1>1 DEF CallerType, HasReservation, WithReservation
<1>3. r.evse \in Evses /\ r.id \in Ids
  BY <1>2 DEF Reservation
<1>4. /\ em' = [em EXCEPT ![r.evse] = set_reserved(@, r.id)]
      /\ SetCaller("place", d) /\ book' = book /\ loading' = loading
  BY DEF reserve
<1>5. /\ d.r = r /\ d.replaced = P.replaced
      /\ refused => d.pc = "undo"
      /\ ~refused => d.pc = "check" /\ d.next = "confirm"
  BY <1>1 DEF CallerType
<1> HIDE DEF d
<1>6. caller'["place"] = d /\ caller'["cancel"] = C
  BY <1>4, CallerSet, ThreadNames
<1>7. ASSUME NEW e \in Evses PROVE (Proper(em[e]) /\ LeftAt(e) /\ KnowsAt(e))'
  <2>1. Proper(em[e]) /\ em[e] \in EvseManagerType
    BY <1>1 DEF EvseInv
  <2>2. em'[e] = IF e = r.evse THEN set_reserved(em[e], r.id) ELSE em[e]
    BY <1>1, <1>3, <1>4
  <2>3. /\ Proper(em'[e])
        /\ e = r.evse /\ ~refused => em'[e].reservation_id = r.id
        /\ e # r.evse \/ refused => em'[e] = em[e]
    BY <1>3, <2>1, <2>2, ReserveIs
  <2>4. Knows(book', d, e)
    BY <1>1, <1>4, <1>5, EvseNow DEF Knows, Placing
  <2>5. CASE e = r.evse /\ ~refused
    <3>1. Confirming(d) /\ For(d, e, r.id)
      BY <1>2, <1>5, <2>5 DEF Confirming, For
    <3> QED
      BY <1>4, <1>6, <2>3, <2>4, <2>5, <3>1, EvseNext DEF Accounted
  <2>6. CASE e # r.evse \/ refused
    <3>1. ASSUME Left(em[e]) PROVE Accounted(book, d, C, e, em[e].reservation_id)
      <4>1. Accounted(book, P, C, e, em[e].reservation_id)
        BY <3>1, EvseNow
      <4>2. Placing(P) /\ ~Confirming(P) /\ P.pc # "drop"
        BY <1>1 DEF Placing, Confirming
      <4>3. For(d, e, em[e].reservation_id) <=> For(P, e, em[e].reservation_id)
        BY <1>5 DEF For
      <4>4. e # r.evse => ~For(P, e, em[e].reservation_id)
        BY DEF For
      <4>5. refused => d.pc = "undo"
        BY <1>5
      <4> HIDE DEF refused
      <4> QED
        BY <1>5, <2>6, <4>1, <4>2, <4>3, <4>4, <4>5 DEF Accounted
    <3> QED
      BY <1>4, <1>6, <2>3, <2>4, <2>6, <3>1, EvseNext
  <2> QED
    BY <2>5, <2>6
<1> QED
  BY <1>7 DEF EvseInv

\* Undo: what is taken back is only held for the EVSE that has refused it.
LEMMA UndoLife ==
    ASSUME IInv, ThreadsInv, EvseInv, Undo("place")
    PROVE  EvseInv'
<1> DEFINE P == caller["place"]
           C == caller["cancel"]
           r == P.r
           d == [P EXCEPT !.pc = "drop", !.ok = FALSE]
<1>1. P \in CallerType /\ P.pc = "undo" /\ HasReservation(P)
  BY ThreadNames DEF Undo, IInv, TypeOK, CallersOK
<1>2. r # None /\ r \in Reservation
  BY <1>1 DEF CallerType, HasReservation, WithReservation
<1>3. r.id \in Ids
  BY <1>2 DEF Reservation
<1>4. /\ book' = cancel_reservation(book, r.id) /\ em' = em /\ UNCHANGED <<loading, restored, apply>>
      /\ SetCaller("place", d)
  BY <1>1 DEF Undo, CallerType
<1>5. d.pc = "drop" /\ ~d.ok /\ d.r = r /\ d.replaced = P.replaced /\ d.next = P.next
  BY <1>1 DEF CallerType
<1> HIDE DEF d
<1>6. \A u \in Callers : caller'[u] = IF u = "place" THEN d ELSE caller[u]
  BY <1>4, CallerSet, ThreadNames
<1>8. ASSUME NEW e \in Evses PROVE (Proper(em[e]) /\ LeftAt(e) /\ KnowsAt(e))'
  <2>1. book'.evse[e] # book.evse[e] => is_evse_reserved(book, e, r.id)
    BY <1>3, <1>4, BookNow, CancelAt
  <2>2. ~Placing(d) /\ d.pc # "make"
    BY <1>5 DEF Placing
  <2>3. Knows(book', d, e)
    BY <2>2 DEF Knows
  <2>4. ASSUME Left(em[e]) PROVE Accounted(book', d, C, e, em[e].reservation_id)
    <3>1. Accounted(book, P, C, e, em[e].reservation_id) /\ Knows(book, P, e)
      BY <2>4, EvseNow
    <3>2. Placing(P) /\ ~Confirming(P)
      BY <1>1 DEF Placing, Confirming
    <3>3. CASE is_evse_reserved(book, e, em[e].reservation_id) /\ ~For(P, e, em[e].reservation_id)
      <4>1. em[e].reservation_id # r.id
        BY <1>2, <3>1, <3>2, <3>3 DEF Knows, For
      <4>2. is_evse_reserved(book', e, em[e].reservation_id)
        BY <2>1, <3>3, <4>1 DEF is_evse_reserved
      <4> QED
        BY <2>2, <4>2 DEF Accounted
    <3>4. CASE For(P, e, em[e].reservation_id) /\ P.replaced = e
      BY <1>5, <3>4 DEF Accounted, For
    <3> QED
      BY <1>1, <3>1, <3>2, <3>3, <3>4 DEF Accounted
  <2>5. caller'["place"] = d /\ caller'["cancel"] = C /\ Proper(em'[e])
    BY <1>4, <1>6, ThreadNames DEF EvseInv
  <2> QED
    BY <1>4, <2>3, <2>4, <2>5, EvseNext
<1> QED
  BY <1>8 DEF EvseInv

\* Confirm: a reservation that has gone meanwhile ends at the EvseManager.
LEMMA ConfirmLife ==
    ASSUME IInv, ThreadsInv, EvseInv, Confirm("place")
    PROVE  EvseInv'
<1> DEFINE P == caller["place"]
           C == caller["cancel"]
           f == P.r.evse
           gone == f # None /\ (f # None => ~is_evse_reserved(book, f, P.r.id))
<1>1. P \in CallerType /\ P.pc = "confirm" /\ HasReservation(P) /\ em \in [Evses -> EvseManagerType]
  BY ThreadNames DEF Confirm, IInv, TypeOK, CallersOK
<1>2. P.r # None /\ P.r \in Reservation
  BY <1>1 DEF CallerType, HasReservation, WithReservation
<1>3. f \in Evses \cup {None} /\ None \notin Evses
  BY <1>2, ReservationAssumption DEF Reservation
<1>4. /\ em' = IF gone THEN [em EXCEPT ![f] = EndReservation(@, TRUE)] ELSE em
      /\ SetCaller("place", IdleCaller) /\ book' = book /\ UNCHANGED <<loading, restored, apply>>
  BY DEF Confirm
<1>5. IdleCaller.pc = "idle" /\ IdleCaller.next = "idle"
  BY DEF IdleCaller
<1>6. \A u \in Callers : caller'[u] = IF u = "place" THEN IdleCaller ELSE caller[u]
  BY <1>4, CallerSet, ThreadNames
<1>8. ASSUME NEW e \in Evses PROVE (Proper(em[e]) /\ LeftAt(e) /\ KnowsAt(e))'
  <2>1. Proper(em[e]) /\ em[e] \in EvseManagerType
    BY <1>1 DEF EvseInv
  <2>2. em'[e] = IF gone /\ e = f THEN EndReservation(em[e], TRUE) ELSE em[e]
    BY <1>1, <1>3, <1>4
  <2>3. Proper(em'[e]) /\ (Left(em'[e]) => em'[e] = em[e] /\ ~(gone /\ e = f))
    BY <2>1, <2>2, EndLoosened DEF Loosened, Left
  <2>4. ~Placing(IdleCaller) /\ Knows(book', IdleCaller, e)
    BY <1>5 DEF Placing, Knows
  <2>5. ASSUME Left(em'[e]) PROVE Accounted(book', IdleCaller, C, e, em[e].reservation_id)
    <3>1. Accounted(book, P, C, e, em[e].reservation_id)
      BY <2>3, <2>5, EvseNow
    <3>2. For(P, e, em[e].reservation_id) => is_evse_reserved(book, e, em[e].reservation_id)
      BY <1>3, <2>3, <2>5 DEF For
    <3> QED
      BY <1>1, <1>4, <2>4, <3>1, <3>2 DEF Accounted
  <2>6. caller'["place"] = IdleCaller /\ caller'["cancel"] = C
    BY <1>6, ThreadNames
  <2> QED
    BY <1>4, <2>3, <2>4, <2>5, <2>6, EvseNext
<1> QED
  BY <1>8 DEF EvseInv

\* handle_cancel_reservation: cancel_reservation knows which EVSE to tell.
LEMMA CancelLife ==
    ASSUME IInv, ThreadsInv, EvseInv, NEW id \in Ids, handle_cancel_reservation(id)
    PROVE  EvseInv'
<1> DEFINE at == {e \in Evses : is_evse_reserved(book, e, id)}
           P == caller["place"]
           C == caller["cancel"]
<1>1. PICK f \in IF at = {} THEN {None} ELSE at :
         SetCaller("cancel", [IdleCaller EXCEPT !.pc = "cancelled", !.replaced = f])
  BY DEF handle_cancel_reservation
<1> DEFINE d == [IdleCaller EXCEPT !.pc = "cancelled", !.replaced = f]
<1>2. d.pc = "cancelled" /\ d.next = "idle" /\ d.replaced = f
  BY DEF IdleCaller
<1>3. SetCaller("cancel", d)
  BY <1>1
<1> HIDE DEF d
<1>4. \A u \in Callers : caller'[u] = IF u = "cancel" THEN d ELSE caller[u]
  BY <1>3, CallerSet, ThreadNames
<1>5. /\ C.pc = "idle" /\ book' = cancel_reservation(book, id) /\ em' = em
      /\ UNCHANGED <<loading, restored, apply>>
  BY DEF handle_cancel_reservation
<1>7. ASSUME NEW e \in Evses PROVE (Proper(em[e]) /\ LeftAt(e) /\ KnowsAt(e))'
  <2>1. /\ book'.evse[e] \in {book.evse[e], None}
        /\ book'.evse[e] # book.evse[e] => is_evse_reserved(book, e, id)
    BY <1>5, BookNow, CancelAt
  <2>2. is_evse_reserved(book, e, id) => f = e
    BY <1>1, HeldAlone
  <2>3. Proper(em[e]) /\ Knows(book, P, e) /\ (Left(em[e]) => Accounted(book, P, C, e, em[e].reservation_id))
    BY EvseNow
  <2>4. Knows(book', P, e)
    BY <2>1, <2>3 DEF Knows, is_evse_reserved
  <2>5. ASSUME Left(em[e]) PROVE Accounted(book', P, d, e, em[e].reservation_id)
    <3>1. CASE book'.evse[e] # book.evse[e]
      BY <1>2, <2>1, <2>2, <3>1 DEF Accounted
    <3>2. CASE book'.evse[e] = book.evse[e]
      BY <1>5, <2>3, <2>5, <3>2 DEF Accounted, is_evse_reserved
    <3> QED
      BY <3>1, <3>2
  <2>6. caller'["place"] = P /\ caller'["cancel"] = d
    BY <1>4, ThreadNames
  <2> QED
    BY <1>5, <2>3, <2>4, <2>5, <2>6, EvseNext
<1> QED
  BY <1>7 DEF EvseInv

\* TellCancelled.
LEMMA TellCancelledLife ==
    ASSUME IInv, ThreadsInv, EvseInv, TellCancelled
    PROVE  EvseInv'
<1> DEFINE P == caller["place"]
           C == caller["cancel"]
           d == [C EXCEPT !.pc = "check", !.replaced = None]
<1>1. C \in CallerType /\ C.pc = "cancelled" /\ em \in [Evses -> EvseManagerType]
  BY ThreadNames DEF TellCancelled, IInv, TypeOK
<1>2. C.replaced \in Evses \cup {None} /\ None \notin Evses
  BY <1>1, ReservationAssumption DEF CallerType
<1>3. /\ em' = IF C.replaced = None THEN em ELSE [em EXCEPT ![C.replaced] = EndReservation(@, TRUE)]
      /\ SetCaller("cancel", d) /\ book' = book /\ UNCHANGED <<loading, restored, apply>>
  BY DEF TellCancelled
<1>4. d.pc = "check" /\ d.next = C.next
  BY <1>1 DEF CallerType
<1> HIDE DEF d
<1>5. \A u \in Callers : caller'[u] = IF u = "cancel" THEN d ELSE caller[u]
  BY <1>3, CallerSet, ThreadNames
<1>7. ASSUME NEW e \in Evses PROVE (Proper(em[e]) /\ LeftAt(e) /\ KnowsAt(e))'
  <2>1. Proper(em[e]) /\ Knows(book, P, e) /\ (Left(em[e]) => Accounted(book, P, C, e, em[e].reservation_id))
    BY EvseNow
  <2>2. em'[e] = IF e = C.replaced THEN EndReservation(em[e], TRUE) ELSE em[e]
    BY <1>1, <1>2, <1>3
  <2>3. Proper(em'[e]) /\ (Left(em'[e]) => em'[e] = em[e] /\ e # C.replaced)
    <3>1. em[e] \in EvseManagerType
      BY <1>1
    <3> QED
      BY <2>1, <2>2, <3>1, EndLoosened DEF Loosened, Left
  <2>4. ASSUME Left(em'[e]) PROVE Accounted(book', P, d, e, em[e].reservation_id)
    BY <1>3, <2>1, <2>3, <2>4 DEF Accounted
  <2>5. caller'["place"] = P /\ caller'["cancel"] = d
    BY <1>5, ThreadNames
  <2> QED
    BY <1>3, <2>1, <2>3, <2>4, <2>5, EvseNext
<1> QED
  BY <1>7 DEF EvseInv
\* CheckReserved and CallEvses, for a thread p that goes to d: both leave open
\* who will end a reservation.
LEMMA UpdatesKeep ==
    ASSUME NEW p, NEW d, d.r = p.r,
           \/ p.pc = "check" /\ d.pc = "send" /\ d.next = p.next
           \/ p.pc = "send" /\ d.pc = p.next /\ p.next \in {"idle", "reserve", "confirm"},
           NEW b, NEW c, NEW e, NEW id
    PROVE  /\ Accounted(b, p, c, e, id) => Accounted(b, d, c, e, id)
           /\ Knows(b, p, e) => Knows(b, d, e)
<1>1. (Placing(d) <=> Placing(p)) /\ (Confirming(d) <=> Confirming(p))
  BY DEF Placing, Confirming
<1>2. For(d, e, id) <=> For(p, e, id)
  BY DEF For
<1>3. Knows(b, p, e) => Knows(b, d, e)
  BY <1>1 DEF Knows
<1> QED
  BY <1>1, <1>2, <1>3 DEF Accounted

\* A thread that has told the EvseManagers and is done.
LEMMA DoneKeeps ==
    ASSUME NEW p, p.pc = "send", p.next = "idle", NEW b, NEW c, NEW e, NEW id
    PROVE  /\ Accounted(b, p, c, e, id) => Accounted(b, IdleCaller, c, e, id)
           /\ Knows(b, IdleCaller, e)
<1>1. ~Placing(p) /\ ~Confirming(p) /\ ~Placing(IdleCaller) /\ IdleCaller.pc = "idle"
  BY DEF Placing, Confirming, IdleCaller
<1> QED
  BY <1>1 DEF Accounted, Knows

\* The same for the step of a thread.
LEMMA UpdatesLife ==
    ASSUME IInv, ThreadsInv, EvseInv, NEW t \in Callers, CheckReserved(t) \/ CallEvses(t)
    PROVE  EvseInv'
<1> DEFINE P == caller["place"]
           C == caller["cancel"]
           p == caller[t]
           u == check_number_global_reservations_match_number_available_evses(book, seen, last_reserved_status)
<1>1. p \in CallerType /\ em \in [Evses -> EvseManagerType]
  BY DEF IInv, TypeOK
<1>2. book' = book /\ UNCHANGED <<loading, restored, apply>>
  BY DEF CheckReserved, CallEvses
<1>3. \A e \in Evses : Loosened(em[e], em'[e])
  BY <1>1, LoosenedSame, SendLoosened DEF CheckReserved, CallEvses
<1>4. PICK d : /\ SetCaller(t, d)
               /\ \/ p.pc = "check" /\ d.pc = "send" /\ d.next = p.next /\ d.r = p.r
                  \/ p.pc = "send" /\ p.next # "idle" /\ d.pc = p.next /\ d.next = "idle" /\ d.r = p.r
                  \/ p.pc = "send" /\ p.next = "idle" /\ d = IdleCaller
  <2>1. CASE CheckReserved(t)
    <3> DEFINE d == [p EXCEPT !.pc = "send", !.updates = [available |-> u.available, reserved |-> u.reserved]]
    <3>1. SetCaller(t, d) /\ p.pc = "check"
      BY <2>1 DEF CheckReserved
    <3> HIDE DEF u
    <3>2. d.pc = "send" /\ d.next = p.next /\ d.r = p.r
      BY <1>1 DEF CallerType
    <3> QED
      BY <3>1, <3>2
  <2>2. CASE CallEvses(t)
    <3> DEFINE d == [p EXCEPT !.pc = p.next, !.next = "idle", !.updates = NoUpdates]
    <3>1. SetCaller(t, IF p.next = "idle" THEN IdleCaller ELSE d) /\ p.pc = "send"
      BY <2>2 DEF CallEvses
    <3>2. d.pc = p.next /\ d.next = "idle" /\ d.r = p.r
      BY <1>1 DEF CallerType
    <3> HIDE DEF d
    <3>3. CASE p.next = "idle"
      BY <3>1, <3>3
    <3>4. CASE p.next # "idle"
      BY <3>1, <3>2, <3>4
    <3> QED
      BY <3>3, <3>4
  <2> QED
    BY <2>1, <2>2
<1>5. \A v \in Callers : caller'[v] = IF v = t THEN d ELSE caller[v]
  BY <1>4, CallerSet
<1>6. IdleCaller.pc = "idle" /\ IdleCaller.next = "idle"
  BY DEF IdleCaller
<1>9. ASSUME NEW e \in Evses PROVE (Proper(em[e]) /\ LeftAt(e) /\ KnowsAt(e))'
  <2>1. Proper(em[e]) /\ Knows(book, P, e) /\ (Left(em[e]) => Accounted(book, P, C, e, em[e].reservation_id))
    BY EvseNow
  <2>2. Proper(em'[e]) /\ (Left(em'[e]) => Left(em[e]) /\ em'[e].reservation_id = em[e].reservation_id)
    BY <1>3, <2>1, LoosenedLeft
  <2>3. CASE t = "place"
    <3>1. caller'["place"] = d /\ caller'["cancel"] = C
      BY <1>5, <2>3, ThreadNames
    <3>2. P.next \in {"idle", "reserve", "confirm"}
      BY ThreadNames DEF ThreadsInv, Position
    <3>3. /\ Accounted(book, P, C, e, em[e].reservation_id) => Accounted(book, d, C, e, em[e].reservation_id)
          /\ Knows(book, P, e) => Knows(book, d, e)
      BY <1>4, <2>3, <3>2, UpdatesKeep, DoneKeeps
    <3> QED
      BY <1>2, <2>1, <2>2, <3>1, <3>3, EvseNext
  <2>4. CASE t = "cancel"
    <3>1. caller'["place"] = P /\ caller'["cancel"] = d
      BY <1>5, <2>4, ThreadNames
    <3>2. Accounted(book, P, C, e, em[e].reservation_id) => Accounted(book, P, d, e, em[e].reservation_id)
      BY <1>4, <2>4 DEF Accounted
    <3> QED
      BY <1>2, <2>1, <2>2, <3>1, <3>2, EvseNext
  <2>5. CASE t \in {"event", "restore"}
    <3>1. caller'["place"] = P /\ caller'["cancel"] = C
      BY <1>5, <2>5, ThreadNames
    <3> QED
      BY <1>2, <2>1, <2>2, <3>1, EvseNext
  <2> QED
    BY <2>3, <2>4, <2>5, ThreadNames
<1> QED
  BY <1>9 DEF EvseInv

\* The thread that hands on restored reservations: what it does to an
\* EvseManager or to the book is about a reservation that was made again.
LEMMA RestoreLife ==
    ASSUME IInv, ThreadsInv, EvseInv,
           \/ cancel_replaced_if_dropped("restore") \/ call_reserved("restore") \/ reserve("restore")
           \/ Undo("restore") \/ Confirm("restore")
    PROVE  EvseInv'
<1> DEFINE p == caller["restore"]
           id == p.r.id
           f == p.r.evse
<1>1. /\ p \in CallerType /\ p.pc \in {"drop", "reserve", "set", "undo", "confirm"} /\ HasReservation(p)
      /\ id \in loading.again /\ em \in [Evses -> EvseManagerType]
  BY ThreadNames DEF cancel_replaced_if_dropped, call_reserved, reserve, Undo, Confirm, IInv, TypeOK, CallersOK,
     ThreadsInv, Position
<1>2. p.r # None /\ p.r \in Reservation /\ (p.pc = "set" => f # None)
  BY <1>1 DEF CallerType, HasReservation, WithReservation
<1>3. id \in Ids /\ f \in Evses \cup {None} /\ p.replaced \in Evses \cup {None}
  BY <1>1, <1>2 DEF Reservation, CallerType
<1>4. PICK d : SetCaller("restore", d)
  BY DEF cancel_replaced_if_dropped, call_reserved, reserve, Undo, Confirm
<1>5. caller'["place"] = caller["place"] /\ caller'["cancel"] = caller["cancel"] /\ loading' = loading
  BY <1>4, CallerSet, ThreadNames DEF cancel_replaced_if_dropped, call_reserved, reserve, Undo, Confirm
<1>6. /\ book' = book \/ book' = cancel_reservation(book, id)
      /\ \/ em' = em
         \/ p.replaced # None /\ em' = [em EXCEPT ![p.replaced] = EndReservation(@, TRUE)]
         \/ f # None /\ em' = [em EXCEPT ![f] = EndReservation(@, TRUE)]
         \/ p.pc = "set" /\ em' = [em EXCEPT ![f] = set_reserved(@, id)]
  BY DEF cancel_replaced_if_dropped, call_reserved, reserve, Undo, Confirm
<1>7. ASSUME NEW e \in Evses PROVE (Proper(em[e]) /\ LeftAt(e) /\ KnowsAt(e))'
  <2>1. em[e] \in EvseManagerType /\ Proper(em[e])
    BY <1>1 DEF EvseInv
  <2>2. em'[e] = em[e] \/ em'[e] = EndReservation(em[e], TRUE) \/ em'[e] = set_reserved(em[e], id)
    BY <1>1, <1>2, <1>3, <1>6
  <2>3. Proper(em'[e]) /\ (Left(em'[e]) => Left(em[e]) /\ em'[e].reservation_id = em[e].reservation_id)
    <3>1. CASE em'[e] = em[e] \/ em'[e] = EndReservation(em[e], TRUE)
      BY <2>1, <3>1, EndLoosened, LoosenedSame, LoosenedLeft
    <3>2. CASE em'[e] = set_reserved(em[e], id)
      BY <1>1, <1>3, <2>1, <3>2, ReserveIs DEF Left
    <3> QED
      BY <2>2, <3>1, <3>2
  <2>4. /\ book'.evse[e] \in {book.evse[e], None}
        /\ book'.evse[e] # book.evse[e] => is_evse_reserved(book, e, id)
    BY <1>3, <1>6, BookNow, CancelAt
  <2>5. book'.evse[e] # book.evse[e] => ~Left(em'[e]) \/ ~is_evse_reserved(book, e, em[e].reservation_id)
    BY <1>1, <2>3, <2>4 DEF Left, is_evse_reserved
  <2> QED
    BY <1>5, <2>3, <2>4, <2>5, EvseStays
<1> QED
  BY <1>7 DEF EvseInv

\* The other two threads never have a reservation in hand.
LEMMA CallerLife ==
    ASSUME IInv, ThreadsInv, EvseInv, NEW t \in Callers, CallerStep(t)
    PROVE  EvseInv'
<1>1. CASE CheckReserved(t) \/ CallEvses(t)
  BY <1>1, UpdatesLife
<1>2. CASE cancel_replaced_if_dropped(t) \/ call_reserved(t) \/ reserve(t) \/ Undo(t) \/ Confirm(t)
  <2>1. caller[t].pc \in {"drop", "reserve", "set", "undo", "confirm"}
    BY <1>2 DEF cancel_replaced_if_dropped, call_reserved, reserve, Undo, Confirm
  <2>2. t = "place" \/ t = "restore"
    BY <2>1, ThreadNames DEF ThreadsInv, Position
  <2> QED
    BY <1>2, <2>2, DropLife, CallReservedLife, ReserveLife, UndoLife, ConfirmLife, RestoreLife
<1> QED
  BY <1>1, <1>2 DEF CallerStep

-----------------------------------------------------------------------------
(* The steps of the timers, of the event handler and of the EVSEs.         *)

\* take_restored_reservation, apply_restored_reservation and ResumeHandler.
LEMMA HandOnLife ==
    ASSUME IInv, EvseInv, NEW f \in Evses,
           take_restored_reservation \/ apply_restored_reservation(f) \/ ResumeHandler(f)
    PROVE  EvseInv'
<1>1. PICK t \in {"event", "restore"} : \E d : SetCaller(t, d)
  BY DEF take_restored_reservation, apply_restored_reservation, ResumeHandler
<1>2. caller'["place"] = caller["place"] /\ caller'["cancel"] = caller["cancel"]
  BY <1>1, CallerSet, ThreadNames
<1>3. book' = book /\ em' = em /\ loading' = loading
  BY DEF take_restored_reservation, apply_restored_reservation, ResumeHandler
<1> QED
  BY <1>2, <1>3, LoosenedSame, EvsesStay

\* Expire and ReservationExpired.
LEMMA TimerLife ==
    ASSUME IInv, ThreadsInv, EvseInv, ReservationExpired \/ \E id \in Ids : Expire(id)
    PROVE  EvseInv'
<1>1. UNCHANGED <<loading, restored, apply, caller>>
  BY DEF ReservationExpired, Expire
<1>3. CASE ReservationExpired
  <2> DEFINE id == Head(expired)
             w == CancelAndTell(World, seen, id)
  <2>1. expired \in Seq(Ids) /\ expired # <<>>
    BY <1>3 DEF ReservationExpired, IInv, TypeOK
  <2>2. id \in Ids
    BY <2>1
  <2>3. World \in WorldType /\ World.book = book /\ BookOK(book) /\ World.em = em
    BY WorldNow, BookNow DEF World
  <2>4. Become(w)
    BY <1>3 DEF ReservationExpired
  <2> HIDE DEF World, id
  <2>5. Told(World, w)
    BY <2>2, <2>3, CancelTold
  <2>6. book' = w.book /\ em' = w.em
    BY <2>4 DEF Become
  <2> HIDE DEF w
  <2>7. \A e \in Evses : /\ Loosened(em[e], em'[e])
                         /\ book'.evse[e] \in {book.evse[e], None}
                         /\ book'.evse[e] # book.evse[e] => em'[e].reservation_id = Global
    BY <2>3, <2>5, <2>6 DEF Told, EvseInv
  <2>8. EvseInv'
    BY <1>1, <2>7, EvsesStay
  <2> QED
    BY <2>8
<1>4. CASE \E id \in Ids : Expire(id)
  <2>1. book'.evse = book.evse /\ em' = em
    BY <1>4 DEF Expire, IInv, TypeOK, BookType
  <2>2. EvseInv'
    BY <1>1, <2>1, LoosenedSame, EvsesStay
  <2> QED
    BY <2>2
<1> QED
  BY <1>3, <1>4

\* handle_session_event: what goes is told to the EvseManagers in the same step.
LEMMA EventLife ==
    ASSUME IInv, ThreadsInv, EvseInv, NEW f \in Evses, handle_session_event(f)
    PROVE  EvseInv'
<1> DEFINE event == Head(em[f].out)
           v == [seen EXCEPT ![f] = View(@, event)]
           m == [em EXCEPT ![f].out = Tail(@)]
           w == [World EXCEPT !.em[f].out = Tail(@)]
           x == on_connector_state_changed(w, v, f)
           y == CancelAndTell(w, v, book.evse[f].id)
           c == [IdleCaller EXCEPT !.pc = "check", !.next = IF event = "Enabled" THEN "take" ELSE "idle",
                                   !.replaced = f]
<1>1. /\ em \in [Evses -> EvseManagerType] /\ em[f] \in EvseManagerType
      /\ em[f].out \in Seq(Events) /\ em[f].out # <<>>
  BY DEF handle_session_event, IInv, TypeOK, EvseManagerType
<1>2. Tail(em[f].out) \in Seq(Events)
  BY <1>1
<1>3. m[f] = [em[f] EXCEPT !.out = Tail(@)] /\ \A e \in Evses : e # f => m[e] = em[e]
  BY <1>1
<1>4. w \in WorldType /\ w.book = book /\ w.em = m
  <2>1. [em[f] EXCEPT !.out = Tail(@)] \in EvseManagerType
    BY <1>1, <1>2 DEF EvseManagerType
  <2>2. m \in [Evses -> EvseManagerType]
    BY <1>1, <2>1
  <2>3. w = [World EXCEPT !.em = m]
    BY DEF World
  <2>4. World \in WorldType /\ World.book = book
    BY WorldNow
  <2> HIDE DEF w, World, m
  <2> QED
    BY <2>2, <2>3, <2>4 DEF WorldType
<1>5. /\ Become(x) \/ (book.evse[f] # None /\ Become(y)) \/ Become(w)
      /\ SetCaller("event", c) \/ SetCaller("event", IdleCaller)
      /\ UNCHANGED <<loading, restored, apply>>
  BY DEF handle_session_event
<1>6. /\ c.pc = "check" /\ c.next \in {"idle", "take"}
      /\ IdleCaller.pc = "idle" /\ IdleCaller.next = "idle"
  BY DEF IdleCaller
<1> HIDE DEF w, v, m, c
<1>7. PICK d : /\ \A u \in Callers : caller'[u] = IF u = "event" THEN d ELSE caller[u]
               /\ d.pc \in {"check", "idle"} /\ d.next \in {"idle", "take"}
  BY <1>5, <1>6, CallerSet, ThreadNames
<1>9. Told(w, w) /\ Told(w, x)
  BY <1>4, BookNow, ConnectorTold, ToldSame
<1>10. book.evse[f] # None => Told(w, y)
  BY <1>4, BookNow, HeldType, CancelTold
<1>11. PICK z : Become(z) /\ Told(w, z)
  BY <1>5, <1>9, <1>10
<1>12. book' = z.book /\ em' = z.em
  BY <1>11 DEF Become
<1>13. caller'["place"] = caller["place"] /\ caller'["cancel"] = caller["cancel"]
  BY <1>7, ThreadNames
<1>14. ASSUME NEW e \in Evses PROVE (Proper(em[e]) /\ LeftAt(e) /\ KnowsAt(e))'
  <2>1. Proper(m[e]) /\ m[e].reservation_id = em[e].reservation_id /\ (Left(m[e]) => Left(em[e]))
    <3>1. Proper(em[e])
      BY DEF EvseInv
    <3>2. CASE e = f
      BY <1>1, <1>3, <3>1, <3>2 DEF Proper, Left, EvseManagerType
    <3> QED
      BY <1>3, <3>1, <3>2
  <2>2. /\ Loosened(m[e], em'[e]) /\ book'.evse[e] \in {book.evse[e], None}
        /\ book'.evse[e] # book.evse[e] => em'[e].reservation_id = Global
    BY <1>4, <1>11, <1>12, <2>1 DEF Told
  <2>3. Proper(em'[e]) /\ (Left(em'[e]) => Left(em[e]) /\ em'[e].reservation_id = em[e].reservation_id)
    BY <2>1, <2>2, LoosenedLeft
  <2>4. book'.evse[e] # book.evse[e] => ~Left(em'[e])
    BY <2>2 DEF Left
  <2> QED
    BY <1>5, <1>13, <2>2, <2>3, <2>4, EvseStays
<1> QED
  BY <1>14 DEF EvseInv

\* What the users and the main loop do at an EVSE.
LEMMA UserLife ==
    ASSUME IInv, EvseInv, NEW f \in Evses,
           \/ PlugIn(f) \/ Unplug(f) \/ DisableEvse(f) \/ EnableEvse(f) \/ MainLoop(f) \/ WithdrawAuthorization(f)
    PROVE  EvseInv'
<1>1. /\ \A e \in Evses : Loosened(em[e], em'[e])
      /\ UNCHANGED <<book, loading, caller>>
  BY UserLoosened
<1> QED
  BY <1>1, EvsesStay

\* authorize_response: a reservation that was given to it is used, or over.
LEMMA ResponseLeft ==
    ASSUME NEW c \in EvseManagerType, Proper(c), NEW id \in Ids \cup {None}, NEW waiting_for_pnc \in BOOLEAN
    PROVE  LET d == authorize_response(c, id, waiting_for_pnc)
           IN  Proper(d) /\ (Left(d) => Left(c) /\ d.reservation_id = c.reservation_id)
<1> DEFINE u == use_reservation(c, id)
<1>1. ASSUME NEW x \in EvseManagerType, Proper(x)
      PROVE  /\ Proper(authorize(x)) /\ authorize(x).used = x.used
             /\ Left(authorize(x)) => Left(x) /\ authorize(x).reservation_id = x.reservation_id
             /\ Proper(EndReservation(x, TRUE)) /\ ~Left(EndReservation(x, TRUE))
  <2>1. Plain(x, authorize(x))
    BY AuthorizePlain
  <2>2. Proper(authorize(x)) /\ (Left(authorize(x)) => Left(x) /\ authorize(x).reservation_id = x.reservation_id)
    BY <1>1, <2>1, PlainLoosened, LoosenedLeft
  <2>3. Proper(EndReservation(x, TRUE)) /\ ~Left(EndReservation(x, TRUE))
    BY <1>1, EndLoosened DEF Loosened, Left
  <2> QED
    BY <2>1, <2>2, <2>3 DEF Plain
<1>2. CASE id = None \/ waiting_for_pnc
  BY <1>1, <1>2 DEF authorize_response
<1>3. CASE id # None /\ ~waiting_for_pnc
  <2>1. authorize_response(c, id, waiting_for_pnc) = IF Refuses(u) THEN EndReservation(u, TRUE) ELSE authorize(u)
    BY <1>3 DEF authorize_response
  <2>2. u \in EvseManagerType /\ Proper(u) /\ (c.state # "Disabled" => u.used)
    BY <1>3 DEF use_reservation, Proper, EvseManagerType
  <2>3. c.state = "Disabled" => Refuses(u)
    BY DEF use_reservation, Proper, Refuses
  <2> HIDE DEF u
  <2>4. /\ Proper(authorize(u)) /\ (Left(authorize(u)) => Left(u))
        /\ Proper(EndReservation(u, TRUE)) /\ ~Left(EndReservation(u, TRUE))
    BY <1>1, <2>2
  <2>5. CASE Refuses(u)
    BY <2>1, <2>4, <2>5
  <2>6. CASE ~Refuses(u)
    <3>1. ~Left(u)
      BY <2>2, <2>3, <2>6 DEF Left
    <3> QED
      BY <2>1, <2>4, <2>6, <3>1
  <2> QED
    BY <2>5, <2>6
<1> QED
  BY <1>2, <1>3

\* notify_evse.
LEMMA NotifyLife ==
    ASSUME IInv, EvseInv, NEW w \in waiting, NEW waiting_for_pnc \in BOOLEAN, notify_evse(w, waiting_for_pnc)
    PROVE  EvseInv'
<1>1. w \in Wait /\ em \in [Evses -> EvseManagerType]
  BY DEF IInv, TypeOK
<1>2. w.evse \in Evses /\ w.id \in Ids \cup {None}
  BY <1>1 DEF Wait
<1>3. /\ em' = [em EXCEPT ![w.evse] = authorize_response(@, w.id, waiting_for_pnc)]
      /\ UNCHANGED <<book, loading, caller>>
  BY DEF notify_evse
<1>4. ASSUME NEW e \in Evses PROVE (Proper(em[e]) /\ LeftAt(e) /\ KnowsAt(e))'
  <2>1. em[e] \in EvseManagerType /\ Proper(em[e])
    BY <1>1 DEF EvseInv
  <2>2. em'[e] = em[e] \/ em'[e] = authorize_response(em[e], w.id, waiting_for_pnc)
    BY <1>1, <1>3
  <2>3. Proper(em'[e]) /\ (Left(em'[e]) => Left(em[e]) /\ em'[e].reservation_id = em[e].reservation_id)
    BY <1>2, <2>1, <2>2, ResponseLeft
  <2> QED
    BY <1>3, <2>3, EvseStays
<1> QED
  BY <1>4 DEF EvseInv

\* The reservation a token uses is not the one of another EVSE.
LEMMA TokenElsewhere ==
    ASSUME IInv, NEW f \in Evses, NEW t, NEW parent, NEW id \in matches_reserved_identifier(book, t, f, parent),
           NEW e \in Evses, is_evse_reserved(book, e, id)
    PROVE  e = f
<1>1. CASE book.evse[f] # None
  <2>1. id = book.evse[f].id
    BY <1>1 DEF matches_reserved_identifier
  <2> QED
    BY <1>1, <2>1, HeldAlone DEF is_evse_reserved
<1>2. CASE book.evse[f] = None
  <2>1. \E i \in DOMAIN book.global : id = book.global[i].id
    BY <1>2 DEF matches_reserved_identifier
  <2> QED
    BY <2>1 DEF IInv, Once, is_evse_reserved, Taken
<1> QED
  BY <1>1, <1>2

\* UseToken: what Auth does not hold any more is used.
LEMMA TokenLife ==
    ASSUME IInv, EvseInv, NEW f \in Evses, NEW t \in Tokens, NEW parent, UseToken(f, t, parent)
    PROVE  EvseInv'
<1>1. em \in [Evses -> EvseManagerType] /\ BookOK(book)
  BY BookNow DEF IInv, TypeOK
<1>2. PICK id \in Ids \cup {None} :
         /\ id # None => id \in matches_reserved_identifier(book, t, f, parent)
         /\ book' = IF id = None THEN book ELSE cancel_reservation(book, id)
         /\ em' = [em EXCEPT ![f].used = @ \/ (em[f].reserved /\ em[f].reservation_id = id)]
  BY TokenIs
<1>3. UNCHANGED <<loading, caller>>
  BY DEF UseToken
<1>4. id # None => \A e \in Evses : is_evse_reserved(book, e, id) => e = f
  BY <1>2, TokenElsewhere
<1>5. ASSUME NEW e \in Evses PROVE (Proper(em[e]) /\ LeftAt(e) /\ KnowsAt(e))'
  <2>1. Proper(em[e]) /\ em[e] \in EvseManagerType
    BY <1>1 DEF EvseInv
  <2>2. em'[e] = IF e = f THEN [em[e] EXCEPT !.used = @ \/ (em[e].reserved /\ em[e].reservation_id = id)] ELSE em[e]
    BY <1>1, <1>2
  <2>3. /\ Proper(em'[e])
        /\ Left(em'[e]) => /\ Left(em[e]) /\ em'[e].reservation_id = em[e].reservation_id
                           /\ e = f => em[e].reservation_id # id
    BY <2>1, <2>2 DEF Proper, Left, EvseManagerType
  <2>4. /\ book'.evse[e] \in {book.evse[e], None}
        /\ book'.evse[e] # book.evse[e] => e = f /\ is_evse_reserved(book, e, id)
    BY <1>1, <1>2, <1>4, CancelAt
  <2>5. book'.evse[e] # book.evse[e] => ~Left(em'[e]) \/ ~is_evse_reserved(book, e, em[e].reservation_id)
    BY <2>3, <2>4 DEF is_evse_reserved
  <2> QED
    BY <1>3, <2>3, <2>4, <2>5, EvseStays
<1> QED
  BY <1>5 DEF EvseInv

-----------------------------------------------------------------------------
(* Start and restart: no EvseManager is reserved yet.                      *)

\* A fresh EvseManager.
LEMMA FreshIs == FreshEvse.reservation_id = Global /\ Proper(FreshEvse)
  BY DEF FreshEvse, Proper

\* Restart.
LEMMA RestartLife ==
    ASSUME NEW disabled, NEW late, Restart(disabled, late)
    PROVE  EvseInv' /\ FreshInv'
<1>1. caller'["place"] = IdleCaller
  BY ThreadNames DEF Restart
<1>2. \A e \in Evses : Proper(em'[e]) /\ em'[e].reservation_id = Global
  BY DEF Restart, FreshEvse, Proper
<1>3. FreshInv'
  BY <1>2 DEF FreshInv
<1> QED
  BY <1>1, <1>2, <1>3, IdlePosition, NothingLeft

\* load_reservations.
LEMMA LoadLife ==
    ASSUME IInv, ThreadsInv, EvseInv, FreshInv, NEW late \in BOOLEAN, load_reservations(late)
    PROVE  EvseInv' /\ FreshInv'
<1>1. \A e \in Evses : Loosened(em[e], em'[e])
  BY LoadLoosened
<1>2. ~loading.done /\ caller' = caller
  BY DEF load_reservations
<1>3. \A e \in Evses : Proper(em'[e]) /\ em'[e].reservation_id = Global
  BY <1>1, <1>2 DEF EvseInv, FreshInv, Loosened
<1>4. caller'["place"].pc = "idle"
  BY <1>2, ThreadNames DEF ThreadsInv
<1>5. FreshInv'
  BY <1>3 DEF FreshInv
<1> QED
  BY <1>3, <1>4, <1>5, NothingLeft

\* initialize.
LEMMA InitializeLife ==
    ASSUME IInv, ThreadsInv, EvseInv, FreshInv, initialize
    PROVE  EvseInv'
<1>1. PICK d : SetCaller("event", d) /\ ~loading.done /\ em' = em
  BY DEF initialize
<1>2. caller'["place"].pc = "idle"
  BY <1>1, CallerSet, ThreadNames DEF ThreadsInv
<1>3. \A e \in Evses : Proper(em'[e]) /\ em'[e].reservation_id = Global
  BY <1>1 DEF EvseInv, FreshInv
<1> QED
  BY <1>2, <1>3, NothingLeft

\* Until Auth is ready, only the users of the EVSEs do anything.
LEMMA FreshStep ==
    ASSUME IInv, ThreadsInv, EvseInv, FreshInv, [Next]_vars
    PROVE  FreshInv'
<1>1. CASE \E s \in Startups : Restart(s.disabled, s.late)
  BY <1>1, RestartLife
<1>2. CASE \E late \in BOOLEAN : load_reservations(late)
  BY <1>2, LoadLife
<1>3. CASE initialize
  <2>1. loading'.done
    BY <1>3 DEF initialize, IInv, TypeOK
  <2> QED
    BY <2>1 DEF FreshInv
<1>4. CASE \E e \in Evses : \/ PlugIn(e) \/ Unplug(e) \/ DisableEvse(e) \/ EnableEvse(e) \/ MainLoop(e)
                            \/ WithdrawAuthorization(e)
  <2>1. (\A e \in Evses : Loosened(em[e], em'[e])) /\ loading' = loading
    BY <1>4, UserLoosened
  <2> QED
    BY <2>1 DEF FreshInv, Loosened
<1>5. CASE (\E id \in Ids : Expire(id)) \/ UNCHANGED vars
  <2>1. em' = em /\ loading' = loading
    BY <1>5 DEF Expire, vars
  <2> QED
    BY <2>1 DEF FreshInv
<1>6. CASE \E t \in Callers : CallerStep(t)
  <2>1. loading.done
    BY <1>6 DEF CallerStep, cancel_replaced_if_dropped, call_reserved, reserve, Undo, Confirm, CheckReserved, CallEvses,
                ThreadsInv
  <2>2. loading' = loading
    BY <1>6 DEF CallerStep, cancel_replaced_if_dropped, call_reserved, reserve, Undo, Confirm, CheckReserved, CallEvses
  <2> QED
    BY <2>1, <2>2 DEF FreshInv
<1>7. CASE \/ \E r \in Requests : place_reservation(r)
           \/ \E late \in BOOLEAN : handle_reservation(late)
           \/ \E id \in Ids : handle_cancel_reservation(id)
           \/ TellCancelled \/ take_restored_reservation \/ ReservationExpired
           \/ \E e \in Evses : \/ apply_restored_reservation(e) \/ handle_session_event(e) \/ ResumeHandler(e)
                               \/ \E t \in Tokens, parent \in Parents \cup {None} : UseToken(e, t, parent)
           \/ \E w \in waiting, waiting_for_pnc \in BOOLEAN : notify_evse(w, waiting_for_pnc)
  <2>1. /\ caller["cancel"].pc # "idle" => loading.done
        /\ caller["event"].pc # "idle" => loading.done
    BY ThreadNames, SMTT(40) DEF ThreadsInv
  <2>2. loading.done /\ loading' = loading
    BY <1>7, <2>1, ZenonT(60) DEF place_reservation, handle_reservation, handle_cancel_reservation, TellCancelled,
       take_restored_reservation, ReservationExpired, apply_restored_reservation, handle_session_event,
       ResumeHandler, UseToken, notify_evse, Unlocked, Running
  <2> QED
    BY <2>2 DEF FreshInv
<1> QED
  BY <1>1, <1>2, <1>3, <1>4, <1>5, <1>6, <1>7 DEF Next

-----------------------------------------------------------------------------
(* What is reserved is held: the theorem.                                  *)

LifeInv == FreshInv /\ EvseInv

\* At the start the EvseManagers are not reserved and no thread is under way.
LEMMA LifeInitially == Init => LifeInv
<1> SUFFICES ASSUME Init PROVE LifeInv
  OBVIOUS
<1>1. Placer.pc = "idle" /\ ~Placing(Placer)
  BY ThreadNames DEF Init, Placer, Placing, IdleCaller
<1>2. \A e \in Evses : Proper(em[e]) /\ em[e].reservation_id = Global
  BY FreshIs DEF Init
<1>3. FreshInv
  BY <1>2 DEF FreshInv
<1>4. EvseInv
  BY <1>1, <1>2 DEF EvseInv, LeftAt, Left, KnowsAt, Knows
<1> QED
  BY <1>3, <1>4 DEF LifeInv

\* Every step keeps the invariant.
LEMMA LifeStep ==
    ASSUME IInv, ThreadsInv, LifeInv, [Next]_vars
    PROVE  LifeInv'
<1> USE DEF LifeInv
<1>0. FreshInv'
  BY FreshStep
<1>1. CASE \E r \in Requests : place_reservation(r)
  BY <1>0, <1>1, PlaceLife
<1>2. CASE \E late \in BOOLEAN : handle_reservation(late)
  BY <1>0, <1>2, MakeLife
<1>3. CASE (\E late \in BOOLEAN : load_reservations(late)) \/ initialize
  BY <1>0, <1>3, LoadLife, InitializeLife
<1>4. CASE \E t \in Callers : CallerStep(t)
  BY <1>0, <1>4, CallerLife
<1>5. CASE \E id \in Ids : handle_cancel_reservation(id)
  BY <1>0, <1>5, CancelLife
<1>6. CASE ReservationExpired \/ \E id \in Ids : Expire(id)
  BY <1>0, <1>6, TimerLife
<1>7. CASE TellCancelled
  BY <1>0, <1>7, TellCancelledLife
<1>8. CASE take_restored_reservation
  BY <1>0, <1>8, HandOnLife, ReservationAssumption
<1>9. CASE \E e \in Evses : apply_restored_reservation(e) \/ ResumeHandler(e)
  BY <1>0, <1>9, HandOnLife
<1>10. CASE \E e \in Evses : handle_session_event(e)
  BY <1>0, <1>10, EventLife
<1>11. CASE \E e \in Evses : \/ PlugIn(e) \/ Unplug(e) \/ DisableEvse(e) \/ EnableEvse(e) \/ MainLoop(e)
                             \/ WithdrawAuthorization(e)
  BY <1>0, <1>11, UserLife
<1>12. CASE \E e \in Evses : \E t \in Tokens, parent \in Parents \cup {None} : UseToken(e, t, parent)
  BY <1>0, <1>12, TokenLife
<1>13. CASE \E w \in waiting, waiting_for_pnc \in BOOLEAN : notify_evse(w, waiting_for_pnc)
  BY <1>0, <1>13, NotifyLife
<1>14. CASE \E s \in Startups : Restart(s.disabled, s.late)
  BY <1>0, <1>14, RestartLife
<1>15. CASE UNCHANGED vars
  <2>1. book' = book /\ em' = em /\ UNCHANGED <<loading, caller>>
    BY <1>15 DEF vars
  <2> QED
    BY <1>0, <2>1, LoosenedSame, EvsesStay
<1> QED
  BY <1>1, <1>2, <1>3, <1>4, <1>5, <1>6, <1>7, <1>8, <1>9, <1>10, <1>11, <1>12, <1>13, <1>14, <1>15
     DEF Next

\* place_reservation, cancel_reservation, the timers, the tokens and the events,
\* in any order: once no thread is under way and no event is waiting, no
\* EvseManager is left reserved for a reservation that Auth does not hold, that it
\* has not consumed for a token and that was not made again at the restart.
THEOREM ReservedIsHeldAlways == Spec => []ReservedIsHeld
<1>1. IInv /\ ThreadsInv /\ LifeInv /\ [Next]_vars => LifeInv'
  BY LifeStep
<1>2. IInv /\ LifeInv => ReservedIsHeld
  <2> SUFFICES ASSUME IInv, EvseInv, Quiet, NEW e \in Evses, Left(em[e])
               PROVE  is_evse_reserved(book, e, em[e].reservation_id)
    BY DEF ReservedIsHeld, Left, LifeInv
  <2>1. caller["place"].pc = "idle" /\ caller["cancel"].pc = "idle"
    BY ThreadNames DEF Quiet
  <2>2. Accounted(book, caller["place"], caller["cancel"], e, em[e].reservation_id)
    BY EvseNow
  <2> QED
    BY <2>1, <2>2 DEF Accounted, Confirming
<1> QED
  BY Invariance, ThreadsAlways, LifeInitially, <1>1, <1>2, PTL DEF Spec
=============================================================================
