------------------------- MODULE ReservationsProofs -------------------------
(***************************************************************************)
(* Theorems about Reservations, for every value of its constants: types,   *)
(* what the ReservationHandler holds and what it has stored.               *)
(***************************************************************************)
EXTENDS Reservations, Iteration, TLAPS

USE ReservationAssumption

-----------------------------------------------------------------------------
(* Types of the operations on the charger of an EvseManager.               *)

\* Publishing an event.
LEMMA SignalType ==
    ASSUME NEW c \in EvseManagerType, NEW event \in Events
    PROVE  Signal(c, event) \in EvseManagerType
<1>1. Append(c.out, event) \in Seq(Events)
  BY DEF EvseManagerType
<1> QED
  BY <1>1 DEF Signal, EvseManagerType

\* The session events are among the events of an EvseManager.
LEMMA EventNames ==
    {"SessionStarted", "TransactionStarted", "TransactionFinished", "SessionFinished",
     "Deauthorized", "Disabled", "Enabled", "ReservationEnd"} = Events
  BY DEF Events, SessionEvent

\* The start and the end of a session.
LEMMA SessionType ==
    ASSUME NEW c \in EvseManagerType
    PROVE  start_session(c) \in EvseManagerType /\ stop_session(c) \in EvseManagerType
<1>1. [c EXCEPT !.session = FALSE, !.authorized = FALSE, !.cancelled = FALSE] \in EvseManagerType
  BY DEF EvseManagerType
<1>2. start_session(c) \in EvseManagerType
  BY DEF start_session, EvseManagerType
<1> QED
  BY <1>1, <1>2, SignalType, EventNames DEF stop_session

\* The start and the end of a transaction.
LEMMA TransactionType ==
    ASSUME NEW c \in EvseManagerType
    PROVE  start_transaction(c) \in EvseManagerType /\ stop_transaction(c) \in EvseManagerType
<1>1. /\ [c EXCEPT !.transaction = FALSE] \in EvseManagerType
      /\ [c EXCEPT !.transaction = TRUE] \in EvseManagerType
  BY DEF EvseManagerType
<1> QED
  BY <1>1, SignalType, EventNames DEF start_transaction, stop_transaction

\* deauthorize and authorize.
LEMMA AuthorizeType ==
    ASSUME NEW c \in EvseManagerType
    PROVE  deauthorize(c) \in EvseManagerType /\ authorize(c) \in EvseManagerType
<1>1. Signal(c, "Deauthorized") \in EvseManagerType
  BY SignalType, EventNames
<1>2. \A d \in EvseManagerType : [d EXCEPT !.authorized = TRUE] \in EvseManagerType
  BY DEF EvseManagerType
<1> QED
  BY <1>1, <1>2, SessionType DEF deauthorize, authorize

\* A change of state.
LEMMA StateType ==
    ASSUME NEW c \in EvseManagerType, NEW state \in EvseState
    PROVE  [c EXCEPT !.state = state] \in EvseManagerType
  BY DEF EvseManagerType

\* Finish and run_state_machine.
LEMMA RunType ==
    ASSUME NEW c \in EvseManagerType
    PROVE  Finish(c) \in EvseManagerType /\ run_state_machine(c) \in EvseManagerType
<1> DEFINE f == [stop_transaction(c) EXCEPT !.state = "Finished"]
<1>0. {"Disabled", "Idle", "WaitingForAuthentication", "Charging", "Finished"} = EvseState
  BY DEF EvseState
<1>1. f \in EvseManagerType
  BY <1>0, TransactionType, StateType
<1>2. stop_session(f) \in EvseManagerType
  BY <1>1, SessionType
<1>3. /\ [stop_session(f) EXCEPT !.state = "Disabled"] \in EvseManagerType
      /\ [stop_session(f) EXCEPT !.state = "Idle"] \in EvseManagerType
      /\ [c EXCEPT !.state = "Disabled"] \in EvseManagerType
  BY <1>0, <1>2, StateType
<1>4. Finish(c) \in EvseManagerType
  BY <1>1, <1>3, SignalType, EventNames DEF Finish
<1> QED
  BY <1>3, <1>4, SignalType, EventNames DEF run_state_machine

\* What the user of the EVSE does, and what the main loop does.
LEMMA UserType ==
    ASSUME NEW c \in EvseManagerType
    PROVE  /\ CarPluggedIn(c) \in EvseManagerType
           /\ CarUnplugged(c) \in EvseManagerType
           /\ Disable(c) \in EvseManagerType
           /\ Enable(c) \in EvseManagerType
           /\ StartCharging(c, "Charging") \in EvseManagerType
<1> DEFINE w == [c EXCEPT !.state = "WaitingForAuthentication", !.plugged = TRUE]
           i == [c EXCEPT !.state = "Idle", !.enabled = TRUE, !.disable_requested = FALSE]
<1>0. {"Disabled", "Idle", "WaitingForAuthentication", "Charging", "Finished"} = EvseState
  BY DEF EvseState
<1>1. /\ w \in EvseManagerType /\ i \in EvseManagerType
      /\ [c EXCEPT !.plugged = FALSE] \in EvseManagerType
      /\ [c EXCEPT !.enabled = FALSE, !.disable_requested = TRUE] \in EvseManagerType
      /\ [c EXCEPT !.enabled = TRUE] \in EvseManagerType
  BY <1>0 DEF EvseManagerType
<1>2. CarPluggedIn(c) \in EvseManagerType
  BY <1>1, SessionType, SignalType, EventNames DEF CarPluggedIn
<1>3. CarUnplugged(c) \in EvseManagerType /\ Disable(c) \in EvseManagerType
  BY <1>1, RunType DEF CarUnplugged, Disable
<1>4. Enable(c) \in EvseManagerType
  BY <1>1, AuthorizeType, SignalType, EventNames DEF Enable
<1>5. StartCharging(c, "Charging") \in EvseManagerType
  BY <1>0, TransactionType, StateType DEF StartCharging
<1> QED
  BY <1>2, <1>3, <1>4, <1>5

\* EndReservation, reserve and use_reservation.
LEMMA ReserveType ==
    ASSUME NEW c \in EvseManagerType, NEW signal_event \in BOOLEAN, NEW id \in Ids \cup {Global}
    PROVE  /\ EndReservation(c, signal_event) \in EvseManagerType
           /\ set_reserved(c, id) \in EvseManagerType /\ reserve_global(c) \in EvseManagerType
           /\ use_reservation(c, id) \in EvseManagerType
<1>1. [c EXCEPT !.reserved = FALSE, !.reservation_id = Global, !.used = FALSE] \in EvseManagerType
  BY DEF EvseManagerType
<1>2. EndReservation(c, signal_event) \in EvseManagerType
  BY <1>1, SignalType, EventNames DEF EndReservation
<1>3. set_reserved(c, id) \in EvseManagerType /\ reserve_global(c) \in EvseManagerType
  <2>1. ASSUME NEW x \in Ids \cup {Global} PROVE set_reserved(c, x) \in EvseManagerType
    <3> DEFINE n == IF x = Global THEN c.reservation_id ELSE x
               u == IF x = Global THEN c.used ELSE FALSE
    <3>1. n \in Ids \cup {Global} /\ u \in BOOLEAN
      BY DEF EvseManagerType
    <3>2. set_reserved(c, x) \in {c, [c EXCEPT !.reserved = TRUE, !.reservation_id = n, !.used = u]}
      BY DEF set_reserved
    <3> HIDE DEF n, u
    <3>3. [c EXCEPT !.reserved = TRUE, !.reservation_id = n, !.used = u] \in EvseManagerType
      BY <3>1 DEF EvseManagerType
    <3> QED
      BY <3>2, <3>3
  <2> QED
    BY <2>1 DEF reserve_global
<1>4. use_reservation(c, id) \in EvseManagerType
  <2>1. [c EXCEPT !.reserved = TRUE, !.reservation_id = id, !.used = TRUE] \in EvseManagerType
    BY DEF EvseManagerType
  <2> QED
    BY <2>1 DEF use_reservation
<1> QED
  BY <1>2, <1>3, <1>4

\* What the EvseManager does with a command of Auth, and after an event.
LEMMA CommandType ==
    ASSUME NEW c \in EvseManagerType
    PROVE  /\ \A d \in EvseManagerType : Published(c, d) \in EvseManagerType
           /\ \A id \in Ids \cup {None}, pnc \in BOOLEAN : authorize_response(c, id, pnc) \in EvseManagerType
           /\ withdraw_authorization(c) \in EvseManagerType
<1>1. \A d \in EvseManagerType : EndReservation(d, TRUE) \in EvseManagerType /\ EndReservation(d, FALSE) \in EvseManagerType
  BY ReserveType
<1>2. \A d \in EvseManagerType : Published(c, d) \in EvseManagerType
  BY <1>1 DEF Published
<1>3. ASSUME NEW id \in Ids \cup {None}, NEW pnc \in BOOLEAN
      PROVE  authorize_response(c, id, pnc) \in EvseManagerType
  <2> DEFINE u == IF id = None THEN c ELSE use_reservation(c, id)
  <2>2. u \in EvseManagerType
    BY ReserveType
  <2> QED
    BY <2>2, <1>1, AuthorizeType DEF authorize_response
<1>4. withdraw_authorization(c) \in EvseManagerType
  BY <1>1, AuthorizeType DEF withdraw_authorization
<1> QED
  BY <1>2, <1>3, <1>4

-----------------------------------------------------------------------------
(* The reservations that are held.                                         *)

\* HeldOnce for a book.
Once(b) ==
    /\ b.timer = HeldIds(b)
    /\ \A e, f \in Taken(b) : b.evse[e].id = b.evse[f].id => e = f
    /\ \A i, j \in DOMAIN b.global : b.global[i].id = b.global[j].id => i = j
    /\ \A e \in Taken(b), i \in DOMAIN b.global : b.evse[e].id # b.global[i].id

\* HeldIsStored for a book.
Stored(b) ==
    /\ \A e \in Taken(b) : b.store.evse[e] = b.evse[e]
    /\ \A i \in DOMAIN b.global : \E j \in DOMAIN b.store.global : b.store.global[j] = b.global[i]

BookOK(b) == b \in BookType /\ Once(b) /\ Stored(b)

\* The store has what is held, and nothing else.
Exact(b) == b.store = [evse |-> b.evse, global |-> b.global]

\* Either nothing that is held has changed, or the store has been written.
Saved(b, c) == (c.evse = b.evse /\ c.global = b.global) \/ Exact(c)

\* What is held, in words of the two collections.
LEMMA HeldId ==
    ASSUME NEW b, NEW id
    PROVE  id \in HeldIds(b) <=> \/ \E e \in Taken(b) : b.evse[e].id = id
                                 \/ \E i \in DOMAIN b.global : b.global[i].id = id
  BY DEF HeldIds

\* What is written is stored.
LEMMA StoreExact ==
    ASSUME NEW b \in BookType
    PROVE  /\ store_reservations(b) \in BookType
           /\ Exact(store_reservations(b)) /\ Stored(store_reservations(b))
           /\ store_reservations(b).evse = b.evse /\ store_reservations(b).global = b.global
           /\ store_reservations(b).timer = b.timer /\ store_reservations(b).armed = b.armed
<1>1. /\ store_reservations(b) \in BookType
      /\ store_reservations(b).store = [evse |-> b.evse, global |-> b.global]
      /\ store_reservations(b).evse = b.evse /\ store_reservations(b).global = b.global
      /\ store_reservations(b).timer = b.timer /\ store_reservations(b).armed = b.armed
  BY DEF store_reservations, BookType
<1> QED
  BY <1>1 DEF Exact, Stored, Taken

\* A sequence without the entry k.
Dropped(s, k) == [i \in 1..(Len(s) - 1) |-> IF i < k THEN s[i] ELSE s[i + 1]]

\* WithoutId removes at most one reservation: the position k, if there is one.
LEMMA WithoutOne ==
    ASSUME NEW global \in Seq(Reservation), NEW id, NEW k \in DOMAIN global, global[k].id = id,
           \A i, j \in DOMAIN global : global[i].id = global[j].id => i = j
    PROVE  WithoutId(global, id) = Dropped(global, k)
<1> DEFINE hits == {i \in DOMAIN global : global[i].id = id}
<1>1. hits = {k}
  OBVIOUS
<1>2. (CHOOSE i \in hits : \A j \in hits : i <= j) = k
  BY <1>1
<1>3. WithoutId(global, id) = Dropped(global, CHOOSE i \in hits : \A j \in hits : i <= j)
  BY <1>1 DEF WithoutId, Dropped
<1> QED
  BY <1>2, <1>3

\* What is left after one element is gone, element by element.
LEMMA DroppedFacts ==
    ASSUME NEW s \in Seq(Reservation), NEW k \in DOMAIN s
    PROVE  /\ Dropped(s, k) \in Seq(Reservation)
           /\ DOMAIN Dropped(s, k) = 1..(Len(s) - 1) /\ Len(Dropped(s, k)) = Len(s) - 1
           /\ \A i \in DOMAIN Dropped(s, k) : Dropped(s, k)[i] = IF i < k THEN s[i] ELSE s[i + 1]
           /\ \A i \in DOMAIN s \ {k} : \E j \in DOMAIN Dropped(s, k) : Dropped(s, k)[j] = s[i]
<1>1. Len(s) - 1 \in Nat /\ DOMAIN s = 1..Len(s) /\ \A i \in 1..Len(s) : s[i] \in Reservation
  OBVIOUS
<1>2. \A i \in 1..(Len(s) - 1) : (IF i < k THEN s[i] ELSE s[i + 1]) \in Reservation
  BY <1>1
<1>3. Dropped(s, k) \in [1..(Len(s) - 1) -> Reservation]
  BY <1>2 DEF Dropped
<1>4. Dropped(s, k) \in Seq(Reservation)
  BY <1>1, <1>3
<1>5. /\ DOMAIN Dropped(s, k) = 1..(Len(s) - 1) /\ Len(Dropped(s, k)) = Len(s) - 1
      /\ \A i \in DOMAIN Dropped(s, k) : Dropped(s, k)[i] = IF i < k THEN s[i] ELSE s[i + 1]
  BY <1>1, <1>3, <1>4 DEF Dropped
<1>6. ASSUME NEW i \in DOMAIN s \ {k}
      PROVE  \E j \in DOMAIN Dropped(s, k) : Dropped(s, k)[j] = s[i]
  <2>1. CASE i < k
    <3>1. i \in DOMAIN Dropped(s, k) /\ Dropped(s, k)[i] = s[i]
      BY <2>1, <1>1, <1>5
    <3> QED
      BY <3>1
  <2>2. CASE ~(i < k)
    <3>1. i - 1 \in DOMAIN Dropped(s, k) /\ Dropped(s, k)[i - 1] = s[i]
      BY <2>2, <1>1, <1>5
    <3> QED
      BY <3>1
  <2> QED
    BY <2>1, <2>2
<1> QED
  BY <1>4, <1>5, <1>6

\* What cancel_reservation leaves: a reservation of an EVSE goes, or a global
\* one goes, or there was none.
CancelEffect(b, c, id) ==
    /\ c.timer = b.timer \ {id}
    /\ c.armed \subseteq b.armed
    /\ \/ c = b /\ id \notin b.timer
       \/ \E e \in Taken(b) : /\ b.evse[e].id = id
                              /\ c.evse = [b.evse EXCEPT ![e] = None]
                              /\ c.global = b.global
       \/ \E k \in DOMAIN b.global : /\ b.global[k].id = id
                                     /\ c.evse = b.evse
                                     /\ c.global = Dropped(b.global, k)

\* cancel_reservation has that effect, and writes the store if it found the reservation.
LEMMA CancelIs ==
    ASSUME NEW b, BookOK(b), NEW id \in Ids
    PROVE  /\ CancelEffect(b, cancel_reservation(b, id), id)
           /\ cancel_reservation(b, id) \in BookType
           /\ id \in b.timer => Exact(cancel_reservation(b, id)) /\ Stored(cancel_reservation(b, id))
<1> DEFINE at == {e \in Evses : is_evse_reserved(b, e, id)}
           evse == [e \in Evses |-> IF e \in at THEN None ELSE b.evse[e]]
           global == IF at = {} THEN WithoutId(b.global, id) ELSE b.global
           d == [b EXCEPT !.evse = evse, !.global = global, !.timer = @ \ {id}, !.armed = @ \ {id}]
<1>0. /\ b \in BookType /\ Once(b) /\ b.evse \in Maps /\ b.global \in Seq(Reservation)
      /\ b.timer \in SUBSET Ids
  BY DEF BookOK, BookType
<1>1. CASE id \notin b.timer
  BY <1>0, <1>1 DEF cancel_reservation, CancelEffect, BookType
<1>2. CASE id \in b.timer
  <2>1. cancel_reservation(b, id) = store_reservations(d)
    BY <1>2 DEF cancel_reservation
  <2>2. at = {e \in Taken(b) : b.evse[e].id = id}
    BY DEF is_evse_reserved, Taken
  <2>3. id \in HeldIds(b)
    BY <1>0, <1>2 DEF Once
  <2>4. CASE at # {}
    <3>1. PICK e \in Taken(b) : b.evse[e].id = id
      BY <2>2, <2>4
    <3>2. at = {e}
      BY <1>0, <2>2, <3>1 DEF Once
    <3>3. evse = [b.evse EXCEPT ![e] = None] /\ evse \in Maps /\ global = b.global
      BY <1>0, <3>2 DEF Maps, Taken
    <3> HIDE DEF evse, global
    <3>4. d \in BookType /\ d.evse = evse /\ d.global = b.global /\ d.timer = b.timer \ {id}
          /\ d.armed = b.armed \ {id}
      BY <1>0, <3>3 DEF BookType
    <3> HIDE DEF d
    <3> DEFINE s == store_reservations(d)
    <3>5. /\ s \in BookType /\ Exact(s) /\ Stored(s)
          /\ s.evse = [b.evse EXCEPT ![e] = None] /\ s.global = b.global
          /\ s.timer = b.timer \ {id} /\ s.armed \subseteq b.armed
      BY <3>3, <3>4, StoreExact
    <3> HIDE DEF s
    <3>6. CancelEffect(b, s, id)
      BY <3>1, <3>5 DEF CancelEffect
    <3> QED
      BY <2>1, <3>5, <3>6 DEF s
  <2>5. CASE at = {}
    <3>1. PICK k \in DOMAIN b.global : b.global[k].id = id
      BY <2>2, <2>3, <2>5, HeldId
    <3>2. global = Dropped(b.global, k)
      <4>1. \A i, j \in DOMAIN b.global : b.global[i].id = b.global[j].id => i = j
        BY <1>0 DEF Once
      <4>2. WithoutId(b.global, id) = Dropped(b.global, k)
        BY <1>0, <3>1, <4>1, WithoutOne
      <4> QED
        BY <2>5, <4>2
    <3>3. global \in Seq(Reservation)
      BY <1>0, <3>1, <3>2, DroppedFacts
    <3>4. evse = b.evse
      BY <1>0, <2>5 DEF Maps
    <3> HIDE DEF evse, global
    <3>5. d \in BookType /\ d.evse = b.evse /\ d.global = global /\ d.timer = b.timer \ {id}
          /\ d.armed = b.armed \ {id}
      BY <1>0, <3>3, <3>4 DEF BookType
    <3> HIDE DEF d
    <3> QED
      BY <2>1, <3>1, <3>2, <3>5, StoreExact DEF CancelEffect
  <2> QED
    BY <2>4, <2>5
<1> QED
  BY <1>1, <1>2

\* cancel_reservation keeps the ids distinct and the store up to date.
LEMMA CancelOK ==
    ASSUME NEW b, BookOK(b), NEW id \in Ids
    PROVE  /\ BookOK(cancel_reservation(b, id)) /\ Saved(b, cancel_reservation(b, id))
           /\ id \notin HeldIds(cancel_reservation(b, id))
<1> DEFINE c == cancel_reservation(b, id)
<1>0. b \in BookType /\ Once(b) /\ b.global \in Seq(Reservation) /\ b.evse \in Maps
  BY DEF BookOK, BookType
<1>1. CancelEffect(b, c, id) /\ c \in BookType
  BY CancelIs
<1>2. id \in b.timer => Exact(c) /\ Stored(c)
  BY CancelIs
<1> HIDE DEF c
<1>3. ASSUME c = b PROVE BookOK(c) /\ Saved(b, c)
  BY <1>3 DEF Saved
<1>4. ASSUME NEW e \in Taken(b), b.evse[e].id = id, c.evse = [b.evse EXCEPT ![e] = None],
             c.global = b.global
      PROVE  Once(c) /\ id \in b.timer
  <2>1. id \in HeldIds(b) /\ id \in b.timer
    BY <1>0, <1>4, HeldId DEF Once
  <2>2. Taken(c) = Taken(b) \ {e} /\ \A f \in Taken(c) : c.evse[f] = b.evse[f]
    BY <1>0, <1>4 DEF Taken, Maps
  <2>3. \A x : x \in HeldIds(c) <=> x \in HeldIds(b) /\ x # id
    <3> TAKE x
    <3>1. ASSUME x \in HeldIds(c) PROVE x \in HeldIds(b) /\ x # id
      <4>1. \/ \E f \in Taken(c) : c.evse[f].id = x
            \/ \E i \in DOMAIN c.global : c.global[i].id = x
        BY <3>1, HeldId
      <4>2. CASE \E f \in Taken(c) : c.evse[f].id = x
        BY <1>0, <1>4, <2>2, <4>2, HeldId DEF Once
      <4>3. CASE \E i \in DOMAIN c.global : c.global[i].id = x
        BY <1>0, <1>4, <4>3, HeldId DEF Once
      <4> QED
        BY <4>1, <4>2, <4>3
    <3>2. ASSUME x \in HeldIds(b), x # id PROVE x \in HeldIds(c)
      <4>1. \/ \E f \in Taken(b) : b.evse[f].id = x
            \/ \E i \in DOMAIN b.global : b.global[i].id = x
        BY <3>2, HeldId
      <4>2. \/ \E f \in Taken(c) : c.evse[f].id = x
            \/ \E i \in DOMAIN c.global : c.global[i].id = x
        BY <1>4, <2>2, <3>2, <4>1
      <4> QED
        BY <4>2, HeldId
    <3> QED
      BY <3>1, <3>2
  <2>4. c.timer = HeldIds(c)
    BY <1>0, <1>1, <2>3 DEF Once, CancelEffect
  <2> QED
    BY <1>0, <1>4, <2>1, <2>2, <2>4 DEF Once
<1>5. ASSUME NEW k \in DOMAIN b.global, b.global[k].id = id, c.evse = b.evse,
             c.global = Dropped(b.global, k)
      PROVE  Once(c) /\ id \in b.timer
  <2>1. id \in HeldIds(b) /\ id \in b.timer
    BY <1>0, <1>5, HeldId DEF Once
  <2>2. Taken(c) = Taken(b)
    BY <1>5 DEF Taken
  <2>3. /\ DOMAIN c.global = 1..(Len(b.global) - 1)
        /\ \A i \in DOMAIN c.global : c.global[i] = IF i < k THEN b.global[i] ELSE b.global[i + 1]
        /\ \A i \in DOMAIN b.global \ {k} : \E j \in DOMAIN c.global : c.global[j] = b.global[i]
    BY <1>0, <1>5, DroppedFacts
  <2>4. \A i \in DOMAIN c.global : \E j \in DOMAIN b.global \ {k} : c.global[i] = b.global[j]
    <3> SUFFICES ASSUME NEW i \in DOMAIN c.global
                 PROVE  \E j \in DOMAIN b.global \ {k} : c.global[i] = b.global[j]
      OBVIOUS
    <3>1. i \in DOMAIN b.global /\ i + 1 \in DOMAIN b.global
      BY <1>0, <2>3
    <3>2. i \in Int /\ k \in Int
      BY <1>0, <2>3
    <3>3. CASE i < k
      <4>1. c.global[i] = b.global[i] /\ i # k
        BY <2>3, <3>2, <3>3
      <4> QED
        BY <3>1, <4>1
    <3>4. CASE ~(i < k)
      <4>1. c.global[i] = b.global[i + 1] /\ i + 1 # k
        BY <2>3, <3>2, <3>4
      <4> QED
        BY <3>1, <4>1
    <3> QED
      BY <3>3, <3>4
  <2>5. \A i, j \in DOMAIN c.global : c.global[i].id = c.global[j].id => i = j
    <3> SUFFICES ASSUME NEW i \in DOMAIN c.global, NEW j \in DOMAIN c.global, c.global[i].id = c.global[j].id
                 PROVE  i = j
      OBVIOUS
    <3> DEFINE up(x) == IF x < k THEN x ELSE x + 1
    <3>1. up(i) \in DOMAIN b.global /\ up(j) \in DOMAIN b.global
      BY <1>0, <2>3
    <3>2. c.global[i] = b.global[up(i)] /\ c.global[j] = b.global[up(j)]
      BY <2>3
    <3>3. up(i) = up(j)
      BY <1>0, <3>1, <3>2 DEF Once
    <3> QED
      BY <1>0, <2>3, <3>3
  <2>6. \A x : x \in HeldIds(c) <=> x \in HeldIds(b) /\ x # id
    <3> TAKE x
    <3>1. ASSUME x \in HeldIds(c) PROVE x \in HeldIds(b) /\ x # id
      BY <1>0, <1>5, <2>2, <2>4, <3>1, HeldId DEF Once
    <3>2. ASSUME x \in HeldIds(b), x # id PROVE x \in HeldIds(c)
      <4>1. \/ \E e \in Taken(b) : b.evse[e].id = x
            \/ \E i \in DOMAIN b.global : b.global[i].id = x
        BY <3>2, HeldId
      <4>2. CASE \E e \in Taken(b) : b.evse[e].id = x
        BY <1>5, <2>2, <4>2, HeldId
      <4>3. CASE \E i \in DOMAIN b.global : b.global[i].id = x
        <5>1. PICK i \in DOMAIN b.global \ {k} : b.global[i].id = x
          BY <1>5, <3>2, <4>3
        <5>2. PICK j \in DOMAIN c.global : c.global[j] = b.global[i]
          BY <2>3
        <5> QED
          BY <5>1, <5>2, HeldId
      <4> QED
        BY <4>1, <4>2, <4>3
    <3> QED
      BY <3>1, <3>2
  <2>7. c.timer = HeldIds(c)
    BY <1>0, <1>1, <2>6 DEF Once, CancelEffect
  <2>8. \A e \in Taken(c), i \in DOMAIN c.global : c.evse[e].id # c.global[i].id
    BY <1>0, <1>5, <2>2, <2>4 DEF Once
  <2> QED
    BY <1>0, <1>5, <2>1, <2>2, <2>5, <2>7, <2>8 DEF Once
<1>6. BookOK(c) /\ Saved(b, c)
  BY <1>1, <1>2, <1>3, <1>4, <1>5 DEF CancelEffect, BookOK, Saved
<1>7. id \notin HeldIds(c)
  BY <1>1, <1>6 DEF BookOK, Once, CancelEffect
<1> QED
  BY <1>6, <1>7 DEF c

\* What make_reservation adds to the book c.
Added(c, r) == IF r.evse = None THEN [c EXCEPT !.global = Append(@, r)] ELSE [c EXCEPT !.evse[r.evse] = r]

\* A reservation whose id is not held is added and stored.  One for an EVSE
\* is only added where the EVSE has none: Acceptable asks for it.
LEMMA AddOK ==
    ASSUME NEW c, BookOK(c), NEW r \in Reservation, r.id \notin HeldIds(c),
           r.evse # None => c.evse[r.evse] = None
    PROVE  LET d == store_reservations([Added(c, r) EXCEPT !.timer = @ \cup {r.id}, !.armed = @ \cup {r.id}])
           IN  /\ BookOK(d) /\ Exact(d)
               /\ d.evse = Added(c, r).evse /\ d.global = Added(c, r).global
<1> DEFINE a == Added(c, r)
           t == [a EXCEPT !.timer = @ \cup {r.id}, !.armed = @ \cup {r.id}]
           d == store_reservations(t)
<1>0. /\ c \in BookType /\ Once(c) /\ c.global \in Seq(Reservation) /\ c.evse \in Maps
      /\ c.timer \in SUBSET Ids /\ c.armed \in SUBSET Ids
      /\ r.id \in Ids /\ r.evse \in Evses \cup {None}
  BY DEF BookOK, BookType, Reservation
<1>1. a \in BookType /\ a.timer = c.timer /\ a.armed = c.armed
  <2>1. Append(c.global, r) \in Seq(Reservation)
    BY <1>0
  <2>2. r.evse # None => [c.evse EXCEPT ![r.evse] = r] \in Maps
    BY <1>0 DEF Maps
  <2> QED
    BY <1>0, <2>1, <2>2 DEF Added, BookType
<1>2. /\ t \in BookType /\ t.evse = a.evse /\ t.global = a.global
      /\ t.timer = c.timer \cup {r.id}
  BY <1>0, <1>1 DEF BookType
<1>3. /\ d \in BookType /\ Exact(d) /\ Stored(d) /\ d.evse = a.evse /\ d.global = a.global
      /\ d.timer = c.timer \cup {r.id}
  BY <1>2, StoreExact
<1> HIDE DEF d
<1>4. CASE r.evse = None
  <2>1. d.evse = c.evse /\ d.global = Append(c.global, r)
    BY <1>0, <1>3, <1>4 DEF Added, BookType
  <2>2. /\ DOMAIN d.global = 1..(Len(c.global) + 1) /\ DOMAIN c.global = 1..Len(c.global)
        /\ d.global[Len(c.global) + 1] = r /\ \A i \in DOMAIN c.global : d.global[i] = c.global[i]
    BY <1>0, <2>1
  <2>3. Taken(d) = Taken(c)
    BY <2>1 DEF Taken
  <2>4. \A x : x \in HeldIds(d) <=> x \in HeldIds(c) \/ x = r.id
    <3> TAKE x
    <3>1. ASSUME x \in HeldIds(d) PROVE x \in HeldIds(c) \/ x = r.id
      <4>1. \/ \E f \in Taken(d) : d.evse[f].id = x
            \/ \E i \in DOMAIN d.global : d.global[i].id = x
        BY <3>1, HeldId
      <4>2. \/ \E f \in Taken(c) : c.evse[f].id = x
            \/ \E i \in DOMAIN c.global : c.global[i].id = x
            \/ x = r.id
        BY <1>0, <4>1, <2>1, <2>2, <2>3
      <4> QED
        BY <4>2, HeldId
    <3>2. ASSUME x \in HeldIds(c) PROVE x \in HeldIds(d)
      <4>1. \/ \E f \in Taken(c) : c.evse[f].id = x
            \/ \E i \in DOMAIN c.global : c.global[i].id = x
        BY <3>2, HeldId
      <4>2. \/ \E f \in Taken(d) : d.evse[f].id = x
            \/ \E i \in DOMAIN d.global : d.global[i].id = x
        BY <1>0, <4>1, <2>1, <2>2, <2>3
      <4> QED
        BY <4>2, HeldId
    <3>3. r.id \in HeldIds(d)
      <4>1. Len(c.global) + 1 \in DOMAIN d.global /\ d.global[Len(c.global) + 1].id = r.id
        BY <1>0, <2>2
      <4> QED
        BY <4>1, HeldId
    <3> QED
      BY <3>1, <3>2, <3>3
  <2>5. d.timer = HeldIds(d)
    BY <1>0, <1>3, <2>4 DEF Once
  <2>6. /\ \A f \in Taken(c) : c.evse[f].id # r.id
        /\ \A i \in DOMAIN c.global : c.global[i].id # r.id
    BY HeldId
  <2>7. \A i, j \in DOMAIN d.global : d.global[i].id = d.global[j].id => i = j
    <3> SUFFICES ASSUME NEW i \in DOMAIN d.global, NEW j \in DOMAIN d.global, d.global[i].id = d.global[j].id
                 PROVE  i = j
      OBVIOUS
    <3>1. CASE i \in DOMAIN c.global /\ j \in DOMAIN c.global
      BY <1>0, <2>2, <3>1 DEF Once
    <3>2. CASE i \notin DOMAIN c.global \/ j \notin DOMAIN c.global
      BY <1>0, <2>2, <2>6, <3>2
    <3> QED
      BY <3>1, <3>2
  <2>8. \A e \in Taken(d), i \in DOMAIN d.global : d.evse[e].id # d.global[i].id
    BY <1>0, <2>1, <2>2, <2>3, <2>6 DEF Once
  <2> QED
    BY <1>0, <1>3, <2>1, <2>3, <2>5, <2>7, <2>8 DEF Once, BookOK, d
<1>5. CASE r.evse # None
  <2>1. d.evse = [c.evse EXCEPT ![r.evse] = r] /\ d.global = c.global
    BY <1>0, <1>3, <1>5 DEF Added, BookType
  <2>2. r # None /\ r.evse \in Evses
    BY <1>0, <1>5
  <2>3. /\ Taken(d) = Taken(c) \cup {r.evse} /\ r.evse \notin Taken(c)
        /\ d.evse[r.evse] = r /\ \A f \in Taken(c) : d.evse[f] = c.evse[f]
    BY <1>0, <1>5, <2>1, <2>2 DEF Taken, Maps
  <2>4. \A x : x \in HeldIds(d) <=> x \in HeldIds(c) \/ x = r.id
    <3> TAKE x
    <3>1. ASSUME x \in HeldIds(d) PROVE x \in HeldIds(c) \/ x = r.id
      <4>1. \/ \E f \in Taken(d) : d.evse[f].id = x
            \/ \E i \in DOMAIN d.global : d.global[i].id = x
        BY <3>1, HeldId
      <4>2. \/ \E f \in Taken(c) : c.evse[f].id = x
            \/ \E i \in DOMAIN c.global : c.global[i].id = x
            \/ x = r.id
        BY <4>1, <2>1, <2>3
      <4> QED
        BY <4>2, HeldId
    <3>2. ASSUME x \in HeldIds(c) PROVE x \in HeldIds(d)
      <4>1. \/ \E f \in Taken(c) : c.evse[f].id = x
            \/ \E i \in DOMAIN c.global : c.global[i].id = x
        BY <3>2, HeldId
      <4>2. \/ \E f \in Taken(d) : d.evse[f].id = x
            \/ \E i \in DOMAIN d.global : d.global[i].id = x
        BY <4>1, <2>1, <2>3
      <4> QED
        BY <4>2, HeldId
    <3>3. r.id \in HeldIds(d)
      BY <2>3, HeldId
    <3> QED
      BY <3>1, <3>2, <3>3
  <2>5. d.timer = HeldIds(d)
    BY <1>0, <1>3, <2>4 DEF Once
  <2>6. /\ \A f \in Taken(c) : c.evse[f].id # r.id
        /\ \A i \in DOMAIN c.global : c.global[i].id # r.id
    BY HeldId
  <2>7. \A e, f \in Taken(d) : d.evse[e].id = d.evse[f].id => e = f
    BY <1>0, <2>3, <2>6 DEF Once
  <2>8. \A e \in Taken(d), i \in DOMAIN d.global : d.evse[e].id # d.global[i].id
    BY <1>0, <2>1, <2>3, <2>6 DEF Once
  <2> QED
    BY <1>0, <1>3, <2>1, <2>5, <2>7, <2>8 DEF Once, BookOK, d
<1> QED
  BY <1>4, <1>5

\* make_reservation: whether the request is accepted, refused or too late, and
\* whether it replaces a reservation or not.
LEMMA MakeOK ==
    ASSUME NEW b, BookOK(b), NEW v, NEW r \in Reservation, NEW late \in BOOLEAN
    PROVE  LET made == make_reservation(b, v, r, late)
           IN  made.ok \in BOOLEAN /\ BookOK(made.book) /\ Saved(b, made.book)
<1> DEFINE c == cancel_reservation(b, r.id)
           ok == ~late /\ Acceptable(c, v, r)
           d == store_reservations([Added(c, r) EXCEPT !.timer = @ \cup {r.id}, !.armed = @ \cup {r.id}])
<1>1. r.id \in Ids /\ r.evse \in Evses \cup {None}
  BY DEF Reservation
<1>2. BookOK(c) /\ Saved(b, c) /\ r.id \notin HeldIds(c)
  BY <1>1, CancelOK
<1>3. make_reservation(b, v, r, late) = [ok |-> ok, book |-> IF ok THEN d ELSE IF late THEN b ELSE c]
  BY DEF make_reservation, Added
<1>4. BookOK(b) /\ Saved(b, b)
  BY DEF Saved
<1> HIDE DEF c
<1>5. ASSUME ok PROVE BookOK(d) /\ Saved(b, d)
  <2>1. r.evse # None => c.evse[r.evse] = None
    BY <1>1, <1>5 DEF Acceptable, CanArriveAt, get_evse_connector_state_reservation_result, Taken
  <2> QED
    BY <1>2, <2>1, AddOK DEF Saved
<1>6. ok \in BOOLEAN
  BY DEF Acceptable, is_reservation_possible, CanArriveAt
<1> HIDE DEF ok, d
<1> QED
  BY <1>2, <1>3, <1>4, <1>5, <1>6

-----------------------------------------------------------------------------
(* What Auth does with a mutex held.                                       *)

WorldType == [book: BookType, em: [Evses -> EvseManagerType], last: SUBSET Evses]

\* Telling the EvseManagers.
LEMMA SendType ==
    ASSUME NEW m \in [Evses -> EvseManagerType], NEW u
    PROVE  SendUpdates(m, u) \in [Evses -> EvseManagerType]
<1>1. \A e \in Evses : /\ EndReservation(m[e], TRUE) \in EvseManagerType
                       /\ reserve_global(m[e]) \in EvseManagerType
  BY ReserveType
<1> QED
  BY <1>1 DEF SendUpdates

\* The EVSEs to tell and the new status are EVSEs.
LEMMA StatusType ==
    ASSUME NEW b, NEW v, NEW last
    PROVE  LET u == check_number_global_reservations_match_number_available_evses(b, v, last)
           IN  u.available \in SUBSET Evses /\ u.reserved \in SUBSET Evses /\ u.status \in SUBSET Evses
<1> DEFINE available == {e \in Evses : CanArriveAt(v, e, "Unknown", Taken(b))}
           scarce == {i \in DOMAIN b.global :
                     ~is_reservation_possible(v, AndAlso(TypesOf(b.global), b.global[i].type), Taken(b))}
           needed == IF Cardinality(available) = Len(b.global) THEN available
                  ELSE {e \in available : \E i \in scarce : has_evse_connector_type(e, TypeOf(b.global[i]))}
<1>1. available \in SUBSET Evses
  OBVIOUS
<1>2. needed \in SUBSET Evses
  <2> HIDE DEF available, scarce
  <2> QED
    BY <1>1
<1>3. check_number_global_reservations_match_number_available_evses(b, v, last)
        = [available |-> (available \ needed) \cap last, reserved |-> needed \ last, status |-> needed]
  BY Zenon DEF check_number_global_reservations_match_number_available_evses
<1> HIDE DEF available, needed
<1> DEFINE u == check_number_global_reservations_match_number_available_evses(b, v, last)
<1>4. /\ u.available = (available \ needed) \cap last /\ u.reserved = needed \ last
      /\ u.status = needed
  BY <1>3
<1> HIDE DEF u
<1>5. u.available \in SUBSET Evses /\ u.reserved \in SUBSET Evses /\ u.status \in SUBSET Evses
  BY <1>1, <1>2, <1>4
<1> QED
  BY <1>5 DEF u

\* The EvseManagers learn what has changed; the reservations do not change.
LEMMA TellOK ==
    ASSUME NEW w \in WorldType, NEW v, NEW at
    PROVE  /\ check_evse_reserved_and_send_updates(w, v) \in WorldType
           /\ check_evse_reserved_and_send_updates(w, v).book = w.book
           /\ call_reservation_cancelled(w, v, at) \in WorldType
           /\ call_reservation_cancelled(w, v, at).book = w.book
<1>1. ASSUME NEW x \in WorldType
      PROVE  /\ check_evse_reserved_and_send_updates(x, v) \in WorldType
             /\ check_evse_reserved_and_send_updates(x, v).book = x.book
  <2> DEFINE u == check_number_global_reservations_match_number_available_evses(x.book, v, x.last)
  <2>1. u.status \in SUBSET Evses
    BY StatusType
  <2>2. SendUpdates(x.em, u) \in [Evses -> EvseManagerType]
    BY SendType DEF WorldType
  <2>3. check_evse_reserved_and_send_updates(x, v) = [x EXCEPT !.em = SendUpdates(x.em, u), !.last = u.status]
    BY DEF check_evse_reserved_and_send_updates, WorldType
  <2> HIDE DEF u
  <2> QED
    BY <2>1, <2>2, <2>3 DEF WorldType
<1> DEFINE m == [e \in Evses |-> IF e \in at THEN EndReservation(w.em[e], TRUE) ELSE w.em[e]]
<1>2. m \in [Evses -> EvseManagerType]
  BY ReserveType DEF WorldType
<1>3. call_reservation_cancelled(w, v, at) = check_evse_reserved_and_send_updates([w EXCEPT !.em = m], v)
  BY DEF call_reservation_cancelled, WorldType
<1> HIDE DEF m
<1>4. [w EXCEPT !.em = m] \in WorldType /\ [w EXCEPT !.em = m].book = w.book
  BY <1>2 DEF WorldType
<1> QED
  BY <1>1, <1>3, <1>4

\* cancel_reservation with its callback does to the reservations what it does
\* without it.
LEMMA CancelAndTellOK ==
    ASSUME NEW w \in WorldType, BookOK(w.book), NEW v, NEW id \in Ids
    PROVE  /\ CancelAndTell(w, v, id) \in WorldType
           /\ CancelAndTell(w, v, id).book = cancel_reservation(w.book, id)
<1>1. CASE id \notin w.book.timer
  BY <1>1 DEF CancelAndTell, cancel_reservation
<1>2. CASE id \in w.book.timer
  <2> DEFINE b == cancel_reservation(w.book, id)
             x == [w EXCEPT !.book = b]
             at == {e \in Evses : is_evse_reserved(w.book, e, id)}
  <2>1. BookOK(b) /\ b \in BookType
    BY CancelOK DEF BookOK
  <2>2. CancelAndTell(w, v, id) = call_reservation_cancelled(x, v, at)
    BY <1>2 DEF CancelAndTell, WorldType
  <2> HIDE DEF b, at
  <2>3. x \in WorldType /\ x.book = b
    BY <2>1 DEF WorldType
  <2> HIDE DEF x
  <2>4. CancelAndTell(w, v, id) \in WorldType /\ CancelAndTell(w, v, id).book = b
    BY <2>2, <2>3, TellOK
  <2> QED
    BY <2>4 DEF b
<1> QED
  BY <1>1, <1>2

\* Changes that are saved add up.
LEMMA CancelSaved ==
    ASSUME NEW b, NEW c, BookOK(c), Saved(b, c), NEW id \in Ids
    PROVE  Saved(b, cancel_reservation(c, id))
<1>1. CASE id \notin c.timer
  BY <1>1 DEF cancel_reservation
<1>2. CASE id \in c.timer
  BY <1>2, CancelIs DEF Saved
<1> QED
  BY <1>1, <1>2

\* cancel_reservation with its callback, as one step of several.
LEMMA CancelStep ==
    ASSUME NEW w, NEW b, w \in WorldType, BookOK(w.book), Saved(b, w.book), NEW v, NEW id \in Ids
    PROVE  /\ CancelAndTell(w, v, id) \in WorldType
           /\ BookOK(CancelAndTell(w, v, id).book) /\ Saved(b, CancelAndTell(w, v, id).book)
<1>1. /\ CancelAndTell(w, v, id) \in WorldType
      /\ CancelAndTell(w, v, id).book = cancel_reservation(w.book, id)
  BY CancelAndTellOK
<1>2. BookOK(cancel_reservation(w.book, id))
  BY CancelOK
<1>3. Saved(b, cancel_reservation(w.book, id))
  BY CancelSaved
<1> QED
  BY <1>1, <1>2, <1>3

\* A reservation in a sequence has an id.
LEMMA HasId ==
    ASSUME NEW global \in Seq(Reservation), NEW i \in 1..Len(global)
    PROVE  global[i] \in Reservation /\ global[i].id \in Ids
<1>1. global[i] \in Reservation
  OBVIOUS
<1> QED
  BY <1>1 DEF Reservation

\* The equation that the loop of check_reservations_and_cancel_if_not_possible
\* satisfies.
Loop(after, w, v, kept) ==
    after = [i \in 0..Len(w.book.global) |->
               IF i = 0 THEN w
               ELSE IF kept[i] # kept[i - 1] THEN after[i - 1]
               ELSE CancelAndTell(after[i - 1], v, w.book.global[i].id)]

\* If a loop has that equation, the one the definition chooses has it.
LEMMA LoopChosen ==
    ASSUME NEW w, NEW v, NEW f, Loop(f, w, v, Kept(w.book.global, v, Taken(w.book)))
    PROVE  \E g : /\ Loop(g, w, v, Kept(w.book.global, v, Taken(w.book)))
                  /\ check_reservations_and_cancel_if_not_possible(w, v) = g[Len(w.book.global)]
<1> DEFINE kept == Kept(w.book.global, v, Taken(w.book))
           h == CHOOSE g : Loop(g, w, v, kept)
<1>1. Loop(h, w, v, kept)
  BY Zenon
<1>2. check_reservations_and_cancel_if_not_possible(w, v) = h[Len(w.book.global)]
  BY Zenon DEF check_reservations_and_cancel_if_not_possible, Loop
<1> QED
  BY <1>1, <1>2

\* The loop exists: it starts with w and takes one step for every global
\* reservation.
LEMMA LoopExists ==
    ASSUME NEW w \in WorldType, BookOK(w.book), NEW v
    PROVE  LET kept == Kept(w.book.global, v, Taken(w.book))
               n == Len(w.book.global)
           IN  \E g : /\ g[0] = w
                      /\ \A i \in 1..n : g[i] = IF kept[i] # kept[i - 1] THEN g[i - 1]
                                                ELSE CancelAndTell(g[i - 1], v, w.book.global[i].id)
                      /\ check_reservations_and_cancel_if_not_possible(w, v) = g[n]
<1> DEFINE kept == Kept(w.book.global, v, Taken(w.book))
           n == Len(w.book.global)
           S == {x \in WorldType : BookOK(x.book)}
           step(x, i) == IF kept[i] # kept[i - 1] THEN x ELSE CancelAndTell(x, v, w.book.global[i].id)
           D == [i \in 1..n |-> [x \in S |-> step(x, i)]]
<1>0. w.book.global \in Seq(Reservation) /\ n \in Nat
  BY DEF BookOK, BookType
<1>1. \A i \in 1..n : w.book.global[i].id \in Ids
  BY <1>0, HasId
<1>2. \A i \in 1..n : \A x \in S : step(x, i) \in S
  <2> SUFFICES ASSUME NEW i \in 1..n, NEW x \in S PROVE step(x, i) \in S
    OBVIOUS
  <2>1. Saved(x.book, x.book) /\ x \in WorldType /\ BookOK(x.book)
    BY DEF Saved
  <2>2. CancelAndTell(x, v, w.book.global[i].id) \in S
    BY <1>1, <2>1, CancelStep
  <2> QED
    BY <2>2
<1>3. w \in S
  OBVIOUS
<1> HIDE DEF S, step, kept
<1>4. \A i \in 1..n : \A x \in S : D[i][x] = step(x, i)
  OBVIOUS
<1>5. PICK f : Iterates(f, n, S, D, w)
  BY <1>0, <1>2, <1>3, <1>4, CanIterate
<1>6. f = [i \in 0..n |-> IF i = 0 THEN w ELSE step(f[i - 1], i)]
  <2>1. f \in [0..n -> S] /\ f[0] = w /\ \A i \in 1..n : f[i] = D[i][f[i - 1]]
    BY <1>5 DEF Iterates
  <2>2. \A i \in 1..n : i - 1 \in 0..n
    BY <1>0
  <2>3. \A i \in 1..n : f[i] = step(f[i - 1], i)
    BY <2>1, <2>2, <1>4
  <2>4. \A i \in 0..n : f[i] = IF i = 0 THEN w ELSE step(f[i - 1], i)
    BY <1>0, <2>1, <2>3
  <2> QED
    BY <2>1, <2>4
<1>7. Loop(f, w, v, kept)
  BY <1>6 DEF Loop, step
<1>8. PICK g : Loop(g, w, v, kept) /\ check_reservations_and_cancel_if_not_possible(w, v) = g[n]
  BY <1>7, LoopChosen DEF kept
<1>9. g = [i \in 0..n |-> IF i = 0 THEN w ELSE step(g[i - 1], i)]
  BY <1>8 DEF Loop, step
<1>10. g[0] = w /\ \A i \in 1..n : g[i] = step(g[i - 1], i)
  BY <1>0, <1>9
<1> QED
  BY <1>8, <1>10 DEF step, kept

\* Whatever cannot be honoured any more is cancelled and stored.
LEMMA CheckOK ==
    ASSUME NEW w \in WorldType, BookOK(w.book), NEW v
    PROVE  LET x == check_reservations_and_cancel_if_not_possible(w, v)
           IN  x \in WorldType /\ BookOK(x.book) /\ Saved(w.book, x.book)
<1> DEFINE kept == Kept(w.book.global, v, Taken(w.book))
           n == Len(w.book.global)
<1>0. w.book.global \in Seq(Reservation) /\ n \in Nat
  BY DEF BookOK, BookType
<1>1. PICK g : /\ g[0] = w
               /\ \A i \in 1..n : g[i] = IF kept[i] # kept[i - 1] THEN g[i - 1]
                                         ELSE CancelAndTell(g[i - 1], v, w.book.global[i].id)
               /\ check_reservations_and_cancel_if_not_possible(w, v) = g[n]
  BY LoopExists
<1> HIDE DEF kept
<1> DEFINE P(x) == x \in WorldType /\ BookOK(x.book) /\ Saved(w.book, x.book)
           T == {i \in 0..n : ~P(g[i])}
<1>2. P(w)
  BY DEF Saved
<1>3. ASSUME NEW x, P(x), NEW i \in 1..n PROVE P(CancelAndTell(x, v, w.book.global[i].id))
  <2>1. w.book.global[i].id \in Ids
    BY <1>0, HasId
  <2> QED
    BY <1>3, <2>1, CancelStep
<1> HIDE DEF P
<1>4. T = {}
  <2>1. SUFFICES ASSUME T # {} PROVE FALSE
    BY <2>1
  <2>2. T \in SUBSET Nat
    OBVIOUS
  <2>3. PICK m \in T : \A k \in T : m <= k
    BY <2>1, <2>2, Least
  <2>4. m # 0
    BY <1>1, <1>2, <2>3
  <2>5. m \in 1..n /\ m - 1 \in 0..n /\ m - 1 \notin T
    BY <2>3, <2>4
  <2>6. P(g[m - 1])
    BY <2>5
  <2>7. P(g[m])
    BY <1>1, <1>3, <2>5, <2>6
  <2> QED
    BY <2>3, <2>7
<1>5. P(g[n])
  BY <1>0, <1>4
<1> QED
  BY <1>1, <1>5 DEF P

\* An event of a connector.
LEMMA ConnectorChangeOK ==
    ASSUME NEW w \in WorldType, BookOK(w.book), NEW v, NEW e \in Evses
    PROVE  LET x == on_connector_state_changed(w, v, e)
           IN  x \in WorldType /\ BookOK(x.book) /\ Saved(w.book, x.book)
<1>1. Saved(w.book, w.book)
  BY DEF Saved
<1>2. ASSUME w.book.evse[e] # None
      PROVE  LET x == CancelAndTell(w, v, w.book.evse[e].id)
             IN  x \in WorldType /\ BookOK(x.book) /\ Saved(w.book, x.book)
  <2>1. w.book.evse[e] \in Reservation
    BY <1>2 DEF BookOK, BookType, Maps
  <2>2. w.book.evse[e].id \in Ids
    BY <2>1 DEF Reservation
  <2> QED
    BY <1>1, <2>2, CancelStep
<1> QED
  BY <1>1, <1>2, CheckOK DEF on_connector_state_changed

-----------------------------------------------------------------------------
(* The inductive invariant.                                                *)

\* A thread that has a reservation in hand knows which, and an EvseManager is
\* called for one of its EVSE.
WithReservation == {"make", "drop", "reserve", "set", "undo", "confirm"}
HasReservation(c) ==
    /\ c.pc \in WithReservation \/ c.next \in WithReservation => c.r # None
    /\ c.pc = "set" \/ c.next = "set" => c.r.evse # None

CallersOK == \A t \in Callers : HasReservation(caller[t])

IInv == TypeOK /\ Once(book) /\ Stored(book) /\ CallersOK

\* What a step may do to the reservations: they stay in order, and a change is
\* stored unless Auth is still loading.
Effect ==
    /\ TypeOK' /\ Once(book)' /\ Stored(book)' /\ CallersOK'
    /\ loading'.done => Saved(book, book')

\* The reservations are in order.
LEMMA BookNow == ASSUME IInv PROVE BookOK(book)
  BY DEF IInv, TypeOK, BookOK

\* Changing the state of one thread.
LEMMA CallerOK ==
    ASSUME IInv, NEW t \in Callers, NEW c \in CallerType, HasReservation(c), SetCaller(t, c)
    PROVE  caller' \in [Callers -> CallerType] /\ CallersOK'
<1>1. caller \in [Callers -> CallerType] /\ CallersOK
  BY DEF IInv, TypeOK
<1>2. caller' = [caller EXCEPT ![t] = c]
  BY DEF SetCaller
<1>3. \A u \in Callers : caller'[u] = IF u = t THEN c ELSE caller[u]
  BY <1>1, <1>2
<1> QED
  BY <1>1, <1>2, <1>3 DEF CallersOK

\* The idle state of a thread, and what a thread may become.
LEMMA IdleType == IdleCaller \in CallerType /\ HasReservation(IdleCaller)
  BY DEF IdleCaller, CallerType, Steps, NoUpdates, HasReservation, WithReservation

\* A step that leaves the reservations alone.
LEMMA BookAlone ==
    ASSUME IInv, TypeOK', CallersOK', UNCHANGED book
    PROVE  Effect
<1>1. HeldIds(book)' = HeldIds(book) /\ Taken(book)' = Taken(book)
  BY DEF HeldIds, Taken
<1>2. Once(book)'
  BY <1>1 DEF IInv, Once
<1>3. Stored(book)'
  BY <1>1 DEF IInv, Stored
<1> QED
  BY <1>2, <1>3 DEF Effect, Saved

\* A step that keeps the reservations in order.
LEMMA BookStep ==
    ASSUME IInv, TypeOK', CallersOK', BookOK(book'), loading'.done => Saved(book, book')
    PROVE  Effect
<1>1. Once(book)' /\ Stored(book)'
  BY DEF BookOK, Once, Stored, HeldIds, Taken
<1> QED
  BY <1>1 DEF Effect

\* The operations with a mutex held yield a world of the right type.
LEMMA WorldNow == ASSUME IInv PROVE World \in WorldType /\ World.book = book
  BY DEF IInv, TypeOK, World, WorldType
\* A step to a world of the right type keeps the types.
LEMMA BecomeType ==
    ASSUME NEW w \in WorldType, Become(w)
    PROVE  /\ book' \in BookType /\ em' \in [Evses -> EvseManagerType]
           /\ last_reserved_status' \in SUBSET Evses /\ book' = w.book
  BY DEF Become, WorldType

\* The initial state.
LEMMA Initially == Init => IInv
<1> SUFFICES ASSUME Init PROVE IInv
  OBVIOUS
<1>1. NoReservations \in Maps /\ \A e \in Evses : NoReservations[e] = None
  BY DEF NoReservations, Maps
<1> HIDE DEF NoReservations
<1>2. book \in BookType /\ Taken(book) = {} /\ DOMAIN book.global = {} /\ book.timer = {}
  <2>1. /\ book.evse = NoReservations /\ book.global = <<>> /\ book.timer = {}
        /\ book = [evse |-> NoReservations, global |-> <<>>, timer |-> {}, armed |-> {},
                   store |-> [evse |-> NoReservations, global |-> <<>>]]
    BY DEF Init, EmptyBook, Empty
  <2>2. book \in BookType
    BY <1>1, <2>1 DEF BookType
  <2>3. \A e \in Evses : book.evse[e] = None
    BY <1>1, <2>1
  <2>4. Taken(book) = {}
    BY <2>3 DEF Taken
  <2>5. DOMAIN book.global = {}
    BY <2>1
  <2> QED
    BY <2>1, <2>2, <2>4, <2>5
<1>3. Once(book) /\ Stored(book)
  BY <1>2 DEF Once, Stored, HeldIds
<1>4. em \in [Evses -> EvseManagerType]
  BY DEF Init, FreshEvse, EvseManagerType, EvseState
<1>5. seen \in [Evses -> ViewType]
  BY DEF Init, FreshView, ViewType, ConnectorState
<1>6. caller \in [Callers -> CallerType] /\ CallersOK
  BY IdleType DEF Init, CallersOK
<1>7. loading \in [evse: Maps, global: Seq(Reservation), done: BOOLEAN, again: SUBSET Ids]
  BY <1>1 DEF Init
<1> QED
  BY <1>2, <1>3, <1>4, <1>5, <1>6, <1>7 DEF Init, IInv, TypeOK

-----------------------------------------------------------------------------
(* The steps of the threads that call the EvseManagers without a mutex.    *)

\* place_reservation: the caller now has a reservation to make.
LEMMA PlaceEffect ==
    ASSUME IInv, NEW r \in Requests, place_reservation(r)
    PROVE  Effect
<1> DEFINE c(e) == [IdleCaller EXCEPT !.pc = "make", !.r = r, !.replaced = e]
<1>1. r \in Reservation /\ r # None
  OBVIOUS
<1>2. PICK e \in Evses \cup {None} : SetCaller("place", c(e))
  BY DEF place_reservation
<1>3. c(e) \in CallerType /\ HasReservation(c(e))
  BY <1>1, IdleType DEF CallerType, HasReservation, IdleCaller, Steps
<1>4. caller' \in [Callers -> CallerType] /\ CallersOK'
  BY <1>2, <1>3, CallerOK DEF Callers
<1>5. budget' \in [Occasions -> Nat]
  BY DEF place_reservation, Spend, IInv, TypeOK, Occasions
<1>6. TypeOK'
  BY <1>4, <1>5 DEF place_reservation, IInv, TypeOK
<1> QED
  BY <1>4, <1>6, BookAlone DEF place_reservation

\* handle_reservation: the reservation the caller brings is made or refused.
LEMMA HandleReservationEffect ==
    ASSUME IInv, NEW late \in BOOLEAN, handle_reservation(late)
    PROVE  Effect
<1> DEFINE c == caller["place"]
           made == make_reservation(book, seen, c.r, late)
           d == [c EXCEPT !.pc = "drop", !.ok = made.ok]
<1>1. c \in CallerType /\ c.pc = "make" /\ HasReservation(c)
  BY DEF handle_reservation, IInv, TypeOK, CallersOK, Callers
<1>2. c.r \in Reservation
  BY <1>1 DEF CallerType, HasReservation, WithReservation
<1>3. made.ok \in BOOLEAN /\ BookOK(made.book) /\ Saved(book, made.book)
  BY <1>2, BookNow, MakeOK
<1>4. book' = made.book /\ SetCaller("place", d)
  BY DEF handle_reservation
<1> HIDE DEF made
<1>5. d \in CallerType /\ HasReservation(d)
  BY <1>1, <1>2, <1>3 DEF CallerType, HasReservation, Steps
<1>6. caller' \in [Callers -> CallerType] /\ CallersOK'
  BY <1>4, <1>5, CallerOK DEF Callers
<1>7. TypeOK'
  BY <1>3, <1>4, <1>6 DEF handle_reservation, IInv, TypeOK, BookOK
<1> QED
  BY <1>3, <1>4, <1>6, <1>7, BookStep

\* cancel_replaced_if_dropped: only the EvseManager and the caller change.
LEMMA DropEffect ==
    ASSUME IInv, NEW t \in Callers, cancel_replaced_if_dropped(t)
    PROVE  Effect
<1> DEFINE c == caller[t]
           next == IF c.ok THEN "reserve" ELSE "idle"
           d == [c EXCEPT !.pc = "check", !.next = next, !.replaced = None]
           f == IF c.ok THEN [c EXCEPT !.pc = next] ELSE IdleCaller
<1>1. c \in CallerType /\ c.pc = "drop" /\ HasReservation(c) /\ c.r \in Reservation
  BY DEF cancel_replaced_if_dropped, IInv, TypeOK, CallersOK, CallerType, HasReservation, WithReservation
<1>2. d \in CallerType /\ HasReservation(d) /\ f \in CallerType /\ HasReservation(f)
  <2>1. next \in Steps /\ c.r # None /\ {"check", "reserve", "idle"} \subseteq Steps
    BY <1>1 DEF Steps
  <2>2. d \in CallerType /\ d.r = c.r /\ d.pc = "check" /\ d.next = next
    BY <1>1, <2>1 DEF CallerType
  <2>3. LET g == [c EXCEPT !.pc = next]
        IN  g \in CallerType /\ g.r = c.r /\ g.pc = next /\ g.next = c.next
    BY <1>1, <2>1 DEF CallerType
  <2> QED
    BY <1>1, <2>1, <2>2, <2>3, IdleType DEF HasReservation
<1>3. SetCaller(t, d) \/ SetCaller(t, f)
  BY DEF cancel_replaced_if_dropped
<1>4. caller' \in [Callers -> CallerType] /\ CallersOK'
  BY <1>2, <1>3, CallerOK
<1>5. em' \in [Evses -> EvseManagerType]
  <2>1. em \in [Evses -> EvseManagerType] /\ c.replaced \in Evses \cup {None}
    BY <1>1 DEF IInv, TypeOK, CallerType
  <2>2. CASE UNCHANGED em
    BY <2>1, <2>2
  <2>3. CASE c.replaced # None /\ em' = [em EXCEPT ![c.replaced] = EndReservation(@, TRUE)]
    BY <2>1, <2>3, ReserveType
  <2> QED
    BY <2>2, <2>3 DEF cancel_replaced_if_dropped
<1>6. TypeOK'
  BY <1>4, <1>5 DEF cancel_replaced_if_dropped, IInv, TypeOK
<1> QED
  BY <1>4, <1>6, BookAlone DEF cancel_replaced_if_dropped

\* call_reserved: the caller keeps its reservation for the steps that follow.
LEMMA CallReservedEffect ==
    ASSUME IInv, NEW t \in Callers, call_reserved(t)
    PROVE  Effect
<1> DEFINE c == caller[t]
           d(step) == [c EXCEPT !.pc = step]
           f == [c EXCEPT !.pc = "check", !.next = "confirm"]
<1>1. /\ c \in CallerType /\ c.pc = "reserve" /\ HasReservation(c) /\ c.r \in Reservation
      /\ "set" \in Steps /\ "undo" \in Steps /\ "check" \in Steps /\ "confirm" \in Steps
  BY DEF call_reserved, IInv, TypeOK, CallersOK, CallerType, HasReservation, WithReservation, Steps
<1>2. /\ f \in CallerType /\ HasReservation(f)
      /\ \A step \in {"set", "undo"} : d(step) \in CallerType /\ (c.r.evse # None => HasReservation(d(step)))
  BY <1>1 DEF CallerType, HasReservation
<1>3. SetCaller(t, f) \/ (c.r.evse # None /\ \E step \in {"set", "undo"} : SetCaller(t, d(step)))
  BY DEF call_reserved
<1>4. caller' \in [Callers -> CallerType] /\ CallersOK'
  BY <1>2, <1>3, CallerOK
<1>6. TypeOK'
  BY <1>4 DEF call_reserved, IInv, TypeOK
<1> QED
  BY <1>4, <1>6, BookAlone DEF call_reserved

\* reserve: the EvseManager takes the reservation or not.
LEMMA ReserveEffect ==
    ASSUME IInv, NEW t \in Callers, reserve(t)
    PROVE  Effect
<1> DEFINE c == caller[t]
           d == [c EXCEPT !.pc = "undo"]
           f == [c EXCEPT !.pc = "check", !.next = "confirm"]
<1>1. /\ c \in CallerType /\ c.pc = "set" /\ HasReservation(c) /\ c.r \in Reservation /\ c.r.evse # None
  BY DEF reserve, IInv, TypeOK, CallersOK, CallerType, HasReservation, WithReservation
<1>2. d \in CallerType /\ HasReservation(d) /\ f \in CallerType /\ HasReservation(f)
  BY <1>1 DEF CallerType, HasReservation, Steps
<1>3. SetCaller(t, d) \/ SetCaller(t, f)
  BY DEF reserve
<1>4. caller' \in [Callers -> CallerType] /\ CallersOK'
  BY <1>2, <1>3, CallerOK
<1>5. em' \in [Evses -> EvseManagerType]
  <2>1. em \in [Evses -> EvseManagerType] /\ c.r.evse \in Evses /\ c.r.id \in Ids
    BY <1>1 DEF IInv, TypeOK, Reservation
  <2>2. em' = [em EXCEPT ![c.r.evse] = set_reserved(@, c.r.id)]
    BY DEF reserve
  <2> QED
    BY <2>1, <2>2, ReserveType
<1>6. TypeOK'
  BY <1>4, <1>5 DEF reserve, IInv, TypeOK
<1> QED
  BY <1>4, <1>6, BookAlone DEF reserve

\* Undo cancels the reservation of the caller.
LEMMA UndoEffect ==
    ASSUME IInv, NEW t \in Callers, Undo(t)
    PROVE  Effect
<1> DEFINE c == caller[t]
           replaced == IF t # "restore" THEN c.replaced
                       ELSE IF c.r.id \in book.timer THEN c.r.evse ELSE None
           d == [c EXCEPT !.pc = "drop", !.ok = FALSE, !.replaced = replaced]
<1>1. c \in CallerType /\ c.pc = "undo" /\ HasReservation(c) /\ c.r \in Reservation
  BY DEF Undo, IInv, TypeOK, CallersOK, CallerType, HasReservation, WithReservation
<1>2. c.r.id \in Ids /\ c.r.evse \in Evses \cup {None}
  BY <1>1 DEF Reservation
<1>3. replaced \in Evses \cup {None}
  BY <1>1, <1>2 DEF CallerType
<1>4. SetCaller(t, d) /\ book' = cancel_reservation(book, c.r.id)
  BY <1>1 DEF Undo, CallerType
<1> HIDE DEF replaced
<1>5. d \in CallerType /\ HasReservation(d)
  BY <1>1, <1>3 DEF CallerType, HasReservation, Steps
<1>6. caller' \in [Callers -> CallerType] /\ CallersOK'
  BY <1>4, <1>5, CallerOK
<1>7. BookOK(book') /\ Saved(book, book')
  BY <1>2, <1>4, BookNow, CancelOK
<1>8. TypeOK'
  BY <1>6, <1>7 DEF Undo, IInv, TypeOK, BookOK
<1> QED
  BY <1>6, <1>7, <1>8, BookStep

\* Confirm: only the EvseManager and the caller change.
LEMMA ConfirmEffect ==
    ASSUME IInv, NEW t \in Callers, Confirm(t)
    PROVE  Effect
<1> DEFINE c == caller[t]
<1>1. c \in CallerType /\ c.pc = "confirm" /\ c.r \in Reservation
  BY DEF Confirm, IInv, TypeOK, CallersOK, CallerType, HasReservation, WithReservation
<1>2. caller' \in [Callers -> CallerType] /\ CallersOK'
  BY IdleType, CallerOK DEF Confirm
<1>3. em' \in [Evses -> EvseManagerType]
  <2>1. em \in [Evses -> EvseManagerType] /\ c.r.evse \in Evses \cup {None}
    BY <1>1 DEF IInv, TypeOK, Reservation
  <2>2. CASE UNCHANGED em
    BY <2>1, <2>2
  <2>3. CASE c.r.evse # None /\ em' = [em EXCEPT ![c.r.evse] = EndReservation(@, TRUE)]
    BY <2>1, <2>3, ReserveType
  <2> QED
    BY <2>2, <2>3 DEF Confirm
<1>4. TypeOK'
  BY <1>2, <1>3 DEF Confirm, IInv, TypeOK
<1> QED
  BY <1>2, <1>4, BookAlone DEF Confirm

\* handle_cancel_reservation cancels one reservation.
LEMMA HandleCancelEffect ==
    ASSUME IInv, NEW id \in Ids, handle_cancel_reservation(id)
    PROVE  Effect
<1> DEFINE c(e) == [IdleCaller EXCEPT !.pc = "cancelled", !.replaced = e]
<1>1. PICK e \in Evses \cup {None} : SetCaller("cancel", c(e))
  BY DEF handle_cancel_reservation
<1>2. c(e) \in CallerType /\ HasReservation(c(e))
  BY IdleType DEF CallerType, HasReservation, IdleCaller, Steps, WithReservation
<1>3. caller' \in [Callers -> CallerType] /\ CallersOK'
  BY <1>1, <1>2, CallerOK DEF Callers
<1>4. budget' \in [Occasions -> Nat]
  BY DEF handle_cancel_reservation, Spend, IInv, TypeOK, Occasions
<1>5. BookOK(book') /\ Saved(book, book')
  BY BookNow, CancelOK DEF handle_cancel_reservation
<1>6. TypeOK'
  BY <1>3, <1>4, <1>5 DEF handle_cancel_reservation, IInv, TypeOK, BookOK
<1> QED
  BY <1>3, <1>5, <1>6, BookStep

\* TellCancelled: only the EvseManager and the caller change.
LEMMA TellCancelledEffect ==
    ASSUME IInv, TellCancelled
    PROVE  Effect
<1> DEFINE c == caller["cancel"]
           d == [c EXCEPT !.pc = "check", !.replaced = None]
<1>1. c \in CallerType /\ HasReservation(c)
  BY DEF IInv, TypeOK, CallersOK, Callers
<1>2. d \in CallerType /\ HasReservation(d)
  BY <1>1 DEF CallerType, HasReservation, Steps, WithReservation
<1>3. caller' \in [Callers -> CallerType] /\ CallersOK'
  BY <1>2, CallerOK DEF TellCancelled, Callers
<1>4. em' \in [Evses -> EvseManagerType]
  <2>1. em \in [Evses -> EvseManagerType] /\ c.replaced \in Evses \cup {None}
    BY <1>1 DEF IInv, TypeOK, CallerType
  <2>2. CASE UNCHANGED em
    BY <2>1, <2>2
  <2>3. CASE c.replaced # None /\ em' = [em EXCEPT ![c.replaced] = EndReservation(@, TRUE)]
    BY <2>1, <2>3, ReserveType
  <2> QED
    BY <2>2, <2>3 DEF TellCancelled
<1>5. TypeOK'
  BY <1>3, <1>4 DEF TellCancelled, IInv, TypeOK
<1> QED
  BY <1>3, <1>5, BookAlone DEF TellCancelled

\* CheckReserved: the status is an EVSE set, the book stays.
LEMMA CheckEffect ==
    ASSUME IInv, NEW t \in Callers, CheckReserved(t)
    PROVE  Effect
<1> DEFINE c == caller[t]
           u == check_number_global_reservations_match_number_available_evses(book, seen, last_reserved_status)
           d == [c EXCEPT !.pc = "send", !.updates = [available |-> u.available, reserved |-> u.reserved]]
<1>1. c \in CallerType /\ HasReservation(c)
  BY DEF IInv, TypeOK, CallersOK
<1>2. u.available \in SUBSET Evses /\ u.reserved \in SUBSET Evses /\ u.status \in SUBSET Evses
  BY StatusType
<1>3. SetCaller(t, d) /\ last_reserved_status' = u.status
  BY DEF CheckReserved
<1> HIDE DEF u
<1>4. d \in CallerType /\ HasReservation(d)
  BY <1>1, <1>2 DEF CallerType, HasReservation, Steps, WithReservation
<1>5. caller' \in [Callers -> CallerType] /\ CallersOK'
  BY <1>3, <1>4, CallerOK
<1>6. TypeOK'
  BY <1>2, <1>3, <1>5 DEF CheckReserved, IInv, TypeOK
<1> QED
  BY <1>5, <1>6, BookAlone DEF CheckReserved

\* CallEvses: the caller goes on to the step it had noted.
LEMMA CallEvsesEffect ==
    ASSUME IInv, NEW t \in Callers, CallEvses(t)
    PROVE  Effect
<1> DEFINE c == caller[t]
           d == [c EXCEPT !.pc = c.next, !.next = "idle", !.updates = NoUpdates]
<1>1. c \in CallerType /\ HasReservation(c)
  BY DEF IInv, TypeOK, CallersOK
<1>2. d \in CallerType /\ HasReservation(d)
  BY <1>1 DEF CallerType, HasReservation, Steps, WithReservation, NoUpdates
<1>3. SetCaller(t, d) \/ SetCaller(t, IdleCaller)
  BY DEF CallEvses
<1>4. caller' \in [Callers -> CallerType] /\ CallersOK'
  BY <1>2, <1>3, IdleType, CallerOK
<1>5. em' \in [Evses -> EvseManagerType]
  BY SendType DEF CallEvses, IInv, TypeOK
<1>6. TypeOK'
  BY <1>4, <1>5 DEF CallEvses, IInv, TypeOK
<1> QED
  BY <1>4, <1>6, BookAlone DEF CallEvses

\* take_restored_reservation: only what is restored and applied changes.
LEMMA TakeEffect ==
    ASSUME IInv, take_restored_reservation
    PROVE  Effect
<1>1. caller' \in [Callers -> CallerType] /\ CallersOK'
  BY IdleType, CallerOK DEF take_restored_reservation, Callers
<1>2. apply' \in [Evses -> Ids \cup {None}] /\ restored' \in [Evses -> Ids \cup {None}]
  BY DEF take_restored_reservation, IInv, TypeOK
<1>3. TypeOK'
  BY <1>1, <1>2 DEF take_restored_reservation, IInv, TypeOK
<1> QED
  BY <1>1, <1>3, BookAlone DEF take_restored_reservation

\* apply_restored_reservation: the caller now has the restored reservation.
LEMMA ApplyEffect ==
    ASSUME IInv, NEW e \in Evses, apply_restored_reservation(e)
    PROVE  Effect
<1> DEFINE r == [id |-> apply[e], evse |-> e, type |-> None, token |-> CHOOSE t \in Tokens : TRUE,
                 parent |-> None]
           c == [IdleCaller EXCEPT !.pc = "reserve", !.r = r]
<1>1. (CHOOSE t \in Tokens : TRUE) \in Tokens /\ apply[e] \in Ids
  BY DEF apply_restored_reservation, IInv, TypeOK
<1>2. r \in Reservation /\ r # None
  BY <1>1 DEF Reservation
<1>3. SetCaller("restore", c)
  BY DEF apply_restored_reservation
<1> HIDE DEF r
<1>4. c \in CallerType /\ HasReservation(c)
  BY <1>2, IdleType DEF CallerType, HasReservation, IdleCaller, Steps
<1>5. caller' \in [Callers -> CallerType] /\ CallersOK'
  BY <1>3, <1>4, CallerOK DEF Callers
<1>6. apply' \in [Evses -> Ids \cup {None}]
  BY DEF apply_restored_reservation, IInv, TypeOK
<1>7. TypeOK'
  BY <1>5, <1>6 DEF apply_restored_reservation, IInv, TypeOK
<1> QED
  BY <1>5, <1>7, BookAlone DEF apply_restored_reservation

-----------------------------------------------------------------------------
(* Timers, session events and the users of the EVSEs.                      *)

\* Expire: the timer no longer runs but is still there.
LEMMA ExpireEffect ==
    ASSUME IInv, NEW id \in Ids, Expire(id)
    PROVE  Effect
<1>1. BookOK(book) /\ book \in BookType
  BY BookNow DEF BookOK
<1>2. /\ book' \in BookType /\ book'.evse = book.evse /\ book'.global = book.global
      /\ book'.timer = book.timer /\ book'.store = book.store
  BY <1>1 DEF Expire, BookType
<1>3. Taken(book') = Taken(book) /\ HeldIds(book') = HeldIds(book)
  BY <1>2 DEF Taken, HeldIds
<1>4. BookOK(book') /\ Saved(book, book')
  BY <1>1, <1>2, <1>3 DEF BookOK, Once, Stored, Saved
<1>5. expired' \in Seq(Ids)
  BY DEF Expire, IInv, TypeOK
<1>6. TypeOK' /\ CallersOK'
  BY <1>2, <1>5 DEF Expire, IInv, TypeOK, CallersOK
<1> QED
  BY <1>4, <1>6, BookStep

\* ReservationExpired cancels one reservation, if it is still held.
LEMMA ExpiredEffect ==
    ASSUME IInv, ReservationExpired
    PROVE  Effect
<1> DEFINE id == Head(expired)
           w == CancelAndTell(World, seen, id)
<1>1. expired \in Seq(Ids) /\ expired # <<>>
  BY DEF ReservationExpired, IInv, TypeOK
<1>2. id \in Ids /\ expired' \in Seq(Ids)
  BY <1>1 DEF ReservationExpired
<1>3. World \in WorldType /\ World.book = book /\ BookOK(book) /\ Saved(book, book)
  BY WorldNow, BookNow DEF Saved
<1> HIDE DEF World, id
<1>4. w \in WorldType /\ BookOK(w.book) /\ Saved(book, w.book)
  BY <1>2, <1>3, CancelStep
<1>5. Become(w)
  BY DEF ReservationExpired, id
<1> HIDE DEF w
<1>6. /\ book' \in BookType /\ em' \in [Evses -> EvseManagerType]
      /\ last_reserved_status' \in SUBSET Evses /\ book' = w.book
  BY <1>4, <1>5, BecomeType
<1>7. TypeOK' /\ CallersOK'
  BY <1>2, <1>6 DEF ReservationExpired, IInv, TypeOK, CallersOK
<1> QED
  BY <1>4, <1>6, <1>7, BookStep

\* The state of a connector.
LEMMA ConnectorStates ==
    ASSUME NEW state \in ConnectorState,
           NEW event \in {"TRANSACTION_STARTED", "SESSION_FINISHED", "ENABLE", "DISABLE"}
    PROVE  handle_event(state, event) \in ConnectorState
<1>1. CASE state = "AVAILABLE"
  BY <1>1 DEF handle_event, ConnectorState
<1>2. CASE state = "UNAVAILABLE"
  BY <1>2 DEF handle_event, ConnectorState
<1>3. CASE state = "FAULTED"
  BY <1>3 DEF handle_event, ConnectorState
<1>4. CASE state = "OCCUPIED"
  BY <1>4 DEF handle_event, ConnectorState
<1>5. CASE state = "FAULTED_OCCUPIED"
  BY <1>5 DEF handle_event, ConnectorState
<1>6. CASE state = "UNAVAILABLE_FAULTED"
  BY <1>6 DEF handle_event, ConnectorState
<1> QED
  BY <1>1, <1>2, <1>3, <1>4, <1>5, <1>6 DEF ConnectorState

\* What Auth knows of an EVSE after an event.
LEMMA ViewStays ==
    ASSUME NEW s \in ViewType, NEW event \in Events
    PROVE  View(s, event) \in ViewType
<1>0. s.connector \in ConnectorState
  BY DEF ViewType
<1>1. CASE event = "SessionStarted"
  BY <1>1 DEF View, ViewType
<1>2. CASE event = "TransactionStarted"
  <2>1. handle_event(s.connector, "TRANSACTION_STARTED") \in ConnectorState
    BY <1>0, ConnectorStates
  <2> QED
    BY <1>2, <2>1 DEF View, ViewType
<1>3. CASE event = "SessionFinished"
  <2>1. handle_event(s.connector, "SESSION_FINISHED") \in ConnectorState
    BY <1>0, ConnectorStates
  <2> QED
    BY <1>3, <2>1 DEF View, ViewType
<1>4. CASE event = "Disabled"
  <2>1. handle_event(s.connector, "DISABLE") \in ConnectorState
    BY <1>0, ConnectorStates
  <2> QED
    BY <1>4, <2>1 DEF View, ViewType
<1>5. CASE event = "Enabled"
  <2>1. handle_event(s.connector, "ENABLE") \in ConnectorState
    BY <1>0, ConnectorStates
  <2> QED
    BY <1>5, <2>1 DEF View, ViewType
<1>6. CASE event \in {"TransactionFinished", "Deauthorized", "ReservationEnd"}
  BY <1>6 DEF View
<1> QED
  BY <1>1, <1>2, <1>3, <1>4, <1>5, <1>6, EventNames

\* handle_session_event: the reservations that go are gone from the store too.
LEMMA SessionEventEffect ==
    ASSUME IInv, NEW e \in Evses, handle_session_event(e)
    PROVE  Effect
<1> DEFINE event == Head(em[e].out)
           v == [seen EXCEPT ![e] = View(@, event)]
           w == [World EXCEPT !.em[e].out = Tail(@)]
           x == on_connector_state_changed(w, v, e)
           y == CancelAndTell(w, v, book.evse[e].id)
           c == [IdleCaller EXCEPT !.pc = "check", !.next = IF event = "Enabled" THEN "take" ELSE "idle",
                                   !.replaced = e]
<1>1. /\ em \in [Evses -> EvseManagerType] /\ em[e] \in EvseManagerType
      /\ em[e].out \in Seq(Events) /\ em[e].out # <<>>
  BY DEF handle_session_event, IInv, TypeOK, EvseManagerType
<1>2. event \in Events /\ Tail(em[e].out) \in Seq(Events)
  BY <1>1
<1>3. w \in WorldType /\ w.book = book
  <2>1. [em[e] EXCEPT !.out = Tail(@)] \in EvseManagerType
    BY <1>1, <1>2 DEF EvseManagerType
  <2>2. [em EXCEPT ![e].out = Tail(@)] \in [Evses -> EvseManagerType]
    BY <1>1, <2>1
  <2>3. w = [World EXCEPT !.em = [em EXCEPT ![e].out = Tail(@)]]
    BY DEF World
  <2>4. World \in WorldType /\ World.book = book
    BY WorldNow
  <2> HIDE DEF w, World
  <2> QED
    BY <2>2, <2>3, <2>4 DEF WorldType
<1>4. v \in [Evses -> ViewType]
  BY <1>2, ViewStays DEF IInv, TypeOK
<1>5. /\ seen' = v
      /\ Become(x) \/ (book.evse[e] # None /\ Become(y)) \/ Become(w)
      /\ SetCaller("event", c) \/ SetCaller("event", IdleCaller)
  BY DEF handle_session_event
<1>6. BookOK(book) /\ Saved(book, book)
  BY BookNow DEF Saved
<1> HIDE DEF w, v, event
<1>7. x \in WorldType /\ BookOK(x.book) /\ Saved(book, x.book)
  BY <1>3, <1>6, ConnectorChangeOK
<1>8. book.evse[e] # None => y \in WorldType /\ BookOK(y.book) /\ Saved(book, y.book)
  <2>1. book.evse[e] # None => book.evse[e] \in Reservation
    BY DEF IInv, TypeOK, BookType, Maps
  <2>2. book.evse[e] # None => book.evse[e].id \in Ids
    BY <2>1 DEF Reservation
  <2> QED
    BY <1>3, <1>6, <2>2, CancelStep
<1> HIDE DEF x, y
<1>9. PICK z \in WorldType : Become(z) /\ BookOK(z.book) /\ Saved(book, z.book)
  BY <1>3, <1>5, <1>6, <1>7, <1>8
<1>10. /\ book' \in BookType /\ em' \in [Evses -> EvseManagerType]
       /\ last_reserved_status' \in SUBSET Evses /\ book' = z.book
  BY <1>9, BecomeType
<1>11. c \in CallerType /\ HasReservation(c)
  BY IdleType DEF CallerType, HasReservation, IdleCaller, Steps, WithReservation
<1> HIDE DEF c
<1>12. caller' \in [Callers -> CallerType] /\ CallersOK'
  BY <1>5, <1>11, IdleType, CallerOK DEF Callers
<1>13. TypeOK'
  <2>1. waiting' \in SUBSET Wait
    BY DEF handle_session_event, IInv, TypeOK, Wait, HandlerOf
  <2> QED
    BY <1>4, <1>5, <1>10, <1>12, <2>1 DEF handle_session_event, IInv, TypeOK
<1> QED
  BY <1>9, <1>10, <1>12, <1>13, BookStep

\* A handler that goes on after its wait.
LEMMA ResumeEffect ==
    ASSUME IInv, NEW e \in Evses, ResumeHandler(e)
    PROVE  Effect
<1> DEFINE c == [IdleCaller EXCEPT !.pc = "check", !.replaced = e]
<1>1. c \in CallerType /\ HasReservation(c)
  BY IdleType DEF CallerType, HasReservation, IdleCaller, Steps, WithReservation
<1>2. caller' \in [Callers -> CallerType] /\ CallersOK'
  BY <1>1, CallerOK DEF ResumeHandler, Callers
<1>3. TypeOK'
  BY <1>2 DEF ResumeHandler, IInv, TypeOK
<1> QED
  BY <1>2, <1>3, BookAlone DEF ResumeHandler

\* What happens at an EVSE does not change what Auth holds.
LEMMA EvseEffect ==
    ASSUME IInv, NEW e \in Evses, NEW d \in EvseManagerType, EvseChange(e, d),
           budget' \in [Occasions -> Nat]
    PROVE  Effect
<1>1. em \in [Evses -> EvseManagerType]
  BY DEF IInv, TypeOK
<1>2. Published(em[e], d) \in EvseManagerType
  BY <1>1, CommandType
<1>3. em' \in [Evses -> EvseManagerType]
  BY <1>1, <1>2 DEF EvseChange
<1>4. TypeOK' /\ CallersOK'
  BY <1>3 DEF EvseChange, IInv, TypeOK, CallersOK
<1> QED
  BY <1>4, BookAlone DEF EvseChange

\* Spending an occasion.
LEMMA SpendType ==
    ASSUME IInv, NEW occasion \in Occasions, Spend(occasion)
    PROVE  budget' \in [Occasions -> Nat]
  BY DEF IInv, TypeOK, Spend

\* What the users and the main loop do at an EVSE.
LEMMA UserEffect ==
    ASSUME IInv, NEW e \in Evses,
           \/ PlugIn(e) \/ Unplug(e) \/ DisableEvse(e) \/ EnableEvse(e) \/ MainLoop(e) \/ WithdrawAuthorization(e)
    PROVE  Effect
<1>1. em[e] \in EvseManagerType
  BY DEF IInv, TypeOK
<1>2. "other" \in Occasions
  BY DEF Occasions
<1>3. ASSUME UNCHANGED budget PROVE budget' \in [Occasions -> Nat]
  BY <1>3 DEF IInv, TypeOK
<1>4. CASE PlugIn(e)
  BY <1>1, <1>2, <1>4, SpendType, UserType, EvseEffect DEF PlugIn
<1>5. CASE Unplug(e)
  BY <1>1, <1>2, <1>5, SpendType, UserType, EvseEffect DEF Unplug
<1>6. CASE DisableEvse(e)
  BY <1>1, <1>2, <1>6, SpendType, UserType, EvseEffect DEF DisableEvse
<1>7. CASE EnableEvse(e)
  BY <1>1, <1>2, <1>7, SpendType, UserType, EvseEffect DEF EnableEvse
<1>8. CASE MainLoop(e)
  BY <1>1, <1>3, <1>8, UserType, RunType, EvseEffect DEF MainLoop
<1>9. CASE WithdrawAuthorization(e)
  BY <1>1, <1>2, <1>9, SpendType, CommandType, EvseEffect DEF WithdrawAuthorization
<1> QED
  BY <1>4, <1>5, <1>6, <1>7, <1>8, <1>9

\* The ids a token may use are ids of reservations.
LEMMA MatchesType ==
    ASSUME NEW b \in BookType, NEW t, NEW e \in Evses, NEW parent
    PROVE  matches_reserved_identifier(b, t, e, parent) \subseteq Ids
<1>1. b.evse[e] # None => b.evse[e] \in Reservation /\ b.evse[e].id \in Ids
  <2>1. b.evse[e] # None => b.evse[e] \in Reservation
    BY DEF BookType, Maps
  <2> QED
    BY <2>1 DEF Reservation
<1>2. b.global \in Seq(Reservation)
  BY DEF BookType
<1>3. \A i \in DOMAIN b.global : b.global[i].id \in Ids
  BY <1>2, HasId
<1> QED
  BY <1>1, <1>3 DEF matches_reserved_identifier

\* What UseToken does, for the reservation id it uses, if any.
LEMMA TokenIs ==
    ASSUME IInv, NEW e \in Evses, NEW t \in Tokens, NEW parent, UseToken(e, t, parent)
    PROVE  \E id \in Ids \cup {None} :
              /\ id = None => is_charging_possible(book, seen, e)
              /\ id # None => id \in matches_reserved_identifier(book, t, e, parent)
              /\ book' = IF id = None THEN book ELSE cancel_reservation(book, id)
              /\ em' = [em EXCEPT ![e].used = @ \/ (em[e].reserved /\ em[e].reservation_id = id)]
              /\ waiting' = waiting \cup {[evse |-> e, token |-> t, id |-> id]}
<1>1. matches_reserved_identifier(book, t, e, parent) \subseteq Ids
  BY MatchesType DEF IInv, TypeOK
<1>2. None \notin Ids
  BY ReservationAssumption
<1> QED
  BY <1>1, <1>2 DEF UseToken

\* UseToken cancels the reservation the token uses.
LEMMA TokenEffect ==
    ASSUME IInv, NEW e \in Evses, NEW t \in Tokens, NEW parent, UseToken(e, t, parent)
    PROVE  Effect
<1>1. em \in [Evses -> EvseManagerType] /\ book \in BookType /\ BookOK(book) /\ Saved(book, book)
  BY BookNow DEF IInv, TypeOK, Saved
<1>2. PICK id \in Ids \cup {None} :
         /\ book' = IF id = None THEN book ELSE cancel_reservation(book, id)
         /\ em' = [em EXCEPT ![e].used = @ \/ (em[e].reserved /\ em[e].reservation_id = id)]
         /\ waiting' = waiting \cup {[evse |-> e, token |-> t, id |-> id]}
  BY TokenIs
<1>3. Spend("other")
  BY DEF UseToken
<1>4. waiting' \subseteq Wait
  BY <1>2 DEF Wait, IInv, TypeOK
<1>5. BookOK(book') /\ Saved(book, book') /\ book' \in BookType
  BY <1>1, <1>2, CancelOK DEF BookOK
<1>6. ASSUME NEW q \in BOOLEAN PROVE [em[e] EXCEPT !.used = q] \in EvseManagerType
  <2>1. em[e] \in EvseManagerType
    BY <1>1
  <2> QED
    BY <2>1 DEF EvseManagerType
<1>7. em' \in [Evses -> EvseManagerType]
  <2>1. PICK q \in BOOLEAN : em' = [em EXCEPT ![e] = [em[e] EXCEPT !.used = q]]
    <3>1. em[e].used \in BOOLEAN /\ em[e].reserved \in BOOLEAN
      BY <1>1 DEF EvseManagerType
    <3> QED
      BY <1>1, <1>2, <3>1
  <2> QED
    BY <1>1, <1>6, <2>1
<1>8. budget' \in [Occasions -> Nat]
  BY <1>3, SpendType DEF Occasions
<1>9. TypeOK' /\ CallersOK'
  BY <1>4, <1>5, <1>7, <1>8 DEF UseToken, IInv, TypeOK, CallersOK
<1> QED
  BY <1>5, <1>9, BookStep

\* notify_evse tells the EvseManager.
LEMMA NotifyEffect ==
    ASSUME IInv, NEW w \in waiting, NEW pnc \in BOOLEAN, notify_evse(w, pnc)
    PROVE  Effect
<1>1. em \in [Evses -> EvseManagerType] /\ w \in Wait /\ waiting \subseteq Wait
  BY DEF IInv, TypeOK
<1>2. w.evse \in Evses /\ w.id \in Ids \cup {None}
  BY <1>1 DEF Wait
<1>3. authorize_response(em[w.evse], w.id, pnc) \in EvseManagerType
  BY <1>1, <1>2, CommandType
<1>4. em' \in [Evses -> EvseManagerType]
  BY <1>1, <1>2, <1>3 DEF notify_evse
<1>5. TypeOK' /\ CallersOK'
  BY <1>1, <1>4 DEF notify_evse, IInv, TypeOK, CallersOK
<1> QED
  BY <1>5, BookAlone DEF notify_evse

-----------------------------------------------------------------------------
(* Restart.                                                                *)

\* Restart: nothing is held, and the store is left to be loaded.
LEMMA RestartEffect ==
    ASSUME IInv, NEW disabled \in SUBSET Evses, NEW late \in SUBSET Evses, Restart(disabled, late)
    PROVE  Effect
<1>1. NoReservations \in Maps /\ \A e \in Evses : NoReservations[e] = None
  BY DEF NoReservations, Maps
<1>2. book.store \in [evse: Maps, global: Seq(Reservation)]
  BY DEF IInv, TypeOK, BookType
<1>3. /\ book'.evse = NoReservations /\ book'.global = <<>> /\ book'.timer = {}
      /\ book' = [evse |-> NoReservations, global |-> <<>>, timer |-> {}, armed |-> {}, store |-> book.store]
  BY DEF Restart, EmptyBook
<1> HIDE DEF NoReservations
<1>4. book' \in BookType
  BY <1>1, <1>2, <1>3 DEF BookType
<1>5. Taken(book') = {} /\ DOMAIN book'.global = {}
  BY <1>1, <1>3 DEF Taken
<1>6. BookOK(book')
  BY <1>3, <1>4, <1>5 DEF BookOK, Once, Stored, HeldIds
<1>7. loading' \in [evse: Maps, global: Seq(Reservation), done: BOOLEAN, again: SUBSET Ids] /\ loading'.done = FALSE
  <2>1. \A e \in Taken(book.store) : book.store.evse[e] \in Reservation
    BY <1>2 DEF Taken, Maps
  <2>2. {book.store.evse[e].id : e \in Taken(book.store)} \in SUBSET Ids
    BY <2>1 DEF Reservation
  <2> QED
    BY <1>2, <2>2 DEF Restart
<1>8. em' \in [Evses -> EvseManagerType]
  <2>1. FreshEvse \in EvseManagerType
    BY DEF FreshEvse, EvseManagerType, EvseState
  <2>2. <<"Enabled">> \in Seq(Events) /\ <<>> \in Seq(Events)
    BY EventNames
  <2>3. /\ [FreshEvse EXCEPT !.state = "Disabled", !.enabled = FALSE, !.disable_requested = TRUE] \in EvseManagerType
        /\ \A o \in Seq(Events) : [FreshEvse EXCEPT !.out = o] \in EvseManagerType
    BY <2>1 DEF EvseManagerType, EvseState
  <2> QED
    BY <2>2, <2>3 DEF Restart
<1>9. seen' \in [Evses -> ViewType]
  <2>1. \A s \in ConnectorState, q \in BOOLEAN : [FreshView EXCEPT !.connector = s, !.enabled = q] \in ViewType
    BY DEF FreshView, ViewType, ConnectorState
  <2>2. FreshView.connector \in ConnectorState /\ "UNAVAILABLE" \in ConnectorState
    BY DEF FreshView, ConnectorState
  <2> QED
    BY <2>1, <2>2 DEF Restart
<1>10. caller' \in [Callers -> CallerType] /\ CallersOK'
  BY IdleType DEF Restart, CallersOK
<1>11. budget' \in [Occasions -> Nat]
  BY SpendType DEF Restart, Occasions
<1>12. /\ expired' \in Seq(Ids) /\ last_reserved_status' \in SUBSET Evses /\ waiting' \in SUBSET Wait
       /\ restored' \in [Evses -> Ids \cup {None}] /\ apply' \in [Evses -> Ids \cup {None}]
  <2>1. /\ expired' = <<>> /\ last_reserved_status' = {} /\ waiting' = {}
        /\ restored' = [e \in Evses |-> None] /\ apply' = [e \in Evses |-> None]
    BY Zenon DEF Restart
  <2> QED
    BY <2>1
<1>13. TypeOK'
  BY <1>4, <1>7, <1>8, <1>9, <1>10, <1>11, <1>12 DEF TypeOK
<1> QED
  BY <1>6, <1>7, <1>10, <1>13, BookStep

\* load_reservations: one more stored reservation is made again or dropped.
LEMMA LoadEffect ==
    ASSUME IInv, NEW late \in BOOLEAN, load_reservations(late)
    PROVE  Effect
<1> DEFINE first == {e \in Evses : loading.evse[e] # None /\ \A f \in Evses : loading.evse[f] # None => e <= f}
           R == IF first # {} THEN {loading.evse[e] : e \in first}
                ELSE {loading.global[i] : i \in DOMAIN loading.global \cap {1}}
           made(r) == make_reservation(book, seen, r, late)
           w(r) == [World EXCEPT !.book = made(r).book]
           x(r) == IF made(r).ok THEN w(r) ELSE call_reservation_cancelled(w(r), seen, Evses \cap {r.evse})
<1>0. loading \in [evse: Maps, global: Seq(Reservation), done: BOOLEAN, again: SUBSET Ids] /\ ~loading.done
  BY DEF load_reservations, IInv, TypeOK
<1>1. R \subseteq Reservation
  <2>1. \A e \in first : loading.evse[e] \in Reservation
    BY <1>0 DEF Maps
  <2>2. \A i \in DOMAIN loading.global : loading.global[i] \in Reservation
    BY <1>0
  <2> QED
    BY <2>1, <2>2
<1>2. PICK r \in R : /\ Become(x(r))
                     /\ restored' = IF made(r).ok /\ r.evse # None THEN [restored EXCEPT ![r.evse] = r.id]
                                    ELSE restored
  BY Zenon DEF load_reservations
<1>3. r \in Reservation /\ r.id \in Ids /\ r.evse \in Evses \cup {None}
  BY <1>1 DEF Reservation
<1>4. loading' \in [evse: Maps, global: Seq(Reservation), done: BOOLEAN, again: SUBSET Ids] /\ loading'.done = FALSE
  <2>1. CASE first # {}
    <3>1. loading' = [loading EXCEPT !.evse = [e \in Evses |-> IF e \in first THEN None ELSE @[e]]]
      BY <2>1 DEF load_reservations
    <3> HIDE DEF first
    <3>2. [e \in Evses |-> IF e \in first THEN None ELSE loading.evse[e]] \in Maps
      BY <1>0 DEF Maps
    <3> QED
      BY <1>0, <3>1, <3>2
  <2>2. CASE first = {}
    <3>1. loading' = [loading EXCEPT !.global = Tail(@)]
      BY <2>2 DEF load_reservations
    <3>2. loading.global # <<>>
      BY <1>0, <1>2, <2>2
    <3>3. Tail(loading.global) \in Seq(Reservation)
      BY <1>0, <3>2
    <3> QED
      BY <1>0, <3>1, <3>3
  <2> QED
    BY <2>1, <2>2
<1>5. BookOK(made(r).book)
  BY <1>3, BookNow, MakeOK
<1> HIDE DEF made, R, first
<1>6. w(r) \in WorldType /\ w(r).book = made(r).book
  <2>1. World \in WorldType
    BY WorldNow
  <2> HIDE DEF World
  <2> QED
    BY <1>5, <2>1 DEF WorldType, BookOK
<1> HIDE DEF w
<1>7. x(r) \in WorldType /\ BookOK(x(r).book)
  BY <1>5, <1>6, TellOK
<1>8. /\ book' \in BookType /\ em' \in [Evses -> EvseManagerType]
      /\ last_reserved_status' \in SUBSET Evses /\ book' = x(r).book
  BY <1>2, <1>7, BecomeType
<1>9. restored' \in [Evses -> Ids \cup {None}]
  BY <1>2, <1>3 DEF IInv, TypeOK
<1>10. TypeOK' /\ CallersOK'
  BY <1>4, <1>8, <1>9 DEF load_reservations, IInv, TypeOK, CallersOK
<1> QED
  BY <1>4, <1>7, <1>8, <1>10, BookStep

\* initialize: only the caller and the end of loading change.
LEMMA InitializeEffect ==
    ASSUME IInv, initialize
    PROVE  Effect
<1> DEFINE c == [IdleCaller EXCEPT !.pc = "check", !.next = "take"]
<1>1. c \in CallerType /\ HasReservation(c)
  BY IdleType DEF CallerType, HasReservation, IdleCaller, Steps, WithReservation
<1>2. caller' \in [Callers -> CallerType] /\ CallersOK'
  BY <1>1, CallerOK DEF initialize, Callers
<1>3. TypeOK'
  BY <1>2 DEF initialize, IInv, TypeOK
<1> QED
  BY <1>2, <1>3, BookAlone DEF initialize

-----------------------------------------------------------------------------
(* The theorems.                                                           *)

\* Every step keeps the invariant and has the effect it may have.
LEMMA NextEffect == ASSUME IInv, Next PROVE Effect
<1>1. CASE \E r \in Requests : place_reservation(r)
  BY <1>1, PlaceEffect
<1>2. CASE \E late \in BOOLEAN : handle_reservation(late)
  BY <1>2, HandleReservationEffect
<1>3. CASE \E late \in BOOLEAN : load_reservations(late)
  BY <1>3, LoadEffect
<1>4. CASE \E t \in Callers : CallerStep(t)
  BY <1>4, DropEffect, CallReservedEffect, ReserveEffect, UndoEffect, ConfirmEffect, CheckEffect, CallEvsesEffect DEF CallerStep
<1>5. CASE \E id \in Ids : handle_cancel_reservation(id)
  BY <1>5, HandleCancelEffect
<1>6. CASE \E id \in Ids : Expire(id)
  BY <1>6, ExpireEffect
<1>7. CASE TellCancelled
  BY <1>7, TellCancelledEffect
<1>8. CASE take_restored_reservation
  BY <1>8, TakeEffect
<1>9. CASE ReservationExpired
  BY <1>9, ExpiredEffect
<1>10. CASE initialize
  BY <1>10, InitializeEffect
<1>11. CASE \E e \in Evses : apply_restored_reservation(e)
  BY <1>11, ApplyEffect
<1>12. CASE \E e \in Evses : handle_session_event(e)
  BY <1>12, SessionEventEffect
<1>13. CASE \E e \in Evses : \/ PlugIn(e) \/ Unplug(e) \/ DisableEvse(e) \/ EnableEvse(e) \/ MainLoop(e)
                             \/ WithdrawAuthorization(e)
  BY <1>13, UserEffect
<1>14. CASE \E e \in Evses : \E t \in Tokens, parent \in Parents \cup {None} : UseToken(e, t, parent)
  BY <1>14, TokenEffect
<1>15. CASE \E s \in Startups : Restart(s.disabled, s.late)
  BY <1>15, RestartEffect, ReservationAssumption
<1>16. CASE \E e \in Evses : ResumeHandler(e)
  BY <1>16, ResumeEffect
<1>17. CASE \E w \in waiting, waiting_for_pnc \in BOOLEAN : notify_evse(w, waiting_for_pnc)
  BY <1>17, NotifyEffect
<1> QED
  BY <1>1, <1>2, <1>3, <1>4, <1>5, <1>6, <1>7, <1>8, <1>9, <1>10, <1>11, <1>12, <1>13, <1>14, <1>15,
     <1>16, <1>17 DEF Next

\* A step that does nothing.
LEMMA StutterEffect == ASSUME IInv, UNCHANGED vars PROVE Effect
<1>1. TypeOK' /\ CallersOK'
  BY DEF vars, IInv, TypeOK, CallersOK
<1> QED
  BY <1>1, BookAlone DEF vars

\* The inductive invariant holds in every reachable state.
THEOREM Invariance == Spec => []IInv
<1>1. IInv /\ [Next]_vars => IInv'
  <2> SUFFICES ASSUME IInv, [Next]_vars PROVE IInv'
    OBVIOUS
  <2>1. Effect
    BY NextEffect, StutterEffect
  <2> QED
    BY <2>1 DEF Effect, IInv
<1> QED
  BY Initially, <1>1, PTL DEF Spec

\* The variables of the ReservationHandler, of the AuthHandler around it and of
\* the EvseManagers have the types the code declares, whatever the threads do.
THEOREM TypesAlways == Spec => []TypeOK
<1>1. IInv => TypeOK
  BY DEF IInv
<1> QED
  BY Invariance, <1>1, PTL

\* make_reservation and cancel_reservation: every reservation is held once,
\* and exactly the held ones have a timer.
THEOREM HeldOnceAlways == Spec => []HeldOnce
<1>1. IInv => HeldOnce
  BY DEF IInv, Once, HeldOnce
<1> QED
  BY Invariance, <1>1, PTL

\* store_reservations: what is held is in the store at every moment, also while
\* load_reservations is at work.
THEOREM HeldIsStoredAlways == Spec => []HeldIsStored
<1>1. IInv => HeldIsStored
  BY DEF IInv, Stored, HeldIsStored
<1> QED
  BY Invariance, <1>1, PTL

\* A reservation that ends while Auth is running is not in the store any more
\* once that step is done.
THEOREM CancelledIsForgottenAlways == Spec => CancelledIsForgotten
<1>1. ASSUME IInv, [Next]_vars, NEW id \in HeldIds(book) \ HeldIds(book'), loading'.done
      PROVE  id \notin HeldIds(book'.store)
  <2>1. Saved(book, book')
    BY <1>1, NextEffect, StutterEffect DEF Effect
  <2>2. CASE book'.evse = book.evse /\ book'.global = book.global
    BY <1>1, <2>2 DEF HeldIds, Taken
  <2>3. CASE Exact(book')
    <3>1. book'.store.evse = book'.evse /\ book'.store.global = book'.global
      BY <2>3 DEF Exact
    <3> QED
      BY <1>1, <3>1 DEF HeldIds, Taken
  <2> QED
    BY <2>1, <2>2, <2>3 DEF Saved
<1>2. IInv /\ [Next]_vars => [\A id \in HeldIds(book) \ HeldIds(book') :
          loading'.done => id \notin HeldIds(book'.store)]_vars
  BY <1>1
<1> QED
  BY Invariance, <1>2, PTL DEF CancelledIsForgotten, Spec
=============================================================================
