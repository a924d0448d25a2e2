----------------------------- MODULE Reservations -----------------------------
(***************************************************************************)
(* Reservations: the ReservationHandler of the Auth module, the methods of *)
(* AuthHandler around it, and what the EvseManagers keep of a reservation. *)
(*                                                                         *)
(* The threads: a caller of reserve_now and a caller of cancel_reservation *)
(* at a time, a thread that hands restored reservations to the             *)
(* EvseManagers, the timer thread of the ReservationHandler, one thread    *)
(* per token, one handler of session events per EVSE, and the chargers     *)
(* (ChargerSession).  The caller threads and the restoring one hold a      *)
(* mutex only inside the ReservationHandler and call the EvseManagers      *)
(* without it: each of these is a step.  The timer thread holds the mutex  *)
(* of the ReservationHandler all along: one step.  A handler of session    *)
(* events holds event_mutex of AuthHandler but lets go of the              *)
(* ReservationHandler before it calls the EvseManagers: the thread "event" *)
(* is the handler between the two.  The handlers of some events, and the   *)
(* threads of granted tokens, wait for the timeout callback of their EVSE  *)
(* with event_mutex released: they are in `waiting`.  Whether a callback   *)
(* is in progress is left open, so every step of others may come between.  *)
(*                                                                         *)
(* Not modelled: permanent faults (they reach the ReservationHandler as a  *)
(* Disabled connector does), reservation updates sent to OCPP, the answer  *)
(* of a refused request (which kind of refusal), and the rest of           *)
(* handle_token (Authorization).                                           *)
(***************************************************************************)
EXTENDS ChargerSession, ConnectorStateMachine, Integers, FiniteSets

CONSTANTS
    Evses,          \* evse ids
    Ids,            \* reservation ids
    Types,          \* connector types, "Unknown" among them
    ConnectorType,  \* the type of the connector of every EVSE
    Tokens,         \* id tokens
    Parents,        \* parent id tokens
    None,           \* an optional without a value
    Requests,       \* the reservations that may be asked for
    Startups,       \* which EVSEs come up disabled, or report late that they are enabled, after a restart
    PncEvses,       \* the EVSEs that may wait for a Plug&Charge authorization
    Budgets         \* how many requests, other occasions and restarts a behaviour may have

\* A reservation; without an EVSE it is a global one.
Reservation == [id: Ids, evse: Evses \cup {None}, type: Types \cup {None}, token: Tokens,
                parent: Parents \cup {None}]
Callers == {"place", "cancel", "restore", "event"}
Occasions == {"request", "other", "restart"}

ASSUME ReservationAssumption ==
    /\ Evses \subseteq Nat /\ Evses # {} /\ IsFiniteSet(Evses)
    /\ Ids \subseteq Nat
    /\ "Unknown" \in Types
    /\ ConnectorType \in [Evses -> Types]
    /\ None \notin Evses /\ None \notin Ids /\ None \notin Types /\ None \notin Parents
    /\ None \notin Reservation
    /\ Requests \subseteq Reservation
    /\ Tokens # {} /\ None \notin Tokens
    /\ \A s \in Startups : s.disabled \subseteq Evses /\ s.late \subseteq Evses
    /\ PncEvses \subseteq Evses
    /\ Budgets \subseteq [Occasions -> Nat]

VARIABLES
    book,      \* the ReservationHandler: reservations, timers and the store
    expired,   \* the timer callbacks that can no longer be cancelled
    loading,   \* what load_reservations has still to read; history: the ids it has made again for single EVSEs
    restored,  \* per EVSE: restored_reservations
    apply,     \* per EVSE: the restored reservation taken to be applied
    seen,      \* per EVSE: what Auth knows of it
    waiting,   \* the threads that wait for a timeout callback, event_mutex released
    last_reserved_status,
    em,        \* per EVSE: the charger, and what its EvseManager keeps of a reservation
    caller,    \* the threads that call the EvseManagers without a mutex
    budget     \* how many requests, other occasions and restarts may still come

vars == <<book, expired, loading, restored, apply, seen, waiting, last_reserved_status, em, caller, budget>>

Global == -1   \* the reservation id that stands for a global reservation

NoReservations == [e \in Evses |-> None]
Empty == [evse |-> NoReservations, global |-> <<>>]
EmptyBook == [evse |-> NoReservations, global |-> <<>>, timer |-> {}, armed |-> {}, store |-> Empty]

FreshEvse == [state |-> "Idle", plugged |-> FALSE, session |-> FALSE, authorized |-> FALSE,
              transaction |-> FALSE, cancelled |-> FALSE, enabled |-> TRUE,
              disable_requested |-> FALSE, out |-> <<>>, reserved |-> FALSE, reservation_id |-> Global,
              used |-> FALSE]
FreshView == [connector |-> "AVAILABLE", plugged_in |-> FALSE, enabled |-> TRUE]
NoUpdates == [available |-> {}, reserved |-> {}]
IdleCaller == [pc |-> "idle", r |-> None, replaced |-> None, ok |-> FALSE, next |-> "idle",
               updates |-> NoUpdates]

Maps == [Evses -> Reservation \cup {None}]
Events == SessionEvent \cup {"ReservationEnd"}
Steps == {"idle", "make", "drop", "reserve", "set", "undo", "confirm", "cancelled", "check", "send", "take"}

BookType == [evse: Maps, global: Seq(Reservation), timer: SUBSET Ids, armed: SUBSET Ids,
             store: [evse: Maps, global: Seq(Reservation)]]
ViewType == [connector: ConnectorState, plugged_in: BOOLEAN, enabled: BOOLEAN]
EvseManagerType == [state: EvseState, plugged: BOOLEAN, session: BOOLEAN, authorized: BOOLEAN,
                    transaction: BOOLEAN, cancelled: BOOLEAN, enabled: BOOLEAN,
                    disable_requested: BOOLEAN, out: Seq(Events), reserved: BOOLEAN,
                    reservation_id: Ids \cup {Global}, used: BOOLEAN]
CallerType == [pc: Steps, r: Reservation \cup {None}, replaced: Evses \cup {None}, ok: BOOLEAN,
               next: Steps, updates: [available: SUBSET Evses, reserved: SUBSET Evses]]

\* A thread in the wait of notify_evse with a token and the reservation it has
\* used, or, without a token, one in the wait of handle_session_event.
Wait == [evse: Evses, token: Tokens \cup {None}, id: Ids \cup {None}]
HandlerOf(e) == [evse |-> e, token |-> None, id |-> None]

\* Every variable has the type the code gives it.
TypeOK ==
    /\ book \in BookType
    /\ expired \in Seq(Ids)
    /\ loading \in [evse: Maps, global: Seq(Reservation), done: BOOLEAN, again: SUBSET Ids]
    /\ restored \in [Evses -> Ids \cup {None}]
    /\ apply \in [Evses -> Ids \cup {None}]
    /\ seen \in [Evses -> ViewType]
    /\ waiting \in SUBSET Wait
    /\ last_reserved_status \in SUBSET Evses
    /\ em \in [Evses -> EvseManagerType]
    /\ caller \in [Callers -> CallerType]
    /\ budget \in [Occasions -> Nat]

Spend(occasion) ==
    /\ budget[occasion] > 0
    /\ budget' = [budget EXCEPT ![occasion] = @ - 1]

-----------------------------------------------------------------------------
(* Which EVSEs a car with a reservation could use.  v is what Auth knows   *)
(* of the EVSEs, `taken` the EVSEs with a reservation of their own.        *)

has_evse_connector_type(e, type) == type = "Unknown" \/ ConnectorType[e] \in {"Unknown", type}

get_evse_connector_state_reservation_result(v, e, taken) ==
    ~v[e].plugged_in /\ v[e].connector \notin {"OCCUPIED", "FAULTED_OCCUPIED"} /\ e \notin taken

get_connector_availability_reservation_result(v, e, type) ==
    has_evse_connector_type(e, type) /\ v[e].connector = "AVAILABLE"

CanArriveAt(v, e, type, taken) ==
    /\ get_evse_connector_state_reservation_result(v, e, taken)
    /\ get_connector_availability_reservation_result(v, e, type)

\* Where the next car could park, with the EVSEs of `used` occupied by the
\* cars before it.
Places(v, used, type, taken) == {e \in Evses \ used : CanArriveAt(v, e, type, taken)}

\* Mutant: a car need only find one good place.
can_virtual_car_park_well(v, order, taken) ==
    LET arrive[i \in DOMAIN order] ==
          [used \in SUBSET Evses |->
              \E e \in Places(v, used, order[i], taken) : i < Len(order) => arrive[i + 1][used \cup {e}]]
    IN  arrive[1][{}]

\* The cars arrive in this order of connector types: wherever the cars before
\* have parked, the next one finds an EVSE.
can_virtual_car_arrive(v, order, taken) ==
    LET arrive[i \in DOMAIN order] ==
          [used \in SUBSET Evses |->
              /\ Places(v, used, order[i], taken) # {}
              /\ i < Len(order) => \A e \in Places(v, used, order[i], taken) : arrive[i + 1][used \cup {e}]]
    IN  arrive[1][{}]

get_all_possible_orders(types) ==
    {[i \in DOMAIN types |-> types[p[i]]] :
        p \in {q \in [DOMAIN types -> DOMAIN types] : \A i, j \in DOMAIN types : q[i] = q[j] => i = j}}

is_reservation_possible(v, types, taken) ==
    /\ Len(types) + Cardinality(taken) <= Cardinality(Evses)
    /\ types # <<>> => \A order \in get_all_possible_orders(types) : can_virtual_car_arrive(v, order, taken)

TypeOf(r) == IF r.type = None THEN "Unknown" ELSE r.type

\* The types of global reservations; with one more where it has a type.
TypesOf(global) == [i \in DOMAIN global |-> TypeOf(global[i])]
AndAlso(types, type) == IF type = None THEN types ELSE Append(types, type)

Taken(b) == {e \in Evses : b.evse[e] # None}

-----------------------------------------------------------------------------
(* The ReservationHandler.                                                 *)

is_evse_reserved(b, e, id) == b.evse[e] # None /\ b.evse[e].id = id

\* Mutant: an empty list of reservations is not written.
store_reservations_unless_empty(b) ==
    IF b.evse = NoReservations /\ b.global = <<>> THEN b
    ELSE [b EXCEPT !.store = [evse |-> b.evse, global |-> b.global]]

store_reservations(b) == [b EXCEPT !.store = [evse |-> b.evse, global |-> b.global]]

WithoutId(global, id) ==
    LET hits == {i \in DOMAIN global : global[i].id = id}
    IN  IF hits = {} THEN global
        ELSE LET k == CHOOSE i \in hits : \A j \in hits : i <= j
             IN  [i \in 1..(Len(global) - 1) |-> IF i < k THEN global[i] ELSE global[i + 1]]

\* A reservation without a timer is not found.
cancel_reservation(b, id) ==
    LET at == {e \in Evses : is_evse_reserved(b, e, id)}
    IN  IF id \notin b.timer THEN b
        ELSE store_reservations(
               [b EXCEPT !.evse = [e \in Evses |-> IF e \in at THEN None ELSE b.evse[e]],
                         !.global = IF at = {} THEN WithoutId(b.global, id) ELSE b.global,
                         !.timer = @ \ {id}, !.armed = @ \ {id}])

\* Whether r can be made once the reservation it replaces is gone.
Acceptable(b, v, r) ==
    IF r.evse = None
    THEN is_reservation_possible(v, Append(TypesOf(b.global), TypeOf(r)), Taken(b))
    ELSE /\ CanArriveAt(v, r.evse, TypeOf(r), Taken(b))
         /\ b.global # <<>> => is_reservation_possible(v, TypesOf(b.global), Taken(b) \cup {r.evse})

\* Mutant: the reservation with the same id stays.
make_beside(b, v, r, late) ==
    LET ok == ~late /\ Acceptable(b, v, r)
        added == IF r.evse = None THEN [b EXCEPT !.global = Append(@, r)] ELSE [b EXCEPT !.evse[r.evse] = r]
    IN  [ok |-> ok,
         book |-> IF ok THEN store_reservations([added EXCEPT !.timer = @ \cup {r.id}, !.armed = @ \cup {r.id}])
                  ELSE b]

\* Mutant: an accepted reservation is not written to the store.
make_unstored(b, v, r, late) ==
    LET made == make_beside(cancel_reservation(b, r.id), v, r, late)
    IN  [made EXCEPT !.book.store = b.store]

\* `late`: the reservation has already expired.  An existing reservation with
\* the same id goes first, even if the new one is then refused.
make_reservation(b, v, r, late) ==
    LET c == cancel_reservation(b, r.id)
        ok == ~late /\ Acceptable(c, v, r)
        added == IF r.evse = None THEN [c EXCEPT !.global = Append(@, r)] ELSE [c EXCEPT !.evse[r.evse] = r]
    IN  [ok |-> ok,
         book |-> IF ok THEN store_reservations([added EXCEPT !.timer = @ \cup {r.id}, !.armed = @ \cup {r.id}])
                  ELSE IF late THEN b ELSE c]

is_charging_possible(b, v, e) ==
    /\ b.evse[e] = None
    /\ is_reservation_possible(v, TypesOf(b.global), Taken(b) \cup {e})

\* The reservation id token t with this parent may use at e, as a set: the one
\* of the EVSE, or else the first global one that matches.
matches_reserved_identifier(b, t, e, parent) ==
    LET matches(r) == r.token = t \/ (parent # None /\ r.parent = parent)
        hits == {i \in DOMAIN b.global : matches(b.global[i])}
    IN  IF b.evse[e] # None THEN {r.id : r \in {x \in {b.evse[e]} : matches(x)}}
        ELSE {b.global[i].id : i \in {i \in hits : \A j \in hits : i <= j}}

\* Which EVSEs the global reservations leave no choice about: the EvseManagers
\* to tell so, the ones to tell that this is over, and the new status.
check_number_global_reservations_match_number_available_evses(b, v, last) ==
    LET available == {e \in Evses : CanArriveAt(v, e, "Unknown", Taken(b))}
        scarce == {i \in DOMAIN b.global :
                     ~is_reservation_possible(v, AndAlso(TypesOf(b.global), b.global[i].type), Taken(b))}
        needed == IF Cardinality(available) = Len(b.global) THEN available
                  ELSE {e \in available : \E i \in scarce : has_evse_connector_type(e, TypeOf(b.global[i]))}
    IN  [available |-> (available \ needed) \cap last, reserved |-> needed \ last, status |-> needed]

-----------------------------------------------------------------------------
(* The EvseManager.  `used` is history: a token has used the reservation,  *)
(* that is, Auth has consumed it for a token.                              *)

\* What reserve checks and sets under reservation_mutex, the charger being idle.
MayReserve(c, id) == ~c.reserved \/ c.reservation_id \in {Global, id}

set_reserved(c, id) ==
    IF ~MayReserve(c, id) THEN c
    ELSE [c EXCEPT !.reserved = TRUE, !.reservation_id = IF id = Global THEN @ ELSE id,
                   !.used = IF id = Global THEN @ ELSE FALSE]

\* reserve for a global reservation: only `reserved` is set, and whether the
\* charger has left Idle between the check and that makes no difference to what
\* Auth and the EvseManager know of single reservations.
reserve_global(c) == IF c.state = "Idle" THEN set_reserved(c, Global) ELSE c

use_reservation(c, id) ==
    IF c.state = "Disabled" THEN c ELSE [c EXCEPT !.reserved = TRUE, !.reservation_id = id, !.used = TRUE]

\* Mutant: the reservation id is reset to 0.
EndReservationZero(c, signal_event) ==
    IF ~c.reserved THEN c
    ELSE LET d == [c EXCEPT !.reserved = FALSE, !.reservation_id = 0, !.used = FALSE]
         IN  IF signal_event THEN Signal(d, "ReservationEnd") ELSE d

EndReservation(c, signal_event) ==
    IF ~c.reserved THEN c
    ELSE LET d == [c EXCEPT !.reserved = FALSE, !.reservation_id = Global, !.used = FALSE]
         IN  IF signal_event THEN Signal(d, "ReservationEnd") ELSE d

\* What follows from publishing that the transaction has started or that the
\* EVSE is disabled.
Published(c, d) ==
    IF ~c.transaction /\ d.transaction THEN EndReservation(d, FALSE)
    ELSE IF c.state # "Disabled" /\ d.state = "Disabled" THEN EndReservation(d, TRUE)
    ELSE d

\* authorize_response with the reservation `id` if it is given one.  An EVSE
\* that waits for a Plug&Charge authorization ignores any other.
authorize_response(c, id, waiting_for_pnc) ==
    LET u == IF id = None THEN c ELSE use_reservation(c, id)
    IN  IF waiting_for_pnc THEN c
        ELSE IF Refuses(u) /\ id # None THEN EndReservation(u, TRUE)
        ELSE authorize(u)

withdraw_authorization(c) == deauthorize(IF c.authorized /\ c.reserved THEN EndReservation(c, TRUE) ELSE c)

-----------------------------------------------------------------------------
(* What Auth does with a mutex held, as operators on w: the book, the      *)
(* EvseManagers and last_reserved_status.                                  *)

World == [book |-> book, em |-> em, last |-> last_reserved_status]

Become(w) == book' = w.book /\ em' = w.em /\ last_reserved_status' = w.last

SendUpdates(m, u) ==
    [e \in Evses |-> IF e \in u.available THEN EndReservation(m[e], TRUE)
                     ELSE IF e \in u.reserved THEN reserve_global(m[e])
                     ELSE m[e]]

check_evse_reserved_and_send_updates(w, v) ==
    LET u == check_number_global_reservations_match_number_available_evses(w.book, v, w.last)
    IN  [w EXCEPT !.em = SendUpdates(@, u), !.last = u.status]

\* call_reservation_cancelled for a reservation that was at the EVSEs `at`.
call_reservation_cancelled(w, v, at) ==
    check_evse_reserved_and_send_updates(
        [w EXCEPT !.em = [e \in Evses |-> IF e \in at THEN EndReservation(@[e], TRUE) ELSE @[e]]], v)

\* cancel_reservation with its callback.
CancelAndTell(w, v, id) ==
    IF id \notin w.book.timer THEN w
    ELSE call_reservation_cancelled([w EXCEPT !.book = cancel_reservation(@, id)], v,
                                    {e \in Evses : is_evse_reserved(w.book, e, id)})

\* Mutant: no check after a connector is lost.
keep_reservations(w, v) == w

\* Which of the first global reservations can be honoured, for every number of
\* them: one that has a type is only kept if it and the ones kept before it are
\* possible, one that has none if the ones kept before it are.
Kept(global, v, taken) ==
    LET kept[i \in 0..Len(global)] ==
          IF i = 0 THEN <<>>
          ELSE IF is_reservation_possible(v, AndAlso(TypesOf(kept[i - 1]), global[i].type), taken)
          THEN Append(kept[i - 1], global[i])
          ELSE kept[i - 1]
    IN  kept

\* Global reservations that can no longer all be honoured go, the older ones
\* are kept first.  The loop over the reservations of single EVSEs only counts them and
\* cancels none.
check_reservations_and_cancel_if_not_possible(w, v) ==
    LET global == w.book.global
        kept == Kept(global, v, Taken(w.book))
        after[i \in 0..Len(global)] ==
          IF i = 0 THEN w
          ELSE IF kept[i] # kept[i - 1] THEN after[i - 1]
          ELSE CancelAndTell(after[i - 1], v, global[i].id)
    IN  after[Len(global)]

on_connector_state_changed(w, v, e) ==
    LET r == w.book.evse[e]
    IN  IF v[e].connector = "AVAILABLE" THEN w
        ELSE IF /\ r # None
                /\ r.type # None
                /\ has_evse_connector_type(e, r.type)
        THEN CancelAndTell(w, v, r.id)
        ELSE check_reservations_and_cancel_if_not_possible(w, v)

-----------------------------------------------------------------------------
(* reserve_now, cancel_reservation and restored reservations: threads that *)
(* call the EvseManagers without a mutex.                                  *)

Running == loading.done

\* event_mutex of AuthHandler is free.
Unlocked == Running /\ caller["event"].pc = "idle"

SetCaller(t, c) == caller' = [caller EXCEPT ![t] = c]

\* place_reservation looks up the EVSE of the reservation that is replaced.
place_reservation(r) ==
    LET at == {e \in Evses : is_evse_reserved(book, e, r.id)}
    IN  /\ Running /\ caller["place"].pc = "idle"
        /\ Spend("request")
        /\ \E e \in IF at = {} THEN {None} ELSE at :
              SetCaller("place", [IdleCaller EXCEPT !.pc = "make", !.r = r, !.replaced = e])
        /\ UNCHANGED <<book, expired, loading, restored, apply, seen, waiting, last_reserved_status, em>>

\* handle_reservation.
handle_reservation(late) ==
    LET c == caller["place"]
        made == make_reservation(book, seen, c.r, late)
    IN  /\ Unlocked /\ c.pc = "make"
        /\ book' = made.book
        /\ SetCaller("place", [c EXCEPT !.pc = "drop", !.ok = made.ok])
        /\ UNCHANGED <<expired, loading, restored, apply, seen, waiting, last_reserved_status, em, budget>>

\* cancel_replaced_if_dropped, and what comes after it.  A restored reservation
\* that has been taken back is reported in any case.
cancel_replaced_if_dropped(t) ==
    LET c == caller[t]
        next == IF c.ok THEN "reserve" ELSE "idle"
        dropped == /\ c.replaced # None
                   /\ t = "restore" \/ (c.replaced # None => ~is_evse_reserved(book, c.replaced, c.r.id))
    IN  /\ c.pc = "drop"
        /\ \/ /\ dropped
              /\ em' = [em EXCEPT ![c.replaced] = EndReservation(@, TRUE)]
              /\ SetCaller(t, [c EXCEPT !.pc = "check", !.next = next, !.replaced = None])
           \/ /\ ~dropped
              /\ SetCaller(t, IF c.ok THEN [c EXCEPT !.pc = next] ELSE IdleCaller)
              /\ UNCHANGED em
        /\ UNCHANGED <<book, expired, loading, restored, apply, seen, waiting, last_reserved_status, budget>>

\* call_reserved: the EvseManager is only called for a reservation of an EVSE,
\* and looks first whether its charger is idle.
call_reserved(t) ==
    LET c == caller[t]
    IN  /\ c.pc = "reserve"
        /\ \/ /\ c.r.evse = None
              /\ SetCaller(t, [c EXCEPT !.pc = "check", !.next = "confirm"])
           \/ /\ c.r.evse # None
              /\ SetCaller(t, [c EXCEPT !.pc = IF em[c.r.evse].state = "Idle" THEN "set" ELSE "undo"])
        /\ UNCHANGED <<book, expired, loading, restored, apply, seen, waiting, last_reserved_status, em, budget>>

\* The rest of reserve, under reservation_mutex, up to its answer.
reserve(t) ==
    LET c == caller[t]
        refused == ~MayReserve(em[c.r.evse], c.r.id)
    IN  /\ c.pc = "set"
        /\ em' = [em EXCEPT ![c.r.evse] = set_reserved(@, c.r.id)]
        /\ SetCaller(t, IF refused THEN [c EXCEPT !.pc = "undo"] ELSE [c EXCEPT !.pc = "check", !.next = "confirm"])
        /\ UNCHANGED <<book, expired, loading, restored, apply, seen, waiting, last_reserved_status, budget>>

\* Mutant: a reservation the EvseManager has refused is kept.
UndoNothing(t) ==
    LET c == caller[t]
    IN  /\ Unlocked /\ c.pc = "undo"
        /\ SetCaller(t, [c EXCEPT !.pc = "drop", !.ok = FALSE])
        /\ UNCHANGED <<book, expired, loading, restored, apply, seen, waiting, last_reserved_status, em, budget>>

\* The EvseManager has refused: handle_cancel_reservation.  A restored
\* reservation is then reported as cancelled, unless it was gone.
Undo(t) ==
    LET c == caller[t]
    IN  /\ Unlocked /\ c.pc = "undo"
        /\ book' = cancel_reservation(book, c.r.id)
        /\ SetCaller(t, [c EXCEPT !.pc = "drop", !.ok = FALSE,
                                  !.replaced = IF t # "restore" THEN @
                                               ELSE IF c.r.id \in book.timer THEN c.r.evse
                                               ELSE None])
        /\ UNCHANGED <<expired, loading, restored, apply, seen, waiting, last_reserved_status, em, budget>>

\* Mutant: a reservation that has ended meanwhile is not looked for.
ConfirmBlindly(t) ==
    /\ caller[t].pc = "confirm"
    /\ SetCaller(t, IdleCaller)
    /\ UNCHANGED <<book, expired, loading, restored, apply, seen, waiting, last_reserved_status, em, budget>>

\* The reservation may have ended while the EvseManager was called.
Confirm(t) ==
    LET c == caller[t]
        e == c.r.evse
        gone == e # None /\ (e # None => ~is_evse_reserved(book, e, c.r.id))
    IN  /\ c.pc = "confirm"
        /\ em' = IF gone THEN [em EXCEPT ![e] = EndReservation(@, TRUE)] ELSE em
        /\ SetCaller(t, IdleCaller)
        /\ UNCHANGED <<book, expired, loading, restored, apply, seen, waiting, last_reserved_status, budget>>

\* The cancel_reservation command.
handle_cancel_reservation(id) ==
    LET at == {e \in Evses : is_evse_reserved(book, e, id)}
    IN  /\ Unlocked /\ caller["cancel"].pc = "idle"
        /\ Spend("request")
        /\ id \in book.timer
        /\ book' = cancel_reservation(book, id)
        /\ \E e \in IF at = {} THEN {None} ELSE at :
              SetCaller("cancel", [IdleCaller EXCEPT !.pc = "cancelled", !.replaced = e])
        /\ UNCHANGED <<expired, loading, restored, apply, seen, waiting, last_reserved_status, em>>

\* It tells the EvseManager.
TellCancelled ==
    LET c == caller["cancel"]
    IN  /\ c.pc = "cancelled"
        /\ em' = IF c.replaced = None THEN em ELSE [em EXCEPT ![c.replaced] = EndReservation(@, TRUE)]
        /\ SetCaller("cancel", [c EXCEPT !.pc = "check", !.replaced = None])
        /\ UNCHANGED <<book, expired, loading, restored, apply, seen, waiting, last_reserved_status, budget>>

\* check_evse_reserved_and_send_updates without a mutex around it: the status
\* is computed, then the EvseManagers are called.
CheckReserved(t) ==
    LET u == check_number_global_reservations_match_number_available_evses(book, seen, last_reserved_status)
    IN  /\ caller[t].pc = "check"
        /\ last_reserved_status' = u.status
        /\ SetCaller(t, [caller[t] EXCEPT !.pc = "send",
                            !.updates = [available |-> u.available, reserved |-> u.reserved]])
        /\ UNCHANGED <<book, expired, loading, restored, apply, seen, waiting, em, budget>>

CallEvses(t) ==
    LET c == caller[t]
    IN  /\ c.pc = "send"
        /\ em' = SendUpdates(em, c.updates)
        /\ SetCaller(t, IF c.next = "idle" THEN IdleCaller
                        ELSE [c EXCEPT !.pc = c.next, !.next = "idle", !.updates = NoUpdates])
        /\ UNCHANGED <<book, expired, loading, restored, apply, seen, waiting, last_reserved_status, budget>>

\* take_restored_reservation, for the EVSE that was enabled or, at the end of
\* initialize, for the enabled EVSEs.
take_restored_reservation ==
    LET c == caller["event"]
        S == IF c.replaced = None THEN {e \in Evses : seen[e].enabled} ELSE {c.replaced}
    IN  /\ c.pc = "take"
        /\ apply' = [e \in Evses |-> IF e \in S /\ restored[e] # None /\ is_evse_reserved(book, e, restored[e])
                                     THEN restored[e]
                                     ELSE apply[e]]
        /\ restored' = [e \in Evses |-> IF e \in S THEN None ELSE restored[e]]
        /\ SetCaller("event", IdleCaller)
        /\ UNCHANGED <<book, expired, loading, seen, waiting, last_reserved_status, em, budget>>

\* apply_restored_reservation.
apply_restored_reservation(e) ==
    /\ Running /\ caller["restore"].pc = "idle"
    /\ apply[e] # None
    /\ apply' = [apply EXCEPT ![e] = None]
    /\ SetCaller("restore", [IdleCaller EXCEPT !.pc = "reserve",
                                !.r = [id |-> apply[e], evse |-> e, type |-> None,
                                       token |-> CHOOSE t \in Tokens : TRUE, parent |-> None]])
    /\ UNCHANGED <<book, expired, loading, restored, seen, waiting, last_reserved_status, em, budget>>

-----------------------------------------------------------------------------
(* Timers.  Stopping a timer does not reach a callback that is queued.     *)

Expire(id) ==
    /\ id \in book.armed
    /\ book' = [book EXCEPT !.armed = @ \ {id}]
    /\ expired' = Append(expired, id)
    /\ UNCHANGED <<loading, restored, apply, seen, waiting, last_reserved_status, em, caller, budget>>

\* The callback set_reservation_timer installed.
ReservationExpired ==
    /\ Running
    /\ expired # <<>>
    /\ expired' = Tail(expired)
    /\ Become(CancelAndTell(World, seen, Head(expired)))
    /\ UNCHANGED <<loading, restored, apply, seen, waiting, caller, budget>>

-----------------------------------------------------------------------------
(* handle_session_event.                                                   *)

\* What Auth knows of an EVSE after an event.
View(s, event) ==
    CASE event = "SessionStarted" -> [s EXCEPT !.plugged_in = TRUE]
      [] event = "TransactionStarted" ->
           [s EXCEPT !.plugged_in = TRUE, !.connector = handle_event(@, "TRANSACTION_STARTED")]
      [] event = "SessionFinished" ->
           [s EXCEPT !.plugged_in = FALSE, !.connector = handle_event(@, "SESSION_FINISHED")]
      [] event = "Disabled" -> [s EXCEPT !.connector = handle_event(@, "DISABLE"), !.enabled = FALSE]
      [] event = "Enabled" -> [s EXCEPT !.connector = handle_event(@, "ENABLE"), !.enabled = TRUE]
      [] event \in {"TransactionFinished", "Deauthorized", "ReservationEnd"} -> s

\* Up to the end of the switch; the handlers of TransactionStarted and of
\* SessionFinished end it with a wait.
handle_session_event(e) ==
    LET event == Head(em[e].out)
        v == [seen EXCEPT ![e] = View(@, event)]
        w == [World EXCEPT !.em[e].out = Tail(@)]
        waits == event \in {"TransactionStarted", "SessionFinished"}
        check_reservations == event \in {"Disabled", "Enabled"}
    IN  /\ Unlocked /\ HandlerOf(e) \notin waiting
        /\ em[e].out # <<>>
        /\ seen' = v
        /\ waiting' = IF waits THEN waiting \cup {HandlerOf(e)} ELSE waiting
        /\ Become(IF waits \/ check_reservations THEN on_connector_state_changed(w, v, e)
                  ELSE IF event = "ReservationEnd" /\ book.evse[e] # None
                  THEN CancelAndTell(w, v, book.evse[e].id)
                  ELSE w)
        /\ SetCaller("event", IF check_reservations
                              THEN [IdleCaller EXCEPT !.pc = "check", !.next = IF event = "Enabled" THEN "take" ELSE "idle",
                                                      !.replaced = e]
                              ELSE IdleCaller)
        /\ UNCHANGED <<expired, loading, restored, apply, budget>>

\* The handler goes on after its wait.
ResumeHandler(e) ==
    /\ Unlocked /\ HandlerOf(e) \in waiting
    /\ waiting' = waiting \ {HandlerOf(e)}
    /\ SetCaller("event", [IdleCaller EXCEPT !.pc = "check", !.replaced = e])
    /\ UNCHANGED <<book, expired, loading, restored, apply, seen, last_reserved_status, em, budget>>

-----------------------------------------------------------------------------
(* The EVSEs and their users.                                              *)

EvseChange(e, d) ==
    /\ em' = [em EXCEPT ![e] = Published(@, d)]
    /\ UNCHANGED <<book, expired, loading, restored, apply, seen, waiting, last_reserved_status, caller>>

PlugIn(e) == em[e].state = "Idle" /\ Spend("other") /\ EvseChange(e, CarPluggedIn(em[e]))

Unplug(e) == em[e].plugged /\ Spend("other") /\ EvseChange(e, CarUnplugged(em[e]))

DisableEvse(e) == em[e].enabled /\ Spend("other") /\ EvseChange(e, Disable(em[e]))

EnableEvse(e) == em[e].state = "Disabled" /\ Spend("other") /\ EvseChange(e, Enable(em[e]))

MainLoop(e) ==
    /\ \/ MayStart(em[e]) /\ EvseChange(e, StartCharging(em[e], "Charging"))
       \/ MustStop(em[e]) /\ EvseChange(e, Finish(em[e]))
    /\ UNCHANGED budget

\* The part of handle_token about reservations, for an EVSE that has been
\* selected for an accepted token, up to the wait in notify_evse; one that is
\* authorized is not selected.  on_reservation_used ends the reservation at Auth.
UseToken(e, t, parent) ==
    LET ids == matches_reserved_identifier(book, t, e, parent)
    IN  /\ Unlocked /\ Spend("other")
        /\ \A w \in waiting : w.token # t
        /\ seen[e].connector = "AVAILABLE" /\ ~em[e].authorized
        /\ ids # {} \/ is_charging_possible(book, seen, e)
        /\ \E id \in IF ids = {} THEN {None} ELSE ids :
              /\ book' = IF id = None THEN book ELSE cancel_reservation(book, id)
              /\ em' = [em EXCEPT ![e].used = @ \/ (em[e].reserved /\ em[e].reservation_id = id)]
              /\ waiting' = waiting \cup {[evse |-> e, token |-> t, id |-> id]}
        /\ UNCHANGED <<expired, loading, restored, apply, seen, last_reserved_status, caller>>

\* notify_evse after its wait: the EvseManager is told.
notify_evse(w, waiting_for_pnc) ==
    /\ Unlocked /\ w.token # None
    /\ waiting_for_pnc => w.evse \in PncEvses /\ em[w.evse].plugged
    /\ waiting' = waiting \ {w}
    /\ em' = [em EXCEPT ![w.evse] = authorize_response(@, w.id, waiting_for_pnc)]
    /\ UNCHANGED <<book, expired, loading, restored, apply, seen, last_reserved_status, caller, budget>>

\* The authorization is withdrawn, after connection_timeout for example.
WithdrawAuthorization(e) ==
    /\ Unlocked /\ em[e].authorized /\ ~em[e].transaction
    /\ Spend("other")
    /\ EvseChange(e, withdraw_authorization(em[e]))

-----------------------------------------------------------------------------
(* Restart.  Everything but the store is lost; load_reservations goes      *)
(* through the stored reservations and writes the store for each one.      *)

Restart(disabled, late) ==
    /\ Spend("restart")
    /\ book' = [EmptyBook EXCEPT !.store = book.store]
    /\ loading' = [evse |-> book.store.evse, global |-> book.store.global, done |-> FALSE,
                   again |-> {}]
    /\ expired' = <<>> /\ waiting' = {}
    /\ restored' = [e \in Evses |-> None] /\ apply' = [e \in Evses |-> None]
    /\ last_reserved_status' = {}
    /\ caller' = [t \in Callers |-> IdleCaller]
    \* Auth handles the Enabled and Disabled events that came before it was
    \* ready; the EVSEs of `late` report theirs afterwards.
    /\ em' = [e \in Evses |->
                 IF e \in disabled
                 THEN [FreshEvse EXCEPT !.state = "Disabled", !.enabled = FALSE, !.disable_requested = TRUE]
                 ELSE [FreshEvse EXCEPT !.out = IF e \in late THEN <<"Enabled">> ELSE <<>>]]
    /\ seen' = [e \in Evses |->
                   [FreshView EXCEPT !.connector = IF e \in disabled THEN "UNAVAILABLE" ELSE @,
                                     !.enabled = e \notin disabled \cup late]]

\* One round of the loop of load_reservations.
load_reservations(late) ==
    LET first == {e \in Evses : loading.evse[e] # None /\ \A f \in Evses : loading.evse[f] # None => e <= f}
    IN  /\ ~loading.done
        /\ \E r \in IF first # {} THEN {loading.evse[e] : e \in first}
                    ELSE {loading.global[i] : i \in DOMAIN loading.global \cap {1}} :
              LET made == make_reservation(book, seen, r, late)
                  w == [World EXCEPT !.book = made.book]
              IN  /\ Become(IF made.ok THEN w
                            ELSE call_reservation_cancelled(w, seen, Evses \cap {r.evse}))
                  /\ restored' = IF made.ok /\ r.evse # None THEN [restored EXCEPT ![r.evse] = r.id] ELSE restored
        /\ loading' = IF first # {} THEN [loading EXCEPT !.evse = [e \in Evses |-> IF e \in first THEN None ELSE @[e]]]
                      ELSE [loading EXCEPT !.global = Tail(@)]
        /\ UNCHANGED <<expired, apply, seen, waiting, caller, budget>>

\* initialize, once load_reservations has returned.
initialize ==
    /\ ~loading.done
    /\ loading.evse = NoReservations /\ loading.global = <<>>
    /\ loading' = [loading EXCEPT !.done = TRUE, !.again = Ids \cap {restored[e] : e \in Evses}]
    /\ SetCaller("event", [IdleCaller EXCEPT !.pc = "check", !.next = "take"])
    /\ UNCHANGED <<book, expired, restored, apply, seen, waiting, last_reserved_status, em, budget>>

-----------------------------------------------------------------------------
Init ==
    /\ book = EmptyBook
    /\ expired = <<>>
    /\ loading = [evse |-> NoReservations, global |-> <<>>, done |-> TRUE, again |-> {}]
    /\ restored = [e \in Evses |-> None]
    /\ apply = [e \in Evses |-> None]
    /\ seen = [e \in Evses |-> FreshView]
    /\ waiting = {}
    /\ last_reserved_status = {}
    /\ em = [e \in Evses |-> FreshEvse]
    /\ caller = [t \in Callers |-> IdleCaller]
    /\ budget \in Budgets

CallerStep(t) ==
    \/ cancel_replaced_if_dropped(t)
    \/ call_reserved(t)
    \/ reserve(t)
    \/ Undo(t)
    \/ Confirm(t)
    \/ CheckReserved(t)
    \/ CallEvses(t)

Next ==
    \/ \E r \in Requests : place_reservation(r)
    \/ \E late \in BOOLEAN : handle_reservation(late) \/ load_reservations(late)
    \/ \E t \in Callers : CallerStep(t)
    \/ \E id \in Ids : handle_cancel_reservation(id) \/ Expire(id)
    \/ TellCancelled
    \/ take_restored_reservation
    \/ ReservationExpired
    \/ initialize
    \/ \E e \in Evses : \/ apply_restored_reservation(e) \/ handle_session_event(e) \/ ResumeHandler(e)
                        \/ PlugIn(e) \/ Unplug(e) \/ DisableEvse(e) \/ EnableEvse(e) \/ MainLoop(e)
                        \/ WithdrawAuthorization(e)
                        \/ \E t \in Tokens, parent \in Parents \cup {None} : UseToken(e, t, parent)
    \/ \E w \in waiting, waiting_for_pnc \in BOOLEAN : notify_evse(w, waiting_for_pnc)
    \/ \E s \in Startups : Restart(s.disabled, s.late)

Spec == Init /\ [][Next]_vars

-----------------------------------------------------------------------------
(* Properties.                                                             *)

HeldIds(b) == {b.evse[e].id : e \in Taken(b)} \cup {b.global[i].id : i \in DOMAIN b.global}

\* ReservationHandler: the reservations in evse_reservations and in
\* global_reservations have distinct ids, and exactly the held ones have a
\* timer.  cancel_reservation goes by the timer: one without it could never be
\* cancelled, a timer without a reservation would end a later one with its id.
HeldOnce ==
    /\ book.timer = HeldIds(book)
    /\ \A e, f \in Taken(book) : book.evse[e].id = book.evse[f].id => e = f
    /\ \A i, j \in DOMAIN book.global : book.global[i].id = book.global[j].id => i = j
    /\ \A e \in Taken(book), i \in DOMAIN book.global : book.evse[e].id # book.global[i].id

\* load_reservations: what is held is in the store at every moment, also
\* between two rounds of the loop that makes the stored reservations again, so
\* that a crash loses none of the reservations that have been accepted in this
\* life.
HeldIsStored ==
    /\ \A e \in Taken(book) : book.store.evse[e] = book.evse[e]
    /\ \A i \in DOMAIN book.global : \E j \in DOMAIN book.store.global : book.store.global[j] = book.global[i]

\* store_reservations: a reservation that ends, the last one too, is not in
\* the store any more once that step is done; a restart does not bring it back.
CancelledIsForgotten ==
    [][\A id \in HeldIds(book) \ HeldIds(book') :
          loading'.done => id \notin HeldIds(book'.store)]_vars

\* check_reservations_and_cancel_if_not_possible: after every event of a
\* connector, the cars of all global reservations that are kept could still
\* arrive, in any order and wherever they park.  A car that is plugged in but
\* has not started its transaction is not looked at until it does, and a
\* reservation without a connector type is not counted when the code decides
\* about it, so that one too many is kept.
GlobalsCanBeHonoured ==
    (/\ Running
     /\ \A e \in Evses : seen[e].plugged_in => seen[e].connector = "OCCUPIED"
     /\ \A i \in DOMAIN book.global : book.global[i].type # None)
    => is_reservation_possible(seen, TypesOf(book.global), Taken(book))

\* What is_reservation_possible is for, without its recursion: however some of
\* the cars have parked, every other one finds an EVSE.
Extendable(v, types, taken) ==
    \A S \in SUBSET DOMAIN types : \A at \in [S -> Evses] :
        /\ \A i \in S : CanArriveAt(v, at[i], types[i], taken)
        /\ \A i, j \in S : at[i] = at[j] => i = j
        => \A i \in DOMAIN types \ S :
              \E e \in Evses : CanArriveAt(v, e, types[i], taken) /\ \A j \in S : at[j] # e

\* can_virtual_car_arrive and get_all_possible_orders: the answer to whether
\* one more global reservation is possible is the one of Extendable.
PossibleIsExtendable ==
    \A type \in Types :
        LET types == Append(TypesOf(book.global), type)
        IN  is_reservation_possible(seen, types, Taken(book)) <=> Extendable(seen, types, Taken(book))

\* No thread is under way, no event or restored reservation is waiting.
Quiet == /\ Running /\ waiting = {}
         /\ \A t \in Callers : caller[t].pc = "idle"
         /\ \A e \in Evses : em[e].out = <<>> /\ apply[e] = None /\ restored[e] = None

\* place_reservation, apply_restored_reservation: whatever expires, is
\* cancelled, plugged in, disabled or restarted while the EvseManager is called
\* without a mutex, in the end it is reserved for the reservation Auth holds for
\* its EVSE, or for one a token has used there: a token that used a global
\* reservation and waited in notify_evse while this one was placed overwrites its
\* id, and ends both in the end.  One without a connector type is left out:
\* on_connector_state_changed does not find it when the transaction starts that
\* ended it at the EvseManager.
HeldIsReserved ==
    Quiet => \A e \in Evses :
        book.evse[e] # None /\ book.evse[e].type # None
        => em[e].reserved /\ (em[e].reservation_id = book.evse[e].id \/ em[e].used)

\* The other way round: in the end the EvseManager is not left reserved for a
\* reservation that Auth does not hold and that it has not consumed for a token;
\* nobody would ever end that one.  The reservations of EVSEs that
\* load_reservations has made again in this life are left out: for them
\* place_reservation and apply_restored_reservation can meet so that this fails.
ReservedIsHeld ==
    Quiet => \A e \in Evses :
        /\ em[e].reserved /\ em[e].reservation_id # Global
        /\ ~em[e].used /\ em[e].reservation_id \notin loading.again
        => is_evse_reserved(book, e, em[e].reservation_id)

\* handle_authorize_response, handle_withdraw_authorization: a reservation that
\* a token has used ends with the authorization it was used for.
UsedReservationEnds ==
    Quiet => \A e \in Evses : em[e].used => em[e].authorized

===============================================================================
