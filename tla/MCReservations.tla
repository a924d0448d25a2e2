--------------------------- MODULE MCReservations ---------------------------
(* Instances of Reservations for TLC: an EVSE with a type 2 socket, and    *)
(* one whose connector type is not known.                                  *)
EXTENDS Reservations, TLC

TypeOfEvse == [e \in Evses |-> IF e = 1 THEN "cType2" ELSE "Unknown"]

Ask(id, evse, type, token) == [id |-> id, evse |-> evse, type |-> type, token |-> token, parent |-> None]
Asked == {Ask(1, 1, "cType2", "card"), Ask(1, None, "cType2", "card"), Ask(2, None, "cCCS2", "other"),
          Ask(2, 2, "cCCS2", "other"), Ask(2, None, None, "other")}

SomeStartups == {[disabled |-> {}, late |-> {}], [disabled |-> {1}, late |-> {}], [disabled |-> {2}, late |-> {1}]}

SomeBudgets == {[request |-> 3, other |-> 0, restart |-> 0],
                [request |-> 1, other |-> 3, restart |-> 0],
                [request |-> 2, other |-> 1, restart |-> 1],
                [request |-> 1, other |-> 2, restart |-> 1],
                [request |-> 2, other |-> 0, restart |-> 2],
                [request |-> 1, other |-> 1, restart |-> 2]}
=============================================================================
