-------------------------- MODULE MCAuthorization --------------------------
(* Instances of Authorization for TLC: two EVSEs, a card that names no     *)
(* EVSE and is validated, and a prevalidated remote start for EVSE 1 that  *)
(* brings the card's parent along.                                         *)
EXTENDS Authorization, TLC

References == [t \in Tokens |-> IF t = "remote" THEN {1} ELSE {}]
Brings == [t \in Tokens |-> IF t = "remote" THEN "group" ELSE None]

Ok(parent, evses) == [accepted |-> TRUE, parent |-> parent, evses |-> evses]
NotOk == [accepted |-> FALSE, parent |-> None, evses |-> {}]
SomeAnswers == {<<Ok("group", {1, 2})>>, <<NotOk, Ok("staff", {2}), Ok(None, {1})>>}

DefaultConfig == [algorithm |-> "FindFirst", plug_in_timeout_enabled |-> FALSE, prioritize |-> TRUE,
                  stop_on_reswipe |-> TRUE, ignore_faults |-> FALSE, master |-> None]
PlugEventsConfig == [DefaultConfig EXCEPT !.algorithm = "PlugEvents", !.plug_in_timeout_enabled = TRUE]
SomeConfigs == {DefaultConfig,
               [DefaultConfig EXCEPT !.prioritize = FALSE, !.master = "staff", !.stop_on_reswipe = FALSE],
               PlugEventsConfig,
               [DefaultConfig EXCEPT !.algorithm = "PlugEventsLIFO"]}

SomeRequests == {[token |-> "card", evse |-> None], [token |-> None, evse |-> 1]}

\* Two tokens that meet, EVs that come and go, or an EVSE that is disabled and
\* enabled again.
SomeBudgets == {[token |-> 2, plug |-> 1, other |-> 1], [token |-> 1, plug |-> 2, other |-> 1],
                [token |-> 1, plug |-> 1, other |-> 2]}
=============================================================================
