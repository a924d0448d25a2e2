SPECIFICATION Spec
CONSTANTS
  Evses = {1, 2}
  Ids = {1, 2}
  Types = {"cType2", "cCCS2", "Unknown"}
  ConnectorType <- TypeOfEvse
  Tokens = {"card", "other"}
  Parents = {}
  None = None
  Requests <- Asked
  Startups <- SomeStartups
  PncEvses = {}
  Budgets <- SomeBudgets
INVARIANT UsedReservationEnds
CHECK_DEADLOCK FALSE
