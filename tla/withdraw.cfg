SPECIFICATION Spec
CONSTANTS
  Evses = {1, 2}
  Tokens = {"card", "remote"}
  Parents = {"group", "staff"}
  None = None
  Connectors <- References
  StopTypes = {"card"}
  Prevalidated = {"remote"}
  ProvidedParent <- Brings
  Verdicts <- SomeAnswers
  Configs <- SomeConfigs
  Requests <- SomeRequests
  Threads = {1, 2}
  Budgets <- SomeBudgets
INVARIANT WithdrawnIsRemoved
CHECK_DEADLOCK FALSE
