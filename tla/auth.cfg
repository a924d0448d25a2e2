SPECIFICATION LiveSpec
CONSTANTS
  Evses = {1, 2}
  Tokens = {"card", "remote"}
  Parents = {"group", "staff"}
  None = None
  Connectors <- References
  StopTypes = {"card"}
  Prevalidated = {"remote"}
  ProvidedParent <- Brings
  Verdicts <- SomeAnswers
  Configs <- SomeConfigs
  Requests <- SomeRequests
  Threads = {1, 2}
  Budgets <- SomeBudgets
INVARIANTS TypeOK TransactionIsKnown PlugInsArePending
PROPERTIES GrantIsExclusive TokensAreAnswered WithdrawReturns
CHECK_DEADLOCK FALSE
