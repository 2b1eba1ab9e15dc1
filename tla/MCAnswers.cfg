SPECIFICATION EvaluationSpec
CONSTANTS
  None = None
  NoEntry = NoEntry
  d1 = d1
  d2 = d2
  c1 = c1
  c2 = c2
  Doc = {d1, d2}
  Caller = {c1, c2}
  Identifier = {c1, c2}
  Provider = {"local", "openai"}
  Text <- MCText
  Settings <- MCSettings
  Policies <- MCPolicies
  FailClosed = TRUE
  Cases = 1
  TopK = 1
  MaxRetries = 1
  Estimate = 1
  MaxCost = 2
  Limits = {0, 1, 2}
  Allowance = 1
  Window = 2
  Horizon = 3
  Capacity = 1
SYMMETRY Symmetric
INVARIANTS
  AdmittedWithinLimit
  AnswersFromVetted
  SpendBounded
  RunsSettle
CHECK_DEADLOCK FALSE
