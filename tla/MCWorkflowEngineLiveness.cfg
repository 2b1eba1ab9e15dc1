SPECIFICATION CalmSpec
CONSTANTS
  Thread = {t1, t2}
  Execution = {1}
  Keyed = {1}
  User = {owner, manager}
  Requester = {owner}
  Reviewer = {manager}
  Call <- MCCall
  Unsafe <- MCUnsafe
  ToolOf <- MCToolOf
  None = None
  Plan <- MCMailPlan
  Owner = owner
  Engine = "langgraph"
  MaxAttempts = 2
  MaxAdvances = 2
CHECK_DEADLOCK FALSE
PROPERTY EveryCallReturns
