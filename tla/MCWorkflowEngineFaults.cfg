SPECIFICATION WorkflowSpec
CONSTANTS
  Thread = {t1}
  Execution = {1, 2}
  Keyed = {1, 2}
  User = {owner, manager}
  Requester = {owner}
  Reviewer = {manager}
  Call <- MCCall
  Unsafe <- MCUnsafe
  ToolOf <- MCToolOf
  None = None
  Plan <- MCPlan
  Owner = owner
  Engine = "langgraph"
  MaxAttempts = 2
  MaxAdvances = 2
INVARIANTS
  EngineInv
  ActionsInOrder
  AttemptsBounded
PROPERTIES
  UsesGateway
  ImplementsOrderedEffects
