SPECIFICATION GatewaySpec
CONSTANTS
  Thread = {t1, t2}
  Execution = {e1}
  Keyed = {e1}
  User = {owner, manager}
  Requester = {owner}
  Reviewer = {owner, manager}
  Call <- MCCall
  Unsafe <- MCUnsafe
  ToolOf <- MCToolOf
  None = None
SYMMETRY Symmetry
INVARIANTS
  GatewayTypeOK
  GatewayInv
  ApprovedBeforeEffect
  SentOnceAsApproved
  CompletedWasSent
PROPERTIES
  DecisionFinal
  ReceiptFinal
  ImplementsGovernedEffect
