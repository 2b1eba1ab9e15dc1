SPECIFICATION UndisturbedSpec
CONSTANTS
  Thread = {t1, t2}
  Execution = {e1}
  Keyed = {e1}
  User = {owner, manager}
  Requester = {owner}
  Reviewer = {owner, manager}
  Call <- MCCall
  Unsafe <- MCUnsafe
  ToolOf <- MCToolOf
  None = None
INVARIANT AcceptedVerdictRecorded
