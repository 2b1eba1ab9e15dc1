-------------------------- MODULE MCApprovalGateway --------------------------
EXTENDS ApprovalGateway, TLC

MCCall == {"mail", "flagged_mail", "task", "search"}
MCUnsafe == {"flagged_mail"}
MCToolOf ==
  [c \in MCCall |->
     CASE c \in {"mail", "flagged_mail"} -> "provider"
       [] c = "task" -> "task"
       [] c = "search" -> "query"]
Symmetry == Permutations(Thread)
=============================================================================
