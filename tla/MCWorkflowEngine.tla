-------------------------- MODULE MCWorkflowEngine ---------------------------
EXTENDS WorkflowEngine, TLC

MCPlan == <<"task", "mail">>
MCMailPlan == <<"mail">>
MCCall == {"task", "mail"}
MCUnsafe == {}
MCToolOf == [c \in MCCall |-> IF c = "mail" THEN "provider" ELSE "task"]
Symmetry == Permutations(Thread)
=============================================================================
