------------------------------ MODULE MCAnswers ------------------------------
EXTENDS Evaluation, TLC

Nothing == [e \in Event |-> 0]

(* A text for each control, and one for all of them. *)
MCText == {{}, {"active"}, {"secret"}, {"malware", "secret", "injection"}}

Off == [malware |-> "disabled", dlp |-> "disabled"]
Audit == [malware |-> "basic", dlp |-> "audit"]
Block == [malware |-> "clamav", dlp |-> "block"]
MCPolicies == {Off, Audit, Block}

(* A file replaced while it is reindexed, before a question. *)
MCOverlap ==
  [backend : {"memory"}, policy : {Audit}, limit : {0},
   left : {[Nothing EXCEPT !["upload"] = 2, !["reindex"] = 1, !["ask"] = 1]}]

(* Changes of the documents and the policy beside a question, a question      *)
(* that a model answers, spending, the limit on requests, evaluations.      *)
MCSettings ==
  MCOverlap
  \cup
  [backend : {"memory"}, policy : MCPolicies, limit : {0},
   left : {[Nothing EXCEPT !["upload"] = 2, !["policy"] = 1, !["ask"] = 1],
           [Nothing EXCEPT !["upload"] = 1, !["reindex"] = 1, !["policy"] = 1, !["classify"] = 1, !["ask"] = 1]}]
  \cup
  [backend : {"memory"}, policy : {Off}, limit : {1},
   left : {[Nothing EXCEPT !["upload"] = 2, !["classify"] = 1, !["ask"] = 1]}]
  \cup
  [backend : {"memory"}, policy : {Off}, limit : {1, 2},
   left : {[Nothing EXCEPT !["upload"] = 1, !["budget"] = 1, !["forget"] = 1, !["ask"] = 2]}]
  \cup
  [backend : Backend, policy : {Off}, limit : {0},
   left : {[Nothing EXCEPT !["ask"] = 4, !["tick"] = 3, !["restart"] = 1]}]
  \cup
  [backend : {"memory"}, policy : {Audit}, limit : {1},
   left : {[Nothing EXCEPT !["upload"] = 1, !["classify"] = 1, !["evaluate"] = 1, !["restart"] = 1]}]

Symmetric == Permutations(Doc) \cup Permutations(Caller)
=============================================================================
