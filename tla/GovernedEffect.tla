--------------------------- MODULE GovernedEffect ----------------------------
(***************************************************************************)
(* What the approval gateway promises of a call to an outside provider: an *)
(* effect happens at most once, on the content that a reviewer other than  *)
(* its owner approved, under a claim taken beforehand, and it is recorded  *)
(* as completed only if it has happened.                                   *)
(***************************************************************************)
EXTENDS Sequences

CONSTANTS Execution, User, Reviewer, Call, None

VARIABLES
  owner,     \* who asked for the effect
  decision,  \* "absent", "pending", "approved" or "rejected"
  reviewer,  \* who decided
  content,   \* what the decision is about
  claim,     \* "absent", "running", "completed" or "failed"
  done       \* the effects that have happened, in order

vars == <<owner, decision, reviewer, content, claim, done>>

Init ==
  /\ owner = [e \in Execution |-> None]
  /\ decision = [e \in Execution |-> "absent"]
  /\ reviewer = [e \in Execution |-> None]
  /\ content = [e \in Execution |-> None]
  /\ claim = [e \in Execution |-> "absent"]
  /\ done = [e \in Execution |-> <<>>]

(* Someone asks for an effect. *)
Ask(e, u) ==
  /\ owner[e] = None
  /\ owner' = [owner EXCEPT ![e] = u]
  /\ UNCHANGED <<decision, reviewer, content, claim, done>>

(* The content is submitted for approval. *)
Submit(e, c) ==
  /\ decision[e] = "absent"
  /\ decision' = [decision EXCEPT ![e] = "pending"]
  /\ content' = [content EXCEPT ![e] = c]
  /\ UNCHANGED <<owner, reviewer, claim, done>>

(* A reviewer decides, never on an effect of his own; an owner withdraws. *)
Decide(e, u, d) ==
  /\ decision[e] = "pending"
  /\ d = "approved" => u \in Reviewer /\ u # owner[e]
  /\ decision' = [decision EXCEPT ![e] = d]
  /\ reviewer' = [reviewer EXCEPT ![e] = u]
  /\ UNCHANGED <<owner, content, claim, done>>

Claim(e) ==
  /\ decision[e] = "approved"
  /\ claim[e] = "absent"
  /\ claim' = [claim EXCEPT ![e] = "running"]
  /\ UNCHANGED <<owner, decision, reviewer, content, done>>

Perform(e) ==
  /\ claim[e] = "running"
  /\ done[e] = <<>>
  /\ done' = [done EXCEPT ![e] = <<content[e]>>]
  /\ UNCHANGED <<owner, decision, reviewer, content, claim>>

(* The outcome is recorded; a failure may hide an effect, never the reverse. *)
Settle(e, s) ==
  /\ claim[e] = "running"
  /\ s = "completed" => done[e] # <<>>
  /\ claim' = [claim EXCEPT ![e] = s]
  /\ UNCHANGED <<owner, decision, reviewer, content, done>>

Next ==
  \E e \in Execution :
    \/ \E u \in User : Ask(e, u)
    \/ \E c \in Call : Submit(e, c)
    \/ \E u \in User, d \in {"approved", "rejected"} : Decide(e, u, d)
    \/ Claim(e)
    \/ Perform(e)
    \/ \E s \in {"completed", "failed"} : Settle(e, s)

Spec == Init /\ [][Next]_vars
=============================================================================
