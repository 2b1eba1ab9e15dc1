--------------------------- MODULE OrderedEffects ----------------------------
(***************************************************************************)
(* What a workflow promises of the effects of its actions: they begin in   *)
(* the order of the plan, each only when all earlier ones are on record,   *)
(* nothing on record is taken back, and the workflow is reported completed *)
(* only when every effect is on record.                                    *)
(***************************************************************************)
EXTENDS Integers

CONSTANT Action  \* the numbers of the actions that have an effect

VARIABLES
  begun,    \* the actions whose effect may be visible
  done,     \* those whose effect is on record
  reported  \* whether the workflow reads completed

vars == <<begun, done, reported>>

Init == begun = {} /\ done = {} /\ reported = FALSE

(* An effect happens, and may go on record at once. *)
Begin(i) ==
  /\ i \in Action \ begun
  /\ \A j \in Action : j < i => j \in done
  /\ begun' = begun \cup {i}
  /\ done' \in {done, done \cup {i}}
  /\ UNCHANGED reported

(* An effect that happened goes on record later, or never. *)
Record(i) ==
  /\ i \in begun \ done
  /\ done' = done \cup {i}
  /\ UNCHANGED <<begun, reported>>

Report ==
  /\ done = Action
  /\ reported' = TRUE
  /\ UNCHANGED <<begun, done>>

(* A thread that read the workflow before may write over the report. *)
Retract ==
  /\ reported' = FALSE
  /\ UNCHANGED <<begun, done>>

Next == Report \/ Retract \/ \E i \in Action : Begin(i) \/ Record(i)

Spec == Init /\ [][Next]_vars
=============================================================================
