----------------------------- MODULE MCJobQueue ------------------------------
EXTENDS JobQueue

(* Everything at once, one run at a time, exceptions only, and the faults  *)
(* the retries are there for.                                              *)
MCFaultSets ==
  {FaultKind, FaultKind \ {"unsure", "timeout"}, {"task", "start", "record", "delay"},
   {"task", "kill", "delay"}}
MCStartFails == {{"start"}}
MCDelayedRetry == {{"task", "delay"}}
=============================================================================
