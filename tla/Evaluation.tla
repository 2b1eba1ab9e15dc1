------------------------------ MODULE Evaluation ------------------------------
(***************************************************************************)
(* The evaluation of retrieval (rag_evaluation.py), over the documents, the *)
(* paid calls and the limits of Answers: a dataset of cases is run once for  *)
(* each embedding provider, against the corpus as it was when the request    *)
(* began, and every run is settled with all of its results or none.          *)
(***************************************************************************)
EXTENDS Answers, Sequences

CONSTANTS
  Provider,   \* of embeddings
  Cases       \* questions of the dataset

ASSUME EvaluationAssumption == Cases \in Nat \ {0}

VARIABLES
  dataset,   \* the documents it names, all there are if none; None before it is created
  runs,      \* rag_evaluation_runs with their results
  work,      \* the locals of run_dataset for each request
  cut        \* runs whose request was gone before it settled them

evaluationVars == <<dataset, runs, work, cut>>
storedVars == <<rateVars, doc, policy, limit, highest, spent>>

Free == [providers |-> {}, run |-> 0, results |-> {}]

Result == [case : Nat, cites : SUBSET Evidence]
Run == [status : {"running", "completed", "failed", "skipped"}, results : SUBSET Result, admin : BOOLEAN]
Work == [providers : SUBSET Provider, run : Nat, results : SUBSET Result]

EvaluationTypeOK ==
  /\ AnswersTypeOK
  /\ dataset \in (SUBSET Doc) \cup {None}
  /\ runs \in Seq(Run)
  /\ work \in [Caller -> Work]
  /\ cut \in SUBSET Nat

EvaluationInit ==
  /\ AnswersInit
  /\ dataset = None
  /\ runs = <<>>
  /\ work = [c \in Caller |-> Free]
  /\ cut = {}

(* _load_corpus *)
Corpus(a, D) == {e \in Searchable(a) : D = {} \/ e.doc \in D}

(* _dataset_accessible, to an administrator or to the member who created it *)
Accessible(a) == a \/ dataset \subseteq {e.doc : e \in Corpus(a, dataset)}

(* create_dataset: every document it names must be searchable to its creator. *)
CreateDataset(a, D) ==
  /\ dataset = None
  /\ Corpus(a, D) # {}
  /\ D \subseteq {e.doc : e \in Corpus(a, D)}
  /\ dataset' = D
  /\ UNCHANGED <<storedVars, call, left, runs, work, cut>>

(* run_dataset up to its loop; the corpus is not read again. *)
BeginEvaluation(c, a, P) ==
  /\ Spend("evaluate")
  /\ At(c, "idle")
  /\ dataset # None
  /\ Accessible(a) /\ Corpus(a, dataset) # {}
  /\ Admitted(c, [Idle EXCEPT !.pc = "run", !.admin = a, !.evidence = Corpus(a, dataset),
                              !.error = "unfinished"])
  /\ work' = [work EXCEPT ![c] = [Free EXCEPT !.providers = P]]
  /\ UNCHANGED <<doc, policy, limit, highest, spent, dataset, runs, cut>>

(* _create_run, and whether the provider is available and the vectors of the *)
(* corpus are stored.                                                      *)
CreateRun(c) ==
  /\ At(c, "run")
  /\ \E p \in work[c].providers :
       /\ runs' = Append(runs, [status |-> "running", results |-> {}, admin |-> call[c].admin])
       /\ work' = [work EXCEPT ![c].providers = @ \ {p}, ![c].run = Len(runs'), ![c].results = {}]
  /\ \/ Go(c, "skip")
     \/ Go(c, "case")
     \/ call' = [call EXCEPT ![c].pc = "embed", ![c].next = "case"]
  /\ UNCHANGED <<storedVars, left, dataset, cut>>

(* The providers are done, or a run could not be inserted. *)
EndEvaluation(c) ==
  /\ At(c, "run")
  /\ Return(c)
  /\ UNCHANGED <<storedVars, left, evaluationVars>>

(* The question of the next case is embedded, at a price again. *)
NextCase(c) ==
  /\ At(c, "case")
  /\ Cardinality(work[c].results) < Cases
  /\ call' = [call EXCEPT ![c].pc = "embed", ![c].next = "score"]
  /\ UNCHANGED <<storedVars, left, evaluationVars>>

(* rank, generate without a model and _score_case: an extract of a passage of *)
(* the corpus, or no answer.                                               *)
ScoreCase(c) ==
  /\ At(c, "score")
  /\ \E cites \in {{}} \cup {{e} : e \in call[c].evidence} :
       work' = [work EXCEPT ![c].results =
                  @ \cup {[case |-> Cardinality(@) + 1, cites |-> cites]}]
  /\ Go(c, "case")
  /\ UNCHANGED <<storedVars, left, dataset, runs, cut>>

(* The results and the end of the run are one transaction; where it fails, or *)
(* its commit is not acknowledged, the handler settles the run once more.    *)
FinishRun(c) ==
  /\ At(c, "case")
  /\ Cardinality(work[c].results) = Cases
  /\ \/ /\ runs' = [runs EXCEPT ![work[c].run].status = "completed",
                                ![work[c].run].results = work[c].results]
        /\ Go(c, "report") \/ Fail(c)
     \/ /\ Fail(c)
        /\ UNCHANGED runs
  /\ UNCHANGED <<storedVars, left, dataset, work, cut>>

(* _finish_without_results, outside of any handler: where it fails itself,   *)
(* the request ends and its run stays as it is.                            *)
FinishWithoutResults(c) ==
  /\ call[c].pc \in {"skip", "unfinished"}
  /\ \/ /\ runs' = [runs EXCEPT ![work[c].run].status =
                      IF At(c, "skip") THEN "skipped" ELSE "failed"]
        /\ Go(c, "report")
        /\ UNCHANGED cut
     \/ /\ cut' = cut \cup {work[c].run}
        /\ Return(c)
        /\ UNCHANGED runs
  /\ UNCHANGED <<storedVars, left, dataset, work>>

(* get_run: a dataset that is no longer accessible ends the request. *)
Report(c) ==
  /\ At(c, "report")
  /\ \/ /\ Accessible(call[c].admin)
        /\ Go(c, "run")
     \/ Return(c)
  /\ UNCHANGED <<storedVars, left, evaluationVars>>

Running == {r \in DOMAIN runs : runs[r].status = "running"}

RestartAll ==
  /\ Restart
  /\ cut' = cut \cup Running
  /\ UNCHANGED <<dataset, runs, work>>

EvaluationNext ==
  \/ AnswersStep /\ UNCHANGED evaluationVars
  \/ \E a \in BOOLEAN, D \in SUBSET Doc : CreateDataset(a, D)
  \/ \E c \in Caller :
       \/ \E a \in BOOLEAN, P \in (SUBSET Provider) \ {{}} : BeginEvaluation(c, a, P)
       \/ CreateRun(c) \/ EndEvaluation(c) \/ NextCase(c) \/ ScoreCase(c)
       \/ FinishRun(c) \/ FinishWithoutResults(c) \/ Report(c)
  \/ RestartAll

EvaluationSpec == EvaluationInit /\ [][EvaluationNext]_<<rateVars, answerVars, evaluationVars>>
-----------------------------------------------------------------------------
AtWork(c, r) ==
  work[c].run = r /\ call[c].pc \in {"skip", "case", "embed", "embedding", "score", "unfinished"}

(* A run has the results of all its cases or none, even where its budget ran  *)
(* out, its provider failed or its documents changed half way: all where it  *)
(* is completed, none while it is running or where it was skipped, either     *)
(* where it failed, as a commit may reach the database and not be heard of.  *)
(* They cite only what its asker could read and the controls had let through; *)
(* and a run says it is running only while a request works on it, unless the  *)
(* process stopped or the write that was to settle it failed.              *)
RunsSettle ==
  \A r \in DOMAIN runs :
    /\ runs[r].results = {} \/ {x.case : x \in runs[r].results} = 1..Cases
    /\ runs[r].status = "completed" => runs[r].results # {}
    /\ runs[r].status \in {"running", "skipped"} => runs[r].results = {}
    /\ \A x \in runs[r].results : \A e \in x.cites :
         Vetted(e) /\ (e.row.restricted => runs[r].admin)
    /\ runs[r].status = "running" => r \in cut \/ \E c \in Caller : AtWork(c, r)
=============================================================================
