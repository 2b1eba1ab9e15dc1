--------------------------- MODULE JobQueueProofs ----------------------------
(***************************************************************************)
(* Proofs about JobQueue for every number of attempts and of items, and    *)
(* for every set of faults a property does not exclude.                    *)
(*                                                                         *)
(* JobInv is inductive by itself.  OneRun and ObjectInv are inductive under *)
(* it when the queue's answer cannot be lost, and the object's when the    *)
(* timeout does not strike between a commit and the end of its try.        *)
(* FileInv is inductive under OneRun: only the run with the last try drops *)
(* the staged file.                                                        *)
(***************************************************************************)
EXTENDS JobQueue, TLAPS

(* Run x has moved to phase p with its item; the other run has not moved. *)
Moved(x, p) ==
  /\ run' \in [Run -> [pc : Phase, item : Nat, done : BOOLEAN]]
  /\ \A y \in Run \ {x} : run'[y] = run[y]
  /\ run'[x].pc = p /\ run'[x].item = run[x].item

(* Go moves one run and keeps its item. *)
LEMMA GoMoves ==
  ASSUME TypeOK, NEW x \in Run, NEW p \in Phase, Go(x, p)
  PROVE  Moved(x, p)
  BY DEF Go, Moved, TypeOK

(* A run that does not move stays as far as it was: documents only come. *)
LEMMA RunStays ==
  ASSUME NEW y \in Run, ItemsDone(y), run'[y] = run[y], kind' = kind,
         document \subseteq document', document' \subseteq Item
  PROVE  ItemsDone(y)'
  BY DEF ItemsDone, Item

(* A step of one run that adds no document and says nothing of completion. *)
LEMMA QuietStep ==
  ASSUME JobInv, NEW x \in Run, NEW p \in Phase, Moved(x, p), ItemsDone(x)',
         UNCHANGED <<kind, document>>, TypeOK',
         job' # "completed" \/ job' = job,
         p # "idle" \/ x = "worker"
  PROVE  JobInv'
  <1>1. \A y \in Run : ItemsDone(y)'
    BY RunStays DEF JobInv, Moved, TypeOK
  <1>2. job' = "completed" => document' = Item'
    BY DEF JobInv, Item
  <1>3. (At("route", "idle") => run["route"].item = 1)'
    BY DEF JobInv, At, Moved, Run
  <1> QED BY <1>1, <1>2, <1>3 DEF JobInv

(* Every kind of job satisfies the invariant before it is created. *)
LEMMA InitInv == Init => JobInv
  <1> SUFFICES ASSUME Init PROVE JobInv
    OBVIOUS
  <1>1. run \in [Run -> [pc : Phase, item : Nat, done : BOOLEAN]]
    BY DEF Init, Phase, TryPhase
  <1>2. TypeOK
    <2>1. attempts \in 0 .. MaxAttempts /\ left \in 0 .. MaxAttempts - 1
      BY JobAssumption DEF Init
    <2> QED BY <1>1, <2>1 DEF Init, TypeOK, JobStatus
  <1>3. \A x \in Run : ItemsDone(x)
    BY DEF Init, ItemsDone
  <1> QED BY <1>2, <1>3 DEF Init, JobInv, At, Run

(* Creation, staging and dispatch of the job preserve the invariant. *)
LEMMA RouteStepInv ==
  ASSUME JobInv, RouteStep \/ Abandon, UNCHANGED faults
  PROVE  JobInv'
  <1> USE DEF JobInv
  <1>0. "route" \in Run /\ ItemsDone("route")
    BY DEF Run
  <1>1. CASE CreateJob
    <2> DEFINE p == IF kind = "upload" THEN "stage" ELSE "dispatch"
    <2>1. Moved("route", p) /\ p \in Phase
      BY <1>0, <1>1, GoMoves DEF CreateJob, Phase, TryPhase
    <2>2. TypeOK'
      BY <1>1, <2>1 DEF CreateJob, TypeOK, Moved, JobStatus, Item, queueVars, storeVars
    <2>3. ItemsDone("route")'
      BY <1>1, <2>1 DEF CreateJob, ItemsDone, Moved, At
    <2> QED BY <1>0, <1>1, <2>1, <2>2, <2>3, QuietStep DEF CreateJob, storeVars
  <1>2. CASE StageFile
    <2>1. Moved("route", "dispatch") /\ "dispatch" \in Phase
      BY <1>0, <1>2, GoMoves DEF StageFile, Phase, TryPhase
    <2>2. TypeOK'
      BY <1>2, <2>1 DEF StageFile, TypeOK, Moved, Item, queueVars
    <2>3. ItemsDone("route")'
      BY <1>0, <1>2, <2>1 DEF StageFile, ItemsDone, Moved, At
    <2> QED BY <1>0, <1>2, <2>1, <2>2, <2>3, QuietStep DEF StageFile
  <1>3. CASE DispatchInline
    <2>1. Moved("route", "start") /\ "start" \in Phase
      BY <1>0, <1>3, GoMoves DEF DispatchInline, Phase, TryPhase
    <2>2. TypeOK'
      BY <1>3, <2>1 DEF DispatchInline, TypeOK, Moved, Item, queueVars, storeVars
    <2>3. ItemsDone("route")'
      BY <1>0, <1>3, <2>1 DEF DispatchInline, ItemsDone, Moved, At
    <2> QED BY <1>0, <1>3, <2>1, <2>2, <2>3, QuietStep DEF DispatchInline, storeVars
  <1>4. CASE DispatchQueued
    <2>1. Moved("route", "returned") /\ "returned" \in Phase
      BY <1>0, <1>4, GoMoves DEF DispatchQueued, Phase, TryPhase
    <2>2. TypeOK'
      BY <1>4, <2>1, JobAssumption
       DEF DispatchQueued, Accept, TypeOK, Moved, Item, storeVars
    <2>3. ItemsDone("route")'
      BY <2>1 DEF ItemsDone, Moved
    <2> QED BY <1>0, <1>4, <2>1, <2>2, <2>3, QuietStep DEF DispatchQueued, storeVars
  <1>5. CASE DispatchRefused
    <2>1. PICK p \in {"start", "drop"} : Moved("route", p) /\ p \in Phase
      BY <1>0, <1>5, GoMoves DEF DispatchRefused, Phase, TryPhase
    <2>2. TypeOK'
      BY <1>5, <2>1, JobAssumption
       DEF DispatchRefused, Accept, TypeOK, Moved, Item, JobStatus, queueVars, storeVars
    <2>3. ItemsDone("route")'
      BY <1>0, <1>5, <2>1 DEF DispatchRefused, ItemsDone, Moved, At
    <2>4. job' # "completed" \/ job' = job
      BY <1>5 DEF DispatchRefused
    <2> QED BY <1>0, <1>5, <2>1, <2>2, <2>3, <2>4, QuietStep DEF DispatchRefused, storeVars
  <1>6. CASE Abandon
    <2>1. Moved("route", "raised") /\ "raised" \in Phase
      BY <1>0, <1>6, GoMoves DEF Abandon, Phase, TryPhase
    <2>2. TypeOK'
      BY <1>6, <2>1 DEF Abandon, TypeOK, Moved, Item, queueVars, storeVars
    <2>3. ItemsDone("route")'
      BY <2>1 DEF ItemsDone, Moved
    <2> QED BY <1>0, <1>6, <2>1, <2>2, <2>3, QuietStep DEF Abandon, storeVars
  <1> QED BY <1>1, <1>2, <1>3, <1>4, <1>5, <1>6 DEF RouteStep

(* When the last item and every one before it have documents, all have. *)
LEMMA AllDone ==
  ASSUME NEW i \in Item, document \subseteq Item, Total(kind) \in Nat,
         1 .. i - 1 \subseteq document, i \in document, i = Total(kind)
  PROVE  document = Item
  <1>1. \A j \in Item : j = i \/ j \in 1 .. i - 1
    BY DEF Item
  <1> QED BY <1>1

(* The number of items is a natural number, one of an upload. *)
LEMMA Totals ==
  ASSUME kind \in Kind
  PROVE  /\ Total(kind) \in Nat
         /\ kind = "upload" => Total(kind) = 1
         /\ kind = "import" => Total(kind) = Imported
         /\ kind = "reindex" => Total(kind) = 0
  BY JobAssumption DEF Kind, Total

(* A run that has a document for its item may go where AfterItem says. *)
LEMMA AfterItemDone ==
  ASSUME TypeOK, NEW x \in Run, ItemsDone(x), run[x].pc \in {"lookup", "get"},
         run[x].item \in document, Moved(x, AfterItem), UNCHANGED <<kind, document>>
  PROVE  ItemsDone(x)'
  <1>1. run[x].item \in Item /\ 1 .. run[x].item - 1 \subseteq document
    BY DEF ItemsDone
  <1>2. CASE kind = "upload"
    <2>1. run[x].item = Total(kind) /\ Total(kind) \in Nat
      BY <1>1, <1>2, Totals DEF TypeOK, Item
    <2>2. document = Item
      BY <1>1, <2>1, AllDone DEF TypeOK
    <2> QED BY <1>2, <2>2 DEF AfterItem, Moved, ItemsDone, Item
  <1>3. CASE kind # "upload"
    <2>1. kind = "import"
      BY <1>1, <1>3, Totals DEF TypeOK, Kind, Item
    <2> QED BY <1>1, <1>3, <2>1 DEF AfterItem, Moved, ItemsDone, Item
  <1> QED BY <1>2, <1>3

(* A run that starts has everything to do, or there is nothing to do. *)
LEMMA FirstPhaseDone ==
  ASSUME TypeOK, NEW x \in Run, ItemsDone(x), At(x, "start"),
         Moved(x, FirstPhase), UNCHANGED <<kind, document>>
  PROVE  ItemsDone(x)'
  <1>1. run[x].item = 1 /\ run'[x].item = 1
    BY DEF ItemsDone, At, Moved
  <1>2. CASE kind = "upload"
    BY <1>1, <1>2 DEF FirstPhase, Moved, ItemsDone
  <1>3. CASE kind = "import" /\ Imported > 0
    <2>1. 1 \in Item /\ 1 .. 1 - 1 = {}
      BY <1>3, Totals, JobAssumption DEF Item, Kind
    <2> QED BY <1>1, <1>3, <2>1 DEF FirstPhase, Moved, ItemsDone, Item
  <1>4. CASE kind # "upload" /\ ~(kind = "import" /\ Imported > 0)
    <2>1. Total(kind) = 0
      BY <1>4, Totals, JobAssumption DEF TypeOK, Kind
    <2>2. document = Item
      BY <2>1 DEF TypeOK, Item
    <2> QED BY <1>4, <2>2 DEF FirstPhase, Moved, ItemsDone, Item
  <1> QED BY <1>2, <1>3, <1>4

(* The steps of the task that write the row of the job or nothing. *)
LEMMA TaskStepInv ==
  ASSUME JobInv, NEW x \in Run, UNCHANGED faults,
         TaskStep(x) \/ StartFails(x) \/ TaskFails(x) \/ RecordFails(x)
  PROVE  JobInv'
  <1> USE DEF JobInv
  <1>0. ItemsDone(x)
    OBVIOUS
  <1>1. CASE Start(x)
    <2>1. PICK p \in {"read", "lookup", "complete", "raised"} : Moved(x, p) /\ p \in Phase
      BY <1>1, GoMoves DEF Start, FirstPhase, Claim, Phase, TryPhase
    <2>2. TypeOK'
      BY <1>1, <2>1, JobAssumption DEF Start, FirstPhase, Claim, TypeOK, Moved, JobStatus, Item, queueVars, storeVars
    <2>3. ItemsDone(x)'
      <3>1. CASE Go(x, FirstPhase)
        <4>1. Moved(x, FirstPhase)
          BY <3>1, GoMoves DEF FirstPhase, Phase, TryPhase
        <4> QED BY <1>0, <1>1, <4>1, FirstPhaseDone DEF Start, storeVars
      <3>2. CASE Go(x, "raised")
        <4>1. Moved(x, "raised")
          BY <3>2, GoMoves DEF Phase
        <4> QED BY <4>1 DEF Moved, ItemsDone
      <3> QED BY <1>1, <3>1, <3>2 DEF Start
    <2> QED BY <1>1, <2>1, <2>2, <2>3, QuietStep DEF Start, FirstPhase, Claim, storeVars
  <1>2. CASE StartFails(x)
    <2>1. Moved(x, "raised") /\ "raised" \in Phase
      BY <1>2, GoMoves DEF StartFails, Claim, Phase, TryPhase
    <2>2. TypeOK'
      BY <1>2, <2>1, JobAssumption DEF StartFails, Claim, TypeOK, Moved, JobStatus, Item, queueVars, storeVars
    <2>3. ItemsDone(x)'
      BY <1>0, <1>2, <2>1 DEF StartFails, Claim, ItemsDone, Moved, At, Item, Total, TypeOK, Kind, Go
    <2> QED BY <1>2, <2>1, <2>2, <2>3, QuietStep DEF StartFails, Claim, storeVars
  <1>3. CASE ReadFile(x)
    <2>1. PICK p \in {"progress", "record"} : Moved(x, p) /\ p \in Phase
      BY <1>3, GoMoves DEF ReadFile, Phase, TryPhase
    <2>2. TypeOK'
      BY <1>3, <2>1 DEF ReadFile, TypeOK, Moved, JobStatus, Item, queueVars, storeVars
    <2>3. ItemsDone(x)'
      BY <1>0, <1>3, <2>1 DEF ReadFile, ItemsDone, Moved, At, Item, Total, TypeOK, Kind, Go
    <2> QED BY <1>3, <2>1, <2>2, <2>3, QuietStep DEF ReadFile, storeVars
  <1>4. CASE Progress(x)
    <2>1. Moved(x, "lookup") /\ "lookup" \in Phase
      BY <1>4, GoMoves DEF Progress, Phase, TryPhase
    <2>2. TypeOK'
      BY <1>4, <2>1 DEF Progress, TypeOK, Moved, JobStatus, Item, queueVars, storeVars
    <2>3. ItemsDone(x)'
      BY <1>0, <1>4, <2>1 DEF Progress, ItemsDone, Moved, At, Item, Total, TypeOK, Kind, Go
    <2> QED BY <1>4, <2>1, <2>2, <2>3, QuietStep DEF Progress, storeVars
  <1>5. CASE Lookup(x)
    <2>1. PICK p \in {"put", "report", "complete"} : Moved(x, p) /\ p \in Phase
      BY <1>5, GoMoves DEF Lookup, AfterItem, Phase, TryPhase
    <2>2. TypeOK'
      BY <1>5, <2>1 DEF Lookup, AfterItem, TypeOK, Moved, JobStatus, Item, queueVars, storeVars
    <2>3. ItemsDone(x)'
      <3>1. CASE run[x].item \in document
        <4>1. Moved(x, AfterItem)
          BY <1>5, <3>1, GoMoves DEF Lookup, AfterItem, Phase, TryPhase
        <4> QED BY <1>0, <1>5, <3>1, <4>1, AfterItemDone DEF Lookup, At, storeVars
      <3>2. CASE run[x].item \notin document
        <4>1. Moved(x, "put")
          BY <1>5, <3>2, GoMoves DEF Lookup, Phase, TryPhase
        <4> QED BY <1>0, <1>5, <4>1 DEF Lookup, At, Moved, ItemsDone, Item, storeVars
      <3> QED BY <3>1, <3>2
    <2> QED BY <1>5, <2>1, <2>2, <2>3, QuietStep DEF Lookup, AfterItem, storeVars
  <1>6. CASE PutObject(x)
    <2>1. Moved(x, "insert") /\ "insert" \in Phase
      BY <1>6, GoMoves DEF PutObject, Phase, TryPhase
    <2>2. TypeOK'
      BY <1>0, <1>6, <2>1 DEF PutObject, ItemsDone, At, TypeOK, Moved, JobStatus, Item, queueVars, storeVars
    <2>3. ItemsDone(x)'
      BY <1>0, <1>6, <2>1 DEF PutObject, ItemsDone, Moved, At, Item, Total, TypeOK, Kind, Go
    <2> QED BY <1>6, <2>1, <2>2, <2>3, QuietStep DEF PutObject, storeVars
  <1>7. CASE DiscardObject(x)
    <2>1. Moved(x, "record") /\ "record" \in Phase
      BY <1>7, GoMoves DEF DiscardObject, Phase, TryPhase
    <2>2. TypeOK'
      BY <1>7, <2>1 DEF DiscardObject, TypeOK, Moved, JobStatus, Item, queueVars, storeVars
    <2>3. ItemsDone(x)'
      BY <1>0, <1>7, <2>1 DEF DiscardObject, ItemsDone, Moved, At, Item, Total, TypeOK, Kind, Go
    <2> QED BY <1>7, <2>1, <2>2, <2>3, QuietStep DEF DiscardObject, storeVars
  <1>8. CASE GetDocument(x)
    <2>1. PICK p \in {"report", "complete"} : Moved(x, p) /\ p \in Phase
      BY <1>8, GoMoves DEF GetDocument, AfterItem, Phase, TryPhase
    <2>2. TypeOK'
      BY <1>8, <2>1 DEF GetDocument, AfterItem, TypeOK, Moved, JobStatus, Item, queueVars, storeVars
    <2>3. Moved(x, AfterItem)
      BY <1>8, GoMoves DEF GetDocument, AfterItem, Phase, TryPhase
    <2>4. ItemsDone(x)'
      BY <1>0, <1>8, <2>3, AfterItemDone DEF GetDocument, ItemsDone, At, storeVars
    <2> QED BY <1>8, <2>1, <2>2, <2>4, QuietStep DEF GetDocument, AfterItem, storeVars
  <1>9. CASE Unlink(x)
    <2>1. Moved(x, "returned") /\ "returned" \in Phase
      BY <1>9, GoMoves DEF Unlink, Phase, TryPhase
    <2>2. TypeOK'
      BY <1>9, <2>1 DEF Unlink, TypeOK, Moved, JobStatus, Item, queueVars, storeVars
    <2>3. ItemsDone(x)'
      BY <1>0, <1>9, <2>1 DEF Unlink, ItemsDone, Moved, At, Item, Total, TypeOK, Kind, Go
    <2> QED BY <1>9, <2>1, <2>2, <2>3, QuietStep DEF Unlink, storeVars
  <1>10. CASE TaskFails(x)
    <2>1. PICK p \in {"discard", "record"} : Moved(x, p) /\ p \in Phase
      BY <1>10, GoMoves DEF TaskFails, Phase, TryPhase
    <2>2. TypeOK'
      BY <1>10, <2>1 DEF TaskFails, TypeOK, Moved, JobStatus, Item, queueVars, storeVars
    <2>3. ItemsDone(x)'
      BY <1>0, <1>10, <2>1 DEF TaskFails, ItemsDone, Moved, At, Item, Total, TypeOK, Kind, Go
    <2> QED BY <1>10, <2>1, <2>2, <2>3, QuietStep DEF TaskFails, storeVars
  <1>11. CASE Record(x)
    <2>1. PICK p \in {"raised", "drop"} : Moved(x, p) /\ p \in Phase
      BY <1>11, GoMoves DEF Record, Verdict, Phase, TryPhase
    <2>2. TypeOK'
      BY <1>11, <2>1 DEF Record, Verdict, TypeOK, Moved, JobStatus, Item, queueVars, storeVars
    <2>3. ItemsDone(x)'
      BY <1>0, <1>11, <2>1 DEF Record, Verdict, ItemsDone, Moved, At, Item, Total, TypeOK, Kind, Go
    <2> QED BY <1>11, <2>1, <2>2, <2>3, QuietStep DEF Record, Verdict, storeVars
  <1>12. CASE RecordFails(x)
    <2>1. PICK p \in {"raised", "drop"} : Moved(x, p) /\ p \in Phase
      BY <1>12, GoMoves DEF RecordFails, Verdict, Phase, TryPhase
    <2>2. TypeOK'
      BY <1>12, <2>1 DEF RecordFails, Verdict, TypeOK, Moved, JobStatus, Item, queueVars, storeVars
    <2>3. ItemsDone(x)'
      BY <1>0, <1>12, <2>1 DEF RecordFails, Verdict, ItemsDone, Moved, At, Item, Total, TypeOK, Kind, Go
    <2> QED BY <1>12, <2>1, <2>2, <2>3, QuietStep DEF RecordFails, Verdict, storeVars
  <1>13. CASE Drop(x)
    <2>1. Moved(x, "raised") /\ "raised" \in Phase
      BY <1>13, GoMoves DEF Drop, Phase, TryPhase
    <2>2. TypeOK'
      BY <1>13, <2>1 DEF Drop, TypeOK, Moved, JobStatus, Item, queueVars, storeVars
    <2>3. ItemsDone(x)'
      BY <1>0, <1>13, <2>1 DEF Drop, ItemsDone, Moved, At, Item, Total, TypeOK, Kind, Go
    <2> QED BY <1>13, <2>1, <2>2, <2>3, QuietStep DEF Drop, storeVars
  <1>14. CASE Reload(x)
    <2>1. Moved(x, "unlink") /\ "unlink" \in Phase
      BY <1>14 DEF Reload, Moved, TypeOK, Phase
    <2>2. TypeOK'
      BY <1>14, <2>1 DEF Reload, TypeOK, Moved, Item, queueVars, storeVars
    <2>3. ItemsDone(x)'
      BY <2>1 DEF ItemsDone, Moved
    <2> QED BY <1>14, <2>1, <2>2, <2>3, QuietStep DEF Reload, storeVars
  <1>15. CASE Report(x)
    <2> DEFINE p == IF run[x].item < Imported THEN "lookup" ELSE "complete"
    <2>1. /\ run' \in [Run -> [pc : Phase, item : Nat, done : BOOLEAN]]
          /\ run'[x].pc = p /\ run'[x].item = run[x].item + 1
          /\ \A y \in Run \ {x} : run'[y] = run[y]
      BY <1>15 DEF Report, GoOn, TypeOK, Phase, TryPhase
    <2>2. TypeOK'
      BY <1>15, <2>1 DEF Report, TypeOK, JobStatus, Item, queueVars, storeVars
    <2>3. UNCHANGED <<kind, document>> /\ job' = "running"
      BY <1>15 DEF Report, storeVars
    <2>4. /\ run[x].item \in Item /\ run[x].item \in document
          /\ 1 .. run[x].item - 1 \subseteq document /\ Item = 1 .. Imported
      BY <1>0, <1>15, Totals DEF Report, At, ItemsDone, Item, TypeOK
    <2>5. ItemsDone(x)'
      <3>1. CASE run[x].item < Imported
        <4>1. run'[x].item \in Item /\ 1 .. run'[x].item - 1 \subseteq document
          BY <2>1, <2>4, <3>1, JobAssumption
        <4> QED BY <2>1, <2>3, <3>1, <4>1 DEF ItemsDone, Item
      <3>2. CASE ~(run[x].item < Imported)
        <4>1. run[x].item = Total(kind) /\ Total(kind) \in Nat
          BY <1>0, <1>15, <2>4, <3>2, Totals, JobAssumption DEF Report, At, ItemsDone, TypeOK
        <4>2. document = Item
          BY <2>4, <4>1, AllDone DEF TypeOK
        <4> QED BY <2>1, <2>3, <3>2, <4>2 DEF ItemsDone, Item
      <3> QED BY <3>1, <3>2
    <2>6. \A y \in Run : ItemsDone(y)'
      BY <2>1, <2>2, <2>3, <2>5, RunStays DEF TypeOK
    <2> QED BY <1>15, <2>1, <2>2, <2>3, <2>6 DEF Report, At, Run
  <1>16. CASE InsertDocument(x)
    <2>1. PICK p \in {"get", "discard"} : Moved(x, p)
      BY <1>16, GoMoves DEF InsertDocument, Phase, TryPhase
    <2>2. run[x].item \in Item /\ 1 .. run[x].item - 1 \subseteq document
      BY <1>0, <1>16 DEF InsertDocument, At, ItemsDone
    <2>3. /\ UNCHANGED <<kind, job>> /\ document' = document \cup {run[x].item}
          /\ document' \subseteq Item /\ document \subseteq document'
      BY <1>16, <2>2 DEF InsertDocument, TypeOK
    <2>4. TypeOK'
      BY <1>16, <2>1, <2>2, <2>3 DEF InsertDocument, TypeOK, Moved, Item, queueVars
    <2>5. ItemsDone(x)'
      BY <2>1, <2>2, <2>3 DEF Moved, ItemsDone, Item
    <2>6. \A y \in Run : ItemsDone(y)'
      BY <2>1, <2>3, <2>5, RunStays DEF Moved
    <2>7. job' = "completed" => document' = Item'
      BY <2>3 DEF Item, TypeOK
    <2> QED BY <2>1, <2>4, <2>6, <2>7, <1>16 DEF InsertDocument, Moved, At, Run
  <1>17. CASE Complete(x)
    <2>1. Moved(x, "reload")
      BY <1>17, GoMoves DEF Complete, Phase, TryPhase
    <2>2. UNCHANGED <<kind, document>> /\ document = Item
      BY <1>0, <1>17 DEF Complete, At, ItemsDone, storeVars
    <2>3. TypeOK'
      BY <1>17, <2>1 DEF Complete, TypeOK, Moved, Item, JobStatus, queueVars, storeVars
    <2>4. ItemsDone(x)'
      BY <2>1 DEF Moved, ItemsDone
    <2>5. \A y \in Run : ItemsDone(y)'
      BY <2>1, <2>2, <2>4, RunStays DEF Moved
    <2> QED BY <2>1, <2>2, <2>3, <2>5, <1>17 DEF Complete, Moved, At, Run, Item
  <1> QED BY <1>1, <1>2, <1>3, <1>4, <1>5, <1>6, <1>7, <1>8, <1>9, <1>10, <1>11, <1>12, <1>13,
             <1>14, <1>15, <1>16, <1>17 DEF TaskStep

(* The queue's own steps, and the loss of a worker, preserve the invariant. *)
LEMMA QueueStepInv ==
  ASSUME JobInv, QueueStep \/ LoseWorker \/ LateTimeout, UNCHANGED faults
  PROVE  JobInv'
  <1> USE DEF JobInv
  <1>0. "worker" \in Run /\ ItemsDone("worker")
    BY DEF Run
  <1>1. CASE Dequeue
    <2>1. /\ run' \in [Run -> [pc : Phase, item : Nat, done : BOOLEAN]]
          /\ run'["worker"].pc = "start" /\ run'["worker"].item = 1
          /\ run'["route"] = run["route"]
      BY <1>1 DEF Dequeue, TypeOK, Run, Phase
    <2>2. UNCHANGED <<kind, job, document>>
      BY <1>1 DEF Dequeue, storeVars
    <2>3. TypeOK'
      BY <1>1, <2>1 DEF Dequeue, TypeOK, Item, storeVars
    <2>4. ItemsDone("worker")'
      BY <2>1 DEF ItemsDone
    <2>5. ItemsDone("route")'
      BY <2>1, <2>2, RunStays DEF TypeOK, Run
    <2> QED BY <2>1, <2>2, <2>3, <2>4, <2>5 DEF At, Run, Item
  <1>2. CASE LoseWorker
    <2>1. Moved("worker", "lost") /\ "lost" \in Phase
      BY <1>0, <1>2, GoMoves DEF LoseWorker, Phase
    <2>2. TypeOK'
      BY <1>2, <2>1 DEF LoseWorker, TypeOK, Moved, Item, JobStatus, queueVars, storeVars
    <2>3. ItemsDone("worker")'
      BY <2>1 DEF ItemsDone, Moved
    <2>4. UNCHANGED <<kind, document>> /\ (job' # "completed" \/ job' = job)
      BY <1>2 DEF LoseWorker, storeVars
    <2> QED BY <1>0, <2>1, <2>2, <2>3, <2>4, QuietStep
  <1>3. CASE LateTimeout
    <2>1. PICK p \in {"discard", "record", "raised"} : Moved("worker", p) /\ p \in Phase
      BY <1>0, <1>3, GoMoves DEF LateTimeout, Phase, TryPhase
    <2>2. TypeOK'
      BY <1>3, <2>1 DEF LateTimeout, TypeOK, Moved, Item, queueVars
    <2>3. ItemsDone("worker")'
      BY <2>1 DEF ItemsDone, Moved
    <2> QED BY <1>0, <1>3, <2>1, <2>2, <2>3, QuietStep DEF LateTimeout
  <1>4. CASE Finish \/ Requeue
    <2>1. Moved("worker", "idle") /\ "idle" \in Phase
      BY <1>0, <1>4, GoMoves DEF Finish, Requeue, Phase
    <2>2. TypeOK'
      <3>1. left' \in 0 .. MaxAttempts - 1
        BY <1>4, JobAssumption DEF Finish, Requeue, TypeOK
      <3>2. queue' \in {"absent", "waiting", "scheduled", "started", "finished", "failed"}
        BY <1>4 DEF Finish, Requeue, RetryTo
      <3> QED BY <1>4, <2>1, <3>1, <3>2 DEF Finish, Requeue, TypeOK, Moved, Item, storeVars
    <2>3. ItemsDone("worker")'
      BY <2>1 DEF ItemsDone, Moved
    <2> QED BY <1>0, <1>4, <2>1, <2>2, <2>3, QuietStep DEF Finish, Requeue, storeVars
  <1> QED BY <1>1, <1>2, <1>3, <1>4 DEF QueueStep

(* Nothing a step reads of the job changes in a stuttering step. *)
LEMMA StutterInv == JobInv /\ UNCHANGED vars => JobInv'
  BY DEF vars, JobInv, TypeOK, ItemsDone, Item, At

(* The invariant of the job and its runs, for every set of faults.  It is  *)
(* what CompletedHasDocuments needs: how far each run has come.            *)
THEOREM JobInvariance == Spec => []JobInv
  <1>1. ASSUME JobInv, [Next]_vars PROVE JobInv'
    BY <1>1, RouteStepInv, TaskStepInv, QueueStepInv, StutterInv DEF Next, Failure
  <1> QED BY <1>1, InitInv, PTL DEF Spec

(* A job whose row says completed has a document for each of its items,    *)
(* though its task may run twice at once, be killed and be run again.      *)
THEOREM CompletedImported == Spec => []CompletedHasDocuments
  <1>1. JobInv => CompletedHasDocuments
    BY DEF JobInv, CompletedHasDocuments
  <1> QED BY <1>1, JobInvariance, PTL
-----------------------------------------------------------------------------
(* What a step of the task does to the counts: it leaves the queue alone   *)
(* and moves its own run; only a start counts an attempt.                  *)
TaskMove(x) ==
  /\ UNCHANGED queueVars
  /\ \A y \in Run \ {x} : run'[y] = run[y]
  /\ run[x].pc \notin {"idle", "stage", "dispatch", "returned", "raised", "lost"}
  /\ run'[x].pc \notin {"idle", "stage", "dispatch", "start", "lost"}
  /\ attempts' = attempts \/ (At(x, "start") /\ attempts' = attempts + 1)

LEMMA TaskMoves ==
  ASSUME TypeOK, NEW x \in Run, TaskStep(x) \/ StartFails(x) \/ TaskFails(x) \/ RecordFails(x)
  PROVE  TaskMove(x)
  <1> USE DEF TaskMove, TypeOK, At, Go
  <1>1. CASE Start(x) \/ StartFails(x)
    BY <1>1 DEF Start, StartFails, Claim, FirstPhase
  <1>2. CASE ReadFile(x) \/ Progress(x) \/ Lookup(x) \/ PutObject(x) \/ InsertDocument(x)
    BY <1>2 DEF ReadFile, Progress, Lookup, PutObject, InsertDocument, AfterItem
  <1>3. CASE DiscardObject(x) \/ GetDocument(x) \/ Report(x)
    BY <1>3 DEF DiscardObject, GetDocument, Report, AfterItem, GoOn
  <1>4. CASE Complete(x) \/ Reload(x) \/ Unlink(x)
    BY <1>4 DEF Complete, Reload, Unlink
  <1>5. CASE Record(x) \/ Drop(x) \/ RecordFails(x)
    BY <1>5 DEF Record, Drop, RecordFails
  <1>6. CASE TaskFails(x)
    BY <1>6 DEF TaskFails, TryPhase
  <1> QED BY <1>1, <1>2, <1>3, <1>4, <1>5, <1>6 DEF TaskStep

(* When the queue's answer is not lost, one process has the job at a time, *)
(* and the retries it has left never exceed the attempts it may make.      *)
LEMMA OneRunStep ==
  ASSUME TypeOK, OneRun, [Next]_vars
  PROVE  OneRun'
  <1> USE DEF OneRun
  <1>0. UNCHANGED faults
    BY DEF Next, vars
  <1> SUFFICES ASSUME "unsure" \notin faults PROVE OneRun'
    BY <1>0
  <1>1. ASSUME NEW x \in Run,
               TaskStep(x) \/ StartFails(x) \/ TaskFails(x) \/ RecordFails(x)
        PROVE OneRun'
    <2>1. TaskMove(x)
      BY <1>1, TaskMoves
    <2>2. CASE x = "route"
      <3>1. queue = "absent" /\ run'["worker"] = run["worker"]
        BY <2>1, <2>2 DEF TaskMove, Run
      <3> QED BY <2>1, <2>2, <3>1 DEF TaskMove, At, queueVars
    <2>3. CASE x = "worker"
      <3>1. queue = "started" /\ run'["route"] = run["route"]
        BY <2>1, <2>3 DEF TaskMove, Run
      <3>2. attempts' + left' <= MaxAttempts
        BY <2>1, <2>3, <3>1, JobAssumption DEF TaskMove, At, queueVars, TypeOK
      <3> QED BY <2>1, <2>3, <3>1, <3>2 DEF TaskMove, At, queueVars
    <2> QED BY <2>2, <2>3 DEF Run
  <1>2. ASSUME RouteStep \/ Abandon PROVE OneRun'
    <2>1. run'["worker"] = run["worker"] /\ UNCHANGED attempts
      BY <1>2 DEF RouteStep, CreateJob, StageFile, DispatchInline, DispatchQueued,
         DispatchRefused, Abandon, Go, TypeOK, Run
    <2>2. CASE DispatchQueued
      BY <1>2, <2>1, <2>2, JobAssumption DEF DispatchQueued, Accept, Go, At, TypeOK, Run
    <2>3. CASE ~DispatchQueued
      <3>1. UNCHANGED queueVars
        BY <1>2, <2>3 DEF RouteStep, CreateJob, StageFile, DispatchInline, DispatchRefused,
           Abandon
      <3>2. run["route"].pc \notin {"returned", "raised"}
        BY <1>2, <2>3 DEF RouteStep, CreateJob, StageFile, DispatchInline, DispatchRefused,
           Abandon, At
      <3>3. run'["route"].pc \in {"stage", "dispatch"}
              => run["route"].pc \in {"idle", "stage", "dispatch"}
        BY <1>2, <2>3 DEF RouteStep, CreateJob, StageFile, DispatchInline, DispatchRefused,
           Abandon, At, Go, TypeOK, Run
      <3>4. run'["route"].pc # "idle"
        BY <1>2, <2>3 DEF RouteStep, CreateJob, StageFile, DispatchInline, DispatchRefused,
           Abandon, At, Go, TypeOK, Run
      <3> QED BY <2>1, <3>1, <3>2, <3>3, <3>4 DEF queueVars, At
    <2> QED BY <2>2, <2>3
  <1>3. ASSUME QueueStep \/ LoseWorker \/ LateTimeout PROVE OneRun'
    <2>1. run'["route"] = run["route"] /\ UNCHANGED attempts
      BY <1>3 DEF QueueStep, Dequeue, Finish, Requeue, LoseWorker, LateTimeout, Go, TypeOK, Run
    <2>2. CASE Dequeue
      BY <2>1, <2>2, JobAssumption DEF Dequeue, TypeOK, Run, At
    <2>3. CASE Requeue
      <3>1. queue = "started" /\ run'["worker"].pc = "idle"
        BY <2>3 DEF Requeue, Go, TypeOK, Run
      <3>2. queue' # "absent" /\ queue' # "started" /\ queue # "absent"
        BY <2>3, <3>1 DEF Requeue, RetryTo
      <3>3. queue' = "waiting" => attempts' + left' < MaxAttempts
        BY <2>1, <2>3, <3>1, JobAssumption DEF Requeue, TypeOK
      <3> QED BY <2>1, <3>1, <3>2, <3>3 DEF At
    <2>4. CASE Finish
      BY <2>1, <2>4 DEF Finish, Go, TypeOK, Run, At
    <2>5. CASE LoseWorker \/ LateTimeout
      BY <2>1, <2>5 DEF LoseWorker, LateTimeout, Go, TypeOK, Run, At, queueVars
    <2> QED BY <1>3, <2>2, <2>3, <2>4, <2>5 DEF QueueStep
  <1>4. ASSUME UNCHANGED vars PROVE OneRun'
    BY <1>4 DEF vars, At
  <1> QED BY <1>1, <1>2, <1>3, <1>4 DEF Next, Failure

(* A run the queue starts is never refused by start: the attempts counted  *)
(* in the database and the retries counted in Redis agree, through worker  *)
(* losses, failed starts and unrecorded failures, unless an enqueue was    *)
(* accepted and reported as failed.                                        *)
THEOREM AttemptsSuffice == Spec => []NoAttemptRefused
  <1>1. Init => OneRun
    BY JobAssumption DEF Init, OneRun, At, Run
  <1>2. JobInv /\ OneRun /\ [Next]_vars => OneRun'
    BY OneRunStep DEF JobInv
  <1>3. JobInv /\ OneRun => NoAttemptRefused
    BY JobAssumption DEF JobInv, TypeOK, OneRun, NoAttemptRefused
  <1> QED BY <1>1, <1>2, <1>3, JobInvariance, PTL DEF Spec
-----------------------------------------------------------------------------
(* With one run at a time, the run that has looked its item up is the only *)
(* one that can give it a row; what it discards belongs to no row.         *)
LEMMA ObjectStep ==
  ASSUME JobInv, OneRun, ObjectInv, [Next]_vars
  PROVE  ObjectInv'
  <1>a. UNCHANGED faults
    BY DEF Next, vars
  <1> SUFFICES ASSUME "unsure" \notin faults, "timeout" \notin faults PROVE ObjectInv'
    BY <1>a DEF ObjectInv
  <1> DEFINE Holding == {"put", "insert", "discard"}
  <1>0. TypeOK /\ \A x \in Run : ItemsDone(x)
    BY DEF JobInv
  <1>1. ASSUME UNCHANGED <<kind, document, object>>,
               \A y \in Run : run'[y].pc \in Holding => run'[y] = run[y]
        PROVE ObjectInv'
    BY <1>1 DEF ObjectInv, Item
  <1>2. ASSUME NEW x \in Run, TaskMove(x),
               TaskStep(x) \/ StartFails(x) \/ TaskFails(x) \/ RecordFails(x)
        PROVE ObjectInv'
    <2>1. \A y \in Run \ {x} : run'[y].pc \notin Holding
      BY <1>2 DEF OneRun, TaskMove, Run
    <2>2. CASE Lookup(x)
      <3>1. run[x].item \in Item /\ UNCHANGED <<kind, document, object>>
        BY <1>0, <2>2 DEF Lookup, ItemsDone, At, storeVars
      <3>2. run'[x].item = run[x].item
        BY <1>0, <2>2 DEF Lookup, Go, TypeOK
      <3>3. run'[x].pc \in Holding => run'[x].pc = "put" /\ run[x].item \notin document
        BY <1>0, <2>2 DEF Lookup, Go, TypeOK, AfterItem
      <3> QED BY <2>1, <3>1, <3>2, <3>3 DEF ObjectInv, Item
    <2>3. CASE PutObject(x)
      <3>1. run'[x].item = run[x].item /\ run'[x].pc = "insert"
        BY <1>0, <2>3 DEF PutObject, Go, TypeOK
      <3>2. run[x].item \in Item \ document
        BY <2>3 DEF ObjectInv, PutObject, At
      <3> QED BY <2>1, <2>3, <3>1, <3>2 DEF ObjectInv, PutObject, Item
    <2>4. CASE InsertDocument(x)
      <3>1. run[x].item \in Item \ document /\ run[x].item \in object
        BY <2>4 DEF ObjectInv, InsertDocument, At
      <3>2. run'[x].pc = "get"
        BY <1>0, <2>4, <3>1 DEF InsertDocument, Go, TypeOK
      <3> QED BY <2>1, <2>4, <3>1, <3>2 DEF ObjectInv, InsertDocument
    <2>5. CASE DiscardObject(x)
      <3>1. run[x].item \notin document
        BY <2>5 DEF ObjectInv, DiscardObject, At
      <3>2. run'[x].pc = "record"
        BY <1>0, <2>5 DEF DiscardObject, Go, TypeOK
      <3> QED BY <2>1, <2>5, <3>1, <3>2 DEF ObjectInv, DiscardObject
    <2>6. CASE TaskFails(x)
      <3>1. run'[x].item = run[x].item /\ UNCHANGED <<kind, document, object>>
        BY <1>0, <2>6 DEF TaskFails, Go, TypeOK, storeVars
      <3>2. run'[x].pc \in Holding => run'[x].pc = "discard" /\ run[x].pc = "insert"
        BY <1>0, <2>6 DEF TaskFails, Go, TypeOK, At
      <3> QED BY <2>1, <3>1, <3>2 DEF ObjectInv, Item
    <2>7. CASE \/ Start(x) \/ ReadFile(x) \/ Progress(x) \/ GetDocument(x) \/ Report(x)
               \/ Complete(x) \/ Reload(x) \/ Unlink(x) \/ Record(x) \/ Drop(x)
               \/ StartFails(x) \/ RecordFails(x)
      <3>1. UNCHANGED <<kind, document, object>>
        BY <2>7 DEF Start, ReadFile, Progress, GetDocument, Report, Complete, Reload, Unlink,
           Record, Drop, StartFails, RecordFails, storeVars
      <3>2. run'[x].pc \notin Holding
        BY <1>0, <2>7 DEF Start, FirstPhase, ReadFile, Progress, GetDocument, AfterItem, Report,
           Complete, Reload, Unlink, Record, Drop, StartFails, RecordFails, Go, GoOn, TypeOK
      <3> QED BY <1>1, <2>1, <3>1, <3>2
    <2> QED BY <1>2, <2>2, <2>3, <2>4, <2>5, <2>6, <2>7 DEF TaskStep
  <1>3. ASSUME RouteStep \/ Abandon PROVE ObjectInv'
    <2>1. UNCHANGED <<kind, document, object>>
      BY <1>3 DEF RouteStep, CreateJob, StageFile, DispatchInline, DispatchQueued,
         DispatchRefused, Abandon, storeVars
    <2>2. run'["worker"] = run["worker"] /\ run'["route"].pc \notin Holding
      BY <1>0, <1>3 DEF RouteStep, CreateJob, StageFile, DispatchInline, DispatchQueued,
         DispatchRefused, Abandon, Go, TypeOK, Run
    <2> QED BY <1>1, <2>1, <2>2 DEF Run
  <1>4. ASSUME QueueStep \/ LoseWorker PROVE ObjectInv'
    <2>1. UNCHANGED <<kind, document, object>>
      BY <1>4 DEF QueueStep, Dequeue, Finish, Requeue, LoseWorker, storeVars
    <2>2. run'["route"] = run["route"] /\ run'["worker"].pc \notin Holding
      BY <1>0, <1>4 DEF QueueStep, Dequeue, Finish, Requeue, LoseWorker, Go, TypeOK, Run
    <2> QED BY <1>1, <2>1, <2>2 DEF Run
  <1>5. ASSUME UNCHANGED vars PROVE ObjectInv'
    BY <1>1, <1>5 DEF vars
  <1>6. ~LateTimeout
    BY DEF LateTimeout
  <1>7. ASSUME NEW x \in Run,
               TaskStep(x) \/ StartFails(x) \/ TaskFails(x) \/ RecordFails(x)
        PROVE ObjectInv'
    BY <1>0, <1>2, <1>7, TaskMoves
  <1> QED BY <1>3, <1>4, <1>5, <1>6, <1>7 DEF Next, Failure

(* Every document has its object: no retry and no cleanup of a failed      *)
(* ingestion removes the object of a committed row, as long as the task    *)
(* does not run twice at once.                                             *)
THEOREM DocumentsDownload == Spec => []DocumentHasObject
  <1>1. Init => OneRun /\ ObjectInv
    BY JobAssumption DEF Init, OneRun, ObjectInv, At, Run
  <1>2. JobInv /\ OneRun /\ ObjectInv /\ [Next]_vars => OneRun' /\ ObjectInv'
    BY OneRunStep, ObjectStep DEF JobInv
  <1>3. ObjectInv => DocumentHasObject
    BY DEF ObjectInv, DocumentHasObject
  <1> QED BY <1>1, <1>2, <1>3, JobInvariance, PTL DEF Spec

-----------------------------------------------------------------------------
(* Only a run with no retries left gives the staged file up. *)
LEMMA FileStep ==
  ASSUME TypeOK, OneRun, FileInv, [Next]_vars
  PROVE  FileInv'
  <1> USE DEF FileInv
  <1>0. UNCHANGED faults
    BY DEF Next, vars
  <1>1. UNCHANGED kind
    BY DEF Next, vars, RouteStep, CreateJob, StageFile, DispatchInline, DispatchQueued,
       DispatchRefused, QueueStep, Dequeue, Finish, Requeue, Failure, Abandon, LoseWorker,
       LateTimeout, StartFails, TaskFails, RecordFails, TaskStep, Start, ReadFile, Progress, Lookup,
       PutObject, InsertDocument, DiscardObject, GetDocument, Report, Complete, Reload, Unlink,
       Record, Drop
  <1> SUFFICES ASSUME faults \subseteq {"task", "start", "record", "delay"}, kind = "upload"
               PROVE  FileInv'
    BY <1>0, <1>1
  <1>2. /\ "unsure" \notin faults /\ ~Abandon /\ ~LoseWorker /\ ~LateTimeout
        /\ run["route"] \in [pc : Phase, item : Nat, done : BOOLEAN]
        /\ run["worker"] \in [pc : Phase, item : Nat, done : BOOLEAN]
    BY DEF Abandon, LoseWorker, LateTimeout, TypeOK, Run
  <1>3. ASSUME RouteStep PROVE FileInv'
    <2>1. /\ run'["worker"] = run["worker"] /\ queue = "absent"
          /\ run["worker"].pc = "idle"
      BY <1>2, <1>3 DEF OneRun, RouteStep, CreateJob, StageFile, DispatchInline, DispatchQueued,
         DispatchRefused, Go, At, TypeOK, Run
    <2>2. run'["route"].pc = "dispatch" => staged'
      BY <1>2, <1>3 DEF RouteStep, CreateJob, StageFile, DispatchInline, DispatchQueued,
         DispatchRefused, Go, At, TypeOK, Run
    <2>3. queue' \in {"waiting", "scheduled"} => staged'
      BY <1>2, <1>3, <2>1 DEF RouteStep, CreateJob, StageFile, DispatchInline, DispatchQueued,
         DispatchRefused, queueVars, storeVars, At
    <2> QED BY <2>1, <2>2, <2>3 DEF At, TryPhase
  <1>4. ASSUME QueueStep PROVE FileInv'
    <2>1. run'["route"] = run["route"] /\ UNCHANGED staged
      BY <1>4 DEF QueueStep, Dequeue, Finish, Requeue, Go, TypeOK, Run, storeVars
    <2>2. CASE Dequeue
      <3>1. /\ staged /\ queue' = "started"
            /\ run'["worker"].pc = "start" /\ ~run'["worker"].done
        BY <2>2 DEF Dequeue, TypeOK, Run
      <3> QED BY <2>1, <3>1 DEF At
    <2>3. CASE Finish \/ Requeue
      <3>1. run'["worker"].pc = "idle"
        BY <2>3 DEF Finish, Requeue, Go, TypeOK, Run
      <3>2. queue' \in {"waiting", "scheduled"} => staged
        BY <1>2, <2>3, JobAssumption DEF Finish, Requeue, At, TypeOK
      <3> QED BY <2>1, <3>1, <3>2 DEF At, TryPhase
    <2> QED BY <1>4, <2>2, <2>3 DEF QueueStep
  <1>5. ASSUME NEW x \in Run,
               TaskStep(x) \/ StartFails(x) \/ TaskFails(x) \/ RecordFails(x)
        PROVE  FileInv'
    <2>1. TaskMove(x)
      BY <1>5, TaskMoves
    <2>2. CASE x = "route"
      <3>1. /\ queue = "absent" /\ run'["worker"] = run["worker"] /\ run["worker"].pc = "idle"
        BY <1>2, <2>1, <2>2 DEF OneRun, TaskMove, Run
      <3> QED BY <2>1, <2>2, <3>1 DEF TaskMove, At, queueVars, TryPhase
    <2>3. CASE x = "worker"
      <3>1. queue = "started" /\ run'["route"] = run["route"] /\ UNCHANGED queueVars
        BY <1>2, <2>1, <2>3 DEF OneRun, TaskMove, Run
      <3>2. run["route"].pc # "dispatch"
        BY <1>2, <3>1 DEF OneRun
      <3>3. CASE \/ Start(x) \/ ReadFile(x) \/ Progress(x) \/ Lookup(x) \/ PutObject(x)
                 \/ InsertDocument(x) \/ DiscardObject(x) \/ GetDocument(x) \/ Report(x)
                 \/ Complete(x) \/ StartFails(x) \/ TaskFails(x) \/ Reload(x)
        <4>1. staged /\ staged' = staged /\ ~run["worker"].done
          BY <2>3, <3>3 DEF Start, ReadFile, Progress, Lookup, PutObject, InsertDocument,
             DiscardObject, GetDocument, Report, Complete, StartFails, TaskFails, Reload, At, TryPhase,
             storeVars
        <4>2. CASE Reload(x)
          <5>1. run'["worker"].pc = "unlink"
            BY <1>2, <2>3, <4>2 DEF Reload, TypeOK, Run
          <5> QED BY <3>1, <3>2, <5>1 DEF queueVars, At, TryPhase
        <4>3. CASE ~Reload(x)
          <5>1. PICK p \in Phase \ {"drop", "lost"} : Go(x, p) \/ GoOn(x, p)
            BY <3>3, <4>3 DEF Start, ReadFile, Progress, Lookup, PutObject, InsertDocument,
               DiscardObject, GetDocument, Report, Complete, StartFails, TaskFails, FirstPhase,
               AfterItem, Phase, TryPhase
          <5>2. run'["worker"].pc = p /\ ~run'["worker"].done
            BY <1>2, <2>3, <4>1, <5>1 DEF Go, GoOn, TypeOK, Run
          <5> QED BY <3>1, <3>2, <4>1, <5>2 DEF queueVars, At
        <4> QED BY <4>2, <4>3
      <3>4. CASE Unlink(x)
        <4>1. run'["worker"].pc = "returned"
          BY <1>2, <2>3, <3>4 DEF Unlink, Go, TypeOK, Run
        <4> QED BY <3>1, <3>2, <4>1 DEF queueVars, At, TryPhase
      <3>5. CASE Record(x) \/ RecordFails(x)
        <4>1. staged /\ staged' = staged /\ ~run["worker"].done /\ left \in Nat
          BY <2>3, <3>5, JobAssumption DEF Record, RecordFails, At, storeVars, TypeOK
        <4>2. run'["worker"].pc \in {"raised", "drop"} /\ (run'["worker"].pc = "drop" => left = 0)
          BY <1>2, <2>3, <3>5, <4>1 DEF Record, RecordFails, Retrying, Go, TypeOK, Run
        <4> QED BY <3>1, <3>2, <4>1, <4>2 DEF queueVars, At, TryPhase
      <3>6. CASE Drop(x)
        <4>1. run'["worker"].pc = "raised" /\ left = 0
          BY <1>2, <2>3, <3>6 DEF Drop, Go, TypeOK, Run, At
        <4> QED BY <3>1, <3>2, <4>1 DEF queueVars, At, TryPhase
      <3> QED BY <1>5, <3>3, <3>4, <3>5, <3>6 DEF TaskStep
    <2> QED BY <2>2, <2>3 DEF Run
  <1>6. ASSUME UNCHANGED vars PROVE FileInv'
    BY <1>6 DEF vars, At
  <1> QED BY <1>2, <1>3, <1>4, <1>5, <1>6 DEF Next, Failure

(* An upload that the queue will try again still has its staged file, when *)
(* calls raise but no process dies: the retries the queue has left, the    *)
(* only evidence the task has that it is not the last, say so truly.       *)
THEOREM RetriesHaveTheirFile == Spec => []StagedForRetry
  <1>1. Init => OneRun /\ FileInv
    BY JobAssumption DEF Init, OneRun, FileInv, At, Run, TryPhase
  <1>2. JobInv /\ OneRun /\ FileInv /\ [Next]_vars => OneRun' /\ FileInv'
    BY OneRunStep, FileStep DEF JobInv
  <1>3. FileInv => StagedForRetry
    BY DEF FileInv, StagedForRetry
  <1> QED BY <1>1, <1>2, <1>3, JobInvariance, PTL DEF Spec
=============================================================================
