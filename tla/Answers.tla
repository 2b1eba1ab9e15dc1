------------------------------- MODULE Answers -------------------------------
(***************************************************************************)
(* From a file to an answer: uploads and reindexing with their inspection   *)
(* (security_controls), paid model calls under a budget (observability,      *)
(* embeddings, model_gateway), and questions answered from the documents     *)
(* that the asker may read (rag, retrieval, grounded_answers).              *)
(*                                                                         *)
(* A text is abstracted to what the controls look for in it, the chunks that *)
(* one indexing makes of a text to one passage, an answer to what it cites.  *)
(***************************************************************************)
EXTENDS RateLimit

CONSTANTS
  Doc,
  Caller,     \* requests, each in a thread of its own; each is an identifier
  Estimate,   \* the most a call is expected to cost
  MaxCost,    \* what a call can cost, where more tokens are read than expected
  Limits,     \* budgets an administrator may set
  MaxRetries,
  TopK,       \* passages retrieved for a question
  Text,       \* the texts that are uploaded, by what there is in them
  Policies,   \* the policies that an administrator may set
  FailClosed, \* malware_fail_closed
  Settings,   \* what a behaviour begins with, and how much of each kind may happen
  None

Event == {"upload", "reindex", "classify", "policy", "budget", "forget", "ask", "evaluate", "restart", "tick"}

(* What clamd knows, what the basic signatures know, what _scan_dlp finds    *)
(* and what the prompt guard finds.                                        *)
Trait == {"malware", "active", "secret", "injection"}

Policy == [malware : {"disabled", "basic", "clamav"}, dlp : {"disabled", "audit", "block"}]

ASSUME AnswersAssumption ==
  /\ Caller = Identifier
  /\ IsFiniteSet(Caller)
  /\ MaxCost \in Nat /\ Estimate \in 1..MaxCost
  /\ Limits \subseteq Nat /\ MaxRetries \in Nat /\ TopK \in Nat \ {0}
  /\ Text \subseteq SUBSET Trait /\ Policies \subseteq Policy /\ FailClosed \in BOOLEAN
  /\ Settings \subseteq [backend : Backend, policy : Policies, limit : Limits, left : [Event -> Nat]]

VARIABLES
  doc,        \* documents and document_chunks
  policy,     \* organization_security_policies
  limit,      \* the lowest limit of the enabled budgets
  highest,    \* the highest budget there was in this period
  spent,      \* the cost recorded in this period
  call,       \* the locals of each request
  left        \* how much of each kind may still happen

answerVars == <<doc, policy, limit, highest, spent, call, left>>

(* The chunks of one indexing: what is in them, the policy that let them in  *)
(* and the transaction of the document that inserted them.  A row has the     *)
(* chunks beside it, the file that reindexing reads, and the number of its   *)
(* last transaction.  What is retrieved is a passage and the row it is joined *)
(* with.                                                                   *)
Passage == [traits : SUBSET Trait, under : Policy, version : Nat]
Row == [restricted : BOOLEAN, unsafe : BOOLEAN, file : SUBSET Trait,
        passages : SUBSET Passage, version : Nat]
Evidence == [doc : Doc, row : Row, passage : Passage]
Idle == [pc |-> "idle", admin |-> FALSE, doc |-> None, text |-> None, restricted |-> FALSE,
         write |-> None, reasons |-> {},
         seen |-> 0,          \* the transactions that a DELETE has seen
         evidence |-> {}, cites |-> {}, retries |-> 0,
         next |-> "idle",     \* after an embedding
         error |-> "idle"]    \* after one that failed

(* The phases of an upload, a question and (Evaluation) an evaluation. *)
Phase == {"idle", "inspect", "embed", "embedding", "index", "commit",
          "retrieve", "generate", "generating", "fallback", "answered",
          "run", "skip", "case", "score", "unfinished", "report"}
Locals == [pc : Phase, admin : BOOLEAN, doc : Doc \cup {None}, text : Passage \cup {None},
           restricted : BOOLEAN, write : {None, "insert", "replace", "reindex"},
           reasons : SUBSET Trait, seen : Nat,
           evidence : SUBSET Evidence, cites : SUBSET Evidence, retries : Nat,
           next : Phase, error : Phase]

AnswersTypeOK ==
  /\ doc \in [Doc -> Row \cup {None}]
  /\ policy \in Policies
  /\ limit \in Limits /\ highest \in Limits
  /\ spent \in Nat
  /\ call \in [Caller -> Locals]
  /\ left \in [Event -> Nat]

AnswersInit ==
  /\ RateInit
  /\ doc = [d \in Doc |-> None]
  /\ \E s \in Settings :
       /\ backend = s.backend /\ policy = s.policy /\ left = s.left
       /\ limit = s.limit /\ highest = s.limit
  /\ spent = 0
  /\ call = [c \in Caller |-> Idle]

At(c, p) == call[c].pc = p
Enter(c, r) == At(c, "idle") /\ call' = [call EXCEPT ![c] = r]
Go(c, p) == call' = [call EXCEPT ![c].pc = p]
Return(c) == call' = [call EXCEPT ![c] = Idle]

(* With a fault: nobody handles an embedding that failed. *)
FailFault(c) == Return(c)

Fail(c) == IF call[c].error = "idle" THEN Return(c) ELSE Go(c, call[c].error)
Spend(e) == left[e] > 0 /\ left' = [left EXCEPT ![e] = @ - 1]
-----------------------------------------------------------------------------
(* Paid calls: assert_budget_available in one transaction, the call, and    *)
(* record_safely in another, which may fail unnoticed.                     *)

Affordable == spent + Estimate <= limit

Record(k) == spent' = spent + k \/ spent' = spent

(* embed_many: for a priced provider the budget is asked first; a local one   *)
(* costs nothing.  Over the budget it fails, as it does for its own reasons.  *)
CheckEmbedding(c) ==
  /\ At(c, "embed")
  /\ \/ /\ Affordable
        /\ Go(c, "embedding")
     \/ Go(c, call[c].next)
     \/ Fail(c)
  /\ UNCHANGED <<rateVars, doc, policy, limit, highest, spent, left>>

Embedding(c) ==
  /\ At(c, "embedding")
  /\ \/ /\ Record(Estimate)
        /\ Go(c, call[c].next)
     \/ /\ Fail(c)
        /\ UNCHANGED spent
  /\ UNCHANGED <<rateVars, doc, policy, limit, highest, left>>

(* The period ends, or retention deletes observations of this one. *)
ForgetSpending ==
  /\ Spend("forget")
  /\ spent > 0
  /\ spent' \in 0..(spent - 1)
  /\ highest' = IF spent' = 0 THEN limit ELSE highest
  /\ UNCHANGED <<rateVars, doc, policy, limit, call>>

UpdateBudget(l) ==
  /\ Spend("budget")
  /\ l # limit
  /\ limit' = l
  /\ highest' = IF l > highest THEN l ELSE highest
  /\ UNCHANGED <<rateVars, doc, policy, spent, call>>
-----------------------------------------------------------------------------
(* preflight_upload, inspect_text and the indexing of what they let in. *)

UpdatePolicy(p) ==
  /\ Spend("policy")
  /\ p # policy
  /\ policy' = p
  /\ UNCHANGED <<rateVars, doc, limit, highest, spent, call>>

(* Whether a file is blocked.  basic looks for signatures; clamav asks a     *)
(* daemon, and where no answer comes, malware_fail_closed decides.           *)
Blocked(t) ==
  CASE policy.malware = "disabled" -> {FALSE}
    [] policy.malware = "basic" -> {"active" \in t}
    [] OTHER -> {"malware" \in t, FailClosed}

Preflight(c, blocked, entered) == IF blocked THEN UNCHANGED call ELSE Enter(c, entered)

Inspecting(d, t, r, write) ==
  [Idle EXCEPT !.pc = "inspect", !.doc = d, !.write = write, !.next = "index",
               !.text = [traits |-> t, under |-> policy, version |-> 0], !.restricted = r]

(* ingest_file, whose document has a new identifier, and replace_file_content, *)
(* which only the event loop calls, one at a time; both with the              *)
(* classification they are given.  Uploads come from the worker too; where    *)
(* they come by HTTP, they have a limit of their own.                       *)
BeginUpload(c, d, t, r) ==
  /\ Spend("upload")
  /\ At(c, "idle")
  /\ \A e \in Caller : call[e].doc = d => doc[d] # None /\ call[e].write = "reindex"
  /\ LET write == IF doc[d] = None THEN "insert" ELSE "replace"
     IN \E blocked \in Blocked(t) : Preflight(c, blocked, Inspecting(d, t, r, write))
  /\ UNCHANGED <<rateVars, doc, policy, limit, highest, spent>>

(* reindex_document reads the file of the row again. *)
BeginReindex(c, d) ==
  /\ Spend("reindex")
  /\ At(c, "idle")
  /\ doc[d] # None
  /\ \E blocked \in Blocked(doc[d].file) :
       Preflight(c, blocked, Inspecting(d, doc[d].file, doc[d].restricted, "reindex"))
  /\ UNCHANGED <<rateVars, doc, policy, limit, highest, spent>>

(* The policy is read again for the text, with whatever it says by now. *)
InspectText(c) ==
  /\ At(c, "inspect")
  /\ LET secret == "secret" \in call[c].text.traits /\ policy.dlp # "disabled"
         text == [call[c].text EXCEPT !.under.dlp = policy.dlp]
     IN IF secret /\ policy.dlp = "block" THEN Return(c)
        ELSE call' = [call EXCEPT ![c].pc = "embed", ![c].text = text,
                                  ![c].reasons = IF secret THEN {"secret"} ELSE {}]
  /\ UNCHANGED <<rateVars, doc, policy, limit, highest, spent, left>>

(* One transaction.  The DELETE of it sees the chunks of the transactions     *)
(* that were committed when it began; the chunks of one that commits while it *)
(* waits for that one are new to it, and stay (PostgreSQL, READ COMMITTED).   *)
OpenIndex(c) ==
  /\ At(c, "index")
  /\ LET d == call[c].doc
     IN call' = [call EXCEPT ![c].pc = "commit",
                             ![c].seen = IF doc[d] = None THEN 0 ELSE doc[d].version]
  /\ UNCHANGED <<rateVars, doc, policy, limit, highest, spent, left>>

Unseen(c, row) == {p \in row.passages : p.version > call[c].seen}

(* The prompt guard marks the document as well.  The row gets the mark of the *)
(* text that is written, whatever lies beside it; reindexing keeps its         *)
(* classification and its file.                                            *)
Indexed(c, row) ==
  LET text == [call[c].text EXCEPT !.version = row.version + 1]
      reasons == call[c].reasons \cup (text.traits \cap {"injection"})
      reindex == call[c].write = "reindex"
  IN [restricted |-> IF reindex THEN row.restricted ELSE call[c].restricted,
      unsafe |-> reasons # {},
      file |-> IF reindex THEN row.file ELSE text.traits,
      passages |-> Unseen(c, row) \cup {text},
      version |-> row.version + 1]

NewRow == [restricted |-> FALSE, unsafe |-> FALSE, file |-> {}, passages |-> {}, version |-> 0]

(* The chunks have no row to go with where the document was deleted; and a    *)
(* database may fail at any time.                                          *)
CommitIndex(c) ==
  /\ At(c, "commit")
  /\ LET d == call[c].doc
     IN \/ /\ doc[d] = None <=> call[c].write = "insert"
           /\ doc' = [doc EXCEPT ![d] = Indexed(c, IF @ = None THEN NewRow ELSE @)]
        \/ UNCHANGED doc
  /\ Return(c)
  /\ UNCHANGED <<rateVars, policy, limit, highest, spent, left>>

(* update_document and delete_document *)
UpdateDocument(d) ==
  /\ Spend("classify")
  /\ doc[d] # None
  /\ \/ doc' = [doc EXCEPT ![d].restricted = ~@]
     \/ doc' = [doc EXCEPT ![d] = None]
  /\ UNCHANGED <<rateVars, policy, limit, highest, spent, call>>
-----------------------------------------------------------------------------
(* A question: security_boundary, then answer. *)

Admitted(c, entered) ==
  \E allowed \in BOOLEAN :
    /\ Consume(c, allowed)
    /\ IF allowed THEN Enter(c, entered) ELSE UNCHANGED call

BeginQuestion(c, a) ==
  /\ Spend("ask")
  /\ At(c, "idle")
  /\ Admitted(c, [Idle EXCEPT !.pc = "embed", !.admin = a, !.next = "retrieve"])
  /\ UNCHANGED <<doc, policy, limit, highest, spent>>

(* The chunks that _postgres_hybrid_matches, _sqlite_hybrid_matches and      *)
(* _load_corpus join with their rows, and the WHERE clause of all of them.   *)
Readable(row, a) == row # None /\ ~row.unsafe /\ (a \/ ~row.restricted)
Searchable(a) ==
  UNION {{[doc |-> d, row |-> doc[d], passage |-> p] : p \in doc[d].passages} :
         d \in {x \in Doc : Readable(doc[x], a)}}

(* rank keeps what is relevant, the best TopK of it. *)
Retrieve(c) ==
  /\ At(c, "retrieve")
  /\ \E E \in SUBSET Searchable(call[c].admin) :
       /\ Cardinality(E) <= TopK
       /\ IF E = {} THEN Return(c)
          ELSE call' = [call EXCEPT ![c].evidence = E, ![c].pc = "generate"]
  /\ UNCHANGED <<rateVars, doc, policy, limit, highest, spent, left>>

(* With a fault: the budget is not asked. *)
CheckGenerationFault(c) ==
  /\ At(c, "generate")
  /\ Go(c, "generating") \/ Go(c, "fallback")
  /\ UNCHANGED <<rateVars, doc, policy, limit, highest, spent, left>>

(* generate_structured: the model is not asked where it is switched off, the *)
(* input is too long or the budget does not allow it.                       *)
CheckGeneration(c) ==
  /\ At(c, "generate")
  /\ \/ /\ Affordable
        /\ Go(c, "generating")
     \/ Go(c, "fallback")
  /\ UNCHANGED <<rateVars, doc, policy, limit, highest, spent, left>>

(* What a model can name at all: any passage there is, or was retrieved. *)
Citable == Searchable(TRUE) \cup UNION {call[c].evidence : c \in Caller}

(* With a fault: citations are not checked. *)
GroundedFault(c, E) == E # {}

(* _validate_citations: every support is a passage that was retrieved. *)
Grounded(c, E) == E # {} /\ E \subseteq call[c].evidence

(* The model may cite anything.  What validates is recorded at its cost and *)
(* used, if only to say that the evidence does not suffice; a connection that *)
(* fails is tried again; all else is a failure, recorded at no cost.         *)
Generate(c) ==
  /\ At(c, "generating")
  /\ \/ \E E \in SUBSET Citable :
          /\ Grounded(c, E)
          /\ \E k \in 0..MaxCost : Record(k)
          /\ call' = [call EXCEPT ![c].cites = E, ![c].pc = "answered"]
     \/ /\ call[c].retries < MaxRetries
        /\ call' = [call EXCEPT ![c].retries = @ + 1]
        /\ UNCHANGED spent
     \/ /\ Go(c, "fallback")
        /\ UNCHANGED spent
     \/ /\ \E k \in 0..MaxCost : Record(k)
        /\ Return(c)
  /\ UNCHANGED <<rateVars, doc, policy, limit, highest, left>>

(* The best sentence of one passage, where one is good enough. *)
ExtractiveFallback(c) ==
  /\ At(c, "fallback")
  /\ \/ \E e \in call[c].evidence : call' = [call EXCEPT ![c].cites = {e}, ![c].pc = "answered"]
     \/ Return(c)
  /\ UNCHANGED <<rateVars, doc, policy, limit, highest, spent, left>>

Answered(c) ==
  /\ At(c, "answered")
  /\ Return(c)
  /\ UNCHANGED <<rateVars, doc, policy, limit, highest, spent, left>>
-----------------------------------------------------------------------------
ClockTicks ==
  /\ Spend("tick")
  /\ Tick
  /\ UNCHANGED <<doc, policy, limit, highest, spent, call>>

Restart ==
  /\ Spend("restart")
  /\ RateRestart
  /\ call' = [c \in Caller |-> Idle]
  /\ UNCHANGED <<doc, policy, limit, highest, spent>>

AnswersStep ==
  \/ \E c \in Caller :
       \/ \E d \in Doc :
            \/ \E t \in Text, r \in BOOLEAN : BeginUpload(c, d, t, r)
            \/ BeginReindex(c, d)
       \/ \E a \in BOOLEAN : BeginQuestion(c, a)
       \/ CheckEmbedding(c) \/ Embedding(c) \/ InspectText(c)
       \/ OpenIndex(c) \/ CommitIndex(c)
       \/ Retrieve(c) \/ CheckGeneration(c) \/ Generate(c) \/ ExtractiveFallback(c) \/ Answered(c)
  \/ \E d \in Doc : UpdateDocument(d)
  \/ \E p \in Policies : UpdatePolicy(p)
  \/ \E l \in Limits : UpdateBudget(l)
  \/ ForgetSpending \/ ClockTicks

AnswersNext == AnswersStep \/ Restart

AnswersSpec == AnswersInit /\ [][AnswersNext]_<<rateVars, answerVars>>
-----------------------------------------------------------------------------
(* What _scan_dlp in audit mode and the prompt guard say of a text. *)
Marked(p) == "injection" \in p.traits \/ ("secret" \in p.traits /\ p.under.dlp = "audit")

(* What controls are for: a text that the policy it was inspected under     *)
(* forbids has no place among the evidence.  One that was marked has none     *)
(* either, unless a transaction that had not seen it put an unmarked text     *)
(* beside it later, with which the row lost the mark (MarkedExcluded).       *)
Vetted(e) ==
  LET p == e.passage IN
  /\ "secret" \in p.traits => p.under.dlp # "block"
  /\ "active" \in p.traits => p.under.malware # "basic"
  /\ "malware" \in p.traits => p.under.malware # "clamav" \/ ~FailClosed
  /\ Marked(p) => \E q \in e.row.passages : q.version > p.version /\ ~Marked(q)

(* An answer cites passages that were retrieved for it, of documents that    *)
(* its asker could read and that the controls had let through: whatever the  *)
(* model returns, whichever fallback is taken, and however uploads,          *)
(* reindexing, changes of policy and classification run beside it, but for a *)
(* mark that is lost as Vetted says.                                       *)
AnswersFromVetted ==
  \A c \in Caller : At(c, "answered") =>
    /\ call[c].cites # {}
    /\ \A e \in call[c].cites :
         Vetted(e) /\ (e.row.restricted => call[c].admin)

(* README.md:202: "Audit mode marks the document unsafe so retrieval excludes *)
(* it": no answer cites a passage that was marked.  Violated where a           *)
(* reindexing of the file as it was commits after the replacement that was     *)
(* marked, and before it in what its DELETE has seen.                       *)
MarkedExcluded ==
  \A c \in Caller : At(c, "answered") => \A e \in call[c].cites : ~Marked(e.passage)

(* What is recorded in a period goes over the highest budget there was in it *)
(* by no more than one call of each request at work.                       *)
SpendBounded == spent <= highest + MaxCost * Cardinality(Caller)
=============================================================================
