--------------------------- MODULE EvaluationProofs ---------------------------
(***************************************************************************)
(* Proofs about RateLimit, Answers and Evaluation together: what answers     *)
(* cite, what is spent, how runs settle, and how many requests are let in.   *)
(***************************************************************************)
EXTENDS Evaluation, FiniteSetTheorems, SequenceTheorems, TLAPS

(* Where a request goes on after an embedding, and after one that failed. *)
Flow(r) ==
  /\ r.error \in {"idle", "unfinished"}
  /\ r.pc \in {"embed", "embedding"} =>
       r.next \in IF r.error = "idle" THEN {"index", "retrieve"} ELSE {"case", "score"}
  /\ r.pc \in {"inspect", "index", "commit", "retrieve", "generate", "generating", "fallback", "answered"} =>
       r.error = "idle"
  /\ r.pc \in {"run", "skip", "case", "score", "unfinished", "report"} => r.error = "unfinished"

(* What the malware scan has let through, and what the controls have. *)
Passed(p) ==
  /\ "active" \in p.traits => p.under.malware # "basic"
  /\ "malware" \in p.traits => p.under.malware # "clamav" \/ ~FailClosed

Allowed(p) == Passed(p) /\ ("secret" \in p.traits => p.under.dlp # "block")

(* What the text inspection has let through or will mark. *)
Inspected(r) ==
  /\ r.doc \in Doc /\ r.text \in Passage /\ r.restricted \in BOOLEAN /\ Allowed(r.text)
  /\ r.write \in {"insert", "replace", "reindex"}
  /\ "secret" \in r.text.traits /\ r.text.under.dlp = "audit" => r.reasons # {}

Readably(e, admin) == Vetted(e) /\ (e.row.restricted => admin)

(* The locals of a request hold only what may be indexed or cited. *)
Sound(r) ==
  /\ Flow(r)
  /\ r.pc = "inspect" =>
       /\ r.doc \in Doc /\ r.text \in Passage /\ Passed(r.text) /\ r.next = "index"
       /\ r.write \in {"insert", "replace", "reindex"}
  /\ r.pc \in {"embed", "embedding"} /\ r.next = "index" => Inspected(r)
  /\ r.pc \in {"index", "commit"} => Inspected(r)
  /\ \A e \in r.evidence : Readably(e, r.admin)
  /\ r.cites \subseteq r.evidence
  /\ r.pc = "answered" <=> r.cites # {}

(* Only the passage of the last transaction has its number, and a row without *)
(* a mark has one that is not marked.                                      *)
RowSound(row) ==
  /\ \A p \in row.passages : Allowed(p) /\ p.version <= row.version
  /\ \A p, q \in row.passages : p.version = row.version /\ q.version = row.version => p = q
  /\ ~row.unsafe => \E q \in row.passages : q.version = row.version /\ ~Marked(q)

RowsSound == \A d \in Doc : doc[d] # None => RowSound(doc[d])

SoundInv == AnswersTypeOK /\ RowsSound /\ \A c \in Caller : Sound(call[c])

(* One request moves on, the documents stay. *)
LEMMA CallFrame ==
  ASSUME SoundInv, NEW c \in Caller, NEW r \in Locals, Sound(r),
         call' = [call EXCEPT ![c] = r],
         doc' \in [Doc -> Row \cup {None}], RowsSound',
         policy' = policy, limit' = limit, highest' = highest, spent' \in Nat,
         left' \in [Event -> Nat]
  PROVE  SoundInv'
  <1>1. call' \in [Caller -> Locals]
    BY DEF SoundInv, AnswersTypeOK
  <1>2. \A x \in Caller : call'[x] = r \/ call'[x] = call[x]
    BY DEF SoundInv, AnswersTypeOK
  <1>3. \A x \in Caller : Sound(call'[x])
    BY <1>2 DEF SoundInv
  <1> QED BY <1>1, <1>3 DEF SoundInv, AnswersTypeOK

LEMMA Spent ==
  ASSUME AnswersTypeOK, NEW e \in Event, Spend(e)
  PROVE  left' \in [Event -> Nat]
  BY DEF AnswersTypeOK, Spend

LEMMA IdleSound == Idle \in Locals /\ Sound(Idle)
  BY DEF Idle, Locals, Phase, Sound, Flow

LEMMA PolicyTypes ==
  ASSUME AnswersTypeOK
  PROVE  policy \in Policy /\ policy.dlp \in {"disabled", "audit", "block"}
  BY AnswersAssumption DEF AnswersTypeOK, Policy

-----------------------------------------------------------------------------
(* Uploads and reindexing. *)

LEMMA InspectingSound ==
  ASSUME AnswersTypeOK, NEW d \in Doc, NEW t \in SUBSET Trait, NEW a \in BOOLEAN,
         NEW write \in {"insert", "replace", "reindex"},
         NEW blocked \in Blocked(t), ~blocked
  PROVE  Inspecting(d, t, a, write) \in Locals /\ Sound(Inspecting(d, t, a, write))
  <1> DEFINE r == Inspecting(d, t, a, write)
             text == [traits |-> t, under |-> policy, version |-> 0]
  <1>1. text \in Passage
    BY PolicyTypes DEF Passage
  <1>2. /\ r.pc = "inspect" /\ r.admin = FALSE /\ r.doc = d /\ r.text = text
        /\ r.write = write /\ r.reasons = {} /\ r.evidence = {} /\ r.cites = {} /\ r.retries = 0
        /\ r.next = "index" /\ r.error = "idle"
    BY DEF Inspecting, Idle
  <1>3. r \in Locals
    BY <1>1 DEF Inspecting, Idle, Locals, Phase
  <1>4. Passed(text)
    <2>1. policy.malware \in {"disabled", "basic", "clamav"} /\ FailClosed \in BOOLEAN
      BY PolicyTypes, AnswersAssumption DEF Policy
    <2>2. CASE policy.malware = "disabled"
      BY <2>2 DEF Passed
    <2>3. CASE policy.malware = "basic"
      <3>1. blocked = ("active" \in t)
        BY <2>3 DEF Blocked
      <3> QED BY <2>3, <3>1 DEF Passed
    <2>4. CASE policy.malware = "clamav"
      <3>1. blocked \in {"malware" \in t, FailClosed}
        BY <2>4 DEF Blocked
      <3> QED BY <2>1, <2>4, <3>1 DEF Passed
    <2> QED BY <2>1, <2>2, <2>3, <2>4
  <1> HIDE DEF text
  <1> QED BY <1>1, <1>2, <1>3, <1>4 DEF Sound, Flow

LEMMA UploadSound ==
  ASSUME SoundInv, NEW c \in Caller, NEW d \in Doc, NEW t \in Text, NEW r \in BOOLEAN,
         BeginUpload(c, d, t, r)
  PROVE  SoundInv'
  <1> DEFINE write == IF doc[d] = None THEN "insert" ELSE "replace"
  <1>1. t \in SUBSET Trait
    BY AnswersAssumption
  <1>2. PICK blocked \in Blocked(t) : Preflight(c, blocked, Inspecting(d, t, r, write))
    BY DEF BeginUpload
  <1>3. left' \in [Event -> Nat]
    BY Spent DEF BeginUpload, SoundInv, Event
  <1>4. UNCHANGED <<doc, policy, limit, highest, spent>>
    BY DEF BeginUpload
  <1>5. CASE blocked
    BY <1>2, <1>3, <1>4, <1>5 DEF SoundInv, AnswersTypeOK, RowsSound, Preflight
  <1>6. CASE ~blocked
    <2>1. call' = [call EXCEPT ![c] = Inspecting(d, t, r, write)]
      BY <1>2, <1>6 DEF Preflight, Enter
    <2>2. Inspecting(d, t, r, write) \in Locals /\ Sound(Inspecting(d, t, r, write))
      BY <1>1, <1>2, <1>6, InspectingSound DEF SoundInv
    <2>3. RowsSound' /\ doc' \in [Doc -> Row \cup {None}] /\ spent' \in Nat
      BY <1>4 DEF SoundInv, AnswersTypeOK, RowsSound
    <2> HIDE DEF write
    <2> QED BY <1>3, <1>4, <2>1, <2>2, <2>3, CallFrame
  <1> QED BY <1>5, <1>6

LEMMA ReindexSound ==
  ASSUME SoundInv, NEW c \in Caller, NEW d \in Doc, BeginReindex(c, d)
  PROVE  SoundInv'
  <1> DEFINE r == Inspecting(d, doc[d].file, doc[d].restricted, "reindex")
  <1>1. doc[d].file \in SUBSET Trait /\ doc[d].restricted \in BOOLEAN
    BY DEF BeginReindex, SoundInv, AnswersTypeOK, Row
  <1>2. PICK blocked \in Blocked(doc[d].file) : Preflight(c, blocked, r)
    BY DEF BeginReindex
  <1>3. left' \in [Event -> Nat]
    BY Spent DEF BeginReindex, SoundInv, Event
  <1>4. UNCHANGED <<doc, policy, limit, highest, spent>>
    BY DEF BeginReindex
  <1>5. CASE blocked
    BY <1>2, <1>3, <1>4, <1>5 DEF SoundInv, AnswersTypeOK, RowsSound, Preflight
  <1>6. CASE ~blocked
    <2>1. call' = [call EXCEPT ![c] = r]
      BY <1>2, <1>6 DEF Preflight, Enter
    <2>2. r \in Locals /\ Sound(r)
      BY <1>1, <1>2, <1>6, InspectingSound DEF SoundInv
    <2>3. RowsSound' /\ doc' \in [Doc -> Row \cup {None}] /\ spent' \in Nat
      BY <1>4 DEF SoundInv, AnswersTypeOK, RowsSound
    <2> HIDE DEF r
    <2> QED BY <1>3, <1>4, <2>1, <2>2, <2>3, CallFrame
  <1> QED BY <1>5, <1>6

(* A request that only moves to another phase. *)
LEMMA GoSound ==
  ASSUME SoundInv, NEW c \in Caller, NEW p \in Phase,
         Go(c, p),
         p = "index" => Inspected(call[c]),
         p \in {"embed", "embedding"} => call[c].pc \in {"embed", "embedding"},
         p \in {"index", "retrieve", "generate", "generating", "fallback"} => call[c].error = "idle",
         p \in {"run", "skip", "case", "score", "unfinished", "report"} => call[c].error = "unfinished",
         p \notin {"inspect", "commit", "answered"}, call[c].pc # "answered",
         UNCHANGED <<doc, policy, limit, highest, left>>, spent' \in Nat
  PROVE  SoundInv'
  <1> DEFINE r == [call[c] EXCEPT !.pc = p]
  <1>1. call[c] \in Locals /\ Sound(call[c])
    BY DEF SoundInv, AnswersTypeOK
  <1>2. r \in Locals
    BY <1>1 DEF Locals
  <1>3. /\ r.pc = p /\ r.doc = call[c].doc /\ r.text = call[c].text /\ r.write = call[c].write
        /\ r.restricted = call[c].restricted
        /\ r.reasons = call[c].reasons /\ r.evidence = call[c].evidence /\ r.cites = call[c].cites
        /\ r.admin = call[c].admin /\ r.next = call[c].next /\ r.error = call[c].error
    BY <1>1 DEF Locals
  <1> HIDE DEF r
  <1>4. Flow(r)
    BY <1>1, <1>3 DEF Sound, Flow
  <1>5. Inspected(call[c]) => Inspected(r)
    BY <1>3 DEF Inspected
  <1>6. Sound(r)
    BY <1>1, <1>3, <1>4, <1>5 DEF Sound
  <1>7. call' = [call EXCEPT ![c] = r]
    BY DEF Go, r
  <1>8. RowsSound' /\ doc' \in [Doc -> Row \cup {None}] /\ left' \in [Event -> Nat]
    BY DEF SoundInv, AnswersTypeOK, RowsSound
  <1> QED BY <1>2, <1>6, <1>7, <1>8, CallFrame

LEMMA ReturnSound ==
  ASSUME SoundInv, NEW c \in Caller, Return(c),
         UNCHANGED <<policy, limit, highest, left>>, spent' \in Nat,
         doc' \in [Doc -> Row \cup {None}], RowsSound'
  PROVE  SoundInv'
  <1>1. left' \in [Event -> Nat]
    BY DEF SoundInv, AnswersTypeOK
  <1> QED BY <1>1, IdleSound, CallFrame DEF Return

LEMMA FailSound ==
  ASSUME SoundInv, NEW c \in Caller, Fail(c),
         UNCHANGED <<doc, policy, limit, highest, left>>, spent' \in Nat, call[c].pc # "answered"
  PROVE  SoundInv'
  <1>1. call[c].error \in {"idle", "unfinished"}
    BY DEF SoundInv, Sound, Flow
  <1>2. RowsSound' /\ doc' \in [Doc -> Row \cup {None}]
    BY DEF SoundInv, AnswersTypeOK, RowsSound
  <1>3. CASE call[c].error = "idle"
    BY <1>2, <1>3, ReturnSound DEF Fail
  <1>4. CASE call[c].error = "unfinished"
    <2>1. Go(c, "unfinished")
      BY <1>4 DEF Fail
    <2> QED BY <1>4, <2>1, GoSound DEF Phase
  <1> QED BY <1>1, <1>3, <1>4

LEMMA NextSound ==
  ASSUME SoundInv, NEW c \in Caller, call[c].pc \in {"embed", "embedding"}, Go(c, call[c].next),
         UNCHANGED <<doc, policy, limit, highest, left>>, spent' \in Nat
  PROVE  SoundInv'
  <1>1. Sound(call[c])
    BY DEF SoundInv
  <1>2. /\ call[c].error = "idle" => call[c].next \in {"index", "retrieve"}
        /\ call[c].error # "idle" => call[c].next \in {"case", "score"} /\ call[c].error = "unfinished"
    BY <1>1 DEF Sound, Flow
  <1>3. call[c].next = "index" => Inspected(call[c])
    BY <1>1 DEF Sound
  <1>4. call[c].next \in Phase
    BY <1>2 DEF Phase
  <1> QED BY <1>2, <1>3, <1>4, GoSound

LEMMA RecordTypes ==
  ASSUME spent \in Nat, NEW k \in Nat, Record(k)
  PROVE  spent' \in Nat
  BY DEF Record

LEMMA EmbedSound ==
  ASSUME SoundInv, NEW c \in Caller, CheckEmbedding(c) \/ Embedding(c)
  PROVE  SoundInv'
  <1>1. spent \in Nat /\ Estimate \in Nat
    BY AnswersAssumption DEF SoundInv, AnswersTypeOK
  <1>2. spent' \in Nat /\ UNCHANGED <<doc, policy, limit, highest, left>>
    BY <1>1, RecordTypes DEF CheckEmbedding, Embedding
  <1>3. call[c].pc \in {"embed", "embedding"}
    BY DEF CheckEmbedding, Embedding, At
  <1>4. CASE Go(c, "embedding")
    BY <1>2, <1>3, <1>4, GoSound DEF Phase
  <1>5. CASE Go(c, call[c].next)
    BY <1>2, <1>3, <1>5, NextSound
  <1>6. CASE Fail(c)
    BY <1>2, <1>3, <1>6, FailSound
  <1> QED BY <1>4, <1>5, <1>6 DEF CheckEmbedding, Embedding

LEMMA InspectSound ==
  ASSUME SoundInv, NEW c \in Caller, InspectText(c)
  PROVE  SoundInv'
  <1> DEFINE secret == "secret" \in call[c].text.traits /\ policy.dlp # "disabled"
             text == [call[c].text EXCEPT !.under.dlp = policy.dlp]
             reasons == IF secret THEN {"secret"} ELSE {}
             r == [call[c] EXCEPT !.pc = "embed", !.text = text, !.reasons = reasons]
  <1>1. call[c] \in Locals /\ Sound(call[c]) /\ call[c].pc = "inspect"
    BY DEF SoundInv, AnswersTypeOK, InspectText, At
  <1>2. /\ call[c].doc \in Doc /\ call[c].text \in Passage /\ Passed(call[c].text) /\ call[c].next = "index"
        /\ call[c].write \in {"insert", "replace", "reindex"} /\ call[c].error = "idle"
    BY <1>1 DEF Sound, Flow
  <1>3. UNCHANGED <<doc, policy, limit, highest, spent, left>>
    BY DEF InspectText
  <1>4. /\ RowsSound' /\ doc' \in [Doc -> Row \cup {None}] /\ spent' \in Nat
        /\ left' \in [Event -> Nat]
    BY <1>3 DEF SoundInv, AnswersTypeOK, RowsSound
  <1>5. CASE Return(c)
    BY <1>3, <1>4, <1>5, ReturnSound
  <1>6. CASE call' = [call EXCEPT ![c] = r] /\ ~(secret /\ policy.dlp = "block")
    <2>1. /\ text \in Passage /\ text.traits = call[c].text.traits
          /\ text.under.malware = call[c].text.under.malware /\ text.under.dlp = policy.dlp
      BY <1>2, PolicyTypes DEF Passage, Policy, SoundInv
    <2>2. reasons \in SUBSET Trait /\ (secret => reasons # {})
      BY DEF Trait
    <2>3. r \in Locals
      BY <1>1, <2>1, <2>2 DEF Locals, Phase
    <2>4. /\ r.pc = "embed" /\ r.doc = call[c].doc /\ r.text = text /\ r.write = call[c].write
          /\ r.restricted = call[c].restricted /\ r.reasons = reasons
          /\ r.evidence = call[c].evidence /\ r.cites = call[c].cites
          /\ r.admin = call[c].admin /\ r.next = call[c].next /\ r.error = call[c].error
      BY <1>1 DEF Locals
    <2>5. "secret" \in text.traits /\ text.under.dlp = "audit" => reasons # {}
      BY <2>1, <2>2
    <2>6. Allowed(text)
      BY <1>2, <1>6, <2>1 DEF Allowed, Passed
    <2>7. r.restricted \in BOOLEAN
      BY <1>1, <2>4 DEF Locals
    <2> HIDE DEF r, text, reasons
    <2>8. Inspected(r)
      BY <1>2, <2>1, <2>4, <2>5, <2>6, <2>7 DEF Inspected
    <2>9. Sound(r)
      BY <1>1, <1>2, <2>4, <2>8 DEF Sound, Flow
    <2> QED BY <1>3, <1>4, <1>6, <2>3, <2>9, CallFrame
  <1> QED BY <1>5, <1>6 DEF InspectText

LEMMA OpenSound ==
  ASSUME SoundInv, NEW c \in Caller, OpenIndex(c)
  PROVE  SoundInv'
  <1> DEFINE seen == IF doc[call[c].doc] = None THEN 0 ELSE doc[call[c].doc].version
             r == [call[c] EXCEPT !.pc = "commit", !.seen = seen]
  <1>1. call[c] \in Locals /\ Sound(call[c]) /\ call[c].pc = "index"
    BY DEF SoundInv, AnswersTypeOK, OpenIndex, At
  <1>2. Inspected(call[c]) /\ call[c].error = "idle"
    BY <1>1 DEF Sound, Flow
  <1>3. seen \in Nat
    BY <1>2 DEF Inspected, SoundInv, AnswersTypeOK, Row
  <1>4. call' = [call EXCEPT ![c] = r]
    BY DEF OpenIndex, SoundInv, AnswersTypeOK
  <1> HIDE DEF seen
  <1>5. r \in Locals
    BY <1>1, <1>3 DEF Locals, Phase
  <1>6. /\ r.pc = "commit" /\ r.doc = call[c].doc /\ r.text = call[c].text /\ r.write = call[c].write
        /\ r.restricted = call[c].restricted /\ r.reasons = call[c].reasons
        /\ r.evidence = call[c].evidence /\ r.cites = call[c].cites
        /\ r.admin = call[c].admin /\ r.error = call[c].error
    BY <1>1 DEF Locals
  <1> HIDE DEF r
  <1>7. Inspected(r)
    BY <1>2, <1>6 DEF Inspected
  <1>8. Sound(r)
    BY <1>1, <1>2, <1>6, <1>7 DEF Sound, Flow
  <1>9. UNCHANGED <<doc, policy, limit, highest, spent, left>>
    BY DEF OpenIndex
  <1>10. /\ RowsSound' /\ doc' \in [Doc -> Row \cup {None}] /\ spent' \in Nat
         /\ left' \in [Event -> Nat]
    BY <1>9 DEF SoundInv, AnswersTypeOK, RowsSound
  <1> QED BY <1>4, <1>5, <1>8, <1>9, <1>10, CallFrame

(* The row that a transaction leaves: its own passage is the only one with its *)
(* number, and where the row has no mark, that passage has none.             *)
LEMMA IndexedSound ==
  ASSUME NEW c \in Caller, Inspected(call[c]), call[c].reasons \in SUBSET Trait,
         NEW row \in Row,
         \A p \in row.passages : Allowed(p) /\ p.version <= row.version
  PROVE  Indexed(c, row) \in Row /\ RowSound(Indexed(c, row))
  <1> DEFINE text == [call[c].text EXCEPT !.version = row.version + 1]
             reasons == call[c].reasons \cup (text.traits \cap {"injection"})
             new == Indexed(c, row)
  <1>1. call[c].text \in Passage /\ row.version \in Nat /\ row.passages \subseteq Passage
    BY DEF Inspected, Row
  <1>2. /\ text \in Passage /\ text.version = row.version + 1
        /\ text.traits = call[c].text.traits /\ text.under = call[c].text.under
    BY <1>1 DEF Passage
  <1>3. /\ new.unsafe = (reasons # {}) /\ new.version = row.version + 1
        /\ new.passages = Unseen(c, row) \cup {text}
    BY DEF Indexed
  <1>4. Unseen(c, row) \subseteq row.passages
    BY DEF Unseen
  <1>5. new \in Row
    <2>1. text.traits \in SUBSET Trait
      BY <1>2 DEF Passage
    <2>2. call[c].restricted \in BOOLEAN /\ row.restricted \in BOOLEAN /\ row.file \in SUBSET Trait
      BY DEF Inspected, Row
    <2>3. Unseen(c, row) \cup {text} \subseteq Passage
      BY <1>1, <1>2, <1>4
    <2> HIDE DEF text
    <2> QED BY <1>1, <2>1, <2>2, <2>3 DEF Indexed, Row, text
  <1>6. Allowed(text)
    BY <1>2 DEF Inspected, Allowed, Passed
  <1>7. reasons = {} => ~Marked(text)
    BY <1>2 DEF Inspected, Marked
  <1> HIDE DEF text, reasons, new
  <1>8. \A p \in new.passages : p = text \/ (p \in row.passages /\ p.version \in Nat)
    BY <1>1, <1>3, <1>4 DEF Passage
  <1>9. \A p \in new.passages : Allowed(p) /\ p.version <= new.version
    BY <1>1, <1>2, <1>3, <1>6, <1>8
  <1>10. \A p \in new.passages : p.version = new.version => p = text
    BY <1>1, <1>3, <1>8
  <1>11. ~new.unsafe => text \in new.passages /\ text.version = new.version /\ ~Marked(text)
    BY <1>2, <1>3, <1>7
  <1> QED BY <1>5, <1>9, <1>10, <1>11 DEF RowSound, new

LEMMA CommitSound ==
  ASSUME SoundInv, NEW c \in Caller, CommitIndex(c)
  PROVE  SoundInv'
  <1> DEFINE d == call[c].doc
             row == IF doc[d] = None THEN NewRow ELSE doc[d]
  <1>1. Inspected(call[c]) /\ call[c].reasons \in SUBSET Trait
    BY DEF SoundInv, AnswersTypeOK, Sound, CommitIndex, At, Locals
  <1>2. d \in Doc /\ doc \in [Doc -> Row \cup {None}]
    BY <1>1 DEF Inspected, SoundInv, AnswersTypeOK
  <1>3. UNCHANGED <<policy, limit, highest, spent, left>> /\ Return(c)
    BY DEF CommitIndex
  <1>4. doc' = [doc EXCEPT ![d] = Indexed(c, row)] \/ doc' = doc
    BY <1>2 DEF CommitIndex
  <1>5. row \in Row /\ \A p \in row.passages : Allowed(p) /\ p.version <= row.version
    <2>1. CASE doc[d] = None
      BY <2>1 DEF NewRow, Row
    <2>2. CASE doc[d] # None
      BY <1>2, <2>2 DEF SoundInv, RowsSound, RowSound
    <2> QED BY <2>1, <2>2
  <1>6. Indexed(c, row) \in Row /\ RowSound(Indexed(c, row))
    BY <1>1, <1>5, IndexedSound
  <1> HIDE DEF d, row
  <1>7. doc' \in [Doc -> Row \cup {None}]
    BY <1>2, <1>4, <1>6
  <1>8. ASSUME NEW x \in Doc, doc'[x] # None PROVE RowSound(doc'[x])
    <2>1. CASE doc'[x] = doc[x]
      BY <1>8, <2>1 DEF SoundInv, RowsSound
    <2>2. CASE doc'[x] = Indexed(c, row)
      BY <1>6, <2>2
    <2> QED BY <1>2, <1>4, <2>1, <2>2
  <1>9. RowsSound'
    BY <1>8 DEF RowsSound
  <1> QED BY <1>3, <1>7, <1>9, ReturnSound DEF SoundInv, AnswersTypeOK

LEMMA UpdateSound ==
  ASSUME SoundInv, NEW d \in Doc, UpdateDocument(d)
  PROVE  SoundInv'
  <1>1. doc[d] \in Row /\ doc \in [Doc -> Row \cup {None}]
    BY DEF UpdateDocument, SoundInv, AnswersTypeOK
  <1>2. left' \in [Event -> Nat]
    BY Spent DEF UpdateDocument, SoundInv, Event
  <1>3. UNCHANGED <<policy, limit, highest, spent, call>>
    BY DEF UpdateDocument
  <1> DEFINE row == [doc[d] EXCEPT !.restricted = ~@]
  <1>4. /\ row \in Row /\ row.unsafe = doc[d].unsafe /\ row.passages = doc[d].passages
        /\ row.version = doc[d].version
    BY <1>1 DEF Row
  <1>5. RowSound(row)
    <2>1. RowSound(doc[d])
      BY DEF SoundInv, RowsSound, UpdateDocument
    <2> QED BY <1>4, <2>1 DEF RowSound
  <1>6. doc' = [doc EXCEPT ![d] = row] \/ doc' = [doc EXCEPT ![d] = None]
    BY DEF UpdateDocument
  <1> HIDE DEF row
  <1>7. doc' \in [Doc -> Row \cup {None}]
    BY <1>1, <1>4, <1>6
  <1>8. \A x \in Doc : doc'[x] = doc[x] \/ doc'[x] = row \/ doc'[x] = None
    BY <1>1, <1>6
  <1>9. \A x \in Doc : doc'[x] # None => RowSound(doc'[x])
    BY <1>5, <1>8 DEF SoundInv, RowsSound
  <1>10. RowsSound'
    BY <1>9 DEF RowsSound
  <1> QED BY <1>2, <1>3, <1>7, <1>10 DEF SoundInv, AnswersTypeOK

LEMMA SettingsSound ==
  ASSUME SoundInv,
         \/ \E p \in Policies : UpdatePolicy(p)
         \/ \E l \in Limits : UpdateBudget(l)
         \/ ForgetSpending \/ ClockTicks
  PROVE  SoundInv'
  <1>1. left' \in [Event -> Nat]
    BY Spent DEF UpdatePolicy, UpdateBudget, ForgetSpending, ClockTicks, SoundInv, Event
  <1>2. UNCHANGED <<doc, call>>
    BY DEF UpdatePolicy, UpdateBudget, ForgetSpending, ClockTicks
  <1>3. policy' \in Policies /\ limit' \in Limits /\ highest' \in Limits /\ spent' \in Nat
    BY DEF UpdatePolicy, UpdateBudget, ForgetSpending, ClockTicks, SoundInv, AnswersTypeOK
  <1> QED BY <1>1, <1>2, <1>3 DEF SoundInv, AnswersTypeOK, RowsSound
-----------------------------------------------------------------------------
(* Questions. *)

LEMMA QuestionSound ==
  ASSUME SoundInv, NEW c \in Caller, NEW a \in BOOLEAN, BeginQuestion(c, a)
  PROVE  SoundInv'
  <1> DEFINE r == [Idle EXCEPT !.pc = "embed", !.admin = a, !.next = "retrieve"]
  <1>1. left' \in [Event -> Nat]
    BY Spent DEF BeginQuestion, SoundInv, Event
  <1>2. UNCHANGED <<doc, policy, limit, highest, spent>>
    BY DEF BeginQuestion
  <1>3. r \in Locals /\ Sound(r)
    BY DEF Idle, Locals, Phase, Sound, Flow
  <1>4. call' = call \/ call' = [call EXCEPT ![c] = r]
    BY DEF BeginQuestion, Admitted, Enter
  <1> HIDE DEF r
  <1>5. RowsSound' /\ doc' \in [Doc -> Row \cup {None}] /\ spent' \in Nat
    BY <1>2 DEF SoundInv, AnswersTypeOK, RowsSound
  <1>6. CASE call' = call
    BY <1>1, <1>2, <1>6 DEF SoundInv, AnswersTypeOK, RowsSound
  <1>7. CASE call' = [call EXCEPT ![c] = r]
    BY <1>1, <1>2, <1>3, <1>5, <1>7, CallFrame
  <1> QED BY <1>4, <1>6, <1>7

(* What is found for a request may be cited in its answer. *)
LEMMA SearchableSound ==
  ASSUME SoundInv, NEW a \in BOOLEAN, NEW e \in Searchable(a)
  PROVE  e \in Evidence /\ Readably(e, a)
  <1>1. PICK d \in Doc : Readable(doc[d], a)
                          /\ \E p \in doc[d].passages : e = [doc |-> d, row |-> doc[d], passage |-> p]
    BY DEF Searchable
  <1>2. PICK p \in doc[d].passages : e = [doc |-> d, row |-> doc[d], passage |-> p]
    BY <1>1
  <1>3. doc[d] \in Row /\ ~doc[d].unsafe /\ (a \/ ~doc[d].restricted)
    BY <1>1 DEF Readable, SoundInv, AnswersTypeOK
  <1>4. RowSound(doc[d])
    BY <1>1 DEF SoundInv, RowsSound, Readable
  <1>5. p \in Passage /\ p.version \in Nat /\ doc[d].version \in Nat
    BY <1>3 DEF Row, Passage
  <1>6. Allowed(p) /\ p.version <= doc[d].version
    BY <1>4 DEF RowSound
  <1>7. Marked(p) => \E q \in doc[d].passages : q.version > p.version /\ ~Marked(q)
    <2>1. PICK q \in doc[d].passages : q.version = doc[d].version /\ ~Marked(q)
      BY <1>3, <1>4 DEF RowSound
    <2>2. CASE p.version = doc[d].version
      <3>1. p = q
        BY <1>4, <2>1, <2>2 DEF RowSound
      <3> QED BY <2>1, <3>1
    <2>3. CASE p.version # doc[d].version
      <3>1. q.version > p.version
        BY <1>5, <1>6, <2>1, <2>3
      <3> QED BY <2>1, <3>1
    <2> QED BY <2>2, <2>3
  <1>8. Vetted(e)
    <2>1. e.passage = p /\ e.row = doc[d]
      BY <1>2
    <2> QED BY <2>1, <1>6, <1>7 DEF Vetted, Allowed, Passed
  <1>9. e \in Evidence
    BY <1>2, <1>3, <1>5 DEF Evidence
  <1>10. e.row.restricted => a
    BY <1>2, <1>3
  <1> QED BY <1>8, <1>9, <1>10 DEF Readably

LEMMA RetrieveSound ==
  ASSUME SoundInv, NEW c \in Caller, Retrieve(c)
  PROVE  SoundInv'
  <1>1. call[c] \in Locals /\ Sound(call[c]) /\ call[c].pc = "retrieve" /\ call[c].error = "idle"
    BY DEF SoundInv, AnswersTypeOK, Retrieve, At, Sound, Flow
  <1>2. call[c].admin \in BOOLEAN
    BY <1>1 DEF Locals
  <1>3. UNCHANGED <<doc, policy, limit, highest, spent, left>>
    BY DEF Retrieve
  <1>4. /\ RowsSound' /\ doc' \in [Doc -> Row \cup {None}] /\ spent' \in Nat
        /\ left' \in [Event -> Nat]
    BY <1>3 DEF SoundInv, AnswersTypeOK, RowsSound
  <1>5. PICK E \in SUBSET Searchable(call[c].admin) :
          IF E = {} THEN Return(c)
          ELSE call' = [call EXCEPT ![c].evidence = E, ![c].pc = "generate"]
    BY DEF Retrieve
  <1>6. CASE E = {}
    BY <1>3, <1>4, <1>5, <1>6, ReturnSound
  <1>7. CASE E # {}
    <2> DEFINE r == [call[c] EXCEPT !.evidence = E, !.pc = "generate"]
    <2>1. call' = [call EXCEPT ![c] = r]
      BY <1>5, <1>7 DEF SoundInv, AnswersTypeOK
    <2>2. \A e \in E : e \in Evidence /\ Readably(e, call[c].admin)
      BY <1>2, SearchableSound
    <2>3. r \in Locals
      BY <1>1, <2>2 DEF Locals, Phase
    <2>4. /\ r.pc = "generate" /\ r.evidence = E /\ r.cites = call[c].cites
          /\ r.admin = call[c].admin /\ r.error = "idle"
      BY <1>1 DEF Locals
    <2> HIDE DEF r
    <2>5. call[c].cites = {}
      BY <1>1 DEF Sound
    <2>6. Sound(r)
      BY <2>2, <2>4, <2>5 DEF Sound, Flow
    <2> QED BY <1>3, <1>4, <2>1, <2>3, <2>6, CallFrame
  <1> QED BY <1>6, <1>7

(* The answer a request has reached cites what it was given. *)
LEMMA CiteSound ==
  ASSUME SoundInv, NEW c \in Caller, NEW E \in SUBSET call[c].evidence, E # {},
         call[c].pc \in {"generating", "fallback"},
         call' = [call EXCEPT ![c].cites = E, ![c].pc = "answered"],
         UNCHANGED <<doc, policy, limit, highest, left>>, spent' \in Nat
  PROVE  SoundInv'
  <1> DEFINE r == [call[c] EXCEPT !.cites = E, !.pc = "answered"]
  <1>1. call[c] \in Locals /\ Sound(call[c]) /\ call[c].error = "idle"
    BY DEF SoundInv, AnswersTypeOK, Sound, Flow
  <1>2. call[c].evidence \subseteq Evidence
    BY <1>1 DEF Locals
  <1>3. r \in Locals
    BY <1>1, <1>2 DEF Locals, Phase
  <1>4. /\ r.pc = "answered" /\ r.evidence = call[c].evidence /\ r.cites = E
        /\ r.admin = call[c].admin /\ r.error = "idle"
    BY <1>1 DEF Locals
  <1>5. call' = [call EXCEPT ![c] = r]
    BY DEF SoundInv, AnswersTypeOK
  <1> HIDE DEF r
  <1>6. Sound(r)
    BY <1>1, <1>4 DEF Sound, Flow
  <1>7. RowsSound' /\ doc' \in [Doc -> Row \cup {None}] /\ left' \in [Event -> Nat]
    BY DEF SoundInv, AnswersTypeOK, RowsSound
  <1> QED BY <1>3, <1>5, <1>6, <1>7, CallFrame

LEMMA AnswerSound ==
  ASSUME SoundInv, NEW c \in Caller,
         CheckGeneration(c) \/ Generate(c) \/ ExtractiveFallback(c) \/ Answered(c)
  PROVE  SoundInv'
  <1>1. call[c] \in Locals /\ Sound(call[c]) /\ spent \in Nat
    BY DEF SoundInv, AnswersTypeOK
  <1>2. UNCHANGED <<doc, policy, limit, highest, left>>
    BY DEF CheckGeneration, Generate, ExtractiveFallback, Answered
  <1>3. call[c].pc \in {"generate", "generating", "fallback", "answered"} /\ call[c].error = "idle"
    BY <1>1 DEF CheckGeneration, Generate, ExtractiveFallback, Answered, At, Sound, Flow
  <1>4. spent' \in Nat
    <2>1. \A k \in 0..MaxCost : k \in Nat
      BY AnswersAssumption
    <2>2. spent' = spent \/ \E k \in 0..MaxCost : Record(k)
      BY DEF CheckGeneration, Generate, ExtractiveFallback, Answered
    <2> QED BY <1>1, <2>1, <2>2, RecordTypes
  <1>5. RowsSound' /\ doc' \in [Doc -> Row \cup {None}]
    BY <1>2 DEF SoundInv, AnswersTypeOK, RowsSound
  <1>6. CASE Return(c)
    BY <1>2, <1>4, <1>5, <1>6, ReturnSound
  <1>7. CASE CheckGeneration(c)
    <2>1. (Go(c, "generating") \/ Go(c, "fallback")) /\ call[c].pc = "generate"
      BY <1>7 DEF CheckGeneration, At
    <2> QED BY <1>2, <1>3, <1>4, <2>1, GoSound DEF Phase
  <1>8. CASE Generate(c)
    <2>1. call[c].pc = "generating"
      BY <1>8 DEF Generate, At
    <2>2. CASE \E E \in SUBSET Citable :
                 Grounded(c, E) /\ call' = [call EXCEPT ![c].cites = E, ![c].pc = "answered"]
      <3>1. PICK E : Grounded(c, E) /\ call' = [call EXCEPT ![c].cites = E, ![c].pc = "answered"]
        BY <2>2
      <3>2. E \in SUBSET call[c].evidence /\ E # {}
        BY <3>1 DEF Grounded
      <3> QED BY <1>2, <1>4, <2>1, <3>1, <3>2, CiteSound
    <2>3. CASE call' = [call EXCEPT ![c].retries = @ + 1]
      <3> DEFINE r == [call[c] EXCEPT !.retries = @ + 1]
      <3>1. r \in Locals
        BY <1>1 DEF Locals
      <3>2. /\ r.pc = call[c].pc /\ r.evidence = call[c].evidence /\ r.cites = call[c].cites
            /\ r.admin = call[c].admin /\ r.error = call[c].error
        BY <1>1 DEF Locals
      <3>3. call' = [call EXCEPT ![c] = r]
        BY <2>3 DEF SoundInv, AnswersTypeOK
      <3> HIDE DEF r
      <3>4. Sound(r)
        BY <1>1, <2>1, <3>2 DEF Sound, Flow
      <3>5. left' \in [Event -> Nat]
        BY <1>2 DEF SoundInv, AnswersTypeOK
      <3> QED BY <1>2, <1>4, <1>5, <3>1, <3>3, <3>4, <3>5, CallFrame
    <2>4. CASE Go(c, "fallback")
      BY <1>2, <1>3, <1>4, <2>1, <2>4, GoSound DEF Phase
    <2> QED BY <1>6, <1>8, <2>2, <2>3, <2>4 DEF Generate
  <1>9. CASE ExtractiveFallback(c)
    <2>1. call[c].pc = "fallback"
      BY <1>9 DEF ExtractiveFallback, At
    <2>2. CASE \E e \in call[c].evidence :
                 call' = [call EXCEPT ![c].cites = {e}, ![c].pc = "answered"]
      <3>1. PICK e \in call[c].evidence :
               call' = [call EXCEPT ![c].cites = {e}, ![c].pc = "answered"]
        BY <2>2
      <3>2. {e} \in SUBSET call[c].evidence /\ {e} # {}
        OBVIOUS
      <3> QED BY <1>2, <1>4, <2>1, <3>1, <3>2, CiteSound
    <2> QED BY <1>6, <1>9, <2>2 DEF ExtractiveFallback
  <1> QED BY <1>6, <1>7, <1>8, <1>9 DEF Answered

LEMMA RestartSound ==
  ASSUME SoundInv, Restart
  PROVE  SoundInv'
  <1>1. left' \in [Event -> Nat]
    BY Spent DEF Restart, SoundInv, Event
  <1>2. UNCHANGED <<doc, policy, limit, highest, spent>> /\ call' = [x \in Caller |-> Idle]
    BY DEF Restart
  <1> QED BY <1>1, <1>2, IdleSound DEF SoundInv, AnswersTypeOK, RowsSound

LEMMA AnswersSound ==
  ASSUME SoundInv, AnswersStep
  PROVE  SoundInv'
  BY UploadSound, ReindexSound, EmbedSound, InspectSound, OpenSound, CommitSound, UpdateSound, SettingsSound,
     QuestionSound, RetrieveSound, AnswerSound, AnswersAssumption DEF AnswersStep
-----------------------------------------------------------------------------
(* Evaluations. *)

LEMMA BeginSound ==
  ASSUME SoundInv, NEW c \in Caller, NEW a \in BOOLEAN, NEW P, BeginEvaluation(c, a, P)
  PROVE  SoundInv'
  <1> DEFINE r == [Idle EXCEPT !.pc = "run", !.admin = a, !.evidence = Corpus(a, dataset),
                               !.error = "unfinished"]
  <1>1. left' \in [Event -> Nat]
    BY Spent DEF BeginEvaluation, SoundInv, Event
  <1>2. UNCHANGED <<doc, policy, limit, highest, spent>>
    BY DEF BeginEvaluation
  <1>3. \A e \in Corpus(a, dataset) : e \in Evidence /\ Readably(e, a)
    BY SearchableSound DEF Corpus
  <1>4. r \in Locals /\ Sound(r)
    BY <1>3 DEF Idle, Locals, Phase, Sound, Flow
  <1>5. call' = call \/ call' = [call EXCEPT ![c] = r]
    BY DEF BeginEvaluation, Admitted, Enter
  <1> HIDE DEF r
  <1>6. RowsSound' /\ doc' \in [Doc -> Row \cup {None}] /\ spent' \in Nat
    BY <1>2 DEF SoundInv, AnswersTypeOK, RowsSound
  <1>7. CASE call' = call
    BY <1>1, <1>2, <1>7 DEF SoundInv, AnswersTypeOK, RowsSound
  <1>8. CASE call' = [call EXCEPT ![c] = r]
    BY <1>1, <1>2, <1>4, <1>6, <1>8, CallFrame
  <1> QED BY <1>5, <1>7, <1>8

(* An evaluation asks for an embedding. *)
LEMMA AskSound ==
  ASSUME SoundInv, NEW c \in Caller, call[c].error = "unfinished", call[c].pc # "answered",
         NEW n \in {"case", "score"},
         call' = [call EXCEPT ![c].pc = "embed", ![c].next = n],
         UNCHANGED <<doc, policy, limit, highest, spent, left>>
  PROVE  SoundInv'
  <1> DEFINE r == [call[c] EXCEPT !.pc = "embed", !.next = n]
  <1>1. call[c] \in Locals /\ Sound(call[c])
    BY DEF SoundInv, AnswersTypeOK
  <1>2. r \in Locals
    BY <1>1 DEF Locals, Phase
  <1>3. /\ r.pc = "embed" /\ r.next = n /\ r.evidence = call[c].evidence /\ r.cites = call[c].cites
        /\ r.admin = call[c].admin /\ r.error = "unfinished"
    BY <1>1 DEF Locals
  <1>4. call' = [call EXCEPT ![c] = r]
    BY DEF SoundInv, AnswersTypeOK
  <1> HIDE DEF r
  <1>5. Sound(r)
    BY <1>1, <1>3 DEF Sound, Flow
  <1>6. /\ RowsSound' /\ doc' \in [Doc -> Row \cup {None}] /\ left' \in [Event -> Nat]
        /\ spent' \in Nat
    BY DEF SoundInv, AnswersTypeOK, RowsSound
  <1> QED BY <1>2, <1>4, <1>5, <1>6, CallFrame

Working(c) ==
  CreateRun(c) \/ EndEvaluation(c) \/ NextCase(c) \/ ScoreCase(c)
  \/ FinishRun(c) \/ FinishWithoutResults(c) \/ Report(c)

LEMMA WorkingSound ==
  ASSUME SoundInv, NEW c \in Caller, Working(c)
  PROVE  SoundInv'
  <1>1. UNCHANGED <<doc, policy, limit, highest, spent, left>>
    BY DEF Working, storedVars, CreateRun, EndEvaluation, NextCase, ScoreCase, FinishRun,
           FinishWithoutResults, Report
  <1>2. call[c].pc \in {"run", "case", "score", "skip", "unfinished", "report"}
    BY DEF Working, At, CreateRun, EndEvaluation, NextCase, ScoreCase, FinishRun,
           FinishWithoutResults, Report
  <1>3. call[c].error = "unfinished" /\ call[c].pc # "answered"
    BY <1>2 DEF SoundInv, Sound, Flow
  <1>4. /\ RowsSound' /\ doc' \in [Doc -> Row \cup {None}] /\ spent' \in Nat
    BY <1>1 DEF SoundInv, AnswersTypeOK, RowsSound
  <1>5. CASE Return(c)
    BY <1>1, <1>4, <1>5, ReturnSound
  <1>6. CASE Fail(c)
    BY <1>1, <1>3, <1>4, <1>6, FailSound
  <1>7. CASE \E p \in {"run", "skip", "case", "report"} : Go(c, p)
    BY <1>1, <1>3, <1>4, <1>7, GoSound DEF Phase
  <1>8. CASE \E n \in {"case", "score"} : call' = [call EXCEPT ![c].pc = "embed", ![c].next = n]
    BY <1>1, <1>3, <1>8, AskSound
  <1> QED BY <1>5, <1>6, <1>7, <1>8
      DEF Working, CreateRun, EndEvaluation, NextCase, ScoreCase, FinishRun,
          FinishWithoutResults, Report

LEMMA SoundStep ==
  ASSUME SoundInv, [EvaluationNext]_<<rateVars, answerVars, evaluationVars>>
  PROVE  SoundInv'
  <1>1. CASE AnswersStep
    BY <1>1, AnswersSound
  <1>2. CASE \E a \in BOOLEAN, D \in SUBSET Doc : CreateDataset(a, D)
    BY <1>2 DEF CreateDataset, storedVars, SoundInv, AnswersTypeOK, RowsSound
  <1>3. CASE \E c \in Caller, a \in BOOLEAN, P \in (SUBSET Provider) \ {{}} : BeginEvaluation(c, a, P)
    BY <1>3, BeginSound
  <1>4. CASE \E c \in Caller : Working(c)
    BY <1>4, WorkingSound
  <1>5. CASE RestartAll
    BY <1>5, RestartSound DEF RestartAll
  <1>6. CASE UNCHANGED <<rateVars, answerVars, evaluationVars>>
    BY <1>6 DEF answerVars, SoundInv, AnswersTypeOK, RowsSound
  <1> QED BY <1>1, <1>2, <1>3, <1>4, <1>5, <1>6 DEF EvaluationNext, Working
-----------------------------------------------------------------------------
(* What is spent. *)

Paid == {"embedding", "generating"}
Paying == {c \in Caller : call[c].pc \in Paid}
Unpaid == Cardinality(Caller) - Cardinality(Paying)

(* Every paid call on its way still has the cost of one to record.          *)
BudgetInv == limit <= highest /\ spent <= highest + MaxCost * Unpaid

LEMMA Product == \A m, a, b \in Nat : a <= b => m * a <= m * b
  <1> SUFFICES ASSUME NEW m \in Nat, NEW a \in Nat, NEW b \in Nat, a <= b PROVE m * a <= m * b
    OBVIOUS
  <1>1. b - a \in Nat /\ m * (b - a) >= 0
    OBVIOUS
  <1>2. m * b = m * a + m * (b - a)
    OBVIOUS
  <1> QED BY <1>1, <1>2

LEMMA Numbers ==
  ASSUME AnswersTypeOK
  PROVE  spent \in Nat /\ limit \in Nat /\ highest \in Nat /\ MaxCost \in Nat
  BY AnswersAssumption DEF AnswersTypeOK

LEMMA UnpaidNat ==
  /\ IsFiniteSet(Paying) /\ Unpaid \in Nat /\ Unpaid <= Cardinality(Caller)
  /\ Cardinality(Caller) \in Nat /\ Cardinality(Paying) \in Nat
  <1>1. IsFiniteSet(Caller) /\ Paying \subseteq Caller
    BY AnswersAssumption DEF Paying
  <1>2. Cardinality(Caller) \in Nat
    BY <1>1, FS_CardinalityType
  <1>3. IsFiniteSet(Paying) /\ Cardinality(Paying) <= Cardinality(Caller)
    BY <1>1, FS_Subset
  <1>4. Cardinality(Paying) \in Nat
    BY <1>3, FS_CardinalityType
  <1> QED BY <1>2, <1>3, <1>4 DEF Unpaid

(* The same after a step. *)
LEMMA UnpaidNatNext ==
  /\ IsFiniteSet(Paying') /\ Unpaid' \in Nat /\ Unpaid' <= Cardinality(Caller)
  /\ Cardinality(Paying') \in Nat
  <1>1. IsFiniteSet(Caller) /\ Paying' \subseteq Caller
    BY AnswersAssumption DEF Paying
  <1>2. Cardinality(Caller) \in Nat
    BY <1>1, FS_CardinalityType
  <1>3. IsFiniteSet(Paying') /\ Cardinality(Paying') <= Cardinality(Caller)
    BY <1>1, FS_Subset
  <1>4. Cardinality(Paying') \in Nat
    BY <1>3, FS_CardinalityType
  <1> QED BY <1>2, <1>3, <1>4 DEF Unpaid

(* No call is begun, nothing is spent. *)
LEMMA QuietBudget ==
  ASSUME AnswersTypeOK, BudgetInv, Paying' \subseteq Paying, highest' \in Nat, limit' <= highest',
         spent' \in Nat, highest <= highest', spent' <= spent
  PROVE  BudgetInv'
  <1>1. Cardinality(Paying') <= Cardinality(Paying)
    BY UnpaidNat, FS_Subset
  <1>2. Unpaid <= Unpaid'
    BY <1>1, UnpaidNat, UnpaidNatNext DEF Unpaid
  <1>3. MaxCost * Unpaid <= MaxCost * Unpaid'
    BY <1>2, Product, Numbers, UnpaidNat, UnpaidNatNext
  <1>4. MaxCost * Unpaid \in Nat /\ MaxCost * Unpaid' \in Nat
    BY Numbers, UnpaidNat, UnpaidNatNext
  <1>5. spent' <= highest' + MaxCost * Unpaid'
    BY <1>3, <1>4, Numbers DEF BudgetInv
  <1> QED BY <1>5 DEF BudgetInv

(* The calls of a period go on into the next. *)
LEMMA FitsBudget ==
  ASSUME AnswersTypeOK, spent' \in Nat, highest' \in Nat, limit' <= highest', spent' <= highest'
  PROVE  BudgetInv'
  <1>1. MaxCost * Unpaid' \in Nat
    BY Numbers, UnpaidNatNext
  <1> QED BY <1>1 DEF BudgetInv

(* One call ends, whatever it cost. *)
LEMMA PaidBudget ==
  ASSUME AnswersTypeOK, BudgetInv, NEW c \in Paying, Paying' = Paying \ {c},
         UNCHANGED <<limit, highest>>, NEW k \in 0..MaxCost, Record(k)
  PROVE  BudgetInv'
  <1>1. Cardinality(Paying') = Cardinality(Paying) - 1
    BY UnpaidNat, FS_RemoveElement
  <1>2. Unpaid' = Unpaid + 1
    BY <1>1, UnpaidNat DEF Unpaid
  <1>3. MaxCost * Unpaid' = MaxCost * Unpaid + MaxCost
    BY <1>2, Numbers, UnpaidNat
  <1>4. spent' <= spent + MaxCost /\ spent' \in Nat
    BY Numbers DEF Record
  <1>5. MaxCost * Unpaid \in Nat
    BY Numbers, UnpaidNat
  <1>6. spent' <= highest' + MaxCost * Unpaid'
    BY <1>3, <1>4, <1>5, Numbers DEF BudgetInv
  <1> QED BY <1>6 DEF BudgetInv

(* A request that moves on without beginning a paid call. *)
LEMMA NotPaying ==
  ASSUME call \in [Caller -> Locals],
         \/ call' = call
         \/ \E c \in Caller : \A x \in Caller :
              call'[x] = call[x] \/ (x = c /\ call'[x].pc \notin Paid)
  PROVE  Paying' \subseteq Paying
  BY DEF Paying

LEMMA MovePaying ==
  ASSUME SoundInv, NEW c \in Caller,
         Return(c) \/ Fail(c) \/ (call[c].pc \in {"embed", "embedding"} /\ Go(c, call[c].next))
         \/ (\E p \in Phase \ Paid : Go(c, p))
  PROVE  /\ Paying' \subseteq Paying
         /\ c \notin Paying'
         /\ Paying' = Paying \ {c}
  <1>1. call \in [Caller -> Locals] /\ Sound(call[c])
    BY DEF SoundInv, AnswersTypeOK
  <1>2. \A x \in Caller : x # c => call'[x] = call[x]
    BY <1>1 DEF Return, Fail, Go
  <1>3. call'[c].pc \notin Paid
    <2>1. CASE Return(c)
      BY <1>1, <2>1 DEF Return, Idle, Paid
    <2>2. CASE call[c].pc \in {"embed", "embedding"} /\ Go(c, call[c].next)
      <3>1. call[c].next \in {"index", "retrieve", "case", "score"}
        BY <1>1, <2>2 DEF Sound, Flow
      <3>2. call'[c].pc = call[c].next
        BY <1>1, <2>2 DEF Go, Locals
      <3> QED BY <3>1, <3>2 DEF Paid
    <2>3. CASE Fail(c)
      <3>1. call[c].error \in {"idle", "unfinished"}
        BY <1>1 DEF Sound, Flow
      <3>2. CASE call[c].error = "idle"
        BY <1>1, <2>3, <3>2 DEF Fail, Return, Idle, Paid
      <3>3. CASE call[c].error = "unfinished"
        BY <1>1, <2>3, <3>3 DEF Fail, Go, Paid, Locals
      <3> QED BY <3>1, <3>2, <3>3
    <2>4. CASE \E p \in Phase \ Paid : Go(c, p)
      BY <1>1, <2>4 DEF Go, Locals
    <2> QED BY <2>1, <2>2, <2>3, <2>4
  <1> QED BY <1>2, <1>3 DEF Paying

LEMMA KeptBudget ==
  ASSUME SoundInv, BudgetInv, Paying' \subseteq Paying, UNCHANGED <<limit, highest, spent>>
  PROVE  BudgetInv'
  <1>1. AnswersTypeOK
    BY DEF SoundInv
  <1> QED BY <1>1, Numbers, QuietBudget DEF BudgetInv

LEMMA AffordableBudget ==
  ASSUME SoundInv, BudgetInv, Affordable, UNCHANGED <<limit, highest, spent>>
  PROVE  BudgetInv'
  <1>1. AnswersTypeOK
    BY DEF SoundInv
  <1>2. Estimate \in Nat
    BY AnswersAssumption
  <1>3. spent <= highest
    BY <1>1, <1>2, Numbers DEF Affordable, BudgetInv
  <1> QED BY <1>1, <1>3, Numbers, FitsBudget DEF BudgetInv

LEMMA EmbedBudget ==
  ASSUME SoundInv, BudgetInv, NEW c \in Caller, CheckEmbedding(c) \/ Embedding(c)
  PROVE  BudgetInv'
  <1>1. call[c].pc \in {"embed", "embedding"} /\ UNCHANGED <<limit, highest>>
    BY DEF CheckEmbedding, Embedding, At
  <1>2. CASE CheckEmbedding(c)
    <2>1. UNCHANGED <<limit, highest, spent>>
      BY <1>2 DEF CheckEmbedding
    <2>2. CASE Affordable
      BY <2>1, <2>2, AffordableBudget
    <2>3. CASE Go(c, call[c].next) \/ Fail(c)
      BY <1>1, <2>1, <2>3, MovePaying, KeptBudget
    <2> QED BY <1>2, <2>2, <2>3 DEF CheckEmbedding
  <1>3. CASE Embedding(c)
    <2>1. CASE Record(Estimate) /\ Go(c, call[c].next)
      <3>1. Paying' = Paying \ {c}
        BY <1>1, <2>1, MovePaying
      <3>2. c \in Paying
        BY <1>3 DEF Embedding, At, Paying, Paid
      <3>3. Estimate \in 0..MaxCost
        BY AnswersAssumption
      <3> QED BY <1>1, <2>1, <3>1, <3>2, <3>3, PaidBudget DEF SoundInv
    <2>2. CASE Fail(c) /\ UNCHANGED spent
      BY <1>1, <2>2, MovePaying, KeptBudget
    <2> QED BY <1>3, <2>1, <2>2 DEF Embedding
  <1> QED BY <1>2, <1>3

LEMMA GenerateBudget ==
  ASSUME SoundInv, BudgetInv, NEW c \in Caller, Generate(c)
  PROVE  BudgetInv'
  <1>1. call \in [Caller -> Locals] /\ AnswersTypeOK
    BY DEF SoundInv, AnswersTypeOK
  <1>2. c \in Paying /\ UNCHANGED <<limit, highest>>
    BY DEF Generate, At, Paying, Paid
  <1>3. CASE \E E \in SUBSET Citable :
               /\ \E k \in 0..MaxCost : Record(k)
               /\ call' = [call EXCEPT ![c].cites = E, ![c].pc = "answered"]
    <2>1. /\ \E k \in 0..MaxCost : Record(k)
          /\ \E E : call' = [call EXCEPT ![c].cites = E, ![c].pc = "answered"]
      BY <1>3
    <2>2. Paying' = Paying \ {c}
      BY <1>1, <2>1 DEF Paying, Locals, Paid
    <2> QED BY <1>1, <1>2, <2>1, <2>2, PaidBudget
  <1>4. CASE call' = [call EXCEPT ![c].retries = @ + 1] /\ UNCHANGED spent
    <2>1. Paying' \subseteq Paying
      BY <1>1, <1>4 DEF Paying, Locals
    <2> QED BY <1>2, <1>4, <2>1, KeptBudget
  <1>5. CASE Go(c, "fallback") /\ UNCHANGED spent
    BY <1>2, <1>5, MovePaying, KeptBudget DEF Phase, Paid
  <1>6. CASE (\E k \in 0..MaxCost : Record(k)) /\ Return(c)
    BY <1>1, <1>2, <1>6, MovePaying, PaidBudget
  <1> QED BY <1>3, <1>4, <1>5, <1>6 DEF Generate

LEMMA SettingsBudget ==
  ASSUME SoundInv, BudgetInv,
         \/ \E p \in Policies : UpdatePolicy(p)
         \/ \E l \in Limits : UpdateBudget(l)
         \/ ForgetSpending \/ ClockTicks
  PROVE  BudgetInv'
  <1>1. AnswersTypeOK /\ spent \in Nat /\ limit \in Nat /\ highest \in Nat
    BY Numbers DEF SoundInv
  <1>2. call' = call
    BY DEF UpdatePolicy, UpdateBudget, ForgetSpending, ClockTicks
  <1>3. Paying' \subseteq Paying
    BY <1>2 DEF Paying
  <1>4. CASE UNCHANGED <<limit, highest, spent>>
    BY <1>3, <1>4, KeptBudget
  <1>5. CASE \E l \in Limits : UpdateBudget(l)
    <2>1. PICK l \in Limits : limit' = l /\ highest' = (IF l > highest THEN l ELSE highest) /\ spent' = spent
      BY <1>5 DEF UpdateBudget
    <2>2. l \in Nat
      BY AnswersAssumption
    <2>3. limit' <= highest' /\ highest <= highest' /\ highest' \in Nat
      BY <1>1, <2>1, <2>2
    <2> QED BY <1>1, <1>3, <2>1, <2>3, QuietBudget
  <1>6. CASE ForgetSpending
    <2>1. /\ spent' \in 0..(spent - 1) /\ highest' = (IF spent' = 0 THEN limit ELSE highest)
          /\ limit' = limit
      BY <1>6 DEF ForgetSpending
    <2>2. spent' \in Nat /\ spent' <= spent /\ limit' <= highest' /\ highest' \in Nat
      BY <1>1, <2>1 DEF BudgetInv
    <2>3. CASE spent' = 0
      BY <1>1, <2>2, <2>3, FitsBudget
    <2>4. CASE spent' # 0
      BY <1>1, <1>3, <2>1, <2>2, <2>4, QuietBudget
    <2> QED BY <2>3, <2>4
  <1> QED BY <1>4, <1>5, <1>6 DEF UpdatePolicy, ClockTicks

(* What begins with its inspection, a question or an evaluation.            *)
LEMMA BeginBudget ==
  ASSUME SoundInv, BudgetInv, NEW c \in Caller, NEW r, r.pc \notin Paid,
         call' = call \/ call' = [call EXCEPT ![c] = r],
         UNCHANGED <<limit, highest, spent>>
  PROVE  BudgetInv'
  <1>1. call \in [Caller -> Locals]
    BY DEF SoundInv, AnswersTypeOK
  <1>2. Paying' \subseteq Paying
    BY <1>1 DEF Paying
  <1> QED BY <1>2, KeptBudget

LEMMA RequestBudget ==
  ASSUME SoundInv, BudgetInv, NEW c \in Caller,
         \/ \E d \in Doc :
              \/ \E t \in Text, r \in BOOLEAN : BeginUpload(c, d, t, r)
              \/ BeginReindex(c, d)
         \/ \E a \in BOOLEAN : BeginQuestion(c, a)
         \/ \E a \in BOOLEAN, P \in (SUBSET Provider) \ {{}} : BeginEvaluation(c, a, P)
  PROVE  BudgetInv'
  <1>1. UNCHANGED <<limit, highest, spent>>
    BY DEF BeginUpload, BeginReindex, BeginQuestion, BeginEvaluation
  <1>2. \A d, t, a, write : Inspecting(d, t, a, write).pc \notin Paid
    BY DEF Inspecting, Idle, Paid
  <1>3. CASE \E d \in Doc, t \in Text, r \in BOOLEAN : BeginUpload(c, d, t, r)
    <2>1. \E d, t, a, write : call' = call \/ call' = [call EXCEPT ![c] = Inspecting(d, t, a, write)]
      BY <1>3 DEF BeginUpload, Preflight, Enter
    <2> QED BY <1>1, <1>2, <2>1, BeginBudget
  <1>4. CASE \E d \in Doc : BeginReindex(c, d)
    <2>1. \E d, t, a, write : call' = call \/ call' = [call EXCEPT ![c] = Inspecting(d, t, a, write)]
      BY <1>4 DEF BeginReindex, Preflight, Enter
    <2> QED BY <1>1, <1>2, <2>1, BeginBudget
  <1>5. CASE \E a \in BOOLEAN : BeginQuestion(c, a)
    <2>1. PICK a \in BOOLEAN : BeginQuestion(c, a)
      BY <1>5
    <2> DEFINE r == [Idle EXCEPT !.pc = "embed", !.admin = a, !.next = "retrieve"]
    <2>2. call' = call \/ call' = [call EXCEPT ![c] = r]
      BY <2>1 DEF BeginQuestion, Admitted, Enter
    <2>3. r.pc \notin Paid
      BY DEF Idle, Paid
    <2> HIDE DEF r
    <2> QED BY <1>1, <2>2, <2>3, BeginBudget
  <1>6. CASE \E a \in BOOLEAN, P \in (SUBSET Provider) \ {{}} : BeginEvaluation(c, a, P)
    <2>1. PICK a \in BOOLEAN, P \in (SUBSET Provider) \ {{}} : BeginEvaluation(c, a, P)
      BY <1>6
    <2> DEFINE r == [Idle EXCEPT !.pc = "run", !.admin = a, !.evidence = Corpus(a, dataset),
                                 !.error = "unfinished"]
    <2>2. call' = call \/ call' = [call EXCEPT ![c] = r]
      BY <2>1 DEF BeginEvaluation, Admitted, Enter
    <2>3. r.pc \notin Paid
      BY DEF Idle, Paid
    <2> HIDE DEF r
    <2> QED BY <1>1, <2>2, <2>3, BeginBudget
  <1> QED BY <1>3, <1>4, <1>5, <1>6

(* The rest of a request, apart from its paid calls. *)
LEMMA StepBudget ==
  ASSUME SoundInv, BudgetInv, NEW c \in Caller,
         \/ InspectText(c) \/ OpenIndex(c) \/ CommitIndex(c) \/ Retrieve(c) \/ CheckGeneration(c)
         \/ ExtractiveFallback(c) \/ Answered(c) \/ Working(c)
  PROVE  BudgetInv'
  <1>1. UNCHANGED <<limit, highest, spent>>
    BY DEF InspectText, OpenIndex, CommitIndex, Retrieve, CheckGeneration,
           ExtractiveFallback, Answered, Working, storedVars, CreateRun, EndEvaluation, NextCase, ScoreCase, FinishRun,
           FinishWithoutResults, Report
  <1>2. call \in [Caller -> Locals]
    BY DEF SoundInv, AnswersTypeOK
  <1>3. CASE Return(c) \/ Fail(c) \/ \E p \in {"fallback", "run", "skip", "case", "report"} : Go(c, p)
    BY <1>1, <1>3, MovePaying, KeptBudget DEF Phase, Paid
  <1>4. CASE \A x \in Caller : call'[x] = call[x] \/ (x = c /\ call'[x].pc \notin Paid)
    BY <1>1, <1>2, <1>4, NotPaying, KeptBudget
  <1>5. CASE InspectText(c)
    <2>1. Return(c) \/ \E R, S : call' = [call EXCEPT ![c].pc = "embed", ![c].text = R, ![c].reasons = S]
      BY <1>5 DEF InspectText
    <2>2. CASE \E R, S : call' = [call EXCEPT ![c].pc = "embed", ![c].text = R, ![c].reasons = S]
      BY <1>2, <1>4, <2>2 DEF Locals, Paid
    <2> QED BY <1>3, <2>1, <2>2
  <1>6. CASE CommitIndex(c) \/ Answered(c)
    BY <1>3, <1>6 DEF CommitIndex, Answered
  <1>11. CASE OpenIndex(c)
    <2>1. \E n : call' = [call EXCEPT ![c].pc = "commit", ![c].seen = n]
      BY <1>11 DEF OpenIndex
    <2> QED BY <1>2, <1>4, <2>1 DEF Locals, Paid
  <1>7. CASE Retrieve(c)
    <2>1. Return(c) \/ \E E : call' = [call EXCEPT ![c].evidence = E, ![c].pc = "generate"]
      BY <1>7 DEF Retrieve
    <2>2. CASE \E E : call' = [call EXCEPT ![c].evidence = E, ![c].pc = "generate"]
      BY <1>2, <1>4, <2>2 DEF Locals, Paid
    <2> QED BY <1>3, <2>1, <2>2
  <1>8. CASE CheckGeneration(c)
    <2>1. Affordable \/ Go(c, "fallback")
      BY <1>8 DEF CheckGeneration
    <2> QED BY <1>1, <1>3, <2>1, AffordableBudget
  <1>9. CASE ExtractiveFallback(c)
    <2>1. Return(c) \/ \E E : call' = [call EXCEPT ![c].cites = E, ![c].pc = "answered"]
      BY <1>9 DEF ExtractiveFallback
    <2>2. CASE \E E : call' = [call EXCEPT ![c].cites = E, ![c].pc = "answered"]
      BY <1>2, <1>4, <2>2 DEF Locals, Paid
    <2> QED BY <1>3, <2>1, <2>2
  <1>10. CASE Working(c)
    <2>1. \/ Return(c) \/ Fail(c) \/ \E p \in {"run", "skip", "case", "report"} : Go(c, p)
          \/ \E n : call' = [call EXCEPT ![c].pc = "embed", ![c].next = n]
      BY <1>10 DEF Working, CreateRun, EndEvaluation, NextCase, ScoreCase, FinishRun,
                   FinishWithoutResults, Report
    <2>2. CASE \E n : call' = [call EXCEPT ![c].pc = "embed", ![c].next = n]
      BY <1>2, <1>4, <2>2 DEF Locals, Paid
    <2> QED BY <1>3, <2>1, <2>2
  <1> QED BY <1>5, <1>6, <1>7, <1>8, <1>9, <1>10, <1>11

LEMMA BudgetStep ==
  ASSUME SoundInv, BudgetInv, [EvaluationNext]_<<rateVars, answerVars, evaluationVars>>
  PROVE  BudgetInv'
  <1>1. CASE AnswersStep
    <2>1. CASE \E d \in Doc : UpdateDocument(d)
      <3>1. UNCHANGED <<call, limit, highest, spent>>
        BY <2>1 DEF UpdateDocument
      <3>2. Paying' \subseteq Paying
        BY <3>1 DEF Paying
      <3> QED BY <3>1, <3>2, KeptBudget
    <2> QED BY <1>1, <2>1, EmbedBudget, GenerateBudget, SettingsBudget, RequestBudget, StepBudget
            DEF AnswersStep
  <1>2. CASE \E a \in BOOLEAN, D \in SUBSET Doc : CreateDataset(a, D)
    <2>1. UNCHANGED <<call, limit, highest, spent>>
      BY <1>2 DEF CreateDataset, storedVars
    <2>2. Paying' \subseteq Paying
      BY <2>1 DEF Paying
    <2> QED BY <2>1, <2>2, KeptBudget
  <1>3. CASE \E c \in Caller, a \in BOOLEAN, P \in (SUBSET Provider) \ {{}} : BeginEvaluation(c, a, P)
    BY <1>3, RequestBudget
  <1>4. CASE \E c \in Caller : Working(c)
    BY <1>4, StepBudget
  <1>5. CASE RestartAll
    <2>1. UNCHANGED <<limit, highest, spent>> /\ call' = [x \in Caller |-> Idle]
      BY <1>5 DEF RestartAll, Restart
    <2>2. Paying' \subseteq Paying
      BY <2>1 DEF Paying, Idle, Paid
    <2> QED BY <2>1, <2>2, KeptBudget
  <1>6. CASE UNCHANGED <<rateVars, answerVars, evaluationVars>>
    <2>1. UNCHANGED <<call, limit, highest, spent>>
      BY <1>6 DEF answerVars
    <2>2. Paying' \subseteq Paying
      BY <2>1 DEF Paying
    <2> QED BY <2>1, <2>2, KeptBudget
  <1> QED BY <1>1, <1>2, <1>3, <1>4, <1>5, <1>6 DEF EvaluationNext, Working
-----------------------------------------------------------------------------
(* How runs settle. *)

(* A request that works on a run of an evaluation. *)
Live(c) ==
  /\ call[c].error = "unfinished"
  /\ call[c].pc \in {"skip", "case", "embed", "embedding", "score", "unfinished"}

(* The cases that were scored so far, in order. *)
Scored(S, evidence) ==
  /\ IsFiniteSet(S)
  /\ {x.case : x \in S} = 1..Cardinality(S)
  /\ \A x \in S : x.cites \subseteq evidence

Settled(run) ==
  /\ run.results = {} \/ {x.case : x \in run.results} = 1..Cases
  /\ run.status = "completed" => run.results # {}
  /\ run.status \in {"running", "skipped"} => run.results = {}
  /\ \A x \in run.results : \A e \in x.cites : Readably(e, run.admin)

(* Its run is running, or is completed and its handler does not know.        *)
Unsettled(c) ==
  \/ runs[work[c].run].status = "running"
  \/ call[c].pc = "unfinished" /\ runs[work[c].run].status = "completed"

RunInv ==
  /\ EvaluationTypeOK
  /\ \A r \in DOMAIN runs : Settled(runs[r])
  /\ \A c \in Caller : Live(c) =>
       /\ work[c].run \in DOMAIN runs
       /\ Unsettled(c)
       /\ runs[work[c].run].admin = call[c].admin
       /\ Scored(work[c].results, call[c].evidence)
  /\ \A c, x \in Caller : Live(c) /\ Live(x) /\ work[c].run = work[x].run => c = x
  /\ \A r \in DOMAIN runs : runs[r].status = "running" =>
       r \in cut \/ \E c \in Caller : Live(c) /\ work[c].run = r

(* c moves on within its run, or has none before and after.                 *)
LEMMA RunMove ==
  ASSUME RunInv, AnswersTypeOK', dataset' \in (SUBSET Doc) \cup {None}, UNCHANGED <<runs, cut>>,
         work' \in [Caller -> Work],
         NEW c \in Caller,
         \A x \in Caller : x # c => call'[x] = call[x] /\ work'[x] = work[x],
         Live(c)' = Live(c),
         Live(c) => /\ work'[c].run = work[c].run
                    /\ call[c].pc # "unfinished"
                    /\ call'[c].admin = call[c].admin
                    /\ Scored(work'[c].results, call'[c].evidence)
  PROVE  RunInv'
  <1>1. \A x \in Caller : x # c => Live(x)' = Live(x)
    BY DEF Live
  <1>2. EvaluationTypeOK'
    BY DEF RunInv, EvaluationTypeOK
  <1>3. \A r \in DOMAIN runs' : Settled(runs'[r])
    BY DEF RunInv
  <1>4. \A x \in Caller : Live(x)' => work'[x].run = work[x].run
    BY <1>1
  <1>5. ASSUME NEW x \in Caller, Live(x)'
        PROVE  /\ work'[x].run \in DOMAIN runs'
               /\ Unsettled(x)'
               /\ runs'[work'[x].run].admin = call'[x].admin
               /\ Scored(work'[x].results, call'[x].evidence)
    <2>1. CASE x = c
      BY <1>5, <2>1 DEF RunInv, Unsettled
    <2>2. CASE x # c
      BY <1>1, <1>5, <2>2 DEF RunInv, Unsettled
    <2> QED BY <2>1, <2>2
  <1>6. \A x, y \in Caller : Live(x)' /\ Live(y)' /\ work'[x].run = work'[y].run => x = y
    BY <1>1, <1>4 DEF RunInv
  <1>7. \A r \in DOMAIN runs' : runs'[r].status = "running" =>
          r \in cut' \/ \E x \in Caller : Live(x)' /\ work'[x].run = r
    BY <1>1 DEF RunInv
  <1>8. \A r \in DOMAIN runs' : Settled(runs[r])'
    BY <1>3 DEF Settled, Readably, Vetted
  <1>9. \A x \in Caller : Live(x)' => Scored(work[x].results, call[x].evidence)'
    BY <1>5 DEF Scored
  <1> QED BY <1>2, <1>5, <1>6, <1>7, <1>8, <1>9 DEF RunInv

(* No request moves at all. *)
LEMMA RunStill ==
  ASSUME RunInv, AnswersTypeOK', dataset' \in (SUBSET Doc) \cup {None}, UNCHANGED <<runs, cut, work, call>>
  PROVE  RunInv'
  BY DEF RunInv, EvaluationTypeOK, Settled, Unsettled, Readably, Vetted, Scored, Live

(* c settles its run, whether it knows or not, or leaves it unsettled and     *)
(* marks it so.                                                            *)
LEMMA RunEnd ==
  ASSUME RunInv, AnswersTypeOK', NEW c \in Caller, Live(c),
         UNCHANGED <<dataset, work>>,
         \A x \in Caller : x # c => call'[x] = call[x],
         Live(c)' => /\ call'[c].pc = "unfinished" /\ runs'[work[c].run].status = "completed"
                     /\ runs'[work[c].run].admin = call'[c].admin
                     /\ Scored(work[c].results, call'[c].evidence),
         runs' \in Seq(Run), DOMAIN runs' = DOMAIN runs,
         \A r \in DOMAIN runs : r # work[c].run => runs'[r] = runs[r],
         Settled(runs'[work[c].run]),
         cut' \in SUBSET Nat, cut \subseteq cut',
         runs'[work[c].run].status = "running" => work[c].run \in cut'
  PROVE  RunInv'
  <1>1. \A x \in Caller : x # c => Live(x)' = Live(x)
    BY DEF Live
  <1>2. EvaluationTypeOK'
    BY DEF RunInv, EvaluationTypeOK
  <1>3. \A r \in DOMAIN runs' : Settled(runs'[r])
    BY DEF RunInv
  <1>4. \A x \in Caller : Live(x)' /\ x # c => Live(x) /\ work[x].run # work[c].run
    BY <1>1 DEF RunInv
  <1>5. \A x \in Caller : Live(x)' =>
          /\ work'[x].run \in DOMAIN runs'
          /\ Unsettled(x)'
          /\ runs'[work'[x].run].admin = call'[x].admin
          /\ Scored(work'[x].results, call'[x].evidence)
    BY <1>4 DEF RunInv, Unsettled
  <1>6. \A x, y \in Caller : Live(x)' /\ Live(y)' /\ work'[x].run = work'[y].run => x = y
    BY <1>4 DEF RunInv
  <1>7. ASSUME NEW r \in DOMAIN runs', runs'[r].status = "running"
        PROVE  r \in cut' \/ \E x \in Caller : Live(x)' /\ work'[x].run = r
    <2>1. CASE r = work[c].run
      BY <1>7, <2>1
    <2>2. CASE r # work[c].run
      <3>1. r \in cut \/ \E x \in Caller : Live(x) /\ work[x].run = r
        BY <1>7, <2>2 DEF RunInv
      <3> QED BY <1>1, <2>2, <3>1
    <2> QED BY <2>1, <2>2
  <1>8. \A r \in DOMAIN runs' : Settled(runs[r])'
    BY <1>3 DEF Settled, Readably, Vetted
  <1>9. \A x \in Caller : Live(x)' => Scored(work[x].results, call[x].evidence)'
    BY <1>5 DEF Scored
  <1> QED BY <1>2, <1>5, <1>6, <1>7, <1>8, <1>9 DEF RunInv

(* What c does for an upload or a question makes it live neither before nor  *)
(* after.                                                                  *)
LEMMA RunQuestion ==
  ASSUME RunInv, SoundInv, AnswersTypeOK', UNCHANGED evaluationVars, NEW c \in Caller,
         \A x \in Caller : x # c => call'[x] = call[x],
         call[c].error = "idle" \/ call[c].pc = "idle",
         call'[c].error = "idle" \/ call'[c].pc = "idle"
  PROVE  RunInv'
  <1>1. ~Live(c) /\ ~Live(c)'
    BY DEF Live
  <1>2. UNCHANGED <<runs, cut, work, dataset>>
    BY DEF evaluationVars
  <1>3. dataset' \in (SUBSET Doc) \cup {None} /\ work' \in [Caller -> Work]
    BY <1>2 DEF RunInv, EvaluationTypeOK
  <1>4. Live(c)' = Live(c)
    BY <1>1 DEF Live
  <1> QED BY <1>1, <1>2, <1>3, <1>4, RunMove

(* Paid or not, an embedding leaves an evaluation at work on its run.       *)
LEMMA RunEmbed ==
  ASSUME RunInv, SoundInv, AnswersTypeOK', UNCHANGED evaluationVars, NEW c \in Caller,
         CheckEmbedding(c) \/ Embedding(c)
  PROVE  RunInv'
  <1>1. call \in [Caller -> Locals] /\ Sound(call[c])
    BY DEF SoundInv, AnswersTypeOK
  <1>2. call[c].pc \in {"embed", "embedding"}
    BY DEF CheckEmbedding, Embedding, At
  <1>3. Go(c, "embedding") \/ Go(c, call[c].next) \/ Fail(c)
    BY DEF CheckEmbedding, Embedding
  <1>4. \A x \in Caller : x # c => call'[x] = call[x]
    BY <1>1, <1>3 DEF Go, Fail, Return
  <1>5. CASE call[c].error = "idle"
    <2>1. call'[c].error = "idle"
      BY <1>1, <1>3, <1>5 DEF Go, Fail, Return, Locals, Idle
    <2> QED BY <1>4, <1>5, <2>1, RunQuestion
  <1>6. CASE call[c].error = "unfinished"
    <2>1. call[c].next \in {"case", "score"}
      BY <1>1, <1>2, <1>6 DEF Sound, Flow
    <2>2. PICK p \in {"embedding", "case", "score", "unfinished"} : Go(c, p)
      BY <1>3, <1>6, <2>1 DEF Fail
    <2>3. /\ call'[c].error = "unfinished" /\ call'[c].pc = p
          /\ call'[c].admin = call[c].admin /\ call'[c].evidence = call[c].evidence
      BY <1>1, <1>6, <2>2 DEF Go, Locals
    <2>4. Live(c) /\ Live(c)'
      BY <1>2, <1>6, <2>2, <2>3 DEF Live
    <2>5. Scored(work[c].results, call'[c].evidence)
      BY <2>3, <2>4 DEF RunInv
    <2>6. call[c].pc # "unfinished"
      BY <1>2
    <2>7. Live(c)' = Live(c)
      BY <2>4
    <2> QED BY <1>4, <2>3, <2>5, <2>6, <2>7, RunMove DEF evaluationVars, RunInv, EvaluationTypeOK
  <1> QED BY <1>1, <1>5, <1>6 DEF Sound, Flow

LEMMA RunAnswers ==
  ASSUME RunInv, SoundInv, AnswersTypeOK', UNCHANGED evaluationVars, AnswersStep
  PROVE  RunInv'
  <1>1. call \in [Caller -> Locals] /\ \A c \in Caller : Sound(call[c])
    BY DEF SoundInv, AnswersTypeOK
  <1>2. CASE UNCHANGED call
    BY <1>2, RunStill DEF evaluationVars, RunInv, EvaluationTypeOK
  <1>3. ASSUME NEW c \in Caller, CheckEmbedding(c) \/ Embedding(c)
        PROVE  RunInv'
    BY <1>3, RunEmbed
  <1>4. ASSUME NEW c \in Caller,
               \/ \E d \in Doc :
                    \/ \E t \in Text, r \in BOOLEAN : BeginUpload(c, d, t, r)
                    \/ BeginReindex(c, d)
               \/ \E a \in BOOLEAN : BeginQuestion(c, a)
        PROVE  RunInv'
    <2>1. UNCHANGED call \/ \E r : r.error = "idle" /\ call' = [call EXCEPT ![c] = r]
      <3>1. \A d, t, a, write : Inspecting(d, t, a, write).error = "idle"
        BY DEF Inspecting, Idle
      <3>2. \A a : [Idle EXCEPT !.pc = "embed", !.admin = a, !.next = "retrieve"].error = "idle"
        BY DEF Idle
      <3>3. CASE \E d \in Doc, t \in Text, r \in BOOLEAN : BeginUpload(c, d, t, r)
        BY <3>1, <3>3 DEF BeginUpload, Preflight, Enter
      <3>4. CASE \E d \in Doc : BeginReindex(c, d)
        BY <3>1, <3>4 DEF BeginReindex, Preflight, Enter
      <3>5. CASE \E a \in BOOLEAN : BeginQuestion(c, a)
        BY <3>2, <3>5 DEF BeginQuestion, Admitted, Enter
      <3> QED BY <1>4, <3>3, <3>4, <3>5
    <2>2. CASE \E r : r.error = "idle" /\ call' = [call EXCEPT ![c] = r]
      <3>1. call[c].pc = "idle"
        BY <1>4 DEF BeginUpload, BeginReindex, BeginQuestion, Admitted, Enter, At
      <3> QED BY <1>1, <2>2, <3>1, RunQuestion
    <2> QED BY <1>2, <2>1, <2>2
  <1>5. ASSUME NEW c \in Caller,
               \/ InspectText(c) \/ OpenIndex(c) \/ CommitIndex(c) \/ Retrieve(c)
               \/ CheckGeneration(c) \/ Generate(c) \/ ExtractiveFallback(c) \/ Answered(c)
        PROVE  RunInv'
    <2>1. call[c].error = "idle"
      BY <1>1, <1>5 DEF InspectText, OpenIndex, CommitIndex, Retrieve, CheckGeneration, Generate,
         ExtractiveFallback, Answered, At, Sound, Flow
    <2>2. \A x \in Caller : x # c => call'[x] = call[x]
      BY <1>1, <1>5 DEF InspectText, OpenIndex, CommitIndex, Retrieve, CheckGeneration, Generate,
         ExtractiveFallback, Answered, Return, Go
    <2>3. call'[c].error = "idle"
      <3>1. call[c] \in Locals
        BY <1>1
      <3>2. CASE Return(c)
        BY <1>1, <3>2 DEF Return, Idle
      <3>3. CASE Go(c, "generating") \/ Go(c, "fallback")
        BY <1>1, <2>1, <3>1, <3>3 DEF Go, Locals
      <3>4. CASE \E R, S : call' = [call EXCEPT ![c].pc = "embed", ![c].text = R, ![c].reasons = S]
        BY <1>1, <2>1, <3>1, <3>4 DEF Locals
      <3>5. CASE \E E : \/ call' = [call EXCEPT ![c].evidence = E, ![c].pc = "generate"]
                       \/ call' = [call EXCEPT ![c].cites = E, ![c].pc = "answered"]
        BY <1>1, <2>1, <3>1, <3>5 DEF Locals
      <3>6. CASE call' = [call EXCEPT ![c].retries = @ + 1]
        BY <1>1, <2>1, <3>1, <3>6 DEF Locals
      <3>9. CASE OpenIndex(c)
        <4>1. \E n : call' = [call EXCEPT ![c].pc = "commit", ![c].seen = n]
          BY <3>9 DEF OpenIndex
        <4> QED BY <1>1, <2>1, <3>1, <4>1 DEF Locals
      <3>7. CASE Generate(c) \/ ExtractiveFallback(c)
        BY <3>2, <3>3, <3>5, <3>6, <3>7 DEF Generate, ExtractiveFallback
      <3>8. CASE InspectText(c) \/ CommitIndex(c) \/ Retrieve(c) \/ CheckGeneration(c) \/ Answered(c)
        BY <3>2, <3>3, <3>4, <3>5, <3>8 DEF InspectText, CommitIndex, Retrieve, CheckGeneration, Answered
      <3> QED BY <1>5, <3>7, <3>8, <3>9
    <2> QED BY <2>1, <2>2, <2>3, RunQuestion
  <1>6. CASE \/ \E d \in Doc : UpdateDocument(d)
             \/ \E p \in Policies : UpdatePolicy(p)
             \/ \E l \in Limits : UpdateBudget(l)
             \/ ForgetSpending \/ ClockTicks
    <2>1. UNCHANGED call
      BY <1>6 DEF UpdateDocument, UpdatePolicy, UpdateBudget, ForgetSpending, ClockTicks
    <2> QED BY <1>2, <2>1
  <1> QED BY <1>3, <1>4, <1>5, <1>6 DEF AnswersStep

-----------------------------------------------------------------------------
LEMMA RunBegin ==
  ASSUME RunInv, SoundInv, AnswersTypeOK', NEW c \in Caller, NEW a \in BOOLEAN,
         NEW P \in (SUBSET Provider) \ {{}}, BeginEvaluation(c, a, P)
  PROVE  RunInv'
  <1> DEFINE r == [Idle EXCEPT !.pc = "run", !.admin = a, !.evidence = Corpus(a, dataset),
                               !.error = "unfinished"]
  <1>1. /\ call[c].pc = "idle" /\ UNCHANGED <<dataset, runs, cut>>
        /\ work' = [work EXCEPT ![c] = [Free EXCEPT !.providers = P]]
    BY DEF BeginEvaluation, At
  <1>2. call' = call \/ call' = [call EXCEPT ![c] = r]
    BY DEF BeginEvaluation, Admitted, Enter
  <1>3. r.pc = "run"
    BY DEF Idle
  <1> HIDE DEF r
  <1>4. call \in [Caller -> Locals] /\ work \in [Caller -> Work]
    BY DEF SoundInv, AnswersTypeOK, RunInv, EvaluationTypeOK
  <1>5. ~Live(c) /\ ~Live(c)'
    BY <1>1, <1>2, <1>3, <1>4 DEF Live
  <1>6. [Free EXCEPT !.providers = P] \in Work
    BY DEF Free, Work
  <1>7. work' \in [Caller -> Work] /\ \A x \in Caller : x # c => call'[x] = call[x] /\ work'[x] = work[x]
    BY <1>1, <1>2, <1>4, <1>6
  <1>8. Live(c)' = Live(c)
    BY <1>5 DEF Live
  <1>9. dataset' \in (SUBSET Doc) \cup {None}
    BY <1>1 DEF RunInv, EvaluationTypeOK
  <1> QED BY <1>1, <1>5, <1>7, <1>8, <1>9, RunMove

LEMMA ScoredEmpty == \A E : Scored({}, E)
  <1>1. IsFiniteSet({}) /\ Cardinality({}) = 0
    BY FS_EmptySet
  <1> QED BY <1>1 DEF Scored

LEMMA RunCreate ==
  ASSUME RunInv, SoundInv, AnswersTypeOK', NEW c \in Caller, CreateRun(c)
  PROVE  RunInv'
  <1> DEFINE new == [status |-> "running", results |-> {}, admin |-> call[c].admin]
             n == Len(runs) + 1
  <1>1. /\ call \in [Caller -> Locals] /\ Sound(call[c]) /\ call[c].pc = "run"
        /\ work \in [Caller -> Work] /\ runs \in Seq(Run)
    BY DEF SoundInv, AnswersTypeOK, RunInv, EvaluationTypeOK, CreateRun, At
  <1>2. call[c].error = "unfinished" /\ call[c].admin \in BOOLEAN /\ ~Live(c)
    BY <1>1 DEF Sound, Flow, Locals, Live
  <1>3. PICK p \in work[c].providers :
          /\ runs' = Append(runs, new)
          /\ work' = [work EXCEPT ![c].providers = @ \ {p}, ![c].run = Len(runs'), ![c].results = {}]
    BY DEF CreateRun
  <1>4. new \in Run /\ Settled(new)
    BY <1>2 DEF Run, Settled
  <1>5. /\ runs' \in Seq(Run) /\ DOMAIN runs' = 1..n /\ Len(runs') = n /\ n \in Nat /\ n >= 1
        /\ DOMAIN runs = 1..(n - 1)
        /\ runs'[n] = new /\ \A r \in DOMAIN runs : runs'[r] = runs[r]
    BY <1>1, <1>3, <1>4, AppendProperties
  <1>6. /\ work' \in [Caller -> Work] /\ work'[c].run = n /\ work'[c].results = {}
        /\ \A x \in Caller : x # c => work'[x] = work[x]
    <2> DEFINE t == [work[c] EXCEPT !.providers = @ \ {p}, !.run = Len(runs'), !.results = {}]
    <2>1. work[c] \in Work
      BY <1>1
    <2>2. t \in Work /\ t.run = n /\ t.results = {}
      BY <1>5, <2>1 DEF Work
    <2>3. work' = [work EXCEPT ![c] = t]
      BY <1>1, <1>3
    <2> HIDE DEF t
    <2> QED BY <1>1, <2>2, <2>3
  <1>7. /\ call'[c].error = "unfinished" /\ call'[c].pc \in {"skip", "case", "embed"}
        /\ call'[c].admin = call[c].admin
        /\ \A x \in Caller : x # c => call'[x] = call[x]
    BY <1>1, <1>2 DEF CreateRun, Go, Locals
  <1>8. UNCHANGED <<dataset, cut>>
    BY DEF CreateRun
  <1> HIDE DEF new, n
  <1>9. Live(c)' /\ \A x \in Caller : x # c => Live(x)' = Live(x)
    BY <1>7 DEF Live
  <1>10. \A x \in Caller : Live(x) => x # c /\ work[x].run \in DOMAIN runs
    BY <1>2 DEF RunInv
  <1>11. EvaluationTypeOK'
    BY <1>5, <1>6, <1>8 DEF RunInv, EvaluationTypeOK
  <1>12. ASSUME NEW r \in DOMAIN runs' PROVE Settled(runs'[r])
    <2>1. CASE r = n
      BY <1>4, <1>5, <2>1
    <2>2. CASE r \in DOMAIN runs
      BY <1>5, <2>2 DEF RunInv
    <2> QED BY <1>5, <2>1, <2>2
  <1>13. new.status = "running" /\ new.admin = call[c].admin
    BY DEF new
  <1>14. ASSUME NEW x \in Caller, Live(x)'
         PROVE  /\ work'[x].run \in DOMAIN runs'
                /\ Unsettled(x)'
                /\ runs'[work'[x].run].admin = call'[x].admin
                /\ Scored(work'[x].results, call'[x].evidence)
    <2>1. CASE x = c
      <3>1. Scored(work'[c].results, call'[c].evidence)
        BY <1>6, ScoredEmpty
      <3>2. n \in DOMAIN runs'
        BY <1>5
      <3> QED BY <1>5, <1>6, <1>7, <1>13, <2>1, <3>1, <3>2 DEF Unsettled
    <2>2. CASE x # c
      <3>1. Live(x) /\ work'[x] = work[x] /\ call'[x] = call[x]
        BY <1>6, <1>7, <1>9, <1>14, <2>2
      <3> QED BY <1>5, <3>1 DEF RunInv, Unsettled
    <2> QED BY <2>1, <2>2
  <1>15. ASSUME NEW x \in Caller, NEW y \in Caller, Live(x)', Live(y)', work'[x].run = work'[y].run
         PROVE  x = y
    <2>1. \A z \in Caller : z # c /\ Live(z)' => Live(z) /\ work'[z] = work[z] /\ work'[z].run # n
      BY <1>5, <1>6, <1>9, <1>10
    <2>2. CASE x = c \/ y = c
      BY <1>6, <1>15, <2>1, <2>2
    <2>3. CASE x # c /\ y # c
      BY <1>15, <2>1, <2>3 DEF RunInv
    <2> QED BY <2>2, <2>3
  <1>16. ASSUME NEW r \in DOMAIN runs', runs'[r].status = "running"
         PROVE  r \in cut' \/ \E x \in Caller : Live(x)' /\ work'[x].run = r
    <2>1. CASE r = n
      BY <1>6, <1>9, <2>1
    <2>2. CASE r \in DOMAIN runs
      <3>1. r \in cut \/ \E x \in Caller : Live(x) /\ work[x].run = r
        BY <1>5, <1>16, <2>2 DEF RunInv
      <3> QED BY <1>6, <1>8, <1>9, <1>10, <3>1
    <2> QED BY <1>5, <2>1, <2>2
  <1>17. \A r \in DOMAIN runs' : Settled(runs[r])'
    BY <1>12 DEF Settled, Readably, Vetted
  <1>18. \A x \in Caller : Live(x)' => Scored(work[x].results, call[x].evidence)'
    BY <1>14 DEF Scored
  <1> QED BY <1>11, <1>14, <1>15, <1>16, <1>17, <1>18 DEF RunInv

(* A request between two runs, or at the end of all of them. *)
LEMMA RunIdle ==
  ASSUME RunInv, SoundInv, AnswersTypeOK', NEW c \in Caller, EndEvaluation(c) \/ Report(c)
  PROVE  RunInv'
  <1>1. /\ call \in [Caller -> Locals] /\ call[c].pc \in {"run", "report"}
        /\ UNCHANGED <<dataset, runs, work, cut>>
    BY DEF SoundInv, AnswersTypeOK, EndEvaluation, Report, At, evaluationVars
  <1>2. Return(c) \/ Go(c, "run")
    BY DEF EndEvaluation, Report
  <1>3. /\ \A x \in Caller : x # c => call'[x] = call[x]
        /\ call'[c].pc \in {"idle", "run"}
    BY <1>1, <1>2 DEF Return, Go, Idle, Locals
  <1>4. ~Live(c) /\ ~Live(c)'
    BY <1>1, <1>3 DEF Live
  <1>5. Live(c)' = Live(c)
    BY <1>4 DEF Live
  <1>6. dataset' \in (SUBSET Doc) \cup {None} /\ work' \in [Caller -> Work]
    BY <1>1 DEF RunInv, EvaluationTypeOK
  <1> QED BY <1>1, <1>3, <1>4, <1>5, <1>6, RunMove

LEMMA RunNext ==
  ASSUME RunInv, SoundInv, AnswersTypeOK', NEW c \in Caller, NextCase(c)
  PROVE  RunInv'
  <1>1. /\ call \in [Caller -> Locals] /\ Sound(call[c]) /\ call[c].pc = "case"
        /\ UNCHANGED <<dataset, runs, work, cut>>
        /\ call' = [call EXCEPT ![c].pc = "embed", ![c].next = "score"]
    BY DEF SoundInv, AnswersTypeOK, NextCase, At, evaluationVars
  <1>2. call[c].error = "unfinished"
    BY <1>1 DEF Sound, Flow
  <1>3. /\ \A x \in Caller : x # c => call'[x] = call[x]
        /\ call'[c].pc = "embed" /\ call'[c].error = "unfinished"
        /\ call'[c].admin = call[c].admin /\ call'[c].evidence = call[c].evidence
    BY <1>1, <1>2 DEF Locals
  <1>4. Live(c) /\ Live(c)'
    BY <1>1, <1>2, <1>3 DEF Live
  <1>5. Scored(work'[c].results, call'[c].evidence)
    BY <1>1, <1>3, <1>4 DEF RunInv
  <1>6. dataset' \in (SUBSET Doc) \cup {None} /\ work' \in [Caller -> Work]
    BY <1>1 DEF RunInv, EvaluationTypeOK
  <1>7. Live(c)' = Live(c)
    BY <1>4
  <1> QED BY <1>1, <1>3, <1>4, <1>5, <1>6, <1>7, RunMove

(* One case more is scored. *)
LEMMA ScoredMore ==
  ASSUME NEW E, NEW S \in SUBSET Result, Scored(S, E), NEW cites \in SUBSET E, cites \in SUBSET Evidence
  PROVE  LET T == S \cup {[case |-> Cardinality(S) + 1, cites |-> cites]}
         IN T \in SUBSET Result /\ Scored(T, E)
  <1> DEFINE n == Cardinality(S)
             e == [case |-> n + 1, cites |-> cites]
             T == S \cup {e}
  <1>1. IsFiniteSet(S) /\ {x.case : x \in S} = 1..n
    BY DEF Scored
  <1>2. n \in Nat
    BY <1>1, FS_CardinalityType
  <1>3. e.case = n + 1 /\ e.cites = cites /\ e \in Result
    BY <1>2 DEF Result
  <1> HIDE DEF n, e
  <1>4. e \notin S
    <2>1. SUFFICES ASSUME e \in S PROVE FALSE
      OBVIOUS
    <2>2. e.case \in 1..n
      BY <1>1, <2>1
    <2> QED BY <1>2, <1>3, <2>2
  <1>5. IsFiniteSet(T) /\ Cardinality(T) = n + 1
    BY <1>1, <1>4, FS_AddElement DEF n
  <1>6. {x.case : x \in T} = 1..(n + 1)
    <2>1. {x.case : x \in T} = {x.case : x \in S} \cup {e.case}
      OBVIOUS
    <2>2. 1..(n + 1) = (1..n) \cup {n + 1}
      BY <1>2
    <2> QED BY <1>1, <1>3, <2>1, <2>2
  <1>7. \A x \in T : x.cites \subseteq E
    BY <1>3 DEF Scored
  <1>8. T \in SUBSET Result /\ Scored(T, E)
    BY <1>3, <1>5, <1>6, <1>7 DEF Scored
  <1> QED BY <1>8 DEF n, e

LEMMA RunScore ==
  ASSUME RunInv, SoundInv, AnswersTypeOK', NEW c \in Caller, ScoreCase(c)
  PROVE  RunInv'
  <1> DEFINE S == work[c].results
             E == call[c].evidence
  <1>1. /\ call \in [Caller -> Locals] /\ Sound(call[c]) /\ call[c].pc = "score"
        /\ work \in [Caller -> Work]
        /\ UNCHANGED <<dataset, runs, cut>> /\ Go(c, "case")
    BY DEF SoundInv, AnswersTypeOK, RunInv, EvaluationTypeOK, ScoreCase, At
  <1>2. PICK cites \in {{}} \cup {{e} : e \in E} :
          work' = [work EXCEPT ![c].results =
                     @ \cup {[case |-> Cardinality(@) + 1, cites |-> cites]}]
    BY DEF ScoreCase
  <1>3. call[c].error = "unfinished" /\ E \in SUBSET Evidence /\ work[c] \in Work
    BY <1>1 DEF Sound, Flow, Locals
  <1>4. /\ \A x \in Caller : x # c => call'[x] = call[x]
        /\ call'[c].pc = "case" /\ call'[c].error = "unfinished"
        /\ call'[c].admin = call[c].admin /\ call'[c].evidence = E
    BY <1>1, <1>3 DEF Go, Locals
  <1>5. Live(c) /\ Live(c)'
    BY <1>1, <1>3, <1>4 DEF Live
  <1>6. Scored(S, E) /\ S \in SUBSET Result
    BY <1>3, <1>5 DEF RunInv, Work
  <1> DEFINE T == S \cup {[case |-> Cardinality(S) + 1, cites |-> cites]}
  <1>7. T \in SUBSET Result /\ Scored(T, E)
    BY <1>2, <1>3, <1>6, ScoredMore
  <1>8. work' = [work EXCEPT ![c] = [work[c] EXCEPT !.results = T]]
    BY <1>1, <1>2
  <1> HIDE DEF T
  <1>9. /\ [work[c] EXCEPT !.results = T] \in Work
        /\ [work[c] EXCEPT !.results = T].run = work[c].run
        /\ [work[c] EXCEPT !.results = T].results = T
    BY <1>3, <1>7 DEF Work
  <1>10. /\ work' \in [Caller -> Work] /\ \A x \in Caller : x # c => work'[x] = work[x]
         /\ work'[c].run = work[c].run /\ work'[c].results = T
    BY <1>1, <1>8, <1>9
  <1>11. dataset' \in (SUBSET Doc) \cup {None}
    BY <1>1 DEF RunInv, EvaluationTypeOK
  <1>12. Live(c)' = Live(c)
    BY <1>5
  <1> QED BY <1>1, <1>4, <1>7, <1>10, <1>11, <1>12, RunMove

(* The results become those of the run, with its end. *)
LEMMA RunFinish ==
  ASSUME RunInv, SoundInv, AnswersTypeOK', NEW c \in Caller, FinishRun(c)
  PROVE  RunInv'
  <1>1. /\ call \in [Caller -> Locals] /\ Sound(call[c]) /\ call[c].pc = "case"
        /\ work \in [Caller -> Work] /\ runs \in Seq(Run)
        /\ UNCHANGED <<dataset, work, cut>>
    BY DEF SoundInv, AnswersTypeOK, RunInv, EvaluationTypeOK, FinishRun, At
  <1>2. call[c].error = "unfinished" /\ work[c] \in Work
    BY <1>1 DEF Sound, Flow
  <1>3. Live(c)
    BY <1>1, <1>2 DEF Live
  <1>4. CASE Fail(c) /\ UNCHANGED runs
    <2>1. Go(c, "unfinished")
      BY <1>2, <1>4 DEF Fail
    <2>2. /\ \A x \in Caller : x # c => call'[x] = call[x]
          /\ call'[c].pc = "unfinished" /\ call'[c].error = "unfinished"
          /\ call'[c].admin = call[c].admin /\ call'[c].evidence = call[c].evidence
      BY <1>1, <1>2, <2>1 DEF Go, Locals
    <2>3. Live(c)'
      BY <2>2 DEF Live
    <2>4. Scored(work'[c].results, call'[c].evidence)
      BY <1>1, <1>3, <2>2 DEF RunInv
    <2>5. dataset' \in (SUBSET Doc) \cup {None} /\ work' \in [Caller -> Work]
      BY <1>1 DEF RunInv, EvaluationTypeOK
    <2>6. Live(c)' = Live(c)
      BY <1>3, <2>3
    <2> QED BY <1>1, <1>4, <2>2, <2>4, <2>5, <2>6, RunMove
  <1>5. CASE /\ runs' = [runs EXCEPT ![work[c].run].status = "completed",
                                     ![work[c].run].results = work[c].results]
             /\ Go(c, "report") \/ Fail(c)
    <2> DEFINE n == work[c].run
               S == work[c].results
               done == [runs[n] EXCEPT !.status = "completed", !.results = S]
    <2>1. /\ n \in DOMAIN runs /\ runs[n].admin = call[c].admin
          /\ Scored(S, call[c].evidence) /\ Cardinality(S) = Cases /\ S \in SUBSET Result
      BY <1>2, <1>3 DEF RunInv, FinishRun, Work
    <2>2. runs[n] \in Run
      BY <1>1, <2>1, ElementOfSeq, LenProperties
    <2>3. runs' = [runs EXCEPT ![n] = done]
      BY <1>5
    <2>4. /\ done \in Run /\ done.status = "completed" /\ done.results = S
          /\ done.admin = call[c].admin
      BY <2>1, <2>2 DEF Run
    <2> HIDE DEF done
    <2>5. \A x \in S : \A e \in x.cites : Readably(e, call[c].admin)
      BY <1>1, <2>1 DEF Scored, Sound
    <2>6. Settled(done)
      <3>1. {x.case : x \in S} = 1..Cases
        BY <2>1 DEF Scored
      <3>2. S # {}
        <4>1. 1 \in 1..Cases
          BY EvaluationAssumption
        <4> QED BY <3>1, <4>1
      <3> QED BY <2>4, <2>5, <3>1, <3>2 DEF Settled
    <2>7. runs' \in Seq(Run) /\ DOMAIN runs' = DOMAIN runs /\ runs'[n] = done
          /\ \A r \in DOMAIN runs : r # n => runs'[r] = runs[r]
      BY <1>1, <2>1, <2>3, <2>4, ExceptSeq, LenProperties
    <2>8. /\ call'[c].pc \in {"report", "unfinished"}
          /\ call'[c].admin = call[c].admin /\ call'[c].evidence = call[c].evidence
          /\ \A x \in Caller : x # c => call'[x] = call[x]
      BY <1>1, <1>2, <1>5 DEF Go, Fail, Locals
    <2>9. Live(c)' => call'[c].pc = "unfinished"
      BY <2>8 DEF Live
    <2>10. cut' \in SUBSET Nat /\ cut \subseteq cut'
      BY <1>1 DEF RunInv, EvaluationTypeOK
    <2> QED BY <1>1, <1>3, <2>1, <2>4, <2>6, <2>7, <2>8, <2>9, <2>10, RunEnd
  <1> QED BY <1>4, <1>5 DEF FinishRun

(* A run ends without results, or the process that should end it fails.     *)
LEMMA RunWithout ==
  ASSUME RunInv, SoundInv, AnswersTypeOK', NEW c \in Caller, FinishWithoutResults(c)
  PROVE  RunInv'
  <1> DEFINE n == work[c].run
  <1>1. /\ call \in [Caller -> Locals] /\ Sound(call[c]) /\ call[c].pc \in {"skip", "unfinished"}
        /\ work \in [Caller -> Work] /\ runs \in Seq(Run)
        /\ UNCHANGED <<dataset, work>>
    BY DEF SoundInv, AnswersTypeOK, RunInv, EvaluationTypeOK, FinishWithoutResults
  <1>2. Live(c)
    BY <1>1 DEF Sound, Flow, Live
  <1>3. /\ n \in DOMAIN runs /\ Unsettled(c) /\ Settled(runs[n]) /\ n \in Nat
        /\ cut \in SUBSET Nat
    BY <1>1, <1>2 DEF RunInv, EvaluationTypeOK, Work
  <1>4. runs[n] \in Run /\ (call[c].pc = "skip" => runs[n].results = {})
    BY <1>1, <1>3, ElementOfSeq, LenProperties DEF Settled, Unsettled
  <1>5. Go(c, "report") \/ Return(c)
    BY DEF FinishWithoutResults
  <1>6. call'[c].pc \in {"report", "idle"} /\ \A x \in Caller : x # c => call'[x] = call[x]
    BY <1>1, <1>5 DEF Go, Return, Locals, Idle
  <1>7. ~Live(c)'
    BY <1>6 DEF Live
  <1>8. CASE cut' = cut \cup {n} /\ UNCHANGED runs
    BY <1>1, <1>2, <1>3, <1>6, <1>7, <1>8, RunEnd
  <1>9. ASSUME NEW s \in {"skipped", "failed"}, s = "skipped" => call[c].pc = "skip",
               runs' = [runs EXCEPT ![n].status = s], UNCHANGED cut
        PROVE  RunInv'
    <2> DEFINE done == [runs[n] EXCEPT !.status = s]
    <2>1. runs' = [runs EXCEPT ![n] = done]
      BY <1>9
    <2>2. /\ done \in Run /\ done.status = s /\ done.results = runs[n].results
          /\ done.admin = runs[n].admin
      BY <1>4 DEF Run
    <2> HIDE DEF done
    <2>3. Settled(done)
      BY <1>3, <1>4, <1>9, <2>2 DEF Settled
    <2>4. runs' \in Seq(Run) /\ DOMAIN runs' = DOMAIN runs /\ runs'[n] = done
          /\ \A r \in DOMAIN runs : r # n => runs'[r] = runs[r]
      BY <1>1, <1>3, <2>1, <2>2, ExceptSeq, LenProperties
    <2> HIDE DEF n
    <2>5. runs'[work[c].run] = done /\ \A r \in DOMAIN runs : r # work[c].run => runs'[r] = runs[r]
      BY <2>4 DEF n
    <2>6. cut' \in SUBSET Nat /\ cut \subseteq cut' /\ done.status # "running"
      BY <1>3, <1>9, <2>2
    <2> QED BY <1>1, <1>2, <1>6, <1>7, <2>3, <2>4, <2>5, <2>6, RunEnd
  <1> QED BY <1>8, <1>9 DEF FinishWithoutResults, At

(* A restart cuts every run that is under way. *)
LEMMA RunRestart ==
  ASSUME RunInv, SoundInv, AnswersTypeOK', RestartAll
  PROVE  RunInv'
  <1>1. /\ call' = [x \in Caller |-> Idle] /\ cut' = cut \cup Running
        /\ UNCHANGED <<dataset, runs, work>>
    BY DEF RestartAll, Restart
  <1>2. \A x \in Caller : ~Live(x)'
    BY <1>1 DEF Live, Idle
  <1>3. runs \in Seq(Run) /\ DOMAIN runs \subseteq Nat
    <2>1. runs \in Seq(Run)
      BY DEF RunInv, EvaluationTypeOK
    <2>2. DOMAIN runs = 1..Len(runs) /\ Len(runs) \in Nat
      BY <2>1, LenProperties
    <2> QED BY <2>1, <2>2
  <1>4. EvaluationTypeOK'
    BY <1>1, <1>3 DEF RunInv, EvaluationTypeOK, Running
  <1>5. \A r \in DOMAIN runs' : Settled(runs[r])'
    BY <1>1 DEF RunInv, Settled, Readably, Vetted
  <1>6. \A r \in DOMAIN runs' : runs'[r].status = "running" => r \in cut'
    BY <1>1 DEF Running
  <1> QED BY <1>2, <1>4, <1>5, <1>6 DEF RunInv

LEMMA RunDataset ==
  ASSUME RunInv, AnswersTypeOK', NEW a \in BOOLEAN, NEW D \in SUBSET Doc, CreateDataset(a, D)
  PROVE  RunInv'
  <1>1. UNCHANGED <<runs, cut, work, call>> /\ dataset' = D
    BY DEF CreateDataset
  <1> QED BY <1>1, RunStill

LEMMA RunStep ==
  ASSUME RunInv, SoundInv, SoundInv', [EvaluationNext]_<<rateVars, answerVars, evaluationVars>>
  PROVE  RunInv'
  <1>1. AnswersTypeOK'
    BY DEF SoundInv
  <1>2. CASE AnswersStep /\ UNCHANGED evaluationVars
    BY <1>1, <1>2, RunAnswers
  <1>3. CASE \E a \in BOOLEAN, D \in SUBSET Doc : CreateDataset(a, D)
    BY <1>1, <1>3, RunDataset
  <1>4. CASE \E c \in Caller, a \in BOOLEAN, P \in (SUBSET Provider) \ {{}} : BeginEvaluation(c, a, P)
    BY <1>1, <1>4, RunBegin
  <1>5. CASE \E c \in Caller : Working(c)
    BY <1>1, <1>5, RunCreate, RunIdle, RunNext, RunScore, RunFinish, RunWithout DEF Working
  <1>6. CASE RestartAll
    BY <1>1, <1>6, RunRestart
  <1>7. CASE UNCHANGED <<rateVars, answerVars, evaluationVars>>
    BY <1>1, <1>7, RunStill DEF answerVars, evaluationVars, RunInv, EvaluationTypeOK
  <1> QED BY <1>2, <1>3, <1>4, <1>5, <1>6, <1>7 DEF EvaluationNext, Working
-----------------------------------------------------------------------------
EvaluationInv == SoundInv /\ BudgetInv /\ RunInv

LEMMA InitInv == EvaluationInit => EvaluationInv
  <1> SUFFICES ASSUME EvaluationInit PROVE EvaluationInv
    OBVIOUS
  <1>1. PICK s \in Settings : /\ policy = s.policy /\ left = s.left
                              /\ limit = s.limit /\ highest = s.limit
    BY DEF EvaluationInit, AnswersInit
  <1>2. /\ policy \in Policies /\ left \in [Event -> Nat] /\ limit \in Limits /\ highest = limit
        /\ limit \in Nat /\ MaxCost \in Nat
    BY <1>1, AnswersAssumption
  <1>3. /\ doc = [d \in Doc |-> None] /\ call = [c \in Caller |-> Idle] /\ spent = 0
        /\ dataset = None /\ runs = <<>> /\ work = [c \in Caller |-> Free] /\ cut = {}
    BY DEF EvaluationInit, AnswersInit
  <1>4. AnswersTypeOK
    BY <1>2, <1>3, IdleSound DEF AnswersTypeOK
  <1>5. SoundInv
    BY <1>3, <1>4, IdleSound DEF SoundInv, RowsSound
  <1>6. BudgetInv
    <2>1. MaxCost * Unpaid >= 0
      BY <1>2, UnpaidNat
    <2> HIDE DEF Unpaid
    <2>2. Unpaid \in Nat
      BY UnpaidNat
    <2> DEFINE k == MaxCost * Unpaid
    <2>3. k \in Int
      BY <1>2, <2>2
    <2> HIDE DEF k
    <2>4. limit + k >= 0
      BY <1>2, <2>1, <2>3 DEF k
    <2> QED BY <1>2, <1>3, <2>4 DEF BudgetInv, k
  <1>7. RunInv
    <2>1. runs \in Seq(Run) /\ DOMAIN runs = {}
      BY <1>3, EmptySeq, LenProperties
    <2>2. \A c \in Caller : ~Live(c)
      BY <1>3 DEF Live, Idle
    <2>3. Free \in Work
      BY DEF Free, Work
    <2>4. EvaluationTypeOK
      BY <1>3, <1>4, <2>1, <2>3 DEF EvaluationTypeOK
    <2> QED BY <2>1, <2>2, <2>4 DEF RunInv
  <1> QED BY <1>5, <1>6, <1>7 DEF EvaluationInv

LEMMA EvaluationInvariance == EvaluationSpec => []EvaluationInv
  <1>1. /\ EvaluationInv /\ [EvaluationNext]_<<rateVars, answerVars, evaluationVars>>
        => EvaluationInv'
    BY SoundStep, BudgetStep, RunStep DEF EvaluationInv
  <1> QED BY InitInv, <1>1, PTL DEF EvaluationSpec

(* The types of the tables, of the locals of a request and of a run.          *)
THEOREM EvaluationTypes == EvaluationSpec => []EvaluationTypeOK
  <1>1. EvaluationInv => EvaluationTypeOK
    BY DEF EvaluationInv, RunInv
  <1> QED BY EvaluationInvariance, <1>1, PTL

(* What an answer cites was retrieved, could be read by its asker and had     *)
(* passed the controls of its upload, whatever the model returned; it had no   *)
(* mark, unless an indexing that did not see it committed after it, and left   *)
(* an unmarked passage beside it.                                          *)
THEOREM AnswersAreVetted == EvaluationSpec => []AnswersFromVetted
  <1>1. EvaluationInv => AnswersFromVetted
    BY DEF EvaluationInv, SoundInv, Sound, AnswersFromVetted, At, Readably
  <1> QED BY EvaluationInvariance, <1>1, PTL

(* The spending of a period goes over its highest budget by one paid call of  *)
(* each request at most, for any number of requests and any cost.             *)
THEOREM SpendingBounded == EvaluationSpec => []SpendBounded
  <1>1. ASSUME EvaluationInv PROVE SpendBounded
    <2>1. spent \in Nat /\ highest \in Nat /\ MaxCost \in Nat
      BY <1>1, Numbers DEF EvaluationInv, SoundInv
    <2>2. Unpaid \in Nat /\ Unpaid <= Cardinality(Caller) /\ Cardinality(Caller) \in Nat
      BY UnpaidNat
    <2>3. spent <= highest + MaxCost * Unpaid
      BY <1>1 DEF EvaluationInv, BudgetInv
    <2> HIDE DEF Unpaid
    <2>4. MaxCost * Unpaid <= MaxCost * Cardinality(Caller)
      BY <2>1, <2>2, Product
    <2> DEFINE k == MaxCost * Unpaid
               m == MaxCost * Cardinality(Caller)
    <2>5. k \in Int /\ m \in Int /\ k <= m /\ spent <= highest + k
      BY <2>1, <2>2, <2>3, <2>4
    <2> HIDE DEF k, m
    <2>6. spent <= highest + m
      BY <2>1, <2>5
    <2> QED BY <2>6 DEF m, SpendBounded
  <1> QED BY EvaluationInvariance, <1>1, PTL

(* A run has a result for every case or none at all, citing only what its     *)
(* asker could read and the controls had let through; all of them where it is *)
(* completed, none where it is running or was skipped; and none says it is    *)
(* running without a request at work on it, unless it was cut off.           *)
THEOREM RunsAreSettled == EvaluationSpec => []RunsSettle
  <1>1. ASSUME EvaluationInv PROVE RunsSettle
    <2>1. \A r \in DOMAIN runs : Settled(runs[r])
      BY <1>1 DEF EvaluationInv, RunInv
    <2>2. \A c \in Caller : Live(c) => AtWork(c, work[c].run)
      BY DEF Live, AtWork
    <2>3. \A r \in DOMAIN runs : runs[r].status = "running" =>
            r \in cut \/ \E c \in Caller : AtWork(c, r)
      BY <1>1, <2>2 DEF EvaluationInv, RunInv
    <2> QED BY <2>1, <2>3 DEF RunsSettle, Settled, Readably
  <1> QED BY EvaluationInvariance, <1>1, PTL

-----------------------------------------------------------------------------
(***************************************************************************)
(* The limit on requests.  Every request that was let in gets a label: the *)
(* window that counted it, and its number there, which is at most the      *)
(* allowance.  No two requests have one label, and a stretch of time as    *)
(* long as a window meets few windows: of one process two, and of the next *)
(* only one more, as its windows begin when the others have ended.         *)
(***************************************************************************)

(* A request is let in as the nr-th of a window: of the memory, by the      *)
(* process that has it and the time it begins, or of the clock.            *)
Label == [kind : {"memory", "redis"}, epoch : Nat, start : Nat, nr : 1..Allowance]

(* The label of a request of i that was let in at time u. *)
Placed(i, l, u) ==
  /\ u <= now
  /\ l.kind = "redis" =>
       backend # "memory" /\ l.epoch = 0 /\ l.start = u \div Window /\ l.nr <= bucket[i][l.start]
  /\ l.kind = "memory" =>
       /\ backend # "production" /\ l.epoch <= restarts
       /\ l.start <= u /\ u < l.start + Window
       /\ memory[i] # NoEntry => l.start + Window <= memory[i].reset
       /\ l.epoch = restarts =>
            IF memory[i] = NoEntry THEN l.start + Window <= now
            ELSE \/ l.start + Window + Window <= memory[i].reset
                 \/ l.start + Window = memory[i].reset /\ l.nr <= memory[i].count

(* The windows of a process do not overlap, and those of the next come later. *)
Apart(l, k) ==
  l.kind = "memory" /\ k.kind = "memory" =>
    /\ l.epoch = k.epoch /\ l.start < k.start => l.start + Window <= k.start
    /\ l.epoch < k.epoch => l.start <= k.start

Labelled(i, g) ==
  /\ g \in [DOMAIN admitted[i] -> Label]
  /\ \A n \in DOMAIN admitted[i] : Placed(i, g[n], admitted[i][n])
  /\ \A m, n \in DOMAIN admitted[i] : Apart(g[m], g[n]) /\ (m # n => g[m] # g[n])

RateInv ==
  /\ RateTypeOK
  /\ \A i \in Identifier :
       /\ memory[i] # NoEntry => memory[i].reset \in Window..(now + Window)
       /\ \E g : Labelled(i, g)

(* A request is let in at a time, and has a label. *)
LEMMA LabelledType ==
  ASSUME RateTypeOK, NEW i \in Identifier, NEW n \in DOMAIN admitted[i]
  PROVE  /\ admitted[i][n] \in 0..Horizon
         /\ \A g : Labelled(i, g) => g[n] \in Label /\ Placed(i, g[n], admitted[i][n])
  <1>1. PICK s \in Seq(0..Horizon) : s = admitted[i]
    BY DEF RateTypeOK
  <1>2. s[n] \in 0..Horizon
    <2>1. n \in 1..Len(s)
      BY <1>1
    <2> QED BY <2>1, ElementOfSeq
  <1> QED BY <1>1, <1>2 DEF Labelled

(* The labels of the requests of i stay as they are. *)
LEMMA LabelsStay ==
  ASSUME NEW i \in Identifier, NEW g, Labelled(i, g), admitted'[i] = admitted[i],
         \A n \in DOMAIN admitted[i] : Placed(i, g[n], admitted[i][n])'
  PROVE  Labelled(i, g)'
  BY DEF Labelled, Apart

(* One more request of i is let in, with a label of its own. *)
LEMMA LabelsGrow ==
  ASSUME RateTypeOK, NEW i \in Identifier, NEW g, Labelled(i, g), NEW l \in Label,
         admitted'[i] = Append(admitted[i], now), now' = now,
         \A n \in DOMAIN admitted[i] :
            Placed(i, g[n], admitted[i][n])' /\ Apart(g[n], l) /\ Apart(l, g[n]) /\ g[n] # l,
         Placed(i, l, now)'
  PROVE  \E h : Labelled(i, h)'
  <1>1. PICK N \in Nat : admitted[i] \in Seq(0..Horizon) /\ Len(admitted[i]) = N
    BY DEF RateTypeOK
  <1>2. PICK h : h = [n \in 1..(N + 1) |-> IF n = N + 1 THEN l ELSE g[n]]
    OBVIOUS
  <1>3. /\ DOMAIN admitted[i] = 1..N /\ DOMAIN admitted'[i] = 1..(N + 1)
        /\ \A n \in 1..N : admitted'[i][n] = admitted[i][n]
        /\ admitted'[i][N + 1] = now
    BY <1>1 DEF RateTypeOK
  <1>4. h[N + 1] = l /\ \A n \in 1..N : h[n] = g[n] /\ g[n] \in Label
    BY <1>1, <1>2, <1>3 DEF Labelled
  <1>5. \A n \in 1..(N + 1) : n = N + 1 \/ n \in 1..N
    BY <1>1
  <1>6. h \in [1..(N + 1) -> Label]
    BY <1>2, <1>4, <1>5
  <1>7. ASSUME NEW n \in 1..(N + 1) PROVE Placed(i, h[n], admitted[i][n])'
    <2>1. CASE n = N + 1
      <3>1. h[n] = l /\ admitted'[i][n] = now /\ now \in 0..Horizon
        BY <1>3, <1>4, <2>1 DEF RateTypeOK
      <3> QED BY <3>1 DEF Placed
    <2>2. CASE n \in 1..N
      <3>1. h[n] = g[n] /\ admitted'[i][n] = admitted[i][n] /\ n \in DOMAIN admitted[i]
        BY <1>3, <1>4, <2>2
      <3>2. Placed(i, g[n], admitted[i][n])'
        BY <3>1
      <3> QED BY <3>1, <3>2
    <2> QED BY <1>5, <2>1, <2>2
  <1>8. Apart(l, l)
    BY DEF Apart, Label
  <1>9. ASSUME NEW m \in 1..(N + 1), NEW n \in 1..(N + 1)
        PROVE  Apart(h[m], h[n]) /\ (m # n => h[m] # h[n])
    <2>1. \A k \in 1..N : Apart(g[k], l) /\ Apart(l, g[k]) /\ g[k] # l
      BY <1>3
    <2>2. CASE m = N + 1 /\ n \in 1..N
      <3>1. h[m] = l /\ h[n] = g[n]
        BY <1>4, <2>2
      <3> QED BY <2>1, <2>2, <3>1
    <2>3. CASE m \in 1..N /\ n = N + 1
      <3>1. h[n] = l /\ h[m] = g[m]
        BY <1>4, <2>3
      <3> QED BY <2>1, <2>3, <3>1
    <2>4. CASE m \in 1..N /\ n \in 1..N
      BY <1>3, <1>4, <2>4 DEF Labelled
    <2>5. CASE m = N + 1 /\ n = N + 1
      <3>1. h[m] = l /\ h[n] = l /\ m = n
        BY <1>4, <2>5
      <3> QED BY <1>8, <3>1
    <2> QED BY <1>5, <2>2, <2>3, <2>4, <2>5
  <1>10. Labelled(i, h)'
    BY <1>3, <1>6, <1>7, <1>9 DEF Labelled, Apart
  <1> QED BY <1>10

(* Where the count of i goes when j asks: nowhere, out because its window   *)
(* is over, or, where i is j, on in its window or a new one.                *)
Dropped(i) == memory[i] # NoEntry /\ memory[i].reset <= now /\ memory'[i] = NoEntry
CountedOn(i) == memory'[i] = [Entry(i) EXCEPT !.count = @ + 1]

(* An eviction takes nothing but windows that are over. *)
LEMMA EvictedEntries ==
  ASSUME NEW m \in [Identifier -> [count : Nat, reset : Nat] \cup {NoEntry}], now \in Nat,
         NEW i \in Identifier
  PROVE  /\ Evicted(m) \in [Identifier -> [count : Nat, reset : Nat] \cup {NoEntry}]
         /\ \/ Evicted(m)[i] = m[i]
            \/ Evicted(m)[i] = NoEntry /\ m[i] # NoEntry /\ m[i].reset <= now
  BY DEF Evicted

(* The entry that is counted on: in the window it has, or in a new one. *)
LEMMA EntryIs ==
  ASSUME RateTypeOK, NEW i \in Identifier
  PROVE  LET e == [Entry(i) EXCEPT !.count = @ + 1] IN
         /\ e \in [count : Nat, reset : Nat] /\ e # NoEntry /\ e.reset > now /\ Entry(i).count \in Nat
         /\ e.count = Entry(i).count + 1 /\ e.reset = Entry(i).reset
         /\ \/ memory[i] # NoEntry /\ memory[i].reset > now /\ Entry(i) = memory[i]
            \/ /\ memory[i] = NoEntry \/ memory[i].reset <= now
               /\ Entry(i).count = 0 /\ Entry(i).reset = now + Window
  <1>1. now \in Nat /\ Window \in Nat \ {0} /\ Horizon \in Nat
        /\ NoEntry \notin [count : Nat, reset : Nat]
        /\ memory[i] \in [count : Nat, reset : Nat] \cup {NoEntry}
    BY RateLimitAssumption DEF RateTypeOK
  <1>2. CASE memory[i] = NoEntry \/ memory[i].reset <= now
    <2>1. Entry(i) = [count |-> 0, reset |-> now + Window]
      BY <1>2 DEF Entry, Fresh
    <2> QED BY <1>1, <1>2, <2>1
  <1>3. CASE ~(memory[i] = NoEntry \/ memory[i].reset <= now)
    <2>1. Entry(i) = memory[i]
      BY <1>3 DEF Entry
    <2> QED BY <1>1, <1>3, <2>1
  <1> QED BY <1>2, <1>3

(* What a request of j does to the counts in memory. *)
LEMMA MemoryMoves ==
  ASSUME RateTypeOK, NEW j \in Identifier, NEW allowed \in BOOLEAN, Consume(j, allowed)
  PROVE  /\ memory' \in [Identifier -> [count : Nat, reset : Nat] \cup {NoEntry}]
         /\ \A i \in Identifier :
              memory'[i] = memory[i] \/ Dropped(i) \/ (i = j /\ CountedOn(i))
         /\ ConsumeMemory(j, allowed) => CountedOn(j)
  <1>1. now \in Nat
    BY RateLimitAssumption DEF RateTypeOK
  <1>2. CASE memory' = memory /\ ~ConsumeMemory(j, allowed)
    BY <1>2 DEF RateTypeOK
  <1>3. CASE ConsumeMemory(j, allowed)
    <2> DEFINE e == [Entry(j) EXCEPT !.count = @ + 1]
               m == [memory EXCEPT ![j] = e]
    <2>1. memory' = Evicted(m)
      BY <1>3 DEF ConsumeMemory
    <2>2. e \in [count : Nat, reset : Nat] /\ e.reset > now
      BY EntryIs
    <2>3. m \in [Identifier -> [count : Nat, reset : Nat] \cup {NoEntry}]
      BY <2>2 DEF RateTypeOK
    <2>4. m[j] = e /\ \A i \in Identifier \ {j} : m[i] = memory[i]
      BY DEF RateTypeOK
    <2> HIDE DEF m
    <2>5. /\ memory' \in [Identifier -> [count : Nat, reset : Nat] \cup {NoEntry}]
          /\ \A i \in Identifier :
               \/ memory'[i] = m[i]
               \/ memory'[i] = NoEntry /\ m[i] # NoEntry /\ m[i].reset <= now
      BY <1>1, <2>1, <2>3, EvictedEntries
    <2>6. memory'[j] = e
      BY <1>1, <2>2, <2>4, <2>5
    <2> QED BY <2>4, <2>5, <2>6 DEF Dropped, CountedOn
  <1> QED BY <1>2, <1>3 DEF Consume, ConsumeRedis

(* The labels of what was let in before hold after any request. *)
LEMMA ConsumePlaces ==
  ASSUME RateInv, NEW j \in Identifier, NEW allowed \in BOOLEAN, Consume(j, allowed),
         NEW i \in Identifier, NEW l \in Label, NEW u \in 0..Horizon, Placed(i, l, u)
  PROVE  Placed(i, l, u)'
  <1>1. /\ now \in Nat /\ Window \in Nat \ {0} /\ memory[i] \in [count : Nat, reset : Nat] \cup {NoEntry}
        /\ NoEntry \notin [count : Nat, reset : Nat] /\ UNCHANGED <<now, backend, restarts>>
    BY RateLimitAssumption DEF RateInv, RateTypeOK, Consume
  <1>2. l.kind = "redis" => l.nr <= bucket'[i][l.start]
    <2>1. PICK b : bucket' = bucket \/ bucket' = [bucket EXCEPT ![j][b] = @ + 1]
      BY DEF Consume, Counted
    <2>2. bucket \in [Identifier -> [0..Horizon -> Nat]] /\ l.start \in Nat /\ l.nr \in Nat
      BY RateLimitAssumption DEF RateInv, RateTypeOK, Label
    <2>3. l.kind = "redis" => l.start \in 0..Horizon /\ l.nr <= bucket[i][l.start]
      <3>1. u \div Window <= u /\ u \in Nat
        BY <1>1, RateLimitAssumption
      <3> QED BY <2>2, <3>1, RateLimitAssumption DEF Placed
    <2>4. ASSUME NEW s \in 0..Horizon PROVE bucket'[i][s] \in Nat /\ bucket[i][s] <= bucket'[i][s]
      <3>1. PICK f \in [0..Horizon -> Nat] : f = bucket[i]
        BY <2>2
      <3>2. bucket'[i] = f \/ bucket'[i] = [f EXCEPT ![b] = @ + 1]
        BY <2>1, <2>2, <3>1
      <3>3. [f EXCEPT ![b] = @ + 1][s] = IF s = b THEN f[s] + 1 ELSE f[s]
        OBVIOUS
      <3>4. bucket'[i][s] = f[s] \/ bucket'[i][s] = f[s] + 1
        BY <3>2, <3>3
      <3>5. f[s] \in Nat
        OBVIOUS
      <3> QED BY <3>1, <3>4, <3>5
    <2>5. ASSUME l.kind = "redis" PROVE l.nr <= bucket'[i][l.start]
      <3>1. PICK s \in 0..Horizon : s = l.start /\ l.nr <= bucket[i][s]
        BY <2>3, <2>5
      <3>2. bucket[i][s] <= bucket'[i][s] /\ bucket[i][s] \in Nat /\ bucket'[i][s] \in Nat
        BY <2>2, <2>4
      <3> QED BY <2>2, <3>1, <3>2
    <2> QED BY <2>5
  <1>3. CASE memory'[i] = memory[i]
    BY <1>1, <1>2, <1>3 DEF Placed
  <1>4. CASE Dropped(i)
    BY <1>1, <1>2, <1>4 DEF Placed, Dropped, Label
  <1>5. CASE CountedOn(i)
    <2>1. /\ memory'[i] # NoEntry /\ memory'[i].reset = Entry(i).reset
          /\ memory'[i].count = Entry(i).count + 1 /\ Entry(i).count \in Nat
          /\ \/ memory[i] # NoEntry /\ memory[i].reset > now /\ Entry(i) = memory[i]
             \/ /\ memory[i] = NoEntry \/ memory[i].reset <= now
                /\ Entry(i).count = 0 /\ Entry(i).reset = now + Window
      BY <1>5, EntryIs DEF RateInv, CountedOn
    <2> QED BY <1>1, <1>2, <2>1 DEF Placed, Label
  <1> QED BY <1>3, <1>4, <1>5, MemoryMoves DEF RateInv

(* The windows of the clock that begin within its range. *)
LEMMA ClockWindow ==
  ASSUME RateTypeOK
  PROVE  now \div Window \in 0..Horizon
  <1>1. now \in Nat /\ now <= Horizon /\ Window \in Nat \ {0} /\ Horizon \in Nat
    BY RateLimitAssumption DEF RateTypeOK
  <1>2. now \div Window \in Nat /\ now \div Window <= now
    BY <1>1
  <1> QED BY <1>1, <1>2

(* A request that is let in is the next one of the window that counts it. *)
LEMMA MemoryLabel ==
  ASSUME RateInv, NEW j \in Identifier, Consume(j, TRUE), ConsumeMemory(j, TRUE),
         backend # "production", NEW g, Labelled(j, g)
  PROVE  \E l \in Label :
           /\ Placed(j, l, now)'
           /\ \A n \in DOMAIN admitted[j] : Apart(g[n], l) /\ Apart(l, g[n]) /\ g[n] # l
  <1>1. PICK e : e = [Entry(j) EXCEPT !.count = @ + 1]
    OBVIOUS
  <1>2. /\ now \in Nat /\ Window \in Nat \ {0} /\ restarts \in Nat
        /\ memory[j] \in [count : Nat, reset : Nat] \cup {NoEntry}
        /\ UNCHANGED <<now, backend, restarts>> /\ memory'[j] = e
    <2>1. CountedOn(j)
      BY MemoryMoves DEF RateInv
    <2> QED BY <1>1, <2>1, RateLimitAssumption DEF RateInv, RateTypeOK, Consume, CountedOn
  <1>3. /\ e \in [count : Nat, reset : Nat] /\ e # NoEntry /\ e.reset > now /\ Entry(j).count \in Nat
        /\ e.count = Entry(j).count + 1 /\ e.reset = Entry(j).reset
        /\ \/ memory[j] # NoEntry /\ memory[j].reset > now /\ Entry(j) = memory[j]
           \/ /\ memory[j] = NoEntry \/ memory[j].reset <= now
              /\ Entry(j).count = 0 /\ Entry(j).reset = now + Window
    BY <1>1, EntryIs DEF RateInv
  <1>4. e.reset \in Window..(now + Window) /\ e.count \in 1..Allowance
    <2>1. e.reset \in Window..(now + Window)
      BY <1>2, <1>3 DEF RateInv
    <2>2. e.count <= Allowance /\ Allowance \in Nat
      BY <1>1, RateLimitAssumption DEF ConsumeMemory
    <2> QED BY <1>3, <2>1, <2>2
  <1>5. PICK l : l = [kind |-> "memory", epoch |-> restarts, start |-> e.reset - Window, nr |-> e.count]
    OBVIOUS
  <1>6. l \in Label
    BY <1>2, <1>4, <1>5 DEF Label
  <1>7. Placed(j, l, now)'
    BY <1>2, <1>3, <1>4, <1>5 DEF Placed
  <1>8. ASSUME NEW n \in DOMAIN admitted[j]
        PROVE  Apart(g[n], l) /\ Apart(l, g[n]) /\ g[n] # l
    <2>1. PICK k \in Label, u \in 0..Horizon : k = g[n] /\ Placed(j, k, u)
      BY LabelledType DEF RateInv
    <2>2. CASE k.kind # "memory"
      BY <1>5, <2>1, <2>2 DEF Apart
    <2>3. CASE k.kind = "memory"
      <3>1. /\ k.epoch \in Nat /\ k.start \in Nat /\ k.nr \in Nat /\ u \in Nat
            /\ l.start = e.reset - Window /\ l.nr = e.count /\ l.epoch = restarts
        BY <1>5, <2>1, RateLimitAssumption DEF Label
      <3>2. /\ k.epoch <= restarts /\ k.start <= u /\ u <= now
            /\ memory[j] # NoEntry => k.start + Window <= memory[j].reset
            /\ k.epoch = restarts =>
                 IF memory[j] = NoEntry THEN k.start + Window <= now
                 ELSE \/ k.start + Window + Window <= memory[j].reset
                      \/ k.start + Window = memory[j].reset /\ k.nr <= memory[j].count
        BY <2>1, <2>3 DEF Placed
      <3>3. /\ k.start <= l.start
            /\ k.epoch = restarts => k.start + Window <= l.start \/ (k.start = l.start /\ k.nr < l.nr)
        <4>1. CASE memory[j] # NoEntry /\ memory[j].reset > now /\ Entry(j) = memory[j]
          BY <1>2, <1>3, <1>4, <3>1, <3>2, <4>1
        <4>2. CASE memory[j] # NoEntry /\ memory[j].reset <= now /\ e.reset = now + Window
          BY <1>2, <1>4, <3>1, <3>2, <4>2
        <4>3. CASE memory[j] = NoEntry /\ e.reset = now + Window
          BY <1>2, <1>4, <3>1, <3>2, <4>3
        <4> QED BY <1>3, <4>1, <4>2, <4>3
      <3>4. Apart(k, l) /\ Apart(l, k)
        <4>1. /\ k.epoch = l.epoch /\ k.start < l.start => k.start + Window <= l.start
              /\ ~(l.epoch = k.epoch /\ l.start < k.start)
              /\ ~(l.epoch < k.epoch)
          BY <1>2, <1>4, <3>1, <3>2, <3>3
        <4> QED BY <3>3, <4>1 DEF Apart
      <3>5. k # l
        BY <1>2, <3>1, <3>3
      <3> QED BY <2>1, <3>4, <3>5
    <2> QED BY <2>2, <2>3
  <1> QED BY <1>6, <1>7, <1>8

(* The same in Redis, where the windows are those of the clock. *)
LEMMA RedisLabel ==
  ASSUME RateInv, NEW j \in Identifier, Consume(j, TRUE), ConsumeRedis(j, TRUE),
         backend # "memory", NEW g, Labelled(j, g)
  PROVE  \E l \in Label :
           /\ Placed(j, l, now)'
           /\ \A n \in DOMAIN admitted[j] : Apart(g[n], l) /\ Apart(l, g[n]) /\ g[n] # l
  <1>1. /\ now \in 0..Horizon /\ now \in Nat /\ Window \in Nat \ {0} /\ UNCHANGED <<now, backend>>
        /\ Horizon \in Nat /\ Allowance \in Nat
    BY RateLimitAssumption DEF RateInv, RateTypeOK, Consume
  <1>2. PICK b : b = now \div Window
    OBVIOUS
  <1>3. b \in 0..Horizon
    BY <1>2, ClockWindow DEF RateInv
  <1>4. PICK f \in [0..Horizon -> Nat] : f = bucket[j] /\ bucket'[j] = [f EXCEPT ![b] = @ + 1]
    BY <1>2 DEF ConsumeRedis, Counted, RateInv, RateTypeOK
  <1>5. bucket'[j][b] = f[b] + 1 /\ f[b] \in Nat /\ bucket'[j][b] <= Allowance
    BY <1>2, <1>3, <1>4 DEF ConsumeRedis
  <1>6. PICK l : l = [kind |-> "redis", epoch |-> 0, start |-> b, nr |-> f[b] + 1]
    OBVIOUS
  <1>7. l \in Label
    BY <1>1, <1>3, <1>5, <1>6 DEF Label
  <1>8. Placed(j, l, now)'
    BY <1>1, <1>2, <1>5, <1>6 DEF Placed
  <1>9. ASSUME NEW n \in DOMAIN admitted[j]
        PROVE  Apart(g[n], l) /\ Apart(l, g[n]) /\ g[n] # l
    <2>1. PICK k \in Label : \E u : k = g[n] /\ Placed(j, k, u)
      BY DEF Labelled
    <2>2. k.kind = "redis" /\ k.start = b => k.nr <= f[b]
      BY <1>4, <2>1 DEF Placed
    <2>3. k # l
      BY <1>5, <1>6, <2>1, <2>2 DEF Label
    <2> QED BY <1>6, <2>1, <2>3 DEF Apart
  <1> QED BY <1>7, <1>8, <1>9

(* The requests of every identifier can be labelled after any request. *)
LEMMA ConsumeInv ==
  ASSUME RateInv, NEW j \in Identifier, NEW allowed \in BOOLEAN, Consume(j, allowed)
  PROVE  RateInv'
  <1>1. /\ now \in 0..Horizon /\ UNCHANGED <<now, backend, restarts>> /\ Window \in Nat /\ Horizon \in Nat
        /\ RateTypeOK
    BY RateLimitAssumption DEF RateInv, RateTypeOK, Consume
  <1>2. admitted' = IF allowed THEN [admitted EXCEPT ![j] = Append(@, now)] ELSE admitted
    BY DEF Consume, ConsumeRedis, ConsumeMemory, Admit
  <1>3. bucket' \in [Identifier -> [0..Horizon -> Nat]]
    <2>1. bucket' = bucket \/ bucket' = [bucket EXCEPT ![j][now \div Window] = @ + 1]
      BY DEF Consume, Counted
    <2>2. PICK b \in 0..Horizon, f \in [0..Horizon -> Nat] :
            f = bucket[j] /\ (bucket' = bucket \/ bucket' = [bucket EXCEPT ![j] = [f EXCEPT ![b] = @ + 1]])
      BY <1>1, <2>1, ClockWindow DEF RateTypeOK
    <2>3. [f EXCEPT ![b] = @ + 1] \in [0..Horizon -> Nat]
      OBVIOUS
    <2> QED BY <1>1, <2>2, <2>3 DEF RateTypeOK
  <1>4. RateTypeOK'
    BY <1>1, <1>2, <1>3, MemoryMoves DEF RateTypeOK
  <1>5. ASSUME NEW i \in Identifier
        PROVE  memory'[i] # NoEntry => memory'[i].reset \in Window..(now' + Window)
    <2>1. CASE CountedOn(i)
      BY <1>1, <1>5, <2>1, EntryIs DEF CountedOn, RateInv
    <2> QED BY <1>1, <2>1, MemoryMoves DEF RateInv, Dropped
  <1>6. ASSUME NEW i \in Identifier PROVE \E g : Labelled(i, g)'
    <2>1. PICK g : Labelled(i, g)
      BY DEF RateInv
    <2>2. \A n \in DOMAIN admitted[i] : Placed(i, g[n], admitted[i][n])'
      <3> SUFFICES ASSUME NEW n \in DOMAIN admitted[i] PROVE Placed(i, g[n], admitted[i][n])'
        OBVIOUS
      <3>1. PICK l \in Label, u \in 0..Horizon : l = g[n] /\ u = admitted[i][n] /\ Placed(i, l, u)
        BY <1>1, <2>1, LabelledType
      <3>2. Placed(i, l, u)'
        BY <3>1, ConsumePlaces
      <3>3. admitted'[i][n] = u
        BY <1>1, <1>2, <3>1 DEF RateTypeOK
      <3> QED BY <3>1, <3>2, <3>3 DEF Placed
    <2>3. CASE admitted'[i] = admitted[i]
      BY <2>1, <2>2, <2>3, LabelsStay
    <2>4. CASE i = j /\ allowed /\ admitted'[i] = Append(admitted[i], now)
      <3>1. \/ ConsumeMemory(j, TRUE) /\ backend # "production"
            \/ ConsumeRedis(j, TRUE) /\ backend # "memory"
        BY <2>4 DEF Consume
      <3>2. PICK l \in Label :
              /\ Placed(i, l, now)'
              /\ \A n \in DOMAIN admitted[i] : Apart(g[n], l) /\ Apart(l, g[n]) /\ g[n] # l
        BY <2>1, <2>4, <3>1, MemoryLabel, RedisLabel
      <3> QED BY <1>1, <2>1, <2>2, <2>4, <3>2, LabelsGrow
    <2> QED BY <1>1, <1>2, <2>3, <2>4 DEF RateTypeOK
  <1> QED BY <1>4, <1>5, <1>6 DEF RateInv

(* The clock leaves the labels as they are: windows only come to an end. *)
LEMMA TickInv == ASSUME RateInv, Tick PROVE RateInv'
  <1>1. /\ now \in Nat /\ now' = now + 1 /\ now' \in 0..Horizon /\ Window \in Nat
        /\ UNCHANGED <<backend, memory, bucket, admitted, restarts>>
    BY RateLimitAssumption DEF RateInv, RateTypeOK, Tick
  <1>2. RateTypeOK'
    BY <1>1 DEF RateInv, RateTypeOK
  <1>3. ASSUME NEW i \in Identifier, NEW l \in Label, NEW u \in 0..Horizon, Placed(i, l, u)
        PROVE  Placed(i, l, u)'
    BY <1>1, <1>3 DEF Placed, Label
  <1>4. ASSUME NEW i \in Identifier PROVE \E g : Labelled(i, g)'
    <2>1. PICK g : Labelled(i, g)
      BY DEF RateInv
    <2>2. ASSUME NEW n \in DOMAIN admitted[i] PROVE Placed(i, g[n], admitted[i][n])'
      <3>1. PICK l \in Label, u \in 0..Horizon : l = g[n] /\ u = admitted[i][n] /\ Placed(i, l, u)
        BY <2>1, <2>2, LabelledType DEF RateInv
      <3>2. Placed(i, l, u)'
        BY <1>3, <3>1
      <3> QED BY <1>1, <3>1, <3>2 DEF Placed
    <2> QED BY <1>1, <2>1, <2>2, LabelsStay
  <1> QED BY <1>1, <1>2, <1>4 DEF RateInv

(* A process that starts again has no window yet: its labels are new. *)
LEMMA RestartInv == ASSUME RateInv, RateRestart PROVE RateInv'
  <1>1. /\ now \in Nat /\ restarts \in Nat /\ restarts' = restarts + 1 /\ Window \in Nat
        /\ UNCHANGED <<backend, now, bucket, admitted>> /\ \A i \in Identifier : memory'[i] = NoEntry
        /\ memory' \in [Identifier -> {NoEntry}]
    BY RateLimitAssumption DEF RateInv, RateTypeOK, RateRestart
  <1>2. RateTypeOK'
    BY <1>1 DEF RateInv, RateTypeOK
  <1>3. ASSUME NEW i \in Identifier, NEW l \in Label, NEW u \in 0..Horizon, Placed(i, l, u)
        PROVE  Placed(i, l, u)'
    BY <1>1, <1>3 DEF Placed, Label
  <1>4. ASSUME NEW i \in Identifier PROVE \E g : Labelled(i, g)'
    <2>1. PICK g : Labelled(i, g)
      BY DEF RateInv
    <2>2. ASSUME NEW n \in DOMAIN admitted[i] PROVE Placed(i, g[n], admitted[i][n])'
      <3>1. PICK l \in Label, u \in 0..Horizon : l = g[n] /\ u = admitted[i][n] /\ Placed(i, l, u)
        BY <2>1, <2>2, LabelledType DEF RateInv
      <3>2. Placed(i, l, u)'
        BY <1>3, <3>1
      <3> QED BY <1>1, <3>1, <3>2 DEF Placed
    <2> QED BY <1>1, <2>1, <2>2, LabelsStay
  <1> QED BY <1>1, <1>2, <1>4 DEF RateInv

(* A stretch as long as a window meets two windows of the clock. *)
LEMMA WindowsMet ==
  ASSUME NEW t \in Nat, NEW u \in Nat, t <= u, u < t + Window
  PROVE  t \div Window \in Nat /\ u \div Window \in {t \div Window, t \div Window + 1}
  <1>1. Window \in Nat \ {0}
    BY RateLimitAssumption
  <1> QED BY <1>1

(* The window that a request of the stretch from t falls in, numbered.      *)
Slot(l, t) ==
  IF l.kind = "redis"
  THEN l.start - (t \div Window) + IF backend = "redis" THEN 2 + restarts ELSE 0
  ELSE IF l.start < t THEN l.epoch ELSE l.epoch + 1

(* The numbers are as many as the windows that AdmittedWithinLimit allows. *)
LEMMA SlotsFew ==
  ASSUME RateTypeOK, NEW i \in Identifier, NEW t \in 0..Horizon, NEW l \in Label, NEW u \in 0..Horizon,
         Placed(i, l, u), u \in t..(t + Window - 1)
  PROVE  Slot(l, t) \in 0..(Windows - 1)
  <1>1. /\ Window \in Nat \ {0} /\ Horizon \in Nat /\ restarts \in Nat /\ t \in Nat /\ u \in Nat
        /\ l.epoch \in Nat /\ l.start \in Nat /\ backend \in {"memory", "redis", "production"}
        /\ t <= u /\ u < t + Window
    BY RateLimitAssumption DEF RateTypeOK, Backend, Label
  <1>2. CASE l.kind = "redis"
    <2>1. PICK b \in Nat : b = t \div Window /\ u \div Window \in {b, b + 1}
      BY <1>1, WindowsMet
    <2>2. l.start \in {b, b + 1} /\ backend # "memory"
      BY <1>2, <2>1 DEF Placed
    <2> QED BY <1>1, <1>2, <2>1, <2>2 DEF Slot, Windows
  <1>3. CASE l.kind = "memory"
    <2>1. backend # "production" /\ l.epoch <= restarts
      BY <1>3 DEF Placed
    <2> QED BY <1>1, <1>3, <2>1 DEF Slot, Windows
  <1> QED BY <1>2, <1>3 DEF Label

(* No two windows that meet the stretch have one number. *)
LEMMA SlotsApart ==
  ASSUME RateTypeOK, NEW i \in Identifier, NEW t \in 0..Horizon,
         NEW l \in Label, NEW k \in Label, NEW u \in 0..Horizon, NEW v \in 0..Horizon,
         Placed(i, l, u), Placed(i, k, v), Apart(l, k), Apart(k, l),
         u \in t..(t + Window - 1), v \in t..(t + Window - 1),
         Slot(l, t) = Slot(k, t)
  PROVE  l.kind = k.kind /\ l.start = k.start /\ (l.kind = "memory" => l.epoch = k.epoch)
  <1>1. /\ Window \in Nat \ {0} /\ Horizon \in Nat /\ restarts \in Nat /\ t \in Nat /\ u \in Nat /\ v \in Nat
        /\ l.epoch \in Nat /\ l.start \in Nat /\ k.epoch \in Nat /\ k.start \in Nat
        /\ backend \in {"memory", "redis", "production"}
        /\ t <= u /\ u < t + Window /\ t <= v /\ v < t + Window
        /\ l.kind \in {"memory", "redis"} /\ k.kind \in {"memory", "redis"}
    BY RateLimitAssumption DEF RateTypeOK, Backend, Label
  <1>2. PICK b \in Nat : b = t \div Window /\ u \div Window \in {b, b + 1} /\ v \div Window \in {b, b + 1}
    BY <1>1, WindowsMet
  <1>3. CASE l.kind = "redis" /\ k.kind = "redis"
    <2>1. PICK x \in Nat : x = IF backend = "redis" THEN 2 + restarts ELSE 0
      BY <1>1
    <2>2. l.start - b + x = k.start - b + x
      BY <1>2, <1>3, <2>1 DEF Slot
    <2>3. l.start \in Nat /\ k.start \in Nat
      BY <1>1
    <2> QED BY <1>3, <2>2, <2>3
  <1>4. CASE l.kind = "memory" /\ k.kind = "memory"
    <2>1. /\ l.start < t + Window /\ l.start > t - Window
          /\ k.start < t + Window /\ k.start > t - Window
      BY <1>1, <1>4 DEF Placed
    <2>2. /\ l.epoch = k.epoch /\ l.start < k.start => l.start + Window <= k.start
          /\ l.epoch = k.epoch /\ k.start < l.start => k.start + Window <= l.start
          /\ l.epoch < k.epoch => l.start <= k.start
          /\ k.epoch < l.epoch => k.start <= l.start
      BY <1>4 DEF Apart
    <2>3. (IF l.start < t THEN l.epoch ELSE l.epoch + 1) = (IF k.start < t THEN k.epoch ELSE k.epoch + 1)
      BY <1>4 DEF Slot
    <2>4. l.epoch = k.epoch
      BY <1>1, <2>2, <2>3
    <2> QED BY <1>1, <1>4, <2>1, <2>2, <2>3, <2>4
  <1>5. CASE l.kind # k.kind
    <2>1. /\ backend = "redis"
          /\ l.kind = "memory" => l.epoch <= restarts /\ k.start \in {b, b + 1}
          /\ k.kind = "memory" => k.epoch <= restarts /\ l.start \in {b, b + 1}
      BY <1>1, <1>2, <1>5 DEF Placed
    <2> QED BY <1>1, <1>2, <1>5, <2>1 DEF Slot
  <1> QED BY <1>1, <1>3, <1>4, <1>5

(* So the requests of the stretch are no more than the windows it meets     *)
(* allow: each is the nr-th of one of them.                                *)
LEMMA LabelsBound == RateInv => AdmittedWithinLimit
  <1> SUFFICES ASSUME RateInv, NEW i \in Identifier, NEW t \in 0..Horizon
               PROVE  Cardinality({n \in DOMAIN admitted[i] : admitted[i][n] \in t..(t + Window - 1)})
                        <= Windows * Allowance
    BY DEF AdmittedWithinLimit
  <1>1. PICK g : Labelled(i, g)
    BY DEF RateInv
  <1>2. PICK M \in Nat : M = Windows
    BY DEF RateInv, RateTypeOK, Windows
  <1> DEFINE I == {n \in DOMAIN admitted[i] : admitted[i][n] \in t..(t + Window - 1)}
             T == (0..(M - 1)) \X (1..Allowance)
             f == [n \in I |-> <<Slot(g[n], t), g[n].nr>>]
  <1>3. ASSUME NEW n \in I
        PROVE  /\ g[n] \in Label /\ admitted[i][n] \in 0..Horizon
               /\ Placed(i, g[n], admitted[i][n])
    BY <1>1, LabelledType DEF RateInv
  <1>4. f \in [I -> T]
    <2>1. ASSUME NEW n \in I PROVE Slot(g[n], t) \in 0..(M - 1) /\ g[n].nr \in 1..Allowance
      <3>1. g[n].nr \in 1..Allowance
        BY <1>3 DEF Label
      <3> QED BY <1>2, <1>3, <3>1, SlotsFew DEF RateInv
    <2> QED BY <2>1
  <1>5. ASSUME NEW m \in I, NEW n \in I, f[m] = f[n] PROVE m = n
    <2>1. Slot(g[m], t) = Slot(g[n], t) /\ g[m].nr = g[n].nr
      BY <1>5
    <2>2. Apart(g[m], g[n]) /\ Apart(g[n], g[m]) /\ (m # n => g[m] # g[n])
      BY <1>1 DEF Labelled
    <2>3. g[m].kind = g[n].kind /\ g[m].start = g[n].start /\ (g[m].kind = "memory" => g[m].epoch = g[n].epoch)
      BY <1>3, <2>1, <2>2, SlotsApart DEF RateInv
    <2>4. g[m].epoch = g[n].epoch /\ g[m] \in Label /\ g[n] \in Label
      BY <1>3, <2>3 DEF Placed, Label
    <2>5. g[m] = g[n]
      BY <2>1, <2>3, <2>4 DEF Label
    <2> QED BY <2>2, <2>5
  <1>6. f \in Injection(I, T)
    BY <1>4, <1>5 DEF Injection, IsInjective
  <1>7. /\ IsFiniteSet(T) /\ Cardinality(T) = M * Allowance
    <2>1. /\ IsFiniteSet(0..(M - 1)) /\ Cardinality(0..(M - 1)) = M
          /\ IsFiniteSet(1..Allowance) /\ Cardinality(1..Allowance) = Allowance
      BY FS_Interval, RateLimitAssumption
    <2> QED BY <2>1, FS_Product
  <1> QED BY <1>2, <1>6, <1>7, FS_Injection

(* Every step of the requests keeps the labels. *)
LEMMA RateNextInv ==
  ASSUME RateInv, [RateNext]_rateVars
  PROVE  RateInv'
  <1>1. CASE UNCHANGED rateVars
    <2>1. RateTypeOK'
      BY <1>1 DEF rateVars, RateInv, RateTypeOK
    <2>2. ASSUME NEW i \in Identifier, NEW g, Labelled(i, g) PROVE Labelled(i, g)'
      BY <1>1, <2>2 DEF rateVars, Labelled, Placed, Apart
    <2> QED BY <1>1, <2>1, <2>2 DEF rateVars, RateInv
  <1> QED BY <1>1, TickInv, RestartInv, ConsumeInv DEF RateNext

(* Nothing has been let in at the start. *)
LEMMA RateInitInv == RateInit => RateInv
  <1> SUFFICES ASSUME RateInit PROVE RateInv
    OBVIOUS
  <1>1. RateTypeOK
    BY RateLimitAssumption DEF RateInit, RateTypeOK
  <1>2. ASSUME NEW i \in Identifier PROVE \E g : Labelled(i, g)
    <2>1. PICK g : g = [n \in {} |-> 0]
      OBVIOUS
    <2>2. DOMAIN admitted[i] = {}
      BY DEF RateInit
    <2>3. g \in [DOMAIN admitted[i] -> Label]
      BY <2>1, <2>2
    <2> QED BY <2>2, <2>3 DEF Labelled
  <1> QED BY <1>1, <1>2 DEF RateInit, RateInv

(* The requests use the limit as it is meant to be used. *)
LEMMA RateSteps ==
  ASSUME [EvaluationNext]_<<rateVars, answerVars, evaluationVars>>
  PROVE  [RateNext]_rateVars
  <1>1. ASSUME NEW c \in Caller, NEW r, Admitted(c, r) PROVE RateNext
    BY <1>1, AnswersAssumption DEF Admitted, RateNext
  <1>2. CASE \E c \in Caller : \/ \E a \in BOOLEAN : BeginQuestion(c, a)
                               \/ \E a \in BOOLEAN, P \in (SUBSET Provider) \ {{}} : BeginEvaluation(c, a, P)
    BY <1>1, <1>2 DEF BeginQuestion, BeginEvaluation
  <1>3. CASE ClockTicks \/ RestartAll
    BY <1>3 DEF ClockTicks, RestartAll, Restart, RateNext
  <1>4. CASE \E c \in Caller :
               \/ \E d \in Doc :
                    \/ \E t \in Text, r \in BOOLEAN : BeginUpload(c, d, t, r)
                    \/ BeginReindex(c, d)
               \/ CheckEmbedding(c) \/ Embedding(c) \/ InspectText(c) \/ OpenIndex(c) \/ CommitIndex(c)
               \/ Retrieve(c) \/ CheckGeneration(c) \/ Generate(c) \/ ExtractiveFallback(c) \/ Answered(c)
    BY <1>4 DEF BeginUpload, BeginReindex, CheckEmbedding, Embedding, InspectText, OpenIndex,
       CommitIndex, Retrieve,
       CheckGeneration, Generate, ExtractiveFallback, Answered
  <1>5. CASE \/ \E d \in Doc : UpdateDocument(d)
             \/ \E p \in Policies : UpdatePolicy(p)
             \/ \E l \in Limits : UpdateBudget(l)
             \/ ForgetSpending
    BY <1>5 DEF UpdateDocument, UpdatePolicy, UpdateBudget, ForgetSpending
  <1>6. CASE \/ \E a \in BOOLEAN, D \in SUBSET Doc : CreateDataset(a, D)
             \/ \E c \in Caller :
                  \/ CreateRun(c) \/ EndEvaluation(c) \/ NextCase(c) \/ ScoreCase(c)
                  \/ FinishRun(c) \/ FinishWithoutResults(c) \/ Report(c)
    BY <1>6 DEF CreateDataset, CreateRun, EndEvaluation, NextCase, ScoreCase, FinishRun,
       FinishWithoutResults, Report, storedVars
  <1> QED BY <1>2, <1>3, <1>4, <1>5, <1>6 DEF EvaluationNext, AnswersStep

(* The limit bites: whatever the backend, and through evictions, restarts   *)
(* and the fall back from Redis to the memory, no stretch of a window's     *)
(* length lets in more requests than the windows that it can meet allow.    *)
THEOREM RequestsAreLimited == EvaluationSpec => []AdmittedWithinLimit
  <1>1. EvaluationInit => RateInit
    BY DEF EvaluationInit, AnswersInit
  <1> QED BY <1>1, RateInitInv, RateNextInv, RateSteps, LabelsBound, PTL DEF EvaluationSpec
=============================================================================
