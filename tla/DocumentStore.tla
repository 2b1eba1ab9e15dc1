---------------------------- MODULE DocumentStore -----------------------------
(***************************************************************************)
(* Documents of RagService: the row, the chunks of the index and the stored *)
(* file.  Rows and chunks are transactions, files are not part of them.     *)
(*                                                                         *)
(* Two kinds of callers meet: the event loop of the server, which ingests   *)
(* and replaces while a connector syncs and does one such call at a time    *)
(* (writer), and requests and jobs in threads of their own, which reindex    *)
(* and delete (op).  An action is one read, one file operation or one        *)
(* transaction; a transaction that replaces chunks is two, for under read    *)
(* committed its DELETE sees the chunks there are when it starts.            *)
(***************************************************************************)
EXTENDS Integers

CONSTANTS
  Doc,      \* document ids
  Content,  \* contents of a file
  Suffix,   \* the uuids a replaced file may be given
  User,     \* threads that reindex and delete
  None

ASSUME StoreAssumption == Suffix \subseteq Nat \ {0} /\ None \notin Nat \cup Doc \cup Content

VARIABLES
  row,     \* documents.storage_key, None where there is no row
  chunk,   \* document_chunks: who wrote them, from which content
  object,  \* the object store
  used,    \* ids that have been given out
  writer,  \* ingest_file or replace_file_content in the event loop
  op,      \* reindex_document or delete_document of each thread
  late     \* documents last written by a caller that another had overtaken

storeVars == <<row, chunk, object, used, writer, op, late>>
tableVars == <<row, chunk, used, late>>

(* document_key of the file, which a replacement does not change, and the   *)
(* same with a uuid.                                                       *)
Plain == 0
Key == {Plain} \cup Suffix

WriterPhase == {"idle", "put", "open", "commit", "discard", "drop", "done", "failed"}
OpPhase == {"idle", "read", "open", "commit", "delete", "drop"}
Chunks == [by : User \cup {None}, of : Content]
WriterLocals ==
  [pc : WriterPhase, new : BOOLEAN, doc : Doc \cup {None}, old : Key \cup {None}, key : Key \cup {None},
   data : Content \cup {None}, seen : SUBSET Chunks, overtaken : BOOLEAN]
OpLocals ==
  [pc : OpPhase, doc : Doc \cup {None}, key : Key \cup {None}, data : Content \cup {None},
   seen : SUBSET Chunks, overtaken : BOOLEAN]

WriterIdle ==
  [pc |-> "idle", new |-> FALSE, doc |-> None, old |-> None, key |-> None,
   data |-> None, seen |-> {}, overtaken |-> FALSE]
OpIdle ==
  [pc |-> "idle", doc |-> None, key |-> None, data |-> None, seen |-> {}, overtaken |-> FALSE]

StoreTypeOK ==
  /\ row \in [Doc -> Key \cup {None}]
  /\ chunk \in [Doc -> SUBSET Chunks]
  /\ object \in [Doc -> [Key -> Content \cup {None}]]
  /\ used \in SUBSET Doc
  /\ writer \in WriterLocals
  /\ op \in [User -> OpLocals]
  /\ late \in SUBSET Doc

StoreInit ==
  /\ row = [d \in Doc |-> None]
  /\ chunk = [d \in Doc |-> {}]
  /\ object = [d \in Doc |-> [k \in Key |-> None]]
  /\ used = {}
  /\ writer = WriterIdle
  /\ op = [u \in User |-> OpIdle]
  /\ late = {}

Put(d, k, c) == object' = [object EXCEPT ![d][k] = c]

(* _delete_storage_safely: a failure to delete is passed over. *)
DeleteSafely(d, k) == Put(d, k, None) \/ UNCHANGED object
-----------------------------------------------------------------------------
(* The event loop: ingest_file, replace_file_content. *)

WriterAt(p) == writer.pc = p
WriterGo(p) == writer' = [writer EXCEPT !.pc = p]

(* A uuid is in no use: not stored under, and not about to be. *)
Unused(d, k) ==
  /\ object[d][k] = None
  /\ row[d] # k
  /\ \A u \in User : op[u].doc = d => op[u].key # k

(* With a fault: a replacement is put where the file it replaces is. *)
NewKeysFault(d, old) == {Plain}

(* Where a replacement is put: never over the file it replaces. *)
NewKeys(d, old) == IF old = Plain THEN {k \in Suffix : Unused(d, k)} ELSE {Plain}

StartIngest(d, c) ==
  /\ WriterAt("idle")
  /\ d \notin used
  /\ used' = used \cup {d}
  /\ writer' = [WriterIdle EXCEPT !.pc = "put", !.new = TRUE, !.doc = d, !.key = Plain, !.data = c]
  /\ UNCHANGED <<row, chunk, object, op, late>>

StartReplace(d, c) ==
  /\ WriterAt("idle")
  /\ row[d] # None
  /\ \E k \in NewKeys(d, row[d]) :
       writer' = [WriterIdle EXCEPT !.pc = "put", !.doc = d, !.old = row[d], !.key = k, !.data = c]
  /\ UNCHANGED <<tableVars, object, op>>

(* The document is gone, the upload is refused, the file has no text. *)
RefuseWrite ==
  /\ WriterAt("idle")
  /\ writer' = [WriterIdle EXCEPT !.pc = "failed"]
  /\ UNCHANGED <<tableVars, object, op>>

PutFile ==
  /\ WriterAt("put")
  /\ \/ /\ Put(writer.doc, writer.key, writer.data)
        /\ WriterGo(IF writer.new THEN "commit" ELSE "open")
     \/ WriterGo("failed") /\ UNCHANGED object
  /\ UNCHANGED <<tableVars, op>>

OpenReplace ==
  /\ WriterAt("open")
  /\ writer' = [writer EXCEPT !.pc = "commit", !.seen = chunk[writer.doc]]
  /\ UNCHANGED <<tableVars, object, op>>

(* With a fault: the old chunks are not deleted. *)
RewrittenFault(d, x, who) == chunk[d] \cup {[by |-> who, of |-> x.data]}

(* The chunks a commit leaves: those its DELETE did not see, and its own.   *)
Rewritten(d, x, who) == (chunk[d] \ x.seen) \cup {[by |-> who, of |-> x.data]}
Late(d, x) == IF x.overtaken THEN late \cup {d} ELSE late \ {d}

(* Who has read what this commit changes: every reindex that has read the   *)
(* row of the document.                                                    *)
OvertakeReaders(d) ==
  op' = [u \in User |->
           IF op[u].doc = d /\ op[u].pc \in {"read", "open", "commit"}
           THEN [op[u] EXCEPT !.overtaken = TRUE] ELSE op[u]]

(* The row may be gone: then the chunks refer to nothing and the           *)
(* transaction fails, as it may for reasons of its own.                    *)
CommitWrite ==
  /\ WriterAt("commit")
  /\ LET d == writer.doc IN
     \/ /\ writer.new \/ row[d] # None
        /\ row' = [row EXCEPT ![d] = writer.key]
        /\ chunk' = [chunk EXCEPT ![d] = Rewritten(d, writer, None)]
        /\ late' = Late(d, writer)
        /\ OvertakeReaders(d)
        /\ writer' = [WriterIdle EXCEPT !.pc = IF writer.new THEN "done" ELSE "drop",
                                        !.doc = d, !.old = writer.old]
     \/ WriterGo("discard") /\ UNCHANGED <<row, chunk, late, op>>
  /\ UNCHANGED <<object, used>>

DiscardFile ==
  /\ WriterAt("discard")
  /\ DeleteSafely(writer.doc, writer.key)
  /\ WriterGo("failed")
  /\ UNCHANGED <<tableVars, op>>

(* An error the store does not wrap gets out after the commit. *)
DropReplaced ==
  /\ WriterAt("drop")
  /\ \/ DeleteSafely(writer.doc, writer.old) /\ WriterGo("done")
     \/ UNCHANGED object /\ WriterGo("failed")
  /\ UNCHANGED <<tableVars, op>>

WriterReturn ==
  /\ writer.pc \in {"done", "failed"}
  /\ writer' = WriterIdle
  /\ UNCHANGED <<tableVars, object, op>>
-----------------------------------------------------------------------------
(* A thread: reindex_document, delete_document. *)

OpAt(u, p) == op[u].pc = p
OpReturn(u) == op' = [op EXCEPT ![u] = OpIdle]

BeginReindex(u, d) ==
  /\ OpAt(u, "idle")
  /\ row[d] # None
  /\ op' = [op EXCEPT ![u] = [OpIdle EXCEPT !.pc = "read", !.doc = d, !.key = row[d]]]
  /\ UNCHANGED <<tableVars, object, writer>>

(* A missing file is an error; so is one that inspection refuses. *)
ReadFile(u) ==
  /\ OpAt(u, "read")
  /\ LET c == object[op[u].doc][op[u].key] IN
     \/ c # None /\ op' = [op EXCEPT ![u].pc = "open", ![u].data = c]
     \/ OpReturn(u)
  /\ UNCHANGED <<tableVars, object, writer>>

OpenReindex(u) ==
  /\ OpAt(u, "open")
  /\ op' = [op EXCEPT ![u].pc = "commit", ![u].seen = chunk[op[u].doc]]
  /\ UNCHANGED <<tableVars, object, writer>>

(* Who loses the chunks of this commit from sight: the transactions whose   *)
(* DELETE has run.                                                         *)
OvertakeDeletes(u, d) ==
  /\ op' = [v \in User |->
              IF v = u THEN OpIdle
              ELSE IF op[v].doc = d /\ op[v].pc = "commit"
                   THEN [op[v] EXCEPT !.overtaken = TRUE] ELSE op[v]]
  /\ writer' = IF writer.doc = d /\ WriterAt("commit")
               THEN [writer EXCEPT !.overtaken = TRUE] ELSE writer

CommitReindex(u) ==
  /\ OpAt(u, "commit")
  /\ LET d == op[u].doc IN
     \/ /\ row[d] # None
        /\ chunk' = [chunk EXCEPT ![d] = Rewritten(d, op[u], u)]
        /\ late' = Late(d, op[u])
        /\ OvertakeDeletes(u, d)
     \/ OpReturn(u) /\ UNCHANGED <<chunk, late, writer>>
  /\ UNCHANGED <<row, used, object>>

BeginDelete(u, d) ==
  /\ OpAt(u, "idle")
  /\ row[d] # None
  /\ op' = [op EXCEPT ![u] = [OpIdle EXCEPT !.pc = "delete", !.doc = d, !.key = row[d]]]
  /\ UNCHANGED <<tableVars, object, writer>>

(* The chunks go with the row; a row that is gone already is no error. *)
DeleteRow(u) ==
  /\ OpAt(u, "delete")
  /\ row' = [row EXCEPT ![op[u].doc] = None]
  /\ chunk' = [chunk EXCEPT ![op[u].doc] = {}]
  /\ late' = late \ {op[u].doc}
  /\ op' = [op EXCEPT ![u].pc = "drop"]
  /\ UNCHANGED <<object, used, writer>>

DropFile(u) ==
  /\ OpAt(u, "drop")
  /\ DeleteSafely(op[u].doc, op[u].key)
  /\ OpReturn(u)
  /\ UNCHANGED <<tableVars, writer>>

(* The process dies: transactions roll back, files stay. *)
StoreCrash ==
  /\ writer' = WriterIdle
  /\ op' = [u \in User |-> OpIdle]
  /\ UNCHANGED <<tableVars, object>>
-----------------------------------------------------------------------------
WriterStep == PutFile \/ OpenReplace \/ CommitWrite \/ DiscardFile \/ DropReplaced
OpRead(u) == \E d \in Doc : BeginReindex(u, d) \/ BeginDelete(u, d)
OpStep(u) == ReadFile(u) \/ OpenReindex(u) \/ CommitReindex(u) \/ DropFile(u)

StoreNext ==
  \/ \E d \in Doc, c \in Content : StartIngest(d, c) \/ StartReplace(d, c)
  \/ RefuseWrite \/ WriterStep \/ WriterReturn
  \/ \E u \in User : OpRead(u) \/ OpStep(u) \/ DeleteRow(u)
  \/ StoreCrash

StoreSpec == StoreInit /\ [][StoreNext]_storeVars
-----------------------------------------------------------------------------
(* A document that can be found has its file: whatever replacements,       *)
(* deletions and crashes meet, the file that is dropped is never the one    *)
(* the row names (the suffix of replace_file_content, the order put, row,   *)
(* drop).                                                                  *)
RowHasObject == \A d \in Doc : row[d] # None => object[d][row[d]] # None

(* Chunks exist exactly for the documents that have a row, and they are    *)
(* the text of the stored file, once, unless the call that wrote them last  *)
(* was overtaken by another one (reindex_document beside a replacement or   *)
(* beside itself: nothing in the code stands against that).                 *)
IndexMatchesObject ==
  \A d \in Doc :
    IF row[d] = None THEN chunk[d] = {}
    ELSE \/ d \in late
         \/ \E x \in User \cup {None} : chunk[d] = {[by |-> x, of |-> object[d][row[d]]]}
=============================================================================
