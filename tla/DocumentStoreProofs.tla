-------------------------- MODULE DocumentStoreProofs --------------------------
(***************************************************************************)
(* Proofs about DocumentStore: a row has its file, and the index is the text *)
(* of that file, whatever replacements, reindexing, deletions and crashes    *)
(* meet.                                                                   *)
(***************************************************************************)
EXTENDS DocumentStore, TLAPS

(* What the event loop knows of the document it writes.  While it adds one,  *)
(* no thread has heard of it; while it replaces a file, the row names the     *)
(* file it read or is gone, and never becomes another.                       *)
Preparing ==
  writer.pc \in {"put", "open", "commit", "discard"} =>
    /\ writer.doc \in used /\ writer.key \in Key /\ writer.data \in Content
    /\ writer.new =>
         /\ row[writer.doc] = None /\ writer.pc # "open"
         /\ \A u \in User : op[u].pc # "idle" => op[u].doc # writer.doc
    /\ ~writer.new => writer.old \in Key \ {writer.key} /\ row[writer.doc] \in {None, writer.old}

(* What it has put is there as long as there is a row to name it.            *)
Stored ==
  writer.pc \in {"open", "commit"} /\ (writer.new \/ row[writer.doc] # None) =>
    object[writer.doc][writer.key] = writer.data

Dropping ==
  writer.pc = "drop" =>
    writer.doc \in used /\ writer.old \in Key /\ row[writer.doc] # writer.old

(* What has not been overtaken sees all the chunks there are.                *)
WriterSees == writer.pc = "commit" /\ ~writer.overtaken => chunk[writer.doc] \subseteq writer.seen

(* What a thread knows of its document: of one it deletes that the row is    *)
(* gone, of one it reads, until it is overtaken, the file the row names.      *)
OpKnows(u) ==
  /\ op[u].pc # "idle" => op[u].doc \in used /\ op[u].key \in Key
  /\ op[u].pc = "drop" => row[op[u].doc] = None
  /\ op[u].pc \in {"open", "commit"} => op[u].data \in Content
OpFresh(u) ==
  /\ op[u].pc = "read" /\ ~op[u].overtaken /\ row[op[u].doc] # None => op[u].key = row[op[u].doc]
  /\ op[u].pc \in {"open", "commit"} /\ ~op[u].overtaken /\ row[op[u].doc] # None =>
       op[u].data = object[op[u].doc][row[op[u].doc]]
OpSees(u) == op[u].pc = "commit" /\ ~op[u].overtaken => chunk[op[u].doc] \subseteq op[u].seen

RowUsed == \A d \in Doc : row[d] # None => d \in used

Known ==
  /\ RowUsed /\ Preparing /\ Stored /\ Dropping /\ WriterSees
  /\ \A u \in User : OpKnows(u) /\ OpFresh(u) /\ OpSees(u)

StoreInv == StoreTypeOK /\ Known /\ RowHasObject /\ IndexMatchesObject

LEMMA Idle ==
  /\ WriterIdle \in WriterLocals /\ WriterIdle.pc = "idle"
  /\ OpIdle \in OpLocals /\ OpIdle.pc = "idle"
  BY DEF WriterIdle, WriterLocals, WriterPhase, OpIdle, OpLocals, OpPhase

LEMMA Keys == Key \subseteq Nat /\ None \notin Key /\ None \notin Doc /\ None \notin Content
  <1>1. Key \subseteq Nat
    BY StoreAssumption DEF Key, Plain
  <1>2. None \notin Nat /\ None \notin Doc /\ None \notin Content
    BY StoreAssumption
  <1> QED BY <1>1, <1>2

(* One file is put or dropped. *)
LEMMA PutOne ==
  ASSUME StoreTypeOK, NEW d \in Doc, NEW k \in Key, NEW c \in Content \cup {None}, Put(d, k, c)
  PROVE  /\ object' \in [Doc -> [Key -> Content \cup {None}]]
         /\ \A e \in Doc, j \in Key : object'[e][j] = IF e = d /\ j = k THEN c ELSE object[e][j]
  <1>1. object' = [object EXCEPT ![d] = [object[d] EXCEPT ![k] = c]]
    BY DEF Put
  <1>2. [object[d] EXCEPT ![k] = c] \in [Key -> Content \cup {None}]
    BY DEF StoreTypeOK
  <1> QED BY <1>1, <1>2 DEF StoreTypeOK

LEMMA DropOne ==
  ASSUME StoreTypeOK, NEW d \in Doc, NEW k \in Key, DeleteSafely(d, k)
  PROVE  /\ object' \in [Doc -> [Key -> Content \cup {None}]]
         /\ \A e \in Doc, j \in Key : ~(e = d /\ j = k) => object'[e][j] = object[e][j]
  BY PutOne DEF DeleteSafely, StoreTypeOK
-----------------------------------------------------------------------------
(* The event loop begins, goes on or ends, and nothing else changes. *)
LEMMA WriterFrame ==
  ASSUME StoreInv, writer' \in WriterLocals, UNCHANGED <<row, chunk, object, op, late>>,
         used \subseteq used', used' \subseteq Doc, Preparing', Stored', Dropping', WriterSees'
  PROVE  StoreInv'
  <1>1. StoreTypeOK'
    BY DEF StoreInv, StoreTypeOK
  <1>2. RowUsed' /\ \A u \in User : (OpKnows(u) /\ OpFresh(u) /\ OpSees(u))'
    BY DEF StoreInv, Known, RowUsed, OpKnows, OpFresh, OpSees
  <1>3. RowHasObject' /\ IndexMatchesObject'
    BY DEF StoreInv, RowHasObject, IndexMatchesObject
  <1> QED BY <1>1, <1>2, <1>3 DEF StoreInv, Known

LEMMA IngestStep ==
  ASSUME StoreInv, NEW d \in Doc, NEW c \in Content, StartIngest(d, c)
  PROVE  StoreInv'
  <1>1. writer' = [WriterIdle EXCEPT !.pc = "put", !.new = TRUE, !.doc = d, !.key = Plain, !.data = c]
    BY DEF StartIngest
  <1>2. /\ writer' \in WriterLocals /\ writer'.pc = "put" /\ writer'.new /\ writer'.doc = d
        /\ writer'.key = Plain /\ writer'.data = c
    BY <1>1 DEF WriterIdle, WriterLocals, WriterPhase, Key
  <1>3. row[d] = None /\ \A u \in User : op[u].pc # "idle" => op[u].doc # d
    BY DEF StartIngest, StoreInv, Known, RowUsed, OpKnows
  <1>4. Preparing'
    BY <1>2, <1>3 DEF StartIngest, Preparing, Key
  <1>5. Stored' /\ Dropping' /\ WriterSees'
    BY <1>2 DEF Stored, Dropping, WriterSees
  <1> QED BY <1>2, <1>4, <1>5, WriterFrame DEF StartIngest, StoreInv, StoreTypeOK

LEMMA ReplaceStep ==
  ASSUME StoreInv, NEW d \in Doc, NEW c \in Content, StartReplace(d, c)
  PROVE  StoreInv'
  <1>1. PICK k \in Key \ {row[d]} :
          writer' = [WriterIdle EXCEPT !.pc = "put", !.doc = d, !.old = row[d], !.key = k, !.data = c]
    BY StoreAssumption DEF StartReplace, NewKeys, Key, Plain
  <1>2. row[d] \in Key
    BY DEF StartReplace, StoreInv, StoreTypeOK
  <1>3. /\ writer' \in WriterLocals /\ writer'.pc = "put" /\ ~writer'.new /\ writer'.doc = d
        /\ writer'.old = row[d] /\ writer'.key = k /\ writer'.data = c
    BY <1>1, <1>2 DEF WriterIdle, WriterLocals, WriterPhase
  <1>4. Preparing'
    BY <1>1, <1>2, <1>3 DEF StartReplace, tableVars, StoreInv, Known, RowUsed, Preparing
  <1>5. Stored' /\ Dropping' /\ WriterSees'
    BY <1>3 DEF Stored, Dropping, WriterSees
  <1> QED BY <1>3, <1>4, <1>5, WriterFrame DEF StartReplace, tableVars, StoreInv, StoreTypeOK

LEMMA ReturnStep ==
  ASSUME StoreInv, RefuseWrite \/ WriterReturn
  PROVE  StoreInv'
  <1>1. writer' \in WriterLocals /\ writer'.pc \in {"idle", "failed"}
    <2>1. CASE RefuseWrite
      BY <2>1 DEF RefuseWrite, WriterIdle, WriterLocals, WriterPhase
    <2>2. CASE WriterReturn
      BY <2>2, Idle DEF WriterReturn
    <2> QED BY <2>1, <2>2
  <1>2. Preparing' /\ Stored' /\ Dropping' /\ WriterSees'
    BY <1>1 DEF Preparing, Stored, Dropping, WriterSees
  <1> QED BY <1>1, <1>2, WriterFrame DEF RefuseWrite, WriterReturn, tableVars, StoreInv, StoreTypeOK

LEMMA OpenReplaceStep ==
  ASSUME StoreInv, OpenReplace
  PROVE  StoreInv'
  <1>1. writer.doc \in Doc /\ chunk[writer.doc] \subseteq Chunks /\ ~writer.new
    BY DEF OpenReplace, WriterAt, StoreInv, StoreTypeOK, Known, Preparing
  <1>2. /\ writer' \in WriterLocals /\ writer'.pc = "commit" /\ writer'.seen = chunk[writer.doc]
        /\ writer'.new = writer.new /\ writer'.doc = writer.doc /\ writer'.key = writer.key
        /\ writer'.data = writer.data /\ writer'.old = writer.old
    BY <1>1 DEF OpenReplace, StoreInv, StoreTypeOK, WriterLocals, WriterPhase
  <1>3. Preparing' /\ Stored' /\ Dropping' /\ WriterSees'
    BY <1>1, <1>2 DEF OpenReplace, WriterAt, tableVars, StoreInv, Known, Preparing, Stored, Dropping, WriterSees
  <1> QED BY <1>2, <1>3, WriterFrame DEF OpenReplace, tableVars, StoreInv, StoreTypeOK
-----------------------------------------------------------------------------
(* A file that no row names, and that is not what the event loop has put for *)
(* one, is put or dropped by it.                                           *)
LEMMA WriterFileFrame ==
  ASSUME StoreInv, NEW d \in Doc, NEW k \in Key, row[d] # k,
         object' \in [Doc -> [Key -> Content \cup {None}]],
         \A e \in Doc, j \in Key : ~(e = d /\ j = k) => object'[e][j] = object[e][j],
         writer' \in WriterLocals, UNCHANGED <<row, chunk, used, op, late>>,
         Preparing', Stored', Dropping', WriterSees'
  PROVE  StoreInv'
  <1>1. StoreTypeOK'
    BY DEF StoreInv, StoreTypeOK
  <1>2. \A e \in Doc : row[e] # None => object'[e][row[e]] = object[e][row[e]]
    BY DEF StoreInv, StoreTypeOK
  <1>3. RowHasObject' /\ IndexMatchesObject'
    BY <1>2 DEF StoreInv, RowHasObject, IndexMatchesObject
  <1>4. RowUsed' /\ \A u \in User : (OpKnows(u) /\ OpSees(u))'
    BY DEF StoreInv, Known, RowUsed, OpKnows, OpSees
  <1>5. ASSUME NEW u \in User PROVE OpFresh(u)'
    <2>1. op[u].pc # "idle" => op[u].doc \in Doc
      BY DEF StoreInv, StoreTypeOK, Known, OpKnows
    <2> QED BY <1>2, <2>1 DEF StoreInv, Known, OpFresh
  <1> QED BY <1>1, <1>3, <1>4, <1>5 DEF StoreInv, Known

LEMMA WriterGoes ==
  ASSUME StoreTypeOK, NEW p \in WriterPhase, WriterGo(p)
  PROVE  /\ writer' \in WriterLocals /\ writer'.pc = p /\ writer'.new = writer.new
         /\ writer'.doc = writer.doc /\ writer'.old = writer.old /\ writer'.key = writer.key
         /\ writer'.data = writer.data /\ writer'.seen = writer.seen
         /\ writer'.overtaken = writer.overtaken
  BY DEF WriterGo, StoreTypeOK, WriterLocals

LEMMA PutStep ==
  ASSUME StoreInv, PutFile
  PROVE  StoreInv'
  <1>1. /\ writer.doc \in Doc /\ writer.key \in Key /\ writer.data \in Content
        /\ row[writer.doc] # writer.key
    BY Keys DEF PutFile, WriterAt, StoreInv, StoreTypeOK, Known, Preparing
  <1>2. CASE WriterGo("failed") /\ UNCHANGED object
    <2>1. writer' \in WriterLocals /\ writer'.pc = "failed"
      BY <1>2, WriterGoes DEF StoreInv, WriterPhase
    <2>2. Preparing' /\ Stored' /\ Dropping' /\ WriterSees'
      BY <2>1 DEF Preparing, Stored, Dropping, WriterSees
    <2> QED BY <1>2, <2>1, <2>2, WriterFrame DEF PutFile, tableVars, StoreInv, StoreTypeOK
  <1>3. CASE Put(writer.doc, writer.key, writer.data) /\ WriterGo(IF writer.new THEN "commit" ELSE "open")
    <2> DEFINE p == IF writer.new THEN "commit" ELSE "open"
    <2>1. PICK d \in Doc, k \in Key, c \in Content : d = writer.doc /\ k = writer.key /\ c = writer.data
      BY <1>1
    <2>2. /\ writer' \in WriterLocals /\ writer'.pc = p /\ writer'.new = writer.new
          /\ writer'.doc = d /\ writer'.old = writer.old /\ writer'.key = k
          /\ writer'.data = c /\ writer'.seen = writer.seen
      BY <1>3, <2>1, WriterGoes DEF StoreInv, WriterPhase
    <2>3. /\ object' \in [Doc -> [Key -> Content \cup {None}]]
          /\ \A e \in Doc, j \in Key : object'[e][j] = IF e = d /\ j = k THEN c ELSE object[e][j]
      BY <1>3, <2>1, PutOne DEF StoreInv
    <2>4. Preparing' /\ Stored' /\ Dropping'
      BY <2>1, <2>2, <2>3 DEF PutFile, WriterAt, tableVars, StoreInv, Known, Preparing, Stored, Dropping
    <2>5. WriterSees'
      BY <2>1, <2>2 DEF PutFile, WriterAt, tableVars, StoreInv, Known, Preparing, IndexMatchesObject, WriterSees
    <2> QED BY <1>1, <2>1, <2>2, <2>3, <2>4, <2>5, WriterFileFrame DEF PutFile, tableVars
  <1> QED BY <1>2, <1>3 DEF PutFile

LEMMA DropStep ==
  ASSUME StoreInv, DiscardFile \/ DropReplaced
  PROVE  StoreInv'
  <1>1. PICK d \in Doc, k \in Key : row[d] # k /\ (DeleteSafely(d, k) \/ UNCHANGED object)
    BY Keys DEF DiscardFile, DropReplaced, WriterAt, StoreInv, StoreTypeOK, Known, Preparing, Dropping
  <1>2. /\ object' \in [Doc -> [Key -> Content \cup {None}]]
        /\ \A e \in Doc, j \in Key : ~(e = d /\ j = k) => object'[e][j] = object[e][j]
    BY <1>1, DropOne DEF StoreInv, StoreTypeOK
  <1>3. writer' \in WriterLocals /\ writer'.pc \in {"failed", "done"}
    BY WriterGoes DEF DiscardFile, DropReplaced, StoreInv, WriterPhase
  <1>4. Preparing' /\ Stored' /\ Dropping' /\ WriterSees'
    BY <1>3 DEF Preparing, Stored, Dropping, WriterSees
  <1> QED BY <1>1, <1>2, <1>3, <1>4, WriterFileFrame DEF DiscardFile, DropReplaced, tableVars

LEMMA CommitWriteStep ==
  ASSUME StoreInv, CommitWrite
  PROVE  StoreInv'
  <1>1. PICK d \in Doc, k \in Key, c \in Content :
          /\ d = writer.doc /\ k = writer.key /\ c = writer.data /\ d \in used
          /\ ~writer.new => writer.old \in Key \ {k}
          /\ writer.new => row[d] = None /\ \A u \in User : op[u].pc # "idle" => op[u].doc # d
    BY DEF CommitWrite, WriterAt, StoreInv, StoreTypeOK, Known, Preparing
  <1>2. CASE WriterGo("discard") /\ UNCHANGED <<row, chunk, late, op>>
    <2>1. /\ writer' \in WriterLocals /\ writer'.pc = "discard" /\ writer'.new = writer.new
          /\ writer'.doc = writer.doc /\ writer'.old = writer.old /\ writer'.key = writer.key
          /\ writer'.data = writer.data
      BY <1>2, WriterGoes DEF StoreInv, WriterPhase
    <2>2. Preparing'
      BY <1>2, <2>1 DEF CommitWrite, WriterAt, StoreInv, Known, Preparing
    <2>3. Stored' /\ Dropping' /\ WriterSees'
      BY <2>1 DEF Stored, Dropping, WriterSees
    <2> QED BY <1>2, <2>1, <2>2, <2>3, WriterFrame DEF CommitWrite, StoreInv, StoreTypeOK
  <1>3. CASE /\ writer.new \/ row[d] # None
             /\ row' = [row EXCEPT ![d] = k]
             /\ chunk' = [chunk EXCEPT ![d] = Rewritten(d, writer, None)]
             /\ late' = Late(d, writer)
             /\ OvertakeReaders(d)
             /\ writer' = [WriterIdle EXCEPT !.pc = IF writer.new THEN "done" ELSE "drop",
                                             !.doc = d, !.old = writer.old]
    <2>1. UNCHANGED <<object, used>>
      BY DEF CommitWrite
    <2>2. object[d][k] = c
      BY <1>1, <1>3 DEF CommitWrite, WriterAt, StoreInv, Known, Stored
    <2>3. Rewritten(d, writer, None) = (chunk[d] \ writer.seen) \cup {[by |-> None, of |-> c]}
      BY <1>1 DEF Rewritten
    <2>4. ~writer.overtaken => Rewritten(d, writer, None) = {[by |-> None, of |-> c]}
      BY <1>1, <2>3 DEF CommitWrite, WriterAt, StoreInv, Known, WriterSees
    <2>5. [by |-> None, of |-> c] \in Chunks
      BY DEF Chunks
    <2>6. /\ writer' \in WriterLocals /\ writer'.pc = (IF writer.new THEN "done" ELSE "drop")
          /\ writer'.doc = d /\ writer'.old = writer.old
      BY <1>1, <1>3 DEF WriterIdle, WriterLocals, WriterPhase, StoreInv, StoreTypeOK
    <2>7. ASSUME NEW u \in User
          PROVE  /\ op'[u] \in OpLocals /\ op'[u].pc = op[u].pc /\ op'[u].doc = op[u].doc
                 /\ op'[u].key = op[u].key /\ op'[u].data = op[u].data /\ op'[u].seen = op[u].seen
                 /\ op[u].doc = d /\ op[u].pc \in {"read", "open", "commit"} => op'[u].overtaken
                 /\ ~op'[u].overtaken => ~op[u].overtaken
      BY <1>3 DEF OvertakeReaders, StoreInv, StoreTypeOK, OpLocals
    <2>8. StoreTypeOK'
      <3>1. row' \in [Doc -> Key \cup {None}] /\ chunk' \in [Doc -> SUBSET Chunks] /\ late' \subseteq Doc
        BY <1>3, <2>3, <2>5 DEF StoreInv, StoreTypeOK, Late
      <3>2. op' \in [User -> OpLocals]
        BY <1>3, <2>7 DEF OvertakeReaders
      <3> QED BY <2>1, <2>6, <3>1, <3>2 DEF StoreInv, StoreTypeOK
    <2>9. row'[d] = k /\ \A e \in Doc : e # d => row'[e] = row[e]
      BY <1>3 DEF StoreInv, StoreTypeOK
    <2>10. RowUsed' /\ RowHasObject'
      BY <1>1, <2>1, <2>2, <2>9, Keys DEF StoreInv, Known, RowUsed, RowHasObject
    <2>11. IndexMatchesObject'
      <3>1. \A e \in Doc : e # d => chunk'[e] = chunk[e] /\ (e \in late' <=> e \in late)
        BY <1>3 DEF StoreInv, StoreTypeOK, Late
      <3>2. d \notin late' => chunk'[d] = {[by |-> None, of |-> c]}
        BY <1>3, <2>4 DEF StoreInv, StoreTypeOK, Late
      <3> QED BY <2>1, <2>2, <2>9, <3>1, <3>2, Keys DEF StoreInv, IndexMatchesObject
    <2>12. Preparing' /\ Stored' /\ Dropping' /\ WriterSees'
      BY <1>1, <2>1, <2>6, <2>9 DEF Preparing, Stored, Dropping, WriterSees
    <2>13. ASSUME NEW u \in User PROVE (OpKnows(u) /\ OpFresh(u) /\ OpSees(u))'
      <3>1. op[u].pc # "idle" => op[u].doc \in Doc
        BY DEF StoreInv, StoreTypeOK, Known, OpKnows
      <3>2. op[u].doc = d => op[u].pc # "drop"
        BY <1>1, <1>3 DEF StoreInv, Known, OpKnows
      <3>3. OpKnows(u)'
        BY <2>1, <2>7, <2>9, <3>1, <3>2 DEF StoreInv, Known, OpKnows
      <3>4. OpFresh(u)'
        BY <2>1, <2>7, <2>9, <3>1 DEF StoreInv, Known, OpFresh
      <3>5. \A e \in Doc : e # d => chunk'[e] = chunk[e]
        BY <1>3 DEF StoreInv, StoreTypeOK
      <3>6. OpSees(u)'
        BY <2>7, <3>1, <3>5 DEF StoreInv, Known, OpSees
      <3> QED BY <3>3, <3>4, <3>6
    <2> QED BY <2>8, <2>10, <2>11, <2>12, <2>13 DEF StoreInv, Known
  <1> QED BY <1>1, <1>2, <1>3 DEF CommitWrite
-----------------------------------------------------------------------------
(* One thread goes on, and nothing else changes. *)
LEMMA OpFrame ==
  ASSUME StoreInv, NEW u \in User, NEW r \in OpLocals, op' = [op EXCEPT ![u] = r],
         UNCHANGED <<tableVars, object, writer>>,
         r.pc # "idle" /\ writer.new /\ writer.pc \in {"put", "commit", "discard"} => r.doc # writer.doc,
         OpKnows(u)', OpFresh(u)', OpSees(u)'
  PROVE  StoreInv'
  <1>1. StoreTypeOK'
    BY DEF StoreInv, StoreTypeOK, tableVars
  <1>2. RowHasObject' /\ IndexMatchesObject'
    BY DEF StoreInv, RowHasObject, IndexMatchesObject, tableVars
  <1>3. op'[u] = r /\ \A v \in User : v # u => op'[v] = op[v]
    BY DEF StoreInv, StoreTypeOK
  <1>4. RowUsed' /\ Stored' /\ Dropping' /\ WriterSees'
    BY DEF StoreInv, Known, RowUsed, Stored, Dropping, WriterSees, tableVars
  <1>5. Preparing'
    BY <1>3 DEF StoreInv, Known, Preparing, tableVars
  <1>6. \A v \in User : (OpKnows(v) /\ OpFresh(v) /\ OpSees(v))'
    BY <1>3 DEF StoreInv, Known, OpKnows, OpFresh, OpSees, tableVars
  <1> QED BY <1>1, <1>2, <1>4, <1>5, <1>6 DEF StoreInv, Known

LEMMA OpIdleFrame ==
  ASSUME StoreInv, NEW u \in User, OpReturn(u), UNCHANGED <<tableVars, object, writer>>
  PROVE  StoreInv'
  <1>1. op' = [op EXCEPT ![u] = OpIdle]
    BY DEF OpReturn
  <1>2. op'[u] = OpIdle
    BY <1>1 DEF StoreInv, StoreTypeOK
  <1>3. OpKnows(u)' /\ OpFresh(u)' /\ OpSees(u)'
    BY <1>2, Idle DEF OpKnows, OpFresh, OpSees
  <1> QED BY <1>1, <1>3, Idle, OpFrame

LEMMA BeginOpStep ==
  ASSUME StoreInv, NEW u \in User, NEW d \in Doc, BeginReindex(u, d) \/ BeginDelete(u, d)
  PROVE  StoreInv'
  <1>1. UNCHANGED <<tableVars, object, writer>> /\ row[d] \in Key /\ d \in used
    BY DEF BeginReindex, BeginDelete, StoreInv, StoreTypeOK, Known, RowUsed
  <1>2. PICK r \in OpLocals : /\ op' = [op EXCEPT ![u] = r]
                              /\ r.pc \in {"read", "delete"} /\ r.doc = d /\ r.key = row[d]
    <2>1. CASE BeginReindex(u, d)
      <3> DEFINE q == [OpIdle EXCEPT !.pc = "read", !.doc = d, !.key = row[d]]
      <3>1. q \in OpLocals /\ q.pc = "read" /\ q.doc = d /\ q.key = row[d]
        BY <1>1 DEF OpIdle, OpLocals, OpPhase
      <3>2. op' = [op EXCEPT ![u] = q]
        BY <2>1 DEF BeginReindex
      <3> QED BY <3>1, <3>2
    <2>2. CASE BeginDelete(u, d)
      <3> DEFINE q == [OpIdle EXCEPT !.pc = "delete", !.doc = d, !.key = row[d]]
      <3>1. q \in OpLocals /\ q.pc = "delete" /\ q.doc = d /\ q.key = row[d]
        BY <1>1 DEF OpIdle, OpLocals, OpPhase
      <3>2. op' = [op EXCEPT ![u] = q]
        BY <2>2 DEF BeginDelete
      <3> QED BY <3>1, <3>2
    <2> QED BY <2>1, <2>2
  <1>3. op'[u] = r
    BY <1>2 DEF StoreInv, StoreTypeOK
  <1>4. OpKnows(u)' /\ OpFresh(u)' /\ OpSees(u)'
    BY <1>1, <1>2, <1>3 DEF OpKnows, OpFresh, OpSees, tableVars
  <1>5. writer.new /\ writer.pc \in {"put", "commit", "discard"} => d # writer.doc
    BY <1>1, Keys DEF StoreInv, Known, Preparing
  <1> QED BY <1>1, <1>2, <1>4, <1>5, OpFrame

(* A thread that has read goes on with the same document. *)
LEMMA SameDocument ==
  ASSUME StoreInv, NEW u \in User, op[u].pc # "idle"
  PROVE  /\ op[u].doc \in Doc /\ op[u].doc \in used /\ op[u].key \in Key
         /\ writer.new /\ writer.pc \in {"put", "commit", "discard"} => op[u].doc # writer.doc
  BY DEF StoreInv, StoreTypeOK, Known, OpKnows, Preparing

LEMMA ReadStep ==
  ASSUME StoreInv, NEW u \in User, ReadFile(u)
  PROVE  StoreInv'
  <1>1. UNCHANGED <<tableVars, object, writer>> /\ op[u].pc = "read"
    BY DEF ReadFile, OpAt
  <1>2. CASE OpReturn(u)
    BY <1>1, <1>2, OpIdleFrame
  <1>3. ASSUME NEW c \in Content, c = object[op[u].doc][op[u].key],
               op' = [op EXCEPT ![u].pc = "open", ![u].data = c]
        PROVE  StoreInv'
    <2>1. PICK r \in OpLocals :
            /\ op' = [op EXCEPT ![u] = r] /\ r.pc = "open" /\ r.data = c
            /\ r.doc = op[u].doc /\ r.key = op[u].key /\ r.overtaken = op[u].overtaken
      <3> DEFINE q == [op[u] EXCEPT !.pc = "open", !.data = c]
      <3>1. op[u] \in OpLocals
        BY DEF StoreInv, StoreTypeOK
      <3>2. /\ q \in OpLocals /\ q.pc = "open" /\ q.data = c
            /\ q.doc = op[u].doc /\ q.key = op[u].key /\ q.overtaken = op[u].overtaken
        BY <3>1 DEF OpLocals, OpPhase
      <3>3. op' = [op EXCEPT ![u] = q]
        BY <1>3
      <3> QED BY <3>2, <3>3
    <2>2. op'[u] = r
      BY <2>1 DEF StoreInv, StoreTypeOK
    <2>3. OpKnows(u)' /\ OpFresh(u)' /\ OpSees(u)'
      BY <1>1, <1>3, <2>1, <2>2, SameDocument DEF StoreInv, Known, OpKnows, OpFresh, OpSees, tableVars
    <2> QED BY <1>1, <2>1, <2>3, SameDocument, OpFrame
  <1>4. object[op[u].doc][op[u].key] \in Content \cup {None}
    BY <1>1, SameDocument DEF StoreInv, StoreTypeOK
  <1> QED BY <1>2, <1>3, <1>4 DEF ReadFile

LEMMA OpenReindexStep ==
  ASSUME StoreInv, NEW u \in User, OpenReindex(u)
  PROVE  StoreInv'
  <1>1. UNCHANGED <<tableVars, object, writer>> /\ op[u].pc = "open"
    BY DEF OpenReindex, OpAt
  <1>2. PICK r \in OpLocals :
          /\ op' = [op EXCEPT ![u] = r] /\ r.pc = "commit" /\ r.data = op[u].data
          /\ r.doc = op[u].doc /\ r.key = op[u].key /\ r.overtaken = op[u].overtaken
          /\ r.seen = chunk[op[u].doc]
    <2> DEFINE q == [op[u] EXCEPT !.pc = "commit", !.seen = chunk[op[u].doc]]
    <2>1. op[u] \in OpLocals /\ chunk[op[u].doc] \subseteq Chunks
      BY <1>1, SameDocument DEF StoreInv, StoreTypeOK
    <2>2. /\ q \in OpLocals /\ q.pc = "commit" /\ q.data = op[u].data
          /\ q.doc = op[u].doc /\ q.key = op[u].key /\ q.overtaken = op[u].overtaken
          /\ q.seen = chunk[op[u].doc]
      BY <2>1 DEF OpLocals, OpPhase
    <2>3. op' = [op EXCEPT ![u] = q]
      BY DEF OpenReindex
    <2> QED BY <2>2, <2>3
  <1>3. op'[u] = r
    BY <1>2 DEF StoreInv, StoreTypeOK
  <1>4. OpKnows(u)' /\ OpFresh(u)' /\ OpSees(u)'
    BY <1>1, <1>2, <1>3, SameDocument DEF StoreInv, Known, OpKnows, OpFresh, OpSees, tableVars
  <1> QED BY <1>1, <1>2, <1>4, SameDocument, OpFrame

LEMMA CommitReindexStep ==
  ASSUME StoreInv, NEW u \in User, CommitReindex(u)
  PROVE  StoreInv'
  <1>1. PICK d \in Doc, c \in Content : d = op[u].doc /\ c = op[u].data /\ d \in used
    BY SameDocument DEF CommitReindex, OpAt, StoreInv, Known, OpKnows
  <1>2. CASE OpReturn(u) /\ UNCHANGED <<chunk, late, writer>>
    BY <1>2, OpIdleFrame DEF CommitReindex, tableVars
  <1>3. CASE /\ row[d] # None
             /\ chunk' = [chunk EXCEPT ![d] = Rewritten(d, op[u], u)]
             /\ late' = Late(d, op[u])
             /\ OvertakeDeletes(u, d)
    <2>1. UNCHANGED <<row, used, object>>
      BY DEF CommitReindex
    <2>2. Rewritten(d, op[u], u) = (chunk[d] \ op[u].seen) \cup {[by |-> u, of |-> c]}
      BY <1>1 DEF Rewritten
    <2>3. ~op[u].overtaken => /\ Rewritten(d, op[u], u) = {[by |-> u, of |-> c]}
                              /\ c = object[d][row[d]]
      BY <1>1, <1>3, <2>2 DEF CommitReindex, OpAt, StoreInv, Known, OpSees, OpFresh
    <2>4. [by |-> u, of |-> c] \in Chunks
      BY DEF Chunks
    <2>5. ASSUME NEW v \in User
          PROVE  \/ op'[v] = OpIdle
                 \/ /\ op'[v] \in OpLocals /\ op'[v].pc = op[v].pc /\ op'[v].doc = op[v].doc
                    /\ op'[v].key = op[v].key /\ op'[v].data = op[v].data /\ op'[v].seen = op[v].seen
                    /\ op[v].doc = d /\ op[v].pc = "commit" => op'[v].overtaken
                    /\ ~op'[v].overtaken => ~op[v].overtaken
      BY <1>3 DEF OvertakeDeletes, StoreInv, StoreTypeOK, OpLocals
    <2>6. /\ writer' \in WriterLocals /\ writer'.pc = writer.pc /\ writer'.new = writer.new
          /\ writer'.doc = writer.doc /\ writer'.old = writer.old /\ writer'.key = writer.key
          /\ writer'.data = writer.data /\ writer'.seen = writer.seen
          /\ writer.doc = d /\ writer.pc = "commit" => writer'.overtaken
          /\ ~writer'.overtaken => ~writer.overtaken
      BY <1>3 DEF OvertakeDeletes, WriterAt, StoreInv, StoreTypeOK, WriterLocals
    <2>7. StoreTypeOK'
      <3>1. chunk' \in [Doc -> SUBSET Chunks] /\ late' \subseteq Doc
        BY <1>3, <2>2, <2>4 DEF StoreInv, StoreTypeOK, Late
      <3>2. op' \in [User -> OpLocals]
        BY <1>3, <2>5, Idle DEF OvertakeDeletes
      <3> QED BY <2>1, <2>6, <3>1, <3>2 DEF StoreInv, StoreTypeOK
    <2>8. RowUsed' /\ RowHasObject'
      BY <2>1 DEF StoreInv, Known, RowUsed, RowHasObject
    <2>9. \A e \in Doc : e # d => chunk'[e] = chunk[e] /\ (e \in late' <=> e \in late)
      BY <1>3 DEF StoreInv, StoreTypeOK, Late
    <2>10. IndexMatchesObject'
      <3>1. d \notin late' => chunk'[d] = {[by |-> u, of |-> object[d][row[d]]]}
        BY <1>3, <2>3 DEF StoreInv, StoreTypeOK, Late
      <3> QED BY <1>3, <2>1, <2>9, <3>1 DEF StoreInv, IndexMatchesObject
    <2>11. Preparing'
      <3>1. \A v \in User : op'[v].pc # "idle" => op[v].pc # "idle" /\ op'[v].doc = op[v].doc
        BY <2>5, Idle
      <3> QED BY <2>1, <2>6, <3>1 DEF StoreInv, Known, Preparing
    <2>12. Stored' /\ Dropping'
      BY <2>1, <2>6 DEF StoreInv, Known, Stored, Dropping
    <2>13. WriterSees'
      BY <2>6, <2>9 DEF StoreInv, StoreTypeOK, Known, Preparing, WriterSees
    <2>14. ASSUME NEW v \in User PROVE (OpKnows(v) /\ OpFresh(v) /\ OpSees(v))'
      <3>1. CASE op'[v] = OpIdle
        BY <3>1, Idle DEF OpKnows, OpFresh, OpSees
      <3>2. CASE op'[v] # OpIdle
        <4>1. op[v].pc # "idle" => op[v].doc \in Doc
          BY SameDocument
        <4>2. OpKnows(v)'
          BY <2>1, <2>5, <3>2 DEF StoreInv, Known, OpKnows
        <4>3. OpFresh(v)'
          BY <2>1, <2>5, <3>2 DEF StoreInv, Known, OpFresh
        <4>4. OpSees(v)'
          BY <2>5, <2>9, <3>2, <4>1 DEF StoreInv, Known, OpSees
        <4> QED BY <4>2, <4>3, <4>4
      <3> QED BY <3>1, <3>2
    <2> QED BY <2>7, <2>8, <2>10, <2>11, <2>12, <2>13, <2>14 DEF StoreInv, Known
  <1> QED BY <1>1, <1>2, <1>3 DEF CommitReindex

LEMMA DeleteRowStep ==
  ASSUME StoreInv, NEW u \in User, DeleteRow(u)
  PROVE  StoreInv'
  <1>1. PICK d \in Doc : /\ d = op[u].doc /\ d \in used
                         /\ writer.new /\ writer.pc \in {"put", "commit", "discard"} => d # writer.doc
    BY SameDocument DEF DeleteRow, OpAt
  <1>2. /\ row' = [row EXCEPT ![d] = None] /\ chunk' = [chunk EXCEPT ![d] = {}] /\ late' = late \ {d}
        /\ UNCHANGED <<object, used, writer>>
    BY <1>1 DEF DeleteRow
  <1>3. row'[d] = None /\ \A e \in Doc : e # d => row'[e] = row[e]
    BY <1>2 DEF StoreInv, StoreTypeOK
  <1>4. chunk'[d] = {} /\ \A e \in Doc : e # d => chunk'[e] = chunk[e]
    BY <1>2 DEF StoreInv, StoreTypeOK
  <1>5. ASSUME NEW v \in User
        PROVE  /\ op'[v] \in OpLocals /\ op'[v].doc = op[v].doc /\ op'[v].key = op[v].key
               /\ op'[v].data = op[v].data /\ op'[v].seen = op[v].seen
               /\ op'[v].overtaken = op[v].overtaken
               /\ op'[v].pc = (IF v = u THEN "drop" ELSE op[v].pc)
    BY DEF DeleteRow, StoreInv, StoreTypeOK, OpLocals, OpPhase
  <1>6. op[u].pc = "delete"
    BY DEF DeleteRow, OpAt
  <1>7. StoreTypeOK'
    <2>1. op' \in [User -> OpLocals]
      BY <1>5 DEF DeleteRow, StoreInv, StoreTypeOK
    <2> QED BY <1>2, <2>1 DEF StoreInv, StoreTypeOK
  <1>8. RowUsed' /\ RowHasObject' /\ IndexMatchesObject'
    BY <1>2, <1>3, <1>4 DEF StoreInv, Known, RowUsed, RowHasObject, IndexMatchesObject
  <1>9. Preparing'
    BY <1>2, <1>3, <1>5, <1>6 DEF StoreInv, StoreTypeOK, Known, Preparing
  <1>10. Stored' /\ Dropping' /\ WriterSees'
    BY <1>1, <1>2, <1>3, <1>4, Keys DEF StoreInv, StoreTypeOK, Known, Preparing, Stored, Dropping, WriterSees
  <1>11. ASSUME NEW v \in User PROVE (OpKnows(v) /\ OpFresh(v) /\ OpSees(v))'
    <2>1. op[v].pc # "idle" => op[v].doc \in Doc
      BY SameDocument
    <2>2. OpKnows(v)'
      BY <1>1, <1>2, <1>3, <1>5, <1>6, <2>1 DEF StoreInv, Known, OpKnows
    <2>3. OpFresh(v)'
      BY <1>2, <1>3, <1>5, <2>1 DEF StoreInv, Known, OpFresh
    <2>4. OpSees(v)'
      BY <1>4, <1>5, <2>1 DEF StoreInv, Known, OpSees
    <2> QED BY <2>2, <2>3, <2>4
  <1> QED BY <1>7, <1>8, <1>9, <1>10, <1>11 DEF StoreInv, Known

LEMMA DropFileStep ==
  ASSUME StoreInv, NEW u \in User, DropFile(u)
  PROVE  StoreInv'
  <1>1. PICK d \in Doc, k \in Key :
          /\ d = op[u].doc /\ k = op[u].key /\ row[d] = None
          /\ writer.new /\ writer.pc \in {"put", "commit", "discard"} => d # writer.doc
    BY SameDocument DEF DropFile, OpAt, StoreInv, Known, OpKnows
  <1>2. /\ object' \in [Doc -> [Key -> Content \cup {None}]]
        /\ \A e \in Doc, j \in Key : ~(e = d /\ j = k) => object'[e][j] = object[e][j]
    BY <1>1, DropOne DEF DropFile, StoreInv
  <1>3. UNCHANGED <<row, chunk, used, late, writer>>
    BY DEF DropFile, tableVars
  <1>4. \A e \in Doc : row[e] # None => object'[e][row[e]] = object[e][row[e]]
    BY <1>1, <1>2 DEF StoreInv, StoreTypeOK
  <1>5. op' \in [User -> OpLocals] /\ op'[u] = OpIdle /\ \A v \in User : v # u => op'[v] = op[v]
    BY Idle DEF DropFile, OpReturn, StoreInv, StoreTypeOK
  <1>6. StoreTypeOK'
    BY <1>2, <1>3, <1>5 DEF StoreInv, StoreTypeOK
  <1>7. RowUsed' /\ RowHasObject' /\ IndexMatchesObject'
    BY <1>3, <1>4 DEF StoreInv, Known, RowUsed, RowHasObject, IndexMatchesObject
  <1>8. Preparing' /\ Dropping' /\ WriterSees'
    BY <1>3, <1>5, Idle DEF StoreInv, Known, Preparing, Dropping, WriterSees
  <1>9. Stored'
    BY <1>1, <1>2, <1>3 DEF StoreInv, StoreTypeOK, Known, Preparing, Stored
  <1>10. ASSUME NEW v \in User PROVE (OpKnows(v) /\ OpFresh(v) /\ OpSees(v))'
    <2>1. op[v].pc # "idle" => op[v].doc \in Doc
      BY SameDocument
    <2>2. CASE v = u
      BY <1>5, <2>2, Idle DEF OpKnows, OpFresh, OpSees
    <2>3. CASE v # u
      BY <1>3, <1>4, <1>5, <2>1, <2>3 DEF StoreInv, Known, OpKnows, OpFresh, OpSees
    <2> QED BY <2>2, <2>3
  <1> QED BY <1>6, <1>7, <1>8, <1>9, <1>10 DEF StoreInv, Known

LEMMA CrashStep ==
  ASSUME StoreInv, StoreCrash
  PROVE  StoreInv'
  <1>1. writer' = WriterIdle /\ op' = [u \in User |-> OpIdle] /\ UNCHANGED <<row, chunk, used, late, object>>
    BY DEF StoreCrash, tableVars
  <1>2. StoreTypeOK'
    BY <1>1, Idle DEF StoreInv, StoreTypeOK
  <1>3. RowUsed' /\ RowHasObject' /\ IndexMatchesObject'
    BY <1>1 DEF StoreInv, Known, RowUsed, RowHasObject, IndexMatchesObject
  <1>4. Preparing' /\ Stored' /\ Dropping' /\ WriterSees'
    BY <1>1, Idle DEF Preparing, Stored, Dropping, WriterSees
  <1>5. \A v \in User : (OpKnows(v) /\ OpFresh(v) /\ OpSees(v))'
    BY <1>1, Idle DEF OpKnows, OpFresh, OpSees
  <1> QED BY <1>2, <1>3, <1>4, <1>5 DEF StoreInv, Known
-----------------------------------------------------------------------------
LEMMA InitInv == StoreInit => StoreInv
  <1> SUFFICES ASSUME StoreInit PROVE StoreInv
    OBVIOUS
  <1>1. StoreTypeOK
    BY Idle DEF StoreInit, StoreTypeOK
  <1>2. Known
    BY Idle DEF StoreInit, Known, RowUsed, Preparing, Stored, Dropping, WriterSees, OpKnows, OpFresh, OpSees
  <1>3. RowHasObject /\ IndexMatchesObject
    BY DEF StoreInit, RowHasObject, IndexMatchesObject
  <1> QED BY <1>1, <1>2, <1>3 DEF StoreInv

LEMMA StoreStep ==
  ASSUME StoreInv, [StoreNext]_storeVars
  PROVE  StoreInv'
  <1>1. CASE UNCHANGED storeVars
    <2>1. StoreTypeOK' /\ RowHasObject' /\ IndexMatchesObject'
      BY <1>1 DEF StoreInv, storeVars, StoreTypeOK, RowHasObject, IndexMatchesObject
    <2>2. Known'
      BY <1>1 DEF StoreInv, storeVars, Known, RowUsed, Preparing, Stored, Dropping, WriterSees,
                 OpKnows, OpFresh, OpSees
    <2> QED BY <2>1, <2>2 DEF StoreInv
  <1> QED BY <1>1, IngestStep, ReplaceStep, ReturnStep, PutStep, OpenReplaceStep, CommitWriteStep, DropStep,
             BeginOpStep, ReadStep, OpenReindexStep, CommitReindexStep, DeleteRowStep, DropFileStep, CrashStep
          DEF StoreNext, WriterStep, OpRead, OpStep

LEMMA StoreInvariance == StoreSpec => []StoreInv
  BY InitInv, StoreStep, PTL DEF StoreSpec

(* What is in the rows, the index, the object store and the locals.          *)
THEOREM StoreTypes == StoreSpec => []StoreTypeOK
  BY StoreInvariance, PTL DEF StoreInv

(* A row never names a file that is not there: none is dropped before the    *)
(* row names another or is gone, whoever reads, replaces or deletes beside it *)
(* and wherever the process dies.                                          *)
THEOREM RowsHaveObjects == StoreSpec => []RowHasObject
  BY StoreInvariance, PTL DEF StoreInv

(* The index holds the stored text once, and of no other document, unless    *)
(* the transaction that wrote it last had been overtaken.                    *)
THEOREM IndexesMatch == StoreSpec => []IndexMatchesObject
  BY StoreInvariance, PTL DEF StoreInv
=============================================================================
