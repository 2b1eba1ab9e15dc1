---------------------------- MODULE ConnectorSync -----------------------------
(***************************************************************************)
(* The incremental synchronisation of one resource of a connected account   *)
(* (sync_connector) into the document store: read the cursor, ask the       *)
(* provider, store every item of the page, store the new cursor.            *)
(*                                                                         *)
(* Every synchronisation runs in the event loop of the one server process:  *)
(* it gives the loop away only while it waits for the provider, so the part *)
(* from the answer to the stored cursor meets threads (DocumentStore) and    *)
(* crashes, and no other synchronisation.                                  *)
(***************************************************************************)
EXTENDS DocumentStore, ProviderFeeds

CONSTANTS
  Sync,     \* requests that synchronise
  Feeds,    \* the adapters a behaviour may have, one of them
  Scopes    \* bounds: how much of each kind may happen in a behaviour

Event == {"change", "sync", "call", "crash"}
ItemRecord == [content : Content, doc : Doc \cup {None}, gone : BOOLEAN]

ASSUME SyncAssumption ==
  Feeds \subseteq Feed /\ Scopes \subseteq [Event -> Nat] /\ None \notin ItemRecord

VARIABLES
  feed,      \* the adapter
  left,      \* how much of each kind may still happen
  content,   \* the provider: what each item says
  gone,      \*   items it has deleted
  stamp,     \*   when each changed last
  now,       \*   its clock
  cursor,    \* connector_sync_states.cursor_cipher, 0 for NULL
  status,    \* connector_sync_states.status
  item,      \* connector_sync_items by external_id
  sync,      \* the locals of each synchronisation
  torn,      \* items left half stored by a failure or a crash
  stray,     \* documents such a failure left without their item
  regressed  \* a synchronisation has stored items read before another one's cursor

providerVars == <<content, gone, stamp, now>>
stateVars == <<cursor, status>>
historyVars == <<torn, stray, regressed>>
syncVars == <<storeVars, feed, left, providerVars, stateVars, item, sync, historyVars>>

SyncIdle ==
  [pc |-> "idle", cur |-> 0, page |-> {}, next |-> 0, at |-> None, doc |-> None, overtaken |-> FALSE]
Fetched == [id : Item, content : Content, gone : BOOLEAN]
SyncPhase == {"idle", "reading", "fetched", "persist", "store", "record"}
SyncLocals == [pc : SyncPhase, cur : Nat, page : SUBSET Fetched, next : Nat,
               at : Fetched \cup {None}, doc : Doc \cup {None}, overtaken : BOOLEAN]

SyncTypeOK ==
  /\ StoreTypeOK
  /\ feed \in Feeds
  /\ left \in [Event -> Nat]
  /\ content \in [Item -> Content]
  /\ gone \in SUBSET Item
  /\ stamp \in [Item -> Nat]
  /\ now \in Nat
  /\ cursor \in Nat
  /\ status \in {"idle", "running", "completed", "failed"}
  /\ item \in [Item -> ItemRecord \cup {None}]
  /\ sync \in [Sync -> SyncLocals]
  /\ torn \in SUBSET Item
  /\ stray \in SUBSET Doc
  /\ regressed \in BOOLEAN

SyncInit ==
  /\ StoreInit
  /\ feed \in Feeds
  /\ left \in Scopes
  /\ content \in [Item -> Content]
  /\ gone = {}
  /\ stamp = [i \in Item |-> 0]
  /\ now = 0
  /\ cursor = 0
  /\ status = "idle"
  /\ item = [i \in Item |-> None]
  /\ sync = [s \in Sync |-> SyncIdle]
  /\ torn = {}
  /\ stray = {}
  /\ regressed = FALSE

At(s, p) == sync[s].pc = p
Set(s, r) == sync' = [sync EXCEPT ![s] = r]
Go(s, p) == Set(s, [sync[s] EXCEPT !.pc = p])
Spend(e) == left[e] > 0 /\ left' = [left EXCEPT ![e] = @ - 1]

(* Between the answer of the provider and the stored cursor nothing is     *)
(* awaited: the loop runs one synchronisation.                             *)
LoopFree == \A s \in Sync : sync[s].pc \in {"idle", "reading", "fetched"}
-----------------------------------------------------------------------------
(* The provider, to itself. *)

Change(i) ==
  /\ Spend("change")
  /\ \E t \in {now, now + 1} \ {0} :
       now' = t /\ stamp' = [stamp EXCEPT ![i] = t]
  /\ \/ /\ \E c \in Content : (stamp[i] = 0 \/ c # content[i] \/ i \in gone)
                              /\ content' = [content EXCEPT ![i] = c]
        /\ gone' = gone \ {i}
     \/ stamp[i] # 0 /\ gone' = gone \cup {i} /\ UNCHANGED content
  /\ UNCHANGED <<storeVars, feed, stateVars, item, sync, historyVars>>
-----------------------------------------------------------------------------
(* One synchronisation. *)

(* _ensure_sync_state, the cursor, _set_sync_state_running. *)
BeginSync(s) ==
  /\ At(s, "idle")
  /\ LoopFree
  /\ Spend("sync")
  /\ status' = "running"
  /\ Set(s, [SyncIdle EXCEPT !.pc = "reading", !.cur = cursor])
  /\ UNCHANGED <<storeVars, feed, providerVars, cursor, item, historyVars>>

(* The provider answers; retries of a read that failed change nothing. *)
Fetch(s) ==
  /\ At(s, "reading")
  /\ \E r \in Reads(feed, Listed(feed, stamp, gone), sync[s].cur, now) :
       Set(s, [sync[s] EXCEPT
                 !.pc = "fetched", !.next = r.cursor,
                 !.page = {[id |-> i, content |-> content[i], gone |-> i \in gone] : i \in r.items}])
  /\ UNCHANGED <<storeVars, feed, left, providerVars, stateVars, item, historyVars>>

(* _fail_sync_state: the retries are used up, or the answer is an error. *)
FetchFails(s) ==
  /\ At(s, "reading")
  /\ LoopFree
  /\ status' = "failed"
  /\ Set(s, SyncIdle)
  /\ UNCHANGED <<storeVars, feed, left, providerVars, cursor, item, historyVars>>

Receive(s) ==
  /\ At(s, "fetched")
  /\ LoopFree
  /\ Go(s, "persist")
  /\ UNCHANGED <<storeVars, feed, left, providerVars, stateVars, item, historyVars>>

Rest(s, x) == sync[s].page \ {x}
Stale(s) == regressed' = (regressed \/ sync[s].overtaken)

(* With a fault: the content is not compared. *)
UnchangedFault(x) == item[x.id] # None

Unchanged(x) == item[x.id] # None /\ item[x.id].content = x.content

(* The document_id of the SELECT. *)
StoredDoc(x) == IF item[x.id] = None THEN None ELSE item[x.id].doc
Take(s, x, p) ==
  Set(s, [sync[s] EXCEPT !.pc = p, !.page = Rest(s, x), !.at = x, !.doc = StoredDoc(x)])

(* _persist_sync_item of an item the provider has deleted: its document is  *)
(* kept.                                                                   *)
RecordDeletion(s, x) ==
  /\ x.gone
  /\ item' = [item EXCEPT ![x.id] =
                IF @ = None THEN [content |-> x.content, doc |-> None, gone |-> TRUE]
                ELSE [@ EXCEPT !.gone = TRUE]]
  /\ Set(s, [sync[s] EXCEPT !.page = Rest(s, x)])
  /\ UNCHANGED storeVars

(* The same content: only the record is written again. *)
PassUnchanged(s, x) ==
  /\ ~x.gone
  /\ Unchanged(x)
  /\ Take(s, x, "record")
  /\ UNCHANGED <<storeVars, item>>

(* With a fault: the document of the item is not looked for. *)
StoreItemFault(s, x) ==
  /\ ~x.gone
  /\ ~Unchanged(x)
  /\ (\E d \in Doc : StartIngest(d, x.content)) \/ RefuseWrite
  /\ Take(s, x, "store")
  /\ UNCHANGED item

(* New content: ingest it, or replace the document the item has. *)
StoreItem(s, x) ==
  /\ ~x.gone
  /\ ~Unchanged(x)
  /\ \/ StoredDoc(x) = None /\ \E d \in Doc : StartIngest(d, x.content)
     \/ StoredDoc(x) # None /\ StartReplace(StoredDoc(x), x.content)
     \/ RefuseWrite
  /\ Take(s, x, "store")
  /\ UNCHANGED item

Persist(s) ==
  /\ At(s, "persist")
  /\ \E x \in sync[s].page : RecordDeletion(s, x) \/ PassUnchanged(s, x) \/ StoreItem(s, x)
  /\ Stale(s)
  /\ UNCHANGED <<feed, left, providerVars, stateVars, torn, stray>>

(* The document the item will name: the one just written, or the one the   *)
(* SELECT found.                                                           *)
DocumentOf(s) == IF writer.doc # None THEN writer.doc ELSE sync[s].doc

(* ingest_file or replace_file_content has returned. *)
StoreReturns(s) ==
  /\ At(s, "store")
  /\ WriterAt("done")
  /\ Go(s, "record")
  /\ UNCHANGED <<storeVars, feed, left, providerVars, stateVars, item, historyVars>>

(* The INSERT or UPDATE of the item; it fails if the document it names was  *)
(* deleted meanwhile.                                                      *)
RecordItem(s) ==
  /\ At(s, "record")
  /\ LET x == sync[s].at
         d == DocumentOf(s)
     IN /\ d # None => row[d] # None
        /\ item' = [item EXCEPT ![x.id] = [content |-> x.content, doc |-> d, gone |-> FALSE]]
        /\ torn' = IF WriterAt("done") THEN torn \ {x.id} ELSE torn
  /\ Set(s, [sync[s] EXCEPT !.pc = "persist", !.at = None, !.doc = None])
  /\ writer' = WriterIdle
  /\ UNCHANGED <<tableVars, object, op, feed, left, providerVars, stateVars, stray, regressed>>

(* What a failure leaves behind when it strikes between the two. *)
Tear(S) ==
  LET half == {s \in S : sync[s].pc \in {"store", "record"} /\ ~WriterAt("idle")} IN
  /\ torn' = torn \cup {sync[s].at.id : s \in half}
  /\ stray' = stray \cup {writer.doc : s \in {r \in half : writer.doc # None}}

(* With a fault: the synchronisation is given up while its item is stored. *)
FailSyncFault(s) ==
  /\ At(s, "store")
  /\ status' = "failed"
  /\ Tear({s})
  /\ Set(s, SyncIdle)
  /\ writer' = WriterIdle
  /\ UNCHANGED <<tableVars, object, op, feed, left, providerVars, cursor, item, regressed>>

(* Anything raised after the answer, _fail_sync_state: a statement fails    *)
(* before or after the document is written, or the writing of the document  *)
(* does, or the document it committed cannot be read back.                 *)
FailSync(s) ==
  /\ \/ At(s, "persist") \/ At(s, "record")
     \/ At(s, "store") /\ (WriterAt("failed") \/ WriterAt("done"))
  /\ status' = "failed"
  /\ Tear({s})
  /\ Set(s, SyncIdle)
  /\ writer' = WriterIdle
  /\ UNCHANGED <<tableVars, object, op, feed, left, providerVars, cursor, item, regressed>>

(* With a fault: the cursor is stored before the items. *)
CompleteSyncFault(s) ==
  /\ At(s, "persist")
  /\ cursor' = sync[s].next
  /\ status' = "completed"
  /\ Set(s, SyncIdle)
  /\ UNCHANGED <<storeVars, feed, left, providerVars, item, historyVars>>

(* _complete_sync_state. *)
CompleteSync(s) ==
  /\ At(s, "persist")
  /\ sync[s].page = {}
  /\ cursor' = sync[s].next
  /\ status' = "completed"
  /\ sync' = [r \in Sync |->
                IF r = s THEN SyncIdle
                ELSE IF sync[r].pc \in {"reading", "fetched"}
                     THEN [sync[r] EXCEPT !.overtaken = TRUE] ELSE sync[r]]
  /\ UNCHANGED <<storeVars, feed, left, providerVars, item, historyVars>>
-----------------------------------------------------------------------------
(* The threads, and the death of the process. *)

(* Deleting a document sets the document_id of its item to NULL. *)
DeleteDocument(u) ==
  /\ DeleteRow(u)
  /\ item' = [i \in Item |->
                IF item[i] # None /\ item[i].doc = op[u].doc
                THEN [item[i] EXCEPT !.doc = None] ELSE item[i]]
  /\ UNCHANGED <<feed, left, providerVars, stateVars, sync, historyVars>>

BeginCall(u) ==
  /\ Spend("call")
  /\ OpRead(u)
  /\ UNCHANGED <<feed, providerVars, stateVars, item, sync, historyVars>>

StoreWorks ==
  /\ WriterStep \/ \E u \in User : OpStep(u)
  /\ UNCHANGED <<feed, left, providerVars, stateVars, item, sync, historyVars>>

Crash ==
  /\ Spend("crash")
  /\ Tear(Sync)
  /\ StoreCrash
  /\ sync' = [s \in Sync |-> SyncIdle]
  /\ UNCHANGED <<feed, providerVars, stateVars, item, regressed>>

SyncStep(s) ==
  \/ BeginSync(s) \/ Fetch(s) \/ FetchFails(s) \/ Receive(s) \/ Persist(s)
  \/ StoreReturns(s) \/ RecordItem(s) \/ FailSync(s) \/ CompleteSync(s)

SyncNext ==
  \/ \E i \in Item : Change(i)
  \/ \E s \in Sync : SyncStep(s)
  \/ \E u \in User : BeginCall(u) \/ DeleteDocument(u)
  \/ StoreWorks \/ Crash

SyncSpec == SyncInit /\ [][SyncNext]_syncVars
-----------------------------------------------------------------------------
(* The cursor never passes an item that has not been stored as it is: of   *)
(* everything the provider changed before the cursor, the item records the  *)
(* present content, or the deletion if the adapter reports deletions.  A     *)
(* failure or a crash in the middle of a page must leave the cursor behind   *)
(* it.  (A synchronisation that is overtaken by a later one and then stores  *)
(* what it read earlier is the exception the code does not guard against.)  *)
NothingSkipped ==
  regressed \/ \A i \in Item :
    stamp[i] \in 1 .. cursor - 1 /\ (i \in gone => feed.kind \in Reporting) =>
      /\ item[i] # None
      /\ item[i].gone = (i \in gone)
      /\ i \notin gone => item[i].content = content[i]

(* README.md:464 says that deletion events of the provider are recorded: of *)
(* an item that is recorded, the deletion is, once the cursor has passed it. *)
DeletionsRecorded ==
  regressed \/ \A i \in gone :
    stamp[i] \in 1 .. cursor - 1 /\ item[i] # None => item[i].gone

(* What an item records is what its document holds, except while it is     *)
(* being stored and after a failure in between (the hash is written after   *)
(* the document, in another transaction).                                  *)
ItemMatchesDocument ==
  \A i \in Item :
    item[i] # None /\ item[i].doc # None =>
      \/ row[item[i].doc] # None /\ object[item[i].doc][row[item[i].doc]] = item[i].content
      \/ i \in torn
      \/ \E s \in Sync : sync[s].pc \in {"store", "record"} /\ sync[s].at.id = i

(* Every document belongs to one item and no item has two: also when        *)
(* synchronisations overlap, a document without its item can only be one a  *)
(* failure or a crash has left.                                            *)
OneDocumentPerItem ==
  /\ \A d \in Doc : row[d] # None =>
       \/ \E i \in Item : item[i] # None /\ item[i].doc = d
       \/ writer.doc = d
       \/ d \in stray
  /\ \A i, j \in Item :
       i # j /\ item[i] # None /\ item[j] # None /\ item[i].doc # None => item[i].doc # item[j].doc

(* The synchronisation uses the store as the store allows. *)
UsesStore == StoreInit /\ [][StoreNext]_storeVars
=============================================================================
