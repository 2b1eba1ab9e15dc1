-------------------------- MODULE ConnectorSyncProofs --------------------------
(***************************************************************************)
(* Proofs about ConnectorSync: it uses the document store as the store       *)
(* allows, the cursor of a feed that reads in order passes no item, and an    *)
(* item has one document, which is what the item says.                        *)
(***************************************************************************)
EXTENDS ConnectorSync, DocumentStoreProofs, WellFoundedInduction

-----------------------------------------------------------------------------
(* What the adapters read. *)

LEMMA Least ==
  ASSUME NEW T, T \subseteq Nat, T # {}
  PROVE  \E x \in T : \A y \in T : x <= y
  <1> DEFINE R == OpToRel(<, Nat)
  <1>1. IsWellFoundedOn(R, Nat)
    BY NatLessThanWellFounded
  <1>2. ASSUME NEW x \in Nat, NEW y \in Nat, <<y, x>> \notin R
        PROVE  x <= y
    <2>1. <<y, x>> \in Nat \X Nat => ~ (<<y, x>>[1] < <<y, x>>[2])
      BY <1>2, Zenon DEF OpToRel
    <2> QED BY <2>1
  <1> HIDE DEF R
  <1>3. PICK x \in T : \A y \in T : <<y, x>> \notin R
    BY <1>1, WFMin
  <1>4. ASSUME NEW y \in T PROVE x <= y
    BY <1>2, <1>3
  <1> QED BY <1>4

LEMMA Greatest ==
  ASSUME NEW n \in Nat, NEW S, S \subseteq 0..n, S # {}
  PROVE  \E x \in S : \A y \in S : y <= x
  <1> DEFINE T == {m \in 0..n : \A y \in S : y <= m}
  <1>1. n \in T
    OBVIOUS
  <1>2. PICK x \in T : \A y \in T : x <= y
    <2>1. T \subseteq Nat /\ T # {}
      BY <1>1
    <2> HIDE DEF T
    <2> QED BY <2>1, Least
  <1>3. x \in S
    <2>1. SUFFICES ASSUME x \notin S PROVE FALSE
      OBVIOUS
    <2>2. x \in Nat /\ S \subseteq Nat
      OBVIOUS
    <2>3. \A y \in S : y <= x /\ y # x
      BY <1>2, <2>1
    <2>4. \A y \in S : y <= x - 1
      BY <2>2, <2>3
    <2>5. PICK y \in S : TRUE
      OBVIOUS
    <2>6. x - 1 \in 0..n
      BY <2>2, <2>4, <2>5
    <2>7. x - 1 \in T
      BY <2>4, <2>6
    <2>8. x <= x - 1
      BY <1>2, <2>7
    <2> QED BY <2>2, <2>8
  <1> QED BY <1>3

(* The cursor after a page: the one before it or the time of one of its items. *)
LEMMA LatestIsGreatest ==
  ASSUME NEW n \in Nat, NEW when \in [Item -> Nat], \A i \in Item : when[i] <= n,
         NEW cur \in 0..n, NEW P \in SUBSET Item
  PROVE  /\ Latest(P, when, cur) \in {cur} \cup {when[i] : i \in P}
         /\ Latest(P, when, cur) \in cur..n
         /\ \A i \in P : when[i] <= Latest(P, when, cur)
  <1> DEFINE S == {cur} \cup {when[i] : i \in P}
  <1>1. S \subseteq 0..n /\ S # {}
    OBVIOUS
  <1>2. \E t \in S : t >= cur /\ \A i \in P : t >= when[i]
    <2> HIDE DEF S
    <2>1. PICK t \in S : \A y \in S : y <= t
      BY <1>1, Greatest
    <2>2. cur \in S /\ \A i \in P : when[i] \in S
      BY DEF S
    <2> QED BY <1>1, <2>1, <2>2
  <1>3. Latest(P, when, cur) = CHOOSE t \in S : t >= cur /\ \A i \in P : t >= when[i]
    BY DEF Latest
  <1> DEFINE l == Latest(P, when, cur)
  <1> HIDE DEF S
  <1>4. l \in S /\ l >= cur /\ \A i \in P : l >= when[i]
    BY <1>2, <1>3
  <1> HIDE DEF l
  <1>5. l \in 0..n
    BY <1>1, <1>4
  <1>6. l \in cur..n /\ \A i \in P : when[i] <= l
    BY <1>4, <1>5
  <1> QED BY <1>4, <1>6 DEF S, l

(* Where a query of Jira starts.                                            *)
LEMMA SinceBehind ==
  ASSUME NEW cur \in Nat, NEW zone \in Int
  PROVE  JiraSince(cur, zone) \in Int /\ (zone >= 0 => JiraSince(cur, zone) <= cur)
  <1>1. cur % Second \in 0 .. Second - 1
    BY FeedAssumption
  <1> QED BY <1>1, FeedAssumption DEF JiraSince

(* Every adapter returns items there are and a cursor of the present or      *)
(* before, and those that read in order leave no item between the old cursor  *)
(* and the new one.                                                         *)
LEMMA ReadsInOrder ==
  ASSUME NEW f \in Feed, NEW n \in Nat, NEW when \in [Item -> Nat], \A i \in Item : when[i] <= n,
         NEW cur \in 0..n, NEW r \in Reads(f, when, cur, n)
  PROVE  /\ r.items \in SUBSET Item
         /\ r.cursor \in 0..n
         /\ f.kind \in {"github", "calendar"} \/ (f.kind = "jira" /\ f.zone >= 0) =>
              \A i \in Item : when[i] # 0 /\ when[i] >= cur /\ when[i] < r.cursor => i \in r.items
  <1>1. \A S \in SUBSET Item : \A m : Pages(S, m) \subseteq SUBSET Item
    BY DEF Pages
  <1>2. \A S \in SUBSET Item : \A m : /\ OldestPages(S, when, m) \subseteq SUBSET Item
                                       /\ NewestPages(S, when, m) \subseteq SUBSET Item
    BY <1>1 DEF OldestPages, NewestPages
  <1>3. AtOrAfter(when, cur) \in SUBSET Item /\ After(when, cur) \in SUBSET Item
        /\ Existing(when) \in SUBSET Item
    BY DEF AtOrAfter, After, Existing
  <1>4. ASSUME NEW from \in Int, r \in IssueReads(when, from, cur, f.size)
        PROVE  /\ r.items \in SUBSET Item
               /\ r.cursor \in 0..n
               /\ from <= cur =>
                    \A i \in Item : when[i] # 0 /\ when[i] >= cur /\ when[i] < r.cursor => i \in r.items
    <2>1. PICK P \in OldestPages(AtOrAfter(when, from), when, f.size) :
            r = Read(P, Latest(P, when, cur))
      BY <1>4 DEF IssueReads
    <2>2. r.items = P /\ r.cursor = Latest(P, when, cur) /\ P \in SUBSET Item
      <3>1. AtOrAfter(when, from) \in SUBSET Item
        BY DEF AtOrAfter, Existing
      <3> QED BY <1>2, <2>1, <3>1 DEF Read
    <2>3. /\ r.cursor \in {cur} \cup {when[i] : i \in P}
          /\ r.cursor \in cur..n
      BY <2>2, LatestIsGreatest
    <2>4. \A i \in P, j \in AtOrAfter(when, from) \ P : when[i] <= when[j]
      BY <2>1 DEF OldestPages
    <2>5. ASSUME from <= cur, NEW i \in Item, when[i] # 0, when[i] >= cur, when[i] < r.cursor
          PROVE  i \in P
      <3>1. i \in AtOrAfter(when, from)
        BY <2>5 DEF AtOrAfter, Existing
      <3>2. SUFFICES ASSUME i \notin P PROVE FALSE
        OBVIOUS
      <3>3. r.cursor # cur
        BY <2>5
      <3>4. PICK j \in P : r.cursor = when[j]
        BY <2>3, <3>3
      <3>5. when[j] <= when[i]
        BY <2>4, <3>1, <3>2
      <3>6. when[i] \in Nat /\ when[j] \in Nat
        BY <2>2
      <3> QED BY <2>5, <3>4, <3>5, <3>6
    <2> QED BY <2>2, <2>3, <2>5
  <1>5. CASE f.kind = "calendar"
    <2>1. PICK P \in Pages(AtOrAfter(when, cur), f.size) :
            r = Read(P, IF P = AtOrAfter(when, cur) THEN n ELSE cur)
      BY <1>5 DEF Reads, CalendarReads
    <2>2. /\ r.items = P /\ P \in SUBSET Item
          /\ r.cursor = IF P = AtOrAfter(when, cur) THEN n ELSE cur
      BY <1>1, <1>3, <2>1 DEF Read
    <2>3. ASSUME NEW i \in Item, when[i] # 0, when[i] >= cur, when[i] < r.cursor PROVE i \in P
      <3>1. i \in AtOrAfter(when, cur)
        BY <2>3 DEF AtOrAfter, Existing
      <3>2. r.cursor # cur
        BY <2>3
      <3> QED BY <2>2, <3>1, <3>2
    <2> QED BY <2>2, <2>3
  <1>6. CASE f.kind = "gmail"
    <2>1. PICK P \in NewestPages(AtOrAfter(when, cur), when, f.size)
                     \cup OldestPages(AtOrAfter(when, cur), when, f.size) : r = Read(P, n)
      BY <1>6 DEF Reads, GmailReads
    <2>2. r.items = P /\ r.cursor = n /\ P \in SUBSET Item
      BY <1>2, <1>3, <2>1 DEF Read
    <2> QED BY <1>6, <2>2
  <1>7. CASE f.kind = "slack"
    <2>1. PICK P \in Pages(After(when, cur), f.size) : r = Read(P, Latest(P, when, cur))
      BY <1>7 DEF Reads, SlackReads
    <2>2. r.items = P /\ r.cursor = Latest(P, when, cur) /\ P \in SUBSET Item
      BY <1>1, <1>3, <2>1 DEF Read
    <2>3. r.cursor \in cur..n
      BY <2>2, LatestIsGreatest
    <2> QED BY <1>7, <2>2, <2>3
  <1>8. CASE f.kind = "notion"
    <2>1. PICK F \in OldestPages(Existing(when), when, f.size) :
            r = Read(F \cap After(when, cur), Latest(F \cap After(when, cur), when, cur))
      BY <1>8 DEF Reads, NotionReads
    <2> DEFINE P == F \cap After(when, cur)
    <2>2. r.items = P /\ r.cursor = Latest(P, when, cur) /\ P \in SUBSET Item
      BY <1>3, <2>1 DEF Read
    <2> HIDE DEF P
    <2>3. r.cursor \in cur..n
      BY <2>2, LatestIsGreatest
    <2> QED BY <1>8, <2>2, <2>3
  <1>9. CASE f.kind = "github"
    <2>1. r \in IssueReads(when, cur, cur, f.size)
      BY <1>9 DEF Reads
    <2> QED BY <1>4, <1>9, <2>1
  <1>10. CASE f.kind = "jira"
    <2>1. r \in IssueReads(when, JiraSince(cur, f.zone), cur, f.size)
      BY <1>10 DEF Reads
    <2>2. JiraSince(cur, f.zone) \in Int /\ (f.zone >= 0 => JiraSince(cur, f.zone) <= cur)
      BY SinceBehind DEF Feed
    <2> QED BY <1>4, <1>10, <2>1, <2>2
  <1> QED BY <1>5, <1>6, <1>7, <1>8, <1>9, <1>10 DEF Feed
-----------------------------------------------------------------------------
(* Turns and the use of the store. *)

Loop == {"persist", "store", "record"}
Busy == {"store", "record"}

(* The event loop: one synchronisation at a time has an answer in hand, and   *)
(* the store works for one that is at an item.                               *)
Turns ==
  /\ \A s, r \in Sync : sync[s].pc \in Loop /\ sync[r].pc \in Loop => s = r
  /\ \A s \in Sync : sync[s].pc \in Busy => sync[s].at \in Fetched /\ ~sync[s].at.gone
  /\ writer.pc = "idle" => writer = WriterIdle
  /\ writer.pc # "idle" => \E s \in Sync : sync[s].pc \in Busy
  /\ \A s \in Sync : sync[s].pc = "record" => writer.pc \in {"idle", "done"}

Times ==
  /\ \A i \in Item : stamp[i] <= now
  /\ cursor <= now
  /\ \A s \in Sync : sync[s].cur <= now /\ sync[s].next <= now

SyncInv == SyncTypeOK /\ StoreInv /\ Turns /\ Times

(* One synchronisation moves on. *)
LEMMA SetOne ==
  ASSUME SyncTypeOK, NEW s \in Sync, NEW r, sync' = [sync EXCEPT ![s] = r]
  PROVE  /\ sync'[s] = r /\ \A q \in Sync : q # s => sync'[q] = sync[q]
         /\ r \in SyncLocals => sync' \in [Sync -> SyncLocals]
  BY DEF SyncTypeOK

LEMMA SyncIdleTypes ==
  SyncIdle \in SyncLocals /\ SyncIdle.pc = "idle" /\ SyncIdle.cur = 0 /\ SyncIdle.next = 0
  BY DEF SyncIdle, SyncLocals, SyncPhase

LEMMA ItemTypes ==
  ASSUME SyncTypeOK, NEW i \in Item, item[i] # None
  PROVE  item[i] \in ItemRecord /\ item[i].doc \in Doc \cup {None}
  BY DEF SyncTypeOK, ItemRecord

(* The store is idle while a synchronisation looks at its page.              *)
LEMMA PersistIdle ==
  ASSUME Turns, NEW s \in Sync, sync[s].pc = "persist"
  PROVE  writer = WriterIdle
  <1>1. \A r \in Sync : sync[r].pc \in Busy => r = s
    BY DEF Turns, Loop, Busy
  <1>2. sync[s].pc \notin Busy
    BY DEF Busy
  <1> QED BY <1>1, <1>2 DEF Turns

(* Every step of a synchronisation is one of the store, or none of it.       *)
LEMMA UseStep ==
  ASSUME SyncTypeOK, Turns, [SyncNext]_syncVars
  PROVE  [StoreNext]_storeVars
  <1>1. CASE UNCHANGED storeVars
    BY <1>1
  <1>2. CASE \/ UNCHANGED syncVars
             \/ \E i \in Item : Change(i)
             \/ \E s \in Sync : \/ BeginSync(s) \/ Fetch(s) \/ FetchFails(s) \/ Receive(s)
                                \/ StoreReturns(s) \/ CompleteSync(s)
    <2>1. UNCHANGED storeVars
      BY <1>2 DEF syncVars, Change, BeginSync, Fetch, FetchFails, Receive, StoreReturns, CompleteSync
    <2> QED BY <2>1
  <1>3. ASSUME NEW s \in Sync, Persist(s) PROVE [StoreNext]_storeVars
    <2>1. PICK x \in sync[s].page : RecordDeletion(s, x) \/ PassUnchanged(s, x) \/ StoreItem(s, x)
      BY <1>3 DEF Persist
    <2>2. x \in Fetched
      BY DEF SyncTypeOK, SyncLocals
    <2>3. x.content \in Content /\ x.id \in Item
      BY <2>2 DEF Fetched
    <2>4. CASE RecordDeletion(s, x) \/ PassUnchanged(s, x)
      BY <2>4 DEF RecordDeletion, PassUnchanged
    <2>5. CASE StoreItem(s, x)
      <3>1. CASE RefuseWrite
        BY <3>1 DEF StoreNext
      <3>2. CASE \E d \in Doc : StartIngest(d, x.content)
        BY <2>3, <3>2 DEF StoreNext
      <3>3. CASE StoredDoc(x) # None /\ StartReplace(StoredDoc(x), x.content)
        <4>1. StoredDoc(x) \in Doc
          BY <2>3, <3>3, ItemTypes DEF StoredDoc
        <4> QED BY <2>3, <3>3, <4>1 DEF StoreNext
      <3> QED BY <2>5, <3>1, <3>2, <3>3 DEF StoreItem
    <2> QED BY <2>1, <2>4, <2>5
  <1>4. ASSUME NEW s \in Sync, RecordItem(s) \/ FailSync(s) PROVE [StoreNext]_storeVars
    <2>1. writer.pc \in {"idle", "done", "failed"}
      <3>1. sync[s].pc = "persist" => writer.pc = "idle"
        BY PersistIdle DEF WriterIdle
      <3> QED BY <1>4, <3>1 DEF RecordItem, FailSync, At, WriterAt, Turns
    <2>2. writer' = WriterIdle /\ UNCHANGED <<tableVars, object, op>>
      BY <1>4 DEF RecordItem, FailSync, tableVars
    <2>3. CASE writer.pc = "idle"
      <3>1. UNCHANGED storeVars
        BY <2>2, <2>3 DEF Turns, storeVars, tableVars
      <3> QED BY <3>1
    <2>4. CASE writer.pc \in {"done", "failed"}
      <3>1. WriterReturn
        BY <2>2, <2>4 DEF WriterReturn
      <3> QED BY <3>1 DEF StoreNext
    <2> QED BY <2>1, <2>3, <2>4
  <1>5. CASE \E u \in User : BeginCall(u) \/ DeleteDocument(u)
    BY <1>5 DEF BeginCall, DeleteDocument, StoreNext
  <1>6. CASE StoreWorks
    BY <1>6 DEF StoreWorks, StoreNext
  <1>7. CASE Crash
    BY <1>7 DEF Crash, StoreNext
  <1> QED BY <1>2, <1>3, <1>4, <1>5, <1>6, <1>7 DEF SyncNext, SyncStep

LEMMA MoveTurns ==
  ASSUME SyncTypeOK, Turns, NEW s \in Sync, NEW r \in SyncLocals, sync' = [sync EXCEPT ![s] = r],
         r.pc \in Loop => sync[s].pc \in Loop \/ LoopFree,
         r.pc \in Busy => r.at \in Fetched /\ ~r.at.gone,
         writer'.pc = "idle" => writer' = WriterIdle,
         writer'.pc # "idle" => r.pc \in Busy \/ (sync[s].pc \notin Busy /\ writer.pc # "idle"),
         writer' = writer \/ sync[s].pc \in Loop,
         r.pc = "record" => writer'.pc \in {"idle", "done"}
  PROVE  Turns'
  <1>1. sync'[s] = r /\ \A q \in Sync : q # s => sync'[q] = sync[q]
    BY SetOne
  <1>2. ASSUME NEW q \in Sync, NEW p \in Sync, sync'[q].pc \in Loop, sync'[p].pc \in Loop
        PROVE  q = p
    <2>1. LoopFree => \A x \in Sync : sync[x].pc \notin Loop
      BY DEF LoopFree, Loop
    <2>2. \A x \in Sync : x # s /\ sync'[x].pc \in Loop => r.pc \notin Loop
      BY <1>1, <2>1 DEF Turns
    <2>3. CASE q # s /\ p # s
      BY <1>1, <1>2, <2>3 DEF Turns
    <2> QED BY <1>1, <1>2, <2>2, <2>3
  <1>3. \A q \in Sync : sync'[q].pc \in Busy => sync'[q].at \in Fetched /\ ~sync'[q].at.gone
    BY <1>1 DEF Turns
  <1>4. writer'.pc # "idle" => \E q \in Sync : sync'[q].pc \in Busy
    BY <1>1 DEF Turns
  <1>5. \A q \in Sync : sync'[q].pc = "record" => writer'.pc \in {"idle", "done"}
    BY <1>1 DEF Turns, Loop
  <1> QED BY <1>2, <1>3, <1>4, <1>5 DEF Turns

(* The store moves on, no synchronisation does.                              *)
LEMMA WorkTurns ==
  ASSUME Turns, UNCHANGED sync,
         \/ UNCHANGED writer
         \/ /\ writer.pc \notin {"idle", "done"}
            /\ writer'.pc # "idle"
         \/ /\ writer'.pc = writer.pc /\ writer.pc # "idle"
  PROVE  Turns'
  BY DEF Turns

(* The types of what a step of the provider or of a synchronisation leaves    *)
(* when it writes neither items nor history.                                *)
LEMMA LocalTypes ==
  ASSUME SyncInv, StoreTypeOK', NEW s \in Sync, NEW r \in SyncLocals,
         sync' = [sync EXCEPT ![s] = r], r.cur <= now, r.next <= now,
         UNCHANGED <<feed, providerVars>>, left' \in [Event -> Nat],
         cursor' \in Nat, cursor' <= now, status' \in {"idle", "running", "completed", "failed"},
         item' \in [Item -> ItemRecord \cup {None}],
         torn' \in SUBSET Item, stray' \in SUBSET Doc, regressed' \in BOOLEAN
  PROVE  SyncTypeOK' /\ Times'
  <1>1. /\ sync' \in [Sync -> SyncLocals]
        /\ sync'[s] = r /\ \A q \in Sync : q # s => sync'[q] = sync[q]
    BY SetOne DEF SyncInv
  <1>2. SyncTypeOK'
    BY <1>1 DEF SyncInv, SyncTypeOK, providerVars
  <1>3. Times'
    BY <1>1 DEF SyncInv, Times, providerVars
  <1> QED BY <1>2, <1>3

LEMMA SpendTypes ==
  ASSUME SyncTypeOK, NEW e \in Event, Spend(e)
  PROVE  left' \in [Event -> Nat]
  BY DEF SyncTypeOK, Spend

LEMMA SyncInitInv == SyncInit => SyncInv
  <1> SUFFICES ASSUME SyncInit PROVE SyncInv
    OBVIOUS
  <1>1. StoreInv
    BY InitInv DEF SyncInit
  <1>2. SyncTypeOK
    BY <1>1, SyncIdleTypes, SyncAssumption DEF SyncInit, SyncTypeOK, StoreInv
  <1>3. Turns
    BY SyncIdleTypes DEF SyncInit, Turns, StoreInit, WriterIdle, Loop, Busy
  <1>4. Times
    BY SyncIdleTypes DEF SyncInit, Times
  <1> QED BY <1>1, <1>2, <1>3, <1>4 DEF SyncInv

LEMMA ChangeStep ==
  ASSUME SyncInv, StoreTypeOK', NEW i \in Item, Change(i)
  PROVE  SyncTypeOK' /\ Turns' /\ Times'
  <1>1. left' \in [Event -> Nat]
    BY SpendTypes DEF Change, SyncInv, Event
  <1>2. PICK t \in {now, now + 1} : now' = t /\ stamp' = [stamp EXCEPT ![i] = t]
    BY DEF Change
  <1>3. /\ UNCHANGED <<storeVars, feed, stateVars, item, sync, historyVars>>
        /\ content' \in [Item -> Content] /\ gone' \in SUBSET Item
    BY DEF Change, SyncInv, SyncTypeOK
  <1>4. t \in Nat /\ t >= now /\ now \in Nat /\ stamp \in [Item -> Nat]
    BY <1>2 DEF SyncInv, SyncTypeOK
  <1>5. stamp' \in [Item -> Nat] /\ \A j \in Item : stamp'[j] = IF j = i THEN t ELSE stamp[j]
    BY <1>2, <1>4
  <1>6. SyncTypeOK'
    BY <1>1, <1>2, <1>3, <1>4, <1>5 DEF SyncInv, SyncTypeOK, stateVars, historyVars
  <1>7. Turns'
    BY <1>3 DEF SyncInv, Turns, storeVars
  <1>8. Times'
    <2>1. \A j \in Item : stamp'[j] <= now'
      BY <1>2, <1>4, <1>5 DEF SyncInv, Times
    <2>2. \A m \in Nat : m <= now => m <= now'
      BY <1>2, <1>4
    <2>3. cursor' <= now'
      BY <1>3, <2>2 DEF SyncInv, SyncTypeOK, Times, stateVars
    <2>4. ASSUME NEW q \in Sync PROVE sync'[q].cur <= now' /\ sync'[q].next <= now'
      <3>1. sync[q].cur \in Nat /\ sync[q].next \in Nat
        BY DEF SyncInv, SyncTypeOK, SyncLocals
      <3> QED BY <1>3, <2>2, <3>1 DEF SyncInv, Times
    <2> QED BY <2>1, <2>3, <2>4 DEF Times
  <1> QED BY <1>6, <1>7, <1>8

LEMMA BeginStep ==
  ASSUME SyncInv, StoreTypeOK', NEW s \in Sync, BeginSync(s)
  PROVE  SyncTypeOK' /\ Turns' /\ Times'
  <1> DEFINE r == [SyncIdle EXCEPT !.pc = "reading", !.cur = cursor]
  <1>1. cursor \in Nat /\ cursor <= now /\ now \in Nat
    BY DEF SyncInv, SyncTypeOK, Times
  <1>2. r \in SyncLocals /\ r.pc = "reading" /\ r.cur = cursor /\ r.next = 0
    BY <1>1 DEF SyncIdle, SyncLocals, SyncPhase
  <1>3. /\ sync' = [sync EXCEPT ![s] = r] /\ sync[s].pc = "idle" /\ status' = "running"
        /\ UNCHANGED <<storeVars, feed, providerVars, cursor, item, historyVars>>
    BY DEF BeginSync, Set, At
  <1>4. left' \in [Event -> Nat]
    BY SpendTypes DEF BeginSync, SyncInv, Event
  <1> HIDE DEF r
  <1>5. SyncTypeOK' /\ Times'
    <2>1. r.cur <= now /\ r.next <= now /\ cursor' \in Nat /\ cursor' <= now
      BY <1>1, <1>2, <1>3
    <2>2. /\ item' \in [Item -> ItemRecord \cup {None}] /\ torn' \in SUBSET Item
          /\ stray' \in SUBSET Doc /\ regressed' \in BOOLEAN
      BY <1>3 DEF SyncInv, SyncTypeOK, historyVars
    <2> QED BY <1>2, <1>3, <1>4, <2>1, <2>2, LocalTypes
  <1>6. Turns'
    BY <1>2, <1>3, MoveTurns DEF SyncInv, Turns, storeVars, Loop, Busy
  <1> QED BY <1>5, <1>6

LEMMA ListedTimes ==
  ASSUME NEW n \in Nat, NEW f \in Feed, NEW when \in [Item -> Nat], \A i \in Item : when[i] <= n, NEW S
  PROVE  Listed(f, when, S) \in [Item -> Nat] /\ \A i \in Item : Listed(f, when, S)[i] <= n
  BY DEF Listed

(* What an answer leaves in the locals of its synchronisation.               *)
LEMMA FetchLocals ==
  ASSUME SyncInv, NEW s \in Sync, Fetch(s)
  PROVE  \E r \in Reads(feed, Listed(feed, stamp, gone), sync[s].cur, now), l \in SyncLocals :
           /\ sync' = [sync EXCEPT ![s] = l]
           /\ r.items \in SUBSET Item /\ r.cursor \in 0..now
           /\ l.pc = "fetched" /\ l.cur = sync[s].cur /\ l.next = r.cursor
           /\ l.page = {[id |-> i, content |-> content[i], gone |-> i \in gone] : i \in r.items}
  <1>1. PICK r \in Reads(feed, Listed(feed, stamp, gone), sync[s].cur, now) :
          sync' = [sync EXCEPT ![s] = [sync[s] EXCEPT
                     !.pc = "fetched", !.next = r.cursor,
                     !.page = {[id |-> i, content |-> content[i], gone |-> i \in gone] : i \in r.items}]]
    BY DEF Fetch, Set
  <1>2. /\ feed \in Feed /\ stamp \in [Item -> Nat] /\ now \in Nat /\ content \in [Item -> Content]
        /\ sync[s] \in SyncLocals
    BY SyncAssumption DEF SyncInv, SyncTypeOK
  <1>3. sync[s].cur \in 0..now /\ \A i \in Item : stamp[i] <= now
    BY <1>2 DEF SyncInv, Times, SyncLocals
  <1>4. r.items \in SUBSET Item /\ r.cursor \in 0..now
    BY <1>2, <1>3, ListedTimes, ReadsInOrder
  <1> DEFINE page == {[id |-> i, content |-> content[i], gone |-> i \in gone] : i \in r.items}
             l == [sync[s] EXCEPT !.pc = "fetched", !.next = r.cursor, !.page = page]
  <1>5. page \in SUBSET Fetched
    <2>1. ASSUME NEW i \in Item
          PROVE  [id |-> i, content |-> content[i], gone |-> i \in gone] \in Fetched
      <3>1. (i \in gone) \in BOOLEAN /\ content[i] \in Content
        BY <1>2
      <3> QED BY <3>1 DEF Fetched
    <2> QED BY <1>4, <2>1
  <1> HIDE DEF page
  <1>6. l \in SyncLocals /\ l.pc = "fetched" /\ l.cur = sync[s].cur /\ l.next = r.cursor /\ l.page = page
    <2>1. r.cursor \in Nat /\ "fetched" \in SyncPhase
      BY <1>2, <1>4 DEF SyncPhase
    <2> DEFINE n == r.cursor
    <2> HIDE DEF n
    <2>2. [sync[s] EXCEPT !.pc = "fetched", !.next = n, !.page = page] \in SyncLocals
      BY <1>2, <1>5, <2>1 DEF SyncLocals, n
    <2> QED BY <1>2, <2>2 DEF SyncLocals, n
  <1>7. sync' = [sync EXCEPT ![s] = l]
    BY <1>1 DEF page
  <1> HIDE DEF l
  <1> QED BY <1>4, <1>6, <1>7 DEF page

LEMMA FetchStep ==
  ASSUME SyncInv, StoreTypeOK', NEW s \in Sync, Fetch(s)
  PROVE  SyncTypeOK' /\ Turns' /\ Times'
  <1>1. PICK l \in SyncLocals :
          /\ sync' = [sync EXCEPT ![s] = l] /\ l.pc = "fetched" /\ l.cur = sync[s].cur /\ l.next \in 0..now
    BY FetchLocals
  <1>2. /\ UNCHANGED <<storeVars, feed, left, providerVars, stateVars, item, historyVars>>
        /\ sync[s].pc = "reading"
    BY DEF Fetch, At
  <1>3. sync[s].cur <= now /\ l.next <= now /\ now \in Nat
    BY <1>1 DEF SyncInv, Times, SyncTypeOK
  <1>4. SyncTypeOK' /\ Times'
    BY <1>1, <1>2, <1>3, LocalTypes DEF SyncInv, SyncTypeOK, Times, stateVars, historyVars
  <1>5. Turns'
    BY <1>1, <1>2, MoveTurns DEF SyncInv, Turns, storeVars, Loop, Busy
  <1> QED BY <1>4, <1>5

(* A step that only lets a synchronisation go on, or ends it.                *)
LEMMA GoStep ==
  ASSUME SyncInv, StoreTypeOK', NEW s \in Sync, FetchFails(s) \/ Receive(s) \/ StoreReturns(s)
  PROVE  SyncTypeOK' /\ Turns' /\ Times'
  <1>1. sync[s] \in SyncLocals /\ sync[s].cur <= now /\ sync[s].next <= now
    BY DEF SyncInv, SyncTypeOK, Times
  <1>2. /\ UNCHANGED <<storeVars, feed, left, providerVars, cursor, item, historyVars>>
        /\ status' \in {"idle", "running", "completed", "failed"}
    BY DEF FetchFails, Receive, StoreReturns, stateVars, SyncInv, SyncTypeOK
  <1>3. /\ left' \in [Event -> Nat] /\ cursor' \in Nat /\ cursor' <= now /\ 0 <= now
        /\ item' \in [Item -> ItemRecord \cup {None}] /\ torn' \in SUBSET Item
        /\ stray' \in SUBSET Doc /\ regressed' \in BOOLEAN
    BY <1>2 DEF SyncInv, SyncTypeOK, Times, historyVars
  <1>4. writer' = writer
    BY <1>2 DEF storeVars
  <1>5. CASE FetchFails(s)
    <2>1. sync' = [sync EXCEPT ![s] = SyncIdle] /\ sync[s].pc = "reading"
      BY <1>5 DEF FetchFails, Set, At
    <2>2. SyncTypeOK' /\ Times'
      BY <1>2, <1>3, <2>1, SyncIdleTypes, LocalTypes
    <2>3. Turns'
      BY <1>4, <2>1, SyncIdleTypes, MoveTurns DEF SyncInv, Turns, Loop, Busy
    <2> QED BY <2>2, <2>3
  <1>6. ASSUME NEW p \in {"persist", "record"}, Go(s, p), p = "persist" => LoopFree /\ At(s, "fetched"),
               p = "record" => At(s, "store") /\ WriterAt("done")
        PROVE  SyncTypeOK' /\ Turns' /\ Times'
    <2> DEFINE r == [sync[s] EXCEPT !.pc = p]
    <2>1. /\ r \in SyncLocals /\ r.pc = p /\ r.at = sync[s].at /\ r.cur = sync[s].cur
          /\ r.next = sync[s].next
      BY <1>1 DEF SyncLocals, SyncPhase
    <2>2. sync' = [sync EXCEPT ![s] = r]
      BY <1>6 DEF Go, Set
    <2> HIDE DEF r
    <2>3. SyncTypeOK' /\ Times'
      BY <1>1, <1>2, <1>3, <2>1, <2>2, LocalTypes
    <2>4. writer'.pc = "idle" => writer' = WriterIdle
      BY <1>4 DEF SyncInv, Turns
    <2>5. CASE p = "persist"
      <3>1. r.pc \notin Busy /\ sync[s].pc \notin Busy /\ LoopFree
        BY <1>6, <2>1, <2>5 DEF Busy, At
      <3> QED BY <1>4, <2>1, <2>2, <2>3, <2>4, <2>5, <3>1, MoveTurns DEF SyncInv
    <2>6. CASE p = "record"
      <3>1. r.pc \in Busy /\ sync[s].pc \in Loop /\ writer'.pc = "done"
        BY <1>4, <1>6, <2>1, <2>6 DEF Busy, Loop, At, WriterAt
      <3>2. r.at \in Fetched /\ ~r.at.gone
        BY <1>6, <2>1, <2>6 DEF SyncInv, Turns, At, Busy
      <3> QED BY <1>4, <2>1, <2>2, <2>3, <2>4, <3>1, <3>2, MoveTurns DEF SyncInv
    <2> QED BY <2>3, <2>5, <2>6
  <1> QED BY <1>5, <1>6 DEF Receive, StoreReturns

LEMMA PersistStep ==
  ASSUME SyncInv, StoreTypeOK', NEW s \in Sync, Persist(s)
  PROVE  SyncTypeOK' /\ Turns' /\ Times'
  <1>1. PICK x \in sync[s].page : RecordDeletion(s, x) \/ PassUnchanged(s, x) \/ StoreItem(s, x)
    BY DEF Persist
  <1>2. /\ sync[s] \in SyncLocals /\ sync[s].cur <= now /\ sync[s].next <= now
        /\ sync[s].pc = "persist" /\ sync[s].page \in SUBSET Fetched
    BY DEF SyncInv, SyncTypeOK, Times, Persist, At, SyncLocals
  <1>3. x \in Fetched /\ x.id \in Item /\ x.content \in Content
    BY <1>2 DEF Fetched
  <1>4. /\ UNCHANGED <<feed, left, providerVars, stateVars, torn, stray>>
        /\ regressed' \in BOOLEAN
    BY <1>2 DEF Persist, Stale, SyncInv, SyncTypeOK, SyncLocals
  <1>5. /\ left' \in [Event -> Nat] /\ cursor' \in Nat /\ cursor' <= now
        /\ status' \in {"idle", "running", "completed", "failed"}
        /\ torn' \in SUBSET Item /\ stray' \in SUBSET Doc
    BY <1>4 DEF SyncInv, SyncTypeOK, Times, stateVars
  <1>6. writer = WriterIdle
    BY <1>2, PersistIdle DEF SyncInv
  <1>7. item \in [Item -> ItemRecord \cup {None}]
    BY DEF SyncInv, SyncTypeOK
  <1>8. CASE RecordDeletion(s, x)
    <2> DEFINE r == [sync[s] EXCEPT !.page = Rest(s, x)]
               t == IF item[x.id] = None THEN [content |-> x.content, doc |-> None, gone |-> TRUE]
                    ELSE [item[x.id] EXCEPT !.gone = TRUE]
    <2>1. /\ r \in SyncLocals /\ r.pc = "persist" /\ r.cur = sync[s].cur /\ r.next = sync[s].next
      BY <1>2 DEF SyncLocals, Rest
    <2>2. t \in ItemRecord
      BY <1>3, <1>7 DEF ItemRecord
    <2>3. sync' = [sync EXCEPT ![s] = r] /\ item' = [item EXCEPT ![x.id] = t] /\ writer' = writer
      BY <1>8 DEF RecordDeletion, Set, storeVars
    <2> HIDE DEF r, t
    <2>4. item' \in [Item -> ItemRecord \cup {None}]
      BY <1>3, <1>7, <2>2, <2>3
    <2>5. SyncTypeOK' /\ Times'
      BY <1>2, <1>4, <1>5, <2>1, <2>3, <2>4, LocalTypes
    <2>6. Turns'
      BY <1>2, <1>6, <2>1, <2>3, Idle, MoveTurns DEF SyncInv, Turns, Loop, Busy
    <2> QED BY <2>5, <2>6
  <1>9. ASSUME NEW p \in {"record", "store"}, ~x.gone, UNCHANGED item,
               Set(s, [sync[s] EXCEPT !.pc = p, !.page = Rest(s, x), !.at = x, !.doc = StoredDoc(x)]),
               p = "record" => writer' = WriterIdle,
               writer' = WriterIdle \/ writer'.pc # "idle"
        PROVE  SyncTypeOK' /\ Turns' /\ Times'
    <2> DEFINE r == [sync[s] EXCEPT !.pc = p, !.page = Rest(s, x), !.at = x, !.doc = StoredDoc(x)]
    <2>1. /\ r \in SyncLocals /\ r.pc = p /\ r.cur = sync[s].cur /\ r.next = sync[s].next /\ r.at = x
      <3>1. StoredDoc(x) \in Doc \cup {None}
        BY <1>3, ItemTypes DEF StoredDoc, SyncInv
      <3> QED BY <1>2, <1>3, <3>1 DEF SyncLocals, SyncPhase, Rest
    <2>2. sync' = [sync EXCEPT ![s] = r]
      BY <1>9 DEF Set
    <2> HIDE DEF r
    <2>3. SyncTypeOK' /\ Times'
      BY <1>2, <1>4, <1>5, <1>7, <1>9, <2>1, <2>2, LocalTypes
    <2>4. r.pc \in Busy /\ sync[s].pc \in Loop /\ r.at \in Fetched /\ ~r.at.gone
      BY <1>2, <1>3, <1>9, <2>1 DEF Busy, Loop
    <2>5. /\ writer'.pc = "idle" => writer' = WriterIdle
          /\ r.pc = "record" => writer'.pc \in {"idle", "done"}
      BY <1>9, <2>1, Idle
    <2>6. Turns'
      <3>1. SyncTypeOK /\ Turns /\ r \in SyncLocals
        BY <2>1 DEF SyncInv
      <3>2. r.pc = "record" => writer'.pc \in {"idle", "done"}
        BY <2>5
      <3>3. r.pc \in Loop => sync[s].pc \in Loop \/ LoopFree
        BY <2>4
      <3>4. writer'.pc = "idle" => writer' = WriterIdle
        BY <2>5
      <3>5. /\ r.pc \in Busy => r.at \in Fetched /\ ~r.at.gone
            /\ writer'.pc # "idle" => r.pc \in Busy \/ (sync[s].pc \notin Busy /\ writer.pc # "idle")
            /\ writer' = writer \/ sync[s].pc \in Loop
        BY <2>4
      <3> QED BY <2>2, <3>1, <3>2, <3>3, <3>4, <3>5, MoveTurns, Zenon
    <2> QED BY <2>3, <2>6
  <1>10. CASE PassUnchanged(s, x)
    BY <1>6, <1>9, <1>10 DEF PassUnchanged, Take, storeVars
  <1>11. CASE StoreItem(s, x)
    <2>1. writer'.pc \in {"put", "failed"}
      BY <1>11 DEF StoreItem, StartIngest, StartReplace, RefuseWrite, WriterIdle
    <2> QED BY <1>9, <1>11, <2>1 DEF StoreItem, Take
  <1> QED BY <1>1, <1>8, <1>10, <1>11

LEMMA RecordStep ==
  ASSUME SyncInv, StoreTypeOK', NEW s \in Sync, RecordItem(s)
  PROVE  SyncTypeOK' /\ Turns' /\ Times'
  <1> DEFINE x == sync[s].at
             t == [content |-> x.content, doc |-> DocumentOf(s), gone |-> FALSE]
             r == [sync[s] EXCEPT !.pc = "persist", !.at = None, !.doc = None]
  <1>1. /\ sync[s] \in SyncLocals /\ sync[s].cur <= now /\ sync[s].next <= now
        /\ sync[s].pc = "record" /\ x \in Fetched
    BY DEF SyncInv, SyncTypeOK, Times, RecordItem, At, Turns, Busy
  <1>2. x.id \in Item /\ x.content \in Content
    BY <1>1 DEF Fetched
  <1>3. /\ UNCHANGED <<feed, left, providerVars, stateVars, stray, regressed>>
        /\ writer' = WriterIdle
        /\ sync' = [sync EXCEPT ![s] = r] /\ item' = [item EXCEPT ![x.id] = t]
        /\ torn' \in {torn, torn \ {x.id}}
    BY DEF RecordItem, Set
  <1>4. DocumentOf(s) \in Doc \cup {None}
    BY <1>1 DEF SyncInv, SyncTypeOK, SyncLocals, StoreTypeOK, WriterLocals, DocumentOf
  <1>5. t \in ItemRecord
    BY <1>2, <1>4 DEF ItemRecord
  <1>6. r \in SyncLocals /\ r.pc = "persist" /\ r.cur = sync[s].cur /\ r.next = sync[s].next
    BY <1>1 DEF SyncLocals, SyncPhase
  <1> HIDE DEF t, r
  <1>7. item' \in [Item -> ItemRecord \cup {None}]
    BY <1>2, <1>3, <1>5 DEF SyncInv, SyncTypeOK
  <1>8. /\ left' \in [Event -> Nat] /\ cursor' \in Nat /\ cursor' <= now
        /\ status' \in {"idle", "running", "completed", "failed"}
        /\ torn' \in SUBSET Item /\ stray' \in SUBSET Doc /\ regressed' \in BOOLEAN
    BY <1>3 DEF SyncInv, SyncTypeOK, Times, stateVars
  <1>9. SyncTypeOK' /\ Times'
    BY <1>1, <1>3, <1>6, <1>7, <1>8, LocalTypes
  <1>10. Turns'
    BY <1>1, <1>3, <1>6, Idle, MoveTurns DEF SyncInv, Loop, Busy
  <1> QED BY <1>9, <1>10

(* A synchronisation that fails, and all of them when the process dies,      *)
(* leave what they were storing half stored.                                *)
LEMMA TearTypes ==
  ASSUME SyncInv, NEW S \in SUBSET Sync, Tear(S)
  PROVE  torn' \in SUBSET Item /\ stray' \in SUBSET Doc
  <1>1. /\ \A s \in Sync : sync[s].pc \in {"store", "record"} => sync[s].at.id \in Item
        /\ writer.doc \in Doc \cup {None} /\ torn \in SUBSET Item /\ stray \in SUBSET Doc
    BY DEF SyncInv, Turns, Busy, Fetched, SyncTypeOK, StoreTypeOK, WriterLocals
  <1> QED BY <1>1 DEF Tear

LEMMA FailStep ==
  ASSUME SyncInv, StoreTypeOK', NEW s \in Sync, FailSync(s)
  PROVE  SyncTypeOK' /\ Turns' /\ Times'
  <1>1. /\ sync' = [sync EXCEPT ![s] = SyncIdle] /\ writer' = WriterIdle /\ Tear({s})
        /\ status' = "failed" /\ sync[s].pc \in {"persist", "store", "record"}
        /\ UNCHANGED <<feed, left, providerVars, cursor, item, regressed>>
    BY DEF FailSync, Set, At
  <1>2. torn' \in SUBSET Item /\ stray' \in SUBSET Doc
    BY <1>1, TearTypes
  <1>3. /\ left' \in [Event -> Nat] /\ cursor' \in Nat /\ cursor' <= now /\ 0 <= now
        /\ item' \in [Item -> ItemRecord \cup {None}] /\ regressed' \in BOOLEAN
    BY <1>1 DEF SyncInv, SyncTypeOK, Times
  <1>4. SyncTypeOK' /\ Times'
    BY <1>1, <1>2, <1>3, SyncIdleTypes, LocalTypes
  <1>5. Turns'
    <2>1. sync[s].pc \in Loop /\ SyncIdle.pc \notin Loop /\ SyncIdle.pc \notin Busy
      BY <1>1, SyncIdleTypes DEF Loop, Busy
    <2> QED BY <1>1, <2>1, Idle, SyncIdleTypes, MoveTurns DEF SyncInv
  <1> QED BY <1>4, <1>5

LEMMA CompleteStep ==
  ASSUME SyncInv, StoreTypeOK', NEW s \in Sync, CompleteSync(s)
  PROVE  SyncTypeOK' /\ Turns' /\ Times'
  <1>1. /\ sync[s].pc = "persist" /\ cursor' = sync[s].next /\ status' = "completed"
        /\ UNCHANGED <<storeVars, feed, left, providerVars, item, historyVars>>
        /\ sync' = [r \in Sync |->
                      IF r = s THEN SyncIdle
                      ELSE IF sync[r].pc \in {"reading", "fetched"}
                           THEN [sync[r] EXCEPT !.overtaken = TRUE] ELSE sync[r]]
    BY DEF CompleteSync, At
  <1>2. sync \in [Sync -> SyncLocals]
    BY DEF SyncInv, SyncTypeOK
  <1>3. ASSUME NEW r \in Sync, r # s
        PROVE  /\ sync'[r] \in SyncLocals /\ sync'[r].pc = sync[r].pc /\ sync'[r].at = sync[r].at
               /\ sync'[r].cur = sync[r].cur /\ sync'[r].next = sync[r].next
    BY <1>1, <1>2, <1>3 DEF SyncLocals
  <1>4. sync'[s] = SyncIdle
    BY <1>1
  <1>5. sync' \in [Sync -> SyncLocals]
    <2>1. \A r \in Sync : sync'[r] \in SyncLocals
      BY <1>3, <1>4, SyncIdleTypes
    <2> QED BY <1>1, <2>1
  <1>6. writer = WriterIdle /\ writer' = WriterIdle
    BY <1>1, PersistIdle DEF SyncInv, storeVars
  <1>7. SyncTypeOK'
    BY <1>1, <1>2, <1>5 DEF SyncInv, SyncTypeOK, SyncLocals, providerVars, historyVars
  <1>8. Turns'
    <2>1. \A r \in Sync : sync'[r].pc \in Loop => FALSE
      BY <1>1, <1>3, <1>4, SyncIdleTypes DEF SyncInv, Turns, Loop
    <2> QED BY <1>6, <2>1, Idle DEF Turns, Loop, Busy
  <1>9. Times'
    <2>1. \A i \in Item : stamp'[i] <= now'
      BY <1>1 DEF SyncInv, Times, providerVars
    <2>2. now' = now /\ cursor' <= now /\ 0 <= now
      BY <1>1 DEF SyncInv, SyncTypeOK, Times, providerVars
    <2>3. \A r \in Sync : sync'[r].cur <= now /\ sync'[r].next <= now
      BY <1>3, <1>4, <2>2, SyncIdleTypes DEF SyncInv, Times
    <2> QED BY <2>1, <2>2, <2>3 DEF Times
  <1> QED BY <1>7, <1>8, <1>9

-----------------------------------------------------------------------------
(* What runs beside the synchronisations. *)

LEMMA DeleteStep ==
  ASSUME SyncInv, StoreTypeOK', NEW u \in User, DeleteDocument(u)
  PROVE  SyncTypeOK' /\ Turns' /\ Times'
  <1>1. /\ UNCHANGED <<feed, left, providerVars, stateVars, sync, historyVars, writer>>
        /\ item' = [i \in Item |->
                      IF item[i] # None /\ item[i].doc = op[u].doc
                      THEN [item[i] EXCEPT !.doc = None] ELSE item[i]]
    BY DEF DeleteDocument, DeleteRow
  <1>2. item \in [Item -> ItemRecord \cup {None}]
    BY DEF SyncInv, SyncTypeOK
  <1>3. \A i \in Item : item'[i] \in ItemRecord \cup {None}
    BY <1>1, <1>2 DEF ItemRecord
  <1>4. item' \in [Item -> ItemRecord \cup {None}]
    BY <1>1, <1>3
  <1> QED BY <1>1, <1>4 DEF SyncInv, SyncTypeOK, Turns, Times, providerVars, stateVars, historyVars

(* The steps of the store that no synchronisation takes.                    *)
LEMMA WorkWriter ==
  ASSUME SyncInv, StoreWorks
  PROVE  \/ UNCHANGED writer
         \/ /\ writer.pc \in {"put", "open", "commit", "discard", "drop"}
            /\ writer'.pc # "idle"
  <1>1. writer \in WriterLocals
    BY DEF SyncInv, SyncTypeOK, StoreTypeOK
  <1>2. CASE WriterStep
    <2>1. writer.pc \in {"put", "open", "commit", "discard", "drop"}
      BY <1>2 DEF WriterStep, PutFile, OpenReplace, CommitWrite, DiscardFile, DropReplaced, WriterAt
    <2>2. ASSUME NEW p, p # "idle", WriterGo(p) PROVE writer'.pc # "idle"
      BY <1>1, <2>2 DEF WriterGo, WriterLocals
    <2>3. CASE PutFile \/ DiscardFile \/ DropReplaced
      <3>1. \/ WriterGo("commit") \/ WriterGo("open") \/ WriterGo("failed") \/ WriterGo("done")
        BY <2>3 DEF PutFile, DiscardFile, DropReplaced
      <3>2. "commit" # "idle" /\ "open" # "idle" /\ "failed" # "idle" /\ "done" # "idle"
        OBVIOUS
      <3> QED BY <2>1, <2>2, <3>1, <3>2
    <2>4. CASE OpenReplace
      <3>1. writer' = [writer EXCEPT !.pc = "commit", !.seen = chunk[writer.doc]]
        BY <2>4 DEF OpenReplace
      <3>2. writer'.pc = "commit"
        BY <1>1, <3>1 DEF WriterLocals
      <3> QED BY <2>1, <3>2
    <2>5. CASE CommitWrite
      <3>1. CASE WriterGo("discard")
        BY <2>1, <2>2, <3>1
      <3>2. CASE writer' = [WriterIdle EXCEPT !.pc = IF writer.new THEN "done" ELSE "drop",
                                              !.doc = writer.doc, !.old = writer.old]
        BY <2>1, <3>2 DEF WriterIdle
      <3> QED BY <2>5, <3>1, <3>2 DEF CommitWrite
    <2> QED BY <1>2, <2>1, <2>3, <2>4, <2>5 DEF WriterStep
  <1>3. ASSUME NEW u \in User, ReadFile(u) \/ OpenReindex(u) \/ DropFile(u)
        PROVE  UNCHANGED writer
    BY <1>3 DEF ReadFile, OpenReindex, DropFile
  <1>4. ASSUME NEW u \in User, CommitReindex(u)
        PROVE  UNCHANGED writer \/ (writer.pc = "commit" /\ writer'.pc = "commit")
    <2>1. writer' = writer \/ (WriterAt("commit") /\ writer' = [writer EXCEPT !.overtaken = TRUE])
      BY <1>4 DEF CommitReindex, OvertakeDeletes
    <2> QED BY <1>1, <2>1 DEF WriterAt, WriterLocals
  <1> QED BY <1>2, <1>3, <1>4 DEF StoreWorks, OpStep

LEMMA WorkStep ==
  ASSUME SyncInv, StoreTypeOK', StoreWorks \/ \E u \in User : BeginCall(u)
  PROVE  SyncTypeOK' /\ Turns' /\ Times'
  <1>1. UNCHANGED <<feed, providerVars, stateVars, item, sync, historyVars>>
    BY DEF StoreWorks, BeginCall
  <1>2. left' \in [Event -> Nat]
    <2>1. CASE StoreWorks
      BY <2>1 DEF StoreWorks, SyncInv, SyncTypeOK
    <2>2. CASE \E u \in User : BeginCall(u)
      BY <2>2, SpendTypes DEF BeginCall, SyncInv, Event
    <2> QED BY <2>1, <2>2
  <1>3. \/ UNCHANGED writer
        \/ writer.pc \in {"put", "open", "commit", "discard", "drop"} /\ writer'.pc # "idle"
    BY WorkWriter DEF BeginCall, OpRead, BeginReindex, BeginDelete
  <1>4. Turns'
    BY <1>1, <1>3, WorkTurns DEF SyncInv
  <1> QED BY <1>1, <1>2, <1>4 DEF SyncInv, SyncTypeOK, Times, providerVars, stateVars, historyVars

LEMMA SyncCrashStep ==
  ASSUME SyncInv, StoreTypeOK', Crash
  PROVE  SyncTypeOK' /\ Turns' /\ Times'
  <1>1. /\ UNCHANGED <<feed, providerVars, stateVars, item, regressed>> /\ writer' = WriterIdle
        /\ sync' = [s \in Sync |-> SyncIdle]
    BY DEF Crash, StoreCrash
  <1>2. left' \in [Event -> Nat] /\ torn' \in SUBSET Item /\ stray' \in SUBSET Doc
    BY SpendTypes, TearTypes DEF Crash, SyncInv, Event
  <1>3. SyncTypeOK'
    BY <1>1, <1>2, SyncIdleTypes DEF SyncInv, SyncTypeOK, providerVars, stateVars
  <1>4. Turns'
    BY <1>1, Idle, SyncIdleTypes DEF Turns, Loop, Busy
  <1>5. Times'
    <2>1. 0 <= now
      BY DEF SyncInv, SyncTypeOK
    <2> QED BY <1>1, <2>1, SyncIdleTypes DEF SyncInv, Times, providerVars, stateVars
  <1> QED BY <1>3, <1>4, <1>5

LEMMA SyncInvStep ==
  ASSUME SyncInv, [SyncNext]_syncVars
  PROVE  SyncInv'
  <1>1. StoreInv'
    BY UseStep, StoreStep DEF SyncInv
  <1>2. StoreTypeOK'
    BY <1>1 DEF StoreInv
  <1>3. CASE UNCHANGED syncVars
    BY <1>1, <1>2, <1>3 DEF SyncInv, SyncTypeOK, Turns, Times, syncVars, storeVars, providerVars,
                      stateVars, historyVars
  <1>4. ASSUME NEW s \in Sync, SyncStep(s) PROVE SyncTypeOK' /\ Turns' /\ Times'
    BY <1>2, <1>4, BeginStep, FetchStep, GoStep, PersistStep, RecordStep, FailStep, CompleteStep
       DEF SyncStep
  <1>5. CASE SyncNext
    <2>1. SyncTypeOK' /\ Turns' /\ Times'
      BY <1>2, <1>4, <1>5, ChangeStep, DeleteStep, WorkStep, SyncCrashStep DEF SyncNext
    <2> QED BY <1>1, <2>1 DEF SyncInv
  <1> QED BY <1>1, <1>3, <1>5 DEF SyncInv

-----------------------------------------------------------------------------
(* The cursor of a feed that reads in order. *)

InOrder == feed.kind \in {"github", "calendar"} \/ (feed.kind = "jira" /\ feed.zone >= 0)

Recorded(i) ==
  /\ item[i] # None
  /\ item[i].gone = (i \in gone)
  /\ i \notin gone => item[i].content = content[i]
(* Deleted, and nothing the provider lists says so.                          *)
Silent(i) == i \in gone /\ feed.kind \notin Reporting
Before(i, t) == stamp[i] # 0 /\ stamp[i] < t /\ ~Silent(i)

(* What was read is still what the provider has.                             *)
Matches(x) == x.gone = (x.id \in gone) /\ (x.id \notin gone => x.content = content[x.id])

(* The items a synchronisation has read and not recorded.                    *)
Holding(s) == sync[s].page \cup (IF sync[s].pc \in Busy THEN {sync[s].at} ELSE {})

(* What a synchronisation starts from is recorded.                           *)
Behind(s) ==
  sync[s].pc \in {"reading", "fetched"} => \A i \in Item : Before(i, sync[s].cur) => Recorded(i)
(* What lies between the two cursors is in the answer, or has changed since.  *)
Answered(s) ==
  sync[s].pc = "fetched" =>
    \A i \in Item : Before(i, sync[s].next) /\ stamp[i] >= sync[s].cur =>
      \E x \in sync[s].page : x.id = i /\ Matches(x)
(* What lies before the next cursor is recorded or in hand.                   *)
InHand(s) ==
  sync[s].pc \in Loop =>
    \A i \in Item : Before(i, sync[s].next) =>
      Recorded(i) \/ \E x \in Holding(s) : x.id = i /\ Matches(x)
(* What has changed since it was read lies ahead of every cursor, unless      *)
(* another synchronisation has stored its cursor in between.                  *)
Ahead(i, s) ==
  /\ stamp[i] >= cursor /\ stamp[i] >= sync[s].next
  /\ \A r \in Sync : stamp[i] >= sync[r].cur
Present(s) ==
  /\ sync[s].pc \in Busy => ~sync[s].overtaken
  /\ sync[s].pc \in {"fetched"} \cup Loop /\ ~sync[s].overtaken =>
       \A x \in Holding(s) : Matches(x) \/ Ahead(x.id, s)

Passed ==
  /\ \A i \in Item : Before(i, cursor) => Recorded(i)
  /\ \A s \in Sync : Behind(s) /\ Answered(s) /\ InHand(s) /\ Present(s)

PassInv == InOrder /\ ~regressed => Passed

LEMMA PassInit == SyncInit => PassInv
  <1> SUFFICES ASSUME SyncInit PROVE Passed
    BY DEF PassInv
  <1>1. \A i \in Item : stamp[i] = 0
    BY DEF SyncInit
  <1>2. \A s \in Sync : sync[s].pc = "idle"
    BY DEF SyncInit, SyncIdle
  <1> QED BY <1>1, <1>2 DEF Passed, Behind, Answered, InHand, Present, Before, Silent, Loop, Busy

(* What the provider has after a change of one item: that item lies ahead of  *)
(* everything, the others are as they were.                                  *)
LEMMA PassChange ==
  ASSUME SyncInv, Passed, NEW j \in Item, Change(j)
  PROVE  Passed'
  <1>1. PICK t \in Nat : t >= now /\ stamp' = [stamp EXCEPT ![j] = t]
    <2>1. PICK t \in {now, now + 1} : stamp' = [stamp EXCEPT ![j] = t]
      BY DEF Change
    <2>2. t \in Nat /\ t >= now
      BY <2>1 DEF SyncInv, SyncTypeOK
    <2> QED BY <2>1, <2>2
  <1>2. /\ UNCHANGED <<cursor, item, sync, feed>>
        /\ \A i \in Item : i # j => /\ stamp'[i] = stamp[i] /\ content'[i] = content[i]
                                    /\ i \in gone' <=> i \in gone
        /\ stamp'[j] = t
    BY <1>1 DEF Change, SyncInv, SyncTypeOK, stateVars
  <1>3. /\ now \in Nat /\ cursor \in Nat /\ cursor <= now
        /\ \A s \in Sync : /\ sync[s].cur \in Nat /\ sync[s].next \in Nat /\ sync[s].page \subseteq Fetched
                           /\ sync[s].cur <= now /\ sync[s].next <= now
    BY DEF SyncInv, SyncTypeOK, SyncLocals, Times
  <1>4. \A c \in Nat : c <= now => stamp'[j] >= c /\ ~Before(j, c)'
    BY <1>1, <1>2, <1>3 DEF Before, Silent
  <1>5. \A i \in Item : i # j => /\ \A c \in Nat : Before(i, c)' <=> Before(i, c)
                                 /\ Recorded(i)' <=> Recorded(i)
    <2> TAKE i \in Item
    <2>1. SUFFICES ASSUME i # j PROVE /\ \A c \in Nat : Before(i, c)' <=> Before(i, c)
                                      /\ Recorded(i)' <=> Recorded(i)
      OBVIOUS
    <2>2. \A c \in Nat : Before(i, c)' <=> Before(i, c)
      BY <1>2, <2>1 DEF Before, Silent
    <2>3. item'[i] = item[i] /\ content'[i] = content[i] /\ (i \in gone') = (i \in gone)
      BY <1>2, <2>1
    <2> QED BY <2>2, <2>3 DEF Recorded
  <1>6. \A x \in Fetched : x.id # j => (Matches(x)' <=> Matches(x))
    <2> TAKE x \in Fetched
    <2>1. x.id \in Item
      BY DEF Fetched
    <2> QED BY <1>2, <2>1 DEF Matches
  <1>7. \A s \in Sync : Holding(s)' = Holding(s) /\ Holding(s) \subseteq Fetched
    <2> TAKE s \in Sync
    <2>1. Holding(s)' = Holding(s)
      BY <1>2 DEF Holding
    <2>2. sync[s].pc \in Busy => sync[s].at \in Fetched
      BY DEF SyncInv, Turns
    <2> QED BY <1>3, <2>1, <2>2 DEF Holding
  <1>8. \A i \in Item : (Before(i, cursor) => Recorded(i))'
    BY <1>2, <1>3, <1>4, <1>5 DEF Passed
  <1>9. ASSUME NEW s \in Sync
        PROVE  Behind(s)' /\ Answered(s)' /\ InHand(s)' /\ Present(s)'
    <2>1. Behind(s) /\ Answered(s) /\ InHand(s) /\ Present(s)
      BY DEF Passed
    <2>2. sync'[s] = sync[s] /\ sync[s].cur \in Nat /\ sync[s].next \in Nat /\ sync[s].page \subseteq Fetched
      BY <1>2, <1>3
    <2>3. ~Before(j, sync[s].cur)' /\ ~Before(j, sync[s].next)'
      <3>1. sync[s].cur <= now /\ sync[s].next <= now
        BY <1>3
      <3>2. \A c \in Nat : c <= now => ~(stamp'[j] < c)
        BY <1>1, <1>2, <1>3
      <3> QED BY <2>2, <3>1, <3>2 DEF Before, Silent
    <2>4. Behind(s)'
      BY <1>5, <2>1, <2>2, <2>3 DEF Behind
    <2>5. Answered(s)'
      <3> SUFFICES ASSUME sync[s].pc = "fetched", NEW i \in Item, Before(i, sync[s].next)',
                          stamp'[i] >= sync[s].cur
                   PROVE  \E x \in sync[s].page : x.id = i /\ Matches(x)'
        BY <2>2 DEF Answered
      <3>1. i # j
        BY <2>3, <2>2
      <3>2. Before(i, sync[s].next) /\ stamp[i] >= sync[s].cur
        BY <1>2, <1>5, <2>2, <3>1
      <3>3. PICK x \in sync[s].page : x.id = i /\ Matches(x)
        BY <2>1, <3>2 DEF Answered
      <3>4. Matches(x)'
        BY <1>6, <2>2, <3>1, <3>3
      <3> QED BY <3>3, <3>4
    <2>6. InHand(s)'
      <3> SUFFICES ASSUME sync[s].pc \in Loop, NEW i \in Item, Before(i, sync[s].next)'
                   PROVE  Recorded(i)' \/ \E x \in Holding(s) : x.id = i /\ Matches(x)'
        BY <1>7, <2>2 DEF InHand
      <3>1. i # j
        BY <2>3, <2>2
      <3>2. Before(i, sync[s].next)
        BY <1>5, <2>2, <3>1
      <3>3. CASE Recorded(i)
        BY <1>5, <3>1, <3>3
      <3>4. ASSUME NEW x \in Holding(s), x.id = i, Matches(x) PROVE Matches(x)'
        BY <1>6, <1>7, <3>1, <3>4
      <3> QED BY <2>1, <3>2, <3>3, <3>4 DEF InHand
    <2>7. Present(s)'
      <3>1. ASSUME NEW x \in Holding(s), Matches(x) \/ Ahead(x.id, s) PROVE (Matches(x) \/ Ahead(x.id, s))'
        <4>1. x \in Fetched /\ x.id \in Item
          BY <1>7 DEF Fetched
        <4>2. CASE x.id = j
          <5>1. Ahead(x.id, s)'
            BY <1>2, <1>3, <1>4, <4>2 DEF Ahead
          <5> QED BY <5>1
        <4>3. CASE x.id # j /\ Matches(x)
          BY <1>6, <4>1, <4>3
        <4>4. CASE x.id # j /\ Ahead(x.id, s)
          <5>1. Ahead(x.id, s)'
            BY <1>2, <4>1, <4>4 DEF Ahead
          <5> QED BY <5>1
        <4> QED BY <3>1, <4>2, <4>3, <4>4
      <3>2. \A x \in Holding(s) : (Matches(x) \/ Ahead(x.id, s)) => (Matches(x) \/ Ahead(x.id, s))'
        BY <3>1
      <3> QED BY <1>7, <2>1, <2>2, <3>2 DEF Present
    <2> QED BY <2>4, <2>5, <2>6, <2>7
  <1> QED BY <1>8, <1>9 DEF Passed

(* What a step records only of the other items, and what it does not read.    *)
LEMMA SameRecords ==
  ASSUME UNCHANGED <<providerVars, item, feed>>
  PROVE  /\ \A i : Recorded(i)' <=> Recorded(i)
         /\ \A x : Matches(x)' <=> Matches(x)
  BY DEF Recorded, Matches, providerVars

(* One synchronisation moves on, and no item is written.                     *)
LEMMA PassMove ==
  ASSUME SyncInv, Passed, UNCHANGED <<providerVars, cursor, item, feed>>, NEW s \in Sync, NEW r \in SyncLocals,
         sync' = [sync EXCEPT ![s] = r], r.cur \in {0, cursor, sync[s].cur},
         Behind(s)', Answered(s)', InHand(s)', Present(s)'
  PROVE  Passed'
  <1>1. sync'[s] = r /\ \A q \in Sync : q # s => sync'[q] = sync[q]
    BY SetOne DEF SyncInv
  <1>2. stamp \in [Item -> Nat] /\ stamp' = stamp /\ gone' = gone /\ feed' = feed
    BY DEF SyncInv, SyncTypeOK, providerVars
  <1>3. ASSUME NEW q \in Sync, q # s
        PROVE  Behind(q)' /\ Answered(q)' /\ InHand(q)' /\ Present(q)'
    <2>1. Behind(q) /\ Answered(q) /\ InHand(q) /\ Present(q) /\ sync'[q] = sync[q]
      BY <1>1, <1>3 DEF Passed
    <2>2. Holding(q)' = Holding(q)
      BY <2>1 DEF Holding
    <2>3. Behind(q)' /\ Answered(q)'
      BY <1>2, <2>1, SameRecords DEF Behind, Answered, Before, Silent
    <2>4. InHand(q)'
      BY <1>2, <2>1, <2>2, SameRecords DEF InHand, Before, Silent
    <2>5. Present(q)'
      <3>1. ASSUME NEW x \in Holding(q), x.id \in Item, Ahead(x.id, q) PROVE Ahead(x.id, q)'
        <4>1. stamp[x.id] >= 0
          BY <1>2, <3>1
        <4>2. stamp[x.id] >= r.cur
          BY <3>1, <4>1 DEF Ahead
        <4> QED BY <1>1, <1>2, <2>1, <3>1, <4>2 DEF Ahead
      <3>2. \A x \in Holding(q) : x.id \in Item
        BY DEF Holding, SyncInv, SyncTypeOK, SyncLocals, Turns, Fetched
      <3>3. \A x \in Holding(q) : Matches(x) \/ Ahead(x.id, q) => (Matches(x) \/ Ahead(x.id, q))'
        BY <3>1, <3>2, SameRecords
      <3> QED BY <2>1, <2>2, <3>3 DEF Present
    <2> QED BY <2>3, <2>4, <2>5
  <1>4. \A i \in Item : (Before(i, cursor) => Recorded(i))'
    BY <1>2, SameRecords DEF Passed, Before, Silent
  <1> QED BY <1>3, <1>4 DEF Passed

(* A step that takes nothing in hand.                                       *)
LEMMA PassGo ==
  ASSUME SyncInv, Passed, InOrder, NEW s \in Sync,
         BeginSync(s) \/ Fetch(s) \/ FetchFails(s) \/ Receive(s) \/ StoreReturns(s)
  PROVE  Passed'
  <1>1. UNCHANGED <<providerVars, cursor, item, feed>>
    BY DEF BeginSync, Fetch, FetchFails, Receive, StoreReturns, stateVars
  <1>2. /\ sync[s] \in SyncLocals /\ sync \in [Sync -> SyncLocals]
        /\ sync[s].cur \in Nat /\ sync[s].next \in Nat /\ sync[s].page \subseteq Fetched
        /\ stamp \in [Item -> Nat] /\ stamp' = stamp /\ gone' = gone /\ feed' = feed
    BY <1>1 DEF SyncInv, SyncTypeOK, SyncLocals, providerVars
  <1>3. Behind(s) /\ Answered(s) /\ InHand(s) /\ Present(s)
    BY DEF Passed
  <1>4. CASE BeginSync(s)
    <2> DEFINE r == [SyncIdle EXCEPT !.pc = "reading", !.cur = cursor]
    <2>1. r \in SyncLocals /\ r.pc = "reading" /\ r.cur = cursor
      BY DEF SyncInv, SyncTypeOK, SyncIdle, SyncLocals, SyncPhase
    <2>2. sync' = [sync EXCEPT ![s] = r]
      BY <1>4 DEF BeginSync, Set
    <2> HIDE DEF r
    <2>3. sync'[s] = r
      BY <1>2, <2>2
    <2>4. Behind(s)'
      BY <1>1, <1>2, <2>1, <2>3, SameRecords DEF Passed, Behind, Before, Silent
    <2>5. Answered(s)' /\ InHand(s)' /\ Present(s)'
      BY <2>1, <2>3 DEF Answered, InHand, Present, Loop, Busy
    <2> QED BY <1>1, <2>1, <2>2, <2>4, <2>5, PassMove
  <1>5. CASE Fetch(s)
    <2>1. PICK a \in Reads(feed, Listed(feed, stamp, gone), sync[s].cur, now), l \in SyncLocals :
           /\ sync' = [sync EXCEPT ![s] = l]
           /\ a.items \in SUBSET Item /\ a.cursor \in 0..now
           /\ l.pc = "fetched" /\ l.cur = sync[s].cur /\ l.next = a.cursor
           /\ l.page = {[id |-> i, content |-> content[i], gone |-> i \in gone] : i \in a.items}
      BY <1>5, FetchLocals
    <2>2. sync'[s] = l /\ sync[s].pc = "reading"
      BY <1>2, <1>5, <2>1 DEF Fetch, At
    <2>3. \A x \in l.page : Matches(x)
      BY <2>1 DEF Matches
    <2>4. \A x \in l.page : Matches(x)'
      BY <1>1, <2>3, SameRecords
    <2>5. Behind(s)'
      BY <1>1, <1>2, <1>3, <2>1, <2>2, SameRecords DEF Behind, Before, Silent
    <2>6. Answered(s)'
      <3>1. /\ feed \in Feed /\ now \in Nat /\ sync[s].cur \in 0..now /\ \A i \in Item : stamp[i] <= now
        BY <1>2, SyncAssumption DEF SyncInv, SyncTypeOK, Times
      <3> DEFINE when == Listed(feed, stamp, gone)
      <3>5. /\ when \in [Item -> Nat] /\ \A i \in Item : when[i] <= now
            /\ \A i \in Item : ~Silent(i) => when[i] = stamp[i]
        BY <1>2, <3>1, ListedTimes DEF Listed, Silent
      <3>6. \A i \in Item : when[i] # 0 /\ when[i] >= sync[s].cur /\ when[i] < a.cursor => i \in a.items
        <4>1. a \in Reads(feed, when, sync[s].cur, now)
          BY <2>1
        <4> HIDE DEF when
        <4> QED BY <3>1, <3>5, <4>1, ReadsInOrder DEF InOrder
      <3>2. \A i \in Item : ~Silent(i) /\ stamp[i] # 0 /\ stamp[i] >= sync[s].cur /\ stamp[i] < a.cursor
              => i \in a.items
        BY <3>5, <3>6
      <3>3. ASSUME NEW i \in a.items PROVE \E x \in l.page : x.id = i
        <4> DEFINE y == [id |-> i, content |-> content[i], gone |-> i \in gone]
        <4>1. y \in l.page
          BY <2>1
        <4>2. y.id = i
          OBVIOUS
        <4> QED BY <4>1, <4>2
      <3>4. \A i \in Item : Before(i, l.next)' /\ stamp'[i] >= l.cur => i \in a.items
        BY <1>2, <2>1, <3>2 DEF Before, Silent
      <3> QED BY <2>1, <2>2, <2>4, <3>3, <3>4 DEF Answered
    <2>7. InHand(s)' /\ Present(s)'
      <3>1. Holding(s)' = l.page
        BY <2>1, <2>2 DEF Holding, Busy
      <3>2. l.pc \notin Loop /\ l.pc \notin Busy
        BY <2>1 DEF Loop, Busy
      <3> QED BY <2>2, <2>4, <3>1, <3>2 DEF InHand, Present
    <2>8. l.cur \in {0, cursor, sync[s].cur}
      BY <2>1
    <2> QED BY <1>1, <2>1, <2>5, <2>6, <2>7, <2>8, PassMove
  <1>6. CASE FetchFails(s)
    <2>1. sync' = [sync EXCEPT ![s] = SyncIdle]
      BY <1>6 DEF FetchFails, Set
    <2>2. sync'[s] = SyncIdle
      BY <1>2, <2>1
    <2>3. Behind(s)' /\ Answered(s)' /\ InHand(s)' /\ Present(s)'
      BY <2>2, SyncIdleTypes DEF Behind, Answered, InHand, Present, Loop, Busy
    <2> QED BY <1>1, <2>1, <2>3, SyncIdleTypes, PassMove
  <1>7. ASSUME NEW p \in {"persist", "record"}, Go(s, p), p = "persist" => At(s, "fetched"),
               p = "record" => At(s, "store")
        PROVE  Passed'
    <2> DEFINE r == [sync[s] EXCEPT !.pc = p]
    <2>1. /\ r \in SyncLocals /\ r.pc = p /\ r.at = sync[s].at /\ r.cur = sync[s].cur
          /\ r.next = sync[s].next /\ r.page = sync[s].page /\ r.overtaken = sync[s].overtaken
      BY <1>2 DEF SyncLocals, SyncPhase
    <2>2. sync' = [sync EXCEPT ![s] = r]
      BY <1>7 DEF Go, Set
    <2> HIDE DEF r
    <2>3. sync'[s] = r
      BY <1>2, <2>2
    <2>4. r.pc \in Loop /\ Behind(s)' /\ Answered(s)'
      BY <1>7, <2>1, <2>3 DEF Behind, Answered, Loop
    <2>5. Holding(s)' = Holding(s)
      BY <1>7, <2>1, <2>3 DEF Holding, Busy, At
    <2>6. InHand(s)'
      <3>1. \A i \in Item : Before(i, sync[s].next) =>
               Recorded(i) \/ \E x \in Holding(s) : x.id = i /\ Matches(x)
        <4>1. CASE p = "record"
          BY <1>3, <1>7, <4>1 DEF InHand, At, Loop
        <4>2. CASE p = "persist"
          <5>1. sync[s].pc = "fetched" /\ sync[s].page \subseteq Holding(s)
            BY <1>7, <4>2 DEF At, Holding
          <5> TAKE i \in Item
          <5>2. stamp[i] \in Nat
            BY <1>2
          <5>3. CASE stamp[i] < sync[s].cur
            BY <1>3, <5>1, <5>3 DEF Behind, Before, Silent
          <5>4. CASE stamp[i] >= sync[s].cur
            BY <1>3, <5>1, <5>4 DEF Answered, Before, Silent
          <5> QED BY <1>2, <5>2, <5>3, <5>4
        <4> QED BY <4>1, <4>2
      <3> QED BY <1>1, <1>2, <2>1, <2>3, <2>5, <3>1, SameRecords DEF InHand, Before, Silent
    <2>7. Present(s)'
      <3>1. \A x \in Holding(s) : Ahead(x.id, s) => Ahead(x.id, s)'
        BY <1>1, <1>2, <2>1, <2>2, SetOne DEF Ahead, SyncInv
      <3>2. p = "record" => ~sync[s].overtaken
        BY <1>3, <1>7 DEF Present, At, Busy
      <3>3. sync[s].pc \in {"fetched"} \cup Loop
        BY <1>7 DEF At, Loop
      <3> QED BY <1>1, <1>3, <1>7, <2>1, <2>3, <2>5, <3>1, <3>2, <3>3, SameRecords DEF Present, Busy
    <2>8. r.cur \in {0, cursor, sync[s].cur}
      BY <2>1
    <2> QED BY <1>1, <2>1, <2>2, <2>4, <2>6, <2>7, <2>8, PassMove
  <1> QED BY <1>4, <1>5, <1>6, <1>7 DEF Receive, StoreReturns

(* An item of the page is taken in hand.                                    *)
LEMMA PassTake ==
  ASSUME SyncInv, Passed, ~regressed', NEW s \in Sync, Persist(s),
         NEW x \in sync[s].page, PassUnchanged(s, x) \/ StoreItem(s, x)
  PROVE  Passed'
  <1>1. PICK p \in Busy : Set(s, [sync[s] EXCEPT !.pc = p, !.page = Rest(s, x), !.at = x, !.doc = StoredDoc(x)])
    BY DEF PassUnchanged, StoreItem, Take, Busy
  <1>2. UNCHANGED <<providerVars, cursor, item, feed>> /\ ~sync[s].overtaken /\ sync[s].pc = "persist"
    BY DEF PassUnchanged, StoreItem, Persist, Stale, At, stateVars
  <1>3. /\ sync[s] \in SyncLocals /\ sync \in [Sync -> SyncLocals] /\ x \in Fetched
        /\ stamp \in [Item -> Nat] /\ stamp' = stamp /\ gone' = gone /\ feed' = feed
    BY <1>2 DEF SyncInv, SyncTypeOK, SyncLocals, providerVars
  <1> DEFINE r == [sync[s] EXCEPT !.pc = p, !.page = Rest(s, x), !.at = x, !.doc = StoredDoc(x)]
  <1>4. /\ r \in SyncLocals /\ r.pc = p /\ r.at = x /\ r.cur = sync[s].cur
        /\ r.next = sync[s].next /\ r.page = sync[s].page \ {x} /\ r.overtaken = sync[s].overtaken
    <2>1. StoredDoc(x) \in Doc \cup {None}
      BY <1>3, ItemTypes DEF StoredDoc, SyncInv, Fetched
    <2> QED BY <1>1, <1>3, <2>1 DEF SyncLocals, SyncPhase, Busy, Rest
  <1>5. sync' = [sync EXCEPT ![s] = r]
    BY <1>1 DEF Set
  <1> HIDE DEF r
  <1>6. sync'[s] = r
    BY <1>3, <1>5
  <1>7. Holding(s)' = Holding(s) /\ Holding(s) = sync[s].page
    BY <1>1, <1>2, <1>4, <1>6 DEF Holding, Busy
  <1>8. InHand(s) /\ Present(s) /\ sync[s].pc \in Loop /\ r.pc \in Loop /\ r.pc \in Busy
    BY <1>1, <1>2, <1>4 DEF Passed, Loop, Busy
  <1>9. Behind(s)' /\ Answered(s)'
    BY <1>6, <1>8 DEF Behind, Answered, Busy
  <1>10. InHand(s)'
    BY <1>2, <1>3, <1>4, <1>6, <1>7, <1>8, SameRecords DEF InHand, Before, Silent
  <1>11. Present(s)'
    <2>1. \A y \in Holding(s) : Ahead(y.id, s) => Ahead(y.id, s)'
      BY <1>2, <1>3, <1>4, <1>5, SetOne DEF Ahead, SyncInv
    <2> QED BY <1>2, <1>4, <1>6, <1>7, <1>8, <2>1, SameRecords DEF Present
  <1>12. r.cur \in {0, cursor, sync[s].cur}
    BY <1>4
  <1> QED BY <1>2, <1>4, <1>5, <1>9, <1>10, <1>11, <1>12, PassMove

(* An item in hand is written, and what was read is recorded.                *)
LEMMA PassWrite ==
  ASSUME SyncInv, Passed, NEW s \in Sync, sync[s].pc \in Loop, ~sync[s].overtaken,
         UNCHANGED <<providerVars, cursor, feed>>,
         NEW x \in Holding(s), NEW t \in ItemRecord, item' = [item EXCEPT ![x.id] = t],
         t.gone = x.gone, x.gone \/ t.content = x.content,
         NEW r \in SyncLocals, sync' = [sync EXCEPT ![s] = r], r.pc = "persist",
         r.cur = sync[s].cur, r.next = sync[s].next, r.overtaken = sync[s].overtaken,
         r.page \subseteq Holding(s), Holding(s) \subseteq r.page \cup {x}
  PROVE  Passed'
  <1>1. /\ item \in [Item -> ItemRecord \cup {None}] /\ sync[s] \in SyncLocals
        /\ stamp \in [Item -> Nat] /\ stamp' = stamp /\ gone' = gone /\ feed' = feed
    BY DEF SyncInv, SyncTypeOK, providerVars
  <1>2. \A q \in Sync : \A y \in Holding(q) : y \in Fetched /\ y.id \in Item
    BY DEF Holding, SyncInv, SyncTypeOK, SyncLocals, Turns, Fetched
  <1>3. sync'[s] = r /\ \A q \in Sync : q # s => sync'[q] = sync[q] /\ sync[q].pc \notin Loop
    BY SetOne DEF SyncInv, Turns
  <1>4. \A q \in Sync : sync'[q].cur = sync[q].cur /\ sync'[q].next = sync[q].next
    BY <1>3
  <1>5. \A i \in Item : i # x.id => (Recorded(i)' <=> Recorded(i))
    BY <1>1, <1>2 DEF Recorded, providerVars
  <1>6. Matches(x) => Recorded(x.id)'
    <2>1. item'[x.id] = t /\ t # None
      BY <1>1, <1>2, SyncAssumption
    <2> QED BY <2>1 DEF Recorded, Matches, providerVars
  <1>7. \A y : Matches(y)' <=> Matches(y)
    BY DEF Matches, providerVars
  <1>8. \A i : \A q \in Sync : Ahead(i, q)' <=> Ahead(i, q)
    BY <1>1, <1>3, <1>4 DEF Ahead
  <1>9. Matches(x) \/ Ahead(x.id, s)
    BY DEF Passed, Present
  <1>10. ASSUME NEW i \in Item, NEW c \in Nat, Before(i, c), Recorded(i),
                Ahead(x.id, s) => stamp[x.id] >= c
         PROVE  Recorded(i)'
    <2>1. CASE i = x.id
      <3>1. stamp[x.id] < c
        BY <1>10, <2>1 DEF Before, Silent
      <3>2. ~Ahead(x.id, s)
        BY <1>1, <1>2, <1>10, <3>1
      <3> QED BY <1>6, <1>9, <2>1, <3>2
    <2> QED BY <1>5, <1>10, <2>1
  <1>11. /\ cursor \in Nat /\ \A q \in Sync : sync[q].cur \in Nat /\ sync[q].next \in Nat
    BY DEF SyncInv, SyncTypeOK, SyncLocals
  <1>12. \A i \in Item : (Before(i, cursor) => Recorded(i))'
    <2> SUFFICES ASSUME NEW i \in Item, Before(i, cursor)
                 PROVE  Recorded(i)'
      BY <1>1 DEF Before, Silent
    <2>1. Ahead(x.id, s) => stamp[x.id] >= cursor
      BY DEF Ahead
    <2> QED BY <1>10, <1>11, <2>1 DEF Passed
  <1>13. ASSUME NEW q \in Sync PROVE Behind(q)'
    <2> SUFFICES ASSUME sync'[q].pc \in {"reading", "fetched"}, NEW i \in Item, Before(i, sync[q].cur)
                 PROVE  Recorded(i)'
      BY <1>1, <1>4 DEF Behind, Before, Silent
    <2>1. q # s /\ sync[q].pc \in {"reading", "fetched"}
      BY <1>3
    <2>2. Ahead(x.id, s) => stamp[x.id] >= sync[q].cur
      BY DEF Ahead
    <2> QED BY <1>10, <1>11, <2>1, <2>2 DEF Passed, Behind
  <1>14. ASSUME NEW q \in Sync PROVE Answered(q)'
    <2>1. CASE q = s
      BY <1>3, <2>1 DEF Answered
    <2>2. CASE q # s
      BY <1>1, <1>3, <1>7, <2>2 DEF Answered, Passed, Before, Silent
    <2> QED BY <2>1, <2>2
  <1>15. ASSUME NEW q \in Sync PROVE InHand(q)'
    <2>1. CASE q # s
      BY <1>3, <2>1 DEF InHand
    <2>2. CASE q = s
      <3> SUFFICES ASSUME NEW i \in Item, Before(i, sync[s].next)
                   PROVE  Recorded(i)' \/ \E y \in r.page : y.id = i /\ Matches(y)'
        BY <1>1, <1>3, <1>4, <2>2 DEF InHand, Before, Silent, Holding
      <3>1. CASE Recorded(i)
        <4>1. Ahead(x.id, s) => stamp[x.id] >= sync[s].next
          BY DEF Ahead
        <4> QED BY <1>10, <1>11, <3>1, <4>1
      <3>2. ASSUME NEW y \in Holding(s), y.id = i, Matches(y)
            PROVE  Recorded(i)' \/ \E z \in r.page : z.id = i /\ Matches(z)'
        <4>1. CASE y = x
          BY <1>6, <3>2, <4>1
        <4>2. CASE y # x
          BY <1>7, <3>2, <4>2
        <4> QED BY <4>1, <4>2
      <3>3. InHand(s)
        BY DEF Passed
      <3> QED BY <3>1, <3>2, <3>3 DEF InHand
    <2> QED BY <2>1, <2>2
  <1>16. ASSUME NEW q \in Sync PROVE Present(q)'
    <2>1. CASE q = s
      <3>1. Holding(s)' \subseteq Holding(s)
        BY <1>3 DEF Holding, Busy
      <3>2. \A y \in Holding(s) : (Matches(y) \/ Ahead(y.id, s))'
        BY <1>7, <1>8 DEF Passed, Present
      <3> QED BY <1>3, <2>1, <3>1, <3>2 DEF Present, Busy
    <2>2. CASE q # s
      <3>1. Holding(q)' = Holding(q) /\ sync'[q] = sync[q]
        BY <1>3, <2>2 DEF Holding
      <3> QED BY <1>7, <1>8, <3>1 DEF Passed, Present
    <2> QED BY <2>1, <2>2
  <1> QED BY <1>12, <1>13, <1>14, <1>15, <1>16 DEF Passed

LEMMA PassPersist ==
  ASSUME SyncInv, Passed, ~regressed', NEW s \in Sync, Persist(s)
  PROVE  Passed'
  <1>1. PICK x \in sync[s].page : RecordDeletion(s, x) \/ PassUnchanged(s, x) \/ StoreItem(s, x)
    BY DEF Persist
  <1>2. CASE RecordDeletion(s, x)
    <2> DEFINE r == [sync[s] EXCEPT !.page = Rest(s, x)]
               t == IF item[x.id] = None THEN [content |-> x.content, doc |-> None, gone |-> TRUE]
                    ELSE [item[x.id] EXCEPT !.gone = TRUE]
    <2>1. /\ UNCHANGED <<providerVars, cursor, feed>> /\ ~sync[s].overtaken /\ sync[s].pc = "persist"
          /\ sync[s] \in SyncLocals /\ item \in [Item -> ItemRecord \cup {None}]
      BY DEF Persist, Stale, At, stateVars, SyncInv, SyncTypeOK
    <2>2. x \in Fetched /\ x.id \in Item /\ x.content \in Content
      BY <2>1 DEF SyncLocals, Fetched
    <2>3. /\ r \in SyncLocals /\ r.pc = "persist" /\ r.cur = sync[s].cur /\ r.next = sync[s].next
          /\ r.overtaken = sync[s].overtaken /\ r.page = sync[s].page \ {x}
      BY <2>1 DEF SyncLocals, Rest
    <2>4. t \in ItemRecord /\ t.gone = TRUE
      BY <2>1, <2>2 DEF ItemRecord
    <2>5. x.gone = TRUE
      BY <1>2, <2>2 DEF RecordDeletion, Fetched
    <2>6. sync' = [sync EXCEPT ![s] = r] /\ item' = [item EXCEPT ![x.id] = t]
      BY <1>2 DEF RecordDeletion, Set
    <2> HIDE DEF r, t
    <2>7. Holding(s) = sync[s].page /\ sync[s].pc \in Loop
      BY <2>1 DEF Holding, Busy, Loop
    <2>8. /\ x \in Holding(s) /\ t.gone = x.gone /\ x.gone
          /\ r.page \subseteq Holding(s) /\ Holding(s) \subseteq r.page \cup {x}
      BY <2>3, <2>4, <2>5, <2>7
    <2> QED BY <2>1, <2>3, <2>4, <2>6, <2>7, <2>8, PassWrite
  <1> QED BY <1>1, <1>2, PassTake

LEMMA PassRecord ==
  ASSUME SyncInv, Passed, NEW s \in Sync, RecordItem(s)
  PROVE  Passed'
  <1> DEFINE x == sync[s].at
             t == [content |-> x.content, doc |-> DocumentOf(s), gone |-> FALSE]
             r == [sync[s] EXCEPT !.pc = "persist", !.at = None, !.doc = None]
  <1>1. /\ sync[s] \in SyncLocals /\ sync[s].pc = "record" /\ x \in Fetched /\ ~x.gone
        /\ UNCHANGED <<providerVars, cursor, feed>>
    BY DEF SyncInv, SyncTypeOK, RecordItem, At, Turns, Busy, stateVars
  <1>2. x.id \in Item /\ x.content \in Content /\ x.gone = FALSE
    BY <1>1 DEF Fetched
  <1>3. sync' = [sync EXCEPT ![s] = r] /\ item' = [item EXCEPT ![x.id] = t]
    BY DEF RecordItem, Set
  <1>4. DocumentOf(s) \in Doc \cup {None}
    BY <1>1 DEF SyncInv, SyncTypeOK, SyncLocals, StoreTypeOK, WriterLocals, DocumentOf
  <1>5. t \in ItemRecord /\ t.gone = x.gone /\ t.content = x.content
    BY <1>2, <1>4 DEF ItemRecord
  <1>6. /\ r \in SyncLocals /\ r.pc = "persist" /\ r.cur = sync[s].cur /\ r.next = sync[s].next
        /\ r.overtaken = sync[s].overtaken /\ r.page = sync[s].page
    BY <1>1 DEF SyncLocals, SyncPhase
  <1> HIDE DEF t, r
  <1>7. /\ x \in Holding(s) /\ sync[s].pc \in Loop /\ ~sync[s].overtaken
        /\ r.page \subseteq Holding(s) /\ Holding(s) \subseteq r.page \cup {x}
    BY <1>1, <1>6 DEF Holding, Busy, Loop, Passed, Present
  <1> QED BY <1>1, <1>3, <1>5, <1>6, <1>7, PassWrite

(* The next cursor is stored: all that lies before it is recorded.           *)
LEMMA PassComplete ==
  ASSUME SyncInv, Passed, NEW s \in Sync, CompleteSync(s)
  PROVE  Passed'
  <1>1. /\ sync[s].pc = "persist" /\ sync[s].page = {} /\ cursor' = sync[s].next
        /\ UNCHANGED <<providerVars, item, feed>>
        /\ sync' = [r \in Sync |->
                      IF r = s THEN SyncIdle
                      ELSE IF sync[r].pc \in {"reading", "fetched"}
                           THEN [sync[r] EXCEPT !.overtaken = TRUE] ELSE sync[r]]
    BY DEF CompleteSync, At
  <1>2. sync \in [Sync -> SyncLocals] /\ stamp' = stamp /\ gone' = gone /\ feed' = feed
    BY <1>1 DEF SyncInv, SyncTypeOK, providerVars
  <1>3. ASSUME NEW r \in Sync, r # s
        PROVE  /\ sync'[r].pc = sync[r].pc /\ sync'[r].cur = sync[r].cur /\ sync'[r].next = sync[r].next
               /\ sync'[r].page = sync[r].page /\ sync[r].pc \notin Loop
               /\ sync[r].pc = "fetched" => sync'[r].overtaken = TRUE
    BY <1>1, <1>2, <1>3 DEF SyncLocals, SyncInv, Turns, Loop
  <1>4. sync'[s] = SyncIdle
    BY <1>1
  <1>5. \A i \in Item : (Before(i, cursor) => Recorded(i))'
    <2>1. Holding(s) = {} /\ sync[s].pc \in Loop
      BY <1>1 DEF Holding, Busy, Loop
    <2>2. \A i \in Item : Before(i, sync[s].next) => Recorded(i)
      BY <2>1 DEF Passed, InHand
    <2> QED BY <1>1, <1>2, <2>2, SameRecords DEF Before, Silent
  <1>6. ASSUME NEW r \in Sync PROVE Behind(r)' /\ Answered(r)' /\ InHand(r)' /\ Present(r)'
    <2>1. CASE r = s
      BY <1>4, <2>1, SyncIdleTypes DEF Behind, Answered, InHand, Present, Loop, Busy
    <2>2. CASE r # s
      <3>1. Behind(r)' /\ Answered(r)'
        BY <1>1, <1>2, <1>3, <2>2, SameRecords DEF Passed, Behind, Answered, Before, Silent
      <3>2. InHand(r)' /\ Present(r)'
        BY <1>3, <2>2 DEF InHand, Present, Loop, Busy
      <3> QED BY <3>1, <3>2
    <2> QED BY <2>1, <2>2
  <1> QED BY <1>5, <1>6 DEF Passed

(* A synchronisation ends without its cursor; the threads and the store       *)
(* write no content and no deletion of an item.                              *)
LEMMA PassOther ==
  ASSUME SyncInv, Passed, UNCHANGED <<providerVars, cursor, feed>>,
         \A s \in Sync : sync'[s] = sync[s] \/ sync'[s] = SyncIdle,
         \A i \in Item : Recorded(i)' <=> Recorded(i)
  PROVE  Passed'
  <1>1. stamp \in [Item -> Nat] /\ stamp' = stamp /\ gone' = gone /\ feed' = feed
    BY DEF SyncInv, SyncTypeOK, providerVars
  <1>2. \A i \in Item : (Before(i, cursor) => Recorded(i))'
    BY <1>1 DEF Passed, Before, Silent
  <1>3. ASSUME NEW s \in Sync PROVE Behind(s)' /\ Answered(s)' /\ InHand(s)' /\ Present(s)'
    <2>1. CASE sync'[s] = SyncIdle
      BY <2>1, SyncIdleTypes DEF Behind, Answered, InHand, Present, Loop, Busy
    <2>2. CASE sync'[s] = sync[s]
      <3>1. Holding(s)' = Holding(s)
        BY <2>2 DEF Holding
      <3>2. \A x : Matches(x)' <=> Matches(x)
        BY DEF Matches, providerVars
      <3>3. \A x \in Holding(s) : Ahead(x.id, s) => Ahead(x.id, s)'
        <4>1. \A x \in Holding(s) : x.id \in Item
          BY DEF Holding, SyncInv, SyncTypeOK, SyncLocals, Turns, Fetched
        <4>2. \A r \in Sync : sync'[r].cur = sync[r].cur \/ sync'[r].cur = 0
          BY SyncIdleTypes
        <4> QED BY <1>1, <2>2, <4>1, <4>2 DEF Ahead
      <3>4. Behind(s)' /\ Answered(s)' /\ InHand(s)'
        BY <1>1, <2>2, <3>1, <3>2 DEF Passed, Behind, Answered, InHand, Before, Silent
      <3>5. Present(s)'
        BY <2>2, <3>1, <3>2, <3>3 DEF Passed, Present
      <3> QED BY <3>4, <3>5
    <2> QED BY <2>1, <2>2
  <1> QED BY <1>2, <1>3 DEF Passed

LEMMA PassStep ==
  ASSUME SyncInv, PassInv, [SyncNext]_syncVars
  PROVE  PassInv'
  <1>1. feed' = feed /\ (regressed => regressed')
    <2>1. CASE UNCHANGED syncVars
      BY <2>1 DEF syncVars, historyVars
    <2>2. CASE \E i \in Item : Change(i)
      BY <2>2 DEF Change, historyVars
    <2>3. CASE \E s \in Sync : Persist(s)
      BY <2>3 DEF Persist, Stale
    <2>4. CASE \E s \in Sync : BeginSync(s) \/ Fetch(s) \/ FetchFails(s) \/ Receive(s) \/ StoreReturns(s)
      <3>1. feed' = feed /\ regressed' = regressed
        BY <2>4 DEF BeginSync, Fetch, FetchFails, Receive, StoreReturns, historyVars
      <3> QED BY <3>1
    <2>5. CASE \E s \in Sync : RecordItem(s) \/ FailSync(s) \/ CompleteSync(s)
      BY <2>5 DEF RecordItem, FailSync, CompleteSync, historyVars
    <2>6. CASE StoreWorks \/ Crash \/ \E u \in User : BeginCall(u) \/ DeleteDocument(u)
      BY <2>6 DEF StoreWorks, Crash, BeginCall, DeleteDocument, historyVars
    <2> QED BY <2>1, <2>2, <2>3, <2>4, <2>5, <2>6 DEF SyncNext, SyncStep
  <1> SUFFICES ASSUME InOrder, ~regressed' PROVE Passed'
    BY <1>1 DEF PassInv, InOrder
  <1>2. Passed
    BY <1>1 DEF PassInv
  <1>3. ASSUME UNCHANGED <<providerVars, cursor, sync, item, feed>> PROVE Passed'
    <2>1. \A i \in Item : Recorded(i)' <=> Recorded(i)
      BY <1>3, SameRecords
    <2>2. \A s \in Sync : sync'[s] = sync[s]
      BY <1>3
    <2>3. UNCHANGED <<providerVars, cursor, feed>>
      BY <1>3
    <2> QED BY <1>2, <2>1, <2>2, <2>3, PassOther
  <1>4. CASE UNCHANGED syncVars
    BY <1>3, <1>4 DEF syncVars, stateVars
  <1>5. CASE StoreWorks \/ \E u \in User : BeginCall(u)
    <2>1. UNCHANGED <<providerVars, cursor, sync, item, feed>>
      BY <1>5 DEF StoreWorks, BeginCall, stateVars
    <2> QED BY <1>3, <2>1
  <1>6. ASSUME NEW u \in User, DeleteDocument(u) PROVE Passed'
    <2>1. /\ UNCHANGED <<providerVars, cursor, feed>> /\ UNCHANGED sync
          /\ item' = [i \in Item |->
                        IF item[i] # None /\ item[i].doc = op[u].doc
                        THEN [item[i] EXCEPT !.doc = None] ELSE item[i]]
      BY <1>6 DEF DeleteDocument, stateVars
    <2>2. ASSUME NEW i \in Item
          PROVE  /\ item'[i] = None <=> item[i] = None
                 /\ item[i] # None => item'[i].gone = item[i].gone /\ item'[i].content = item[i].content
      <3>1. item[i] \in ItemRecord \cup {None} /\ None \notin ItemRecord
        BY SyncAssumption DEF SyncInv, SyncTypeOK
      <3>2. item[i] # None => [item[i] EXCEPT !.doc = None] \in ItemRecord
        BY <3>1 DEF ItemRecord
      <3> QED BY <2>1, <3>1, <3>2 DEF ItemRecord
    <2>3. \A i \in Item : Recorded(i)' <=> Recorded(i)
      BY <2>1, <2>2 DEF Recorded, providerVars
    <2> QED BY <1>2, <2>1, <2>3, PassOther
  <1>7. CASE Crash \/ \E s \in Sync : FailSync(s)
    <2>1. UNCHANGED <<providerVars, cursor, item, feed>> /\ \A s \in Sync : sync'[s] = sync[s] \/ sync'[s] = SyncIdle
      BY <1>7 DEF Crash, FailSync, Set, SyncInv, SyncTypeOK, stateVars
    <2>2. \A i \in Item : Recorded(i)' <=> Recorded(i)
      BY <2>1, SameRecords
    <2> QED BY <1>2, <2>1, <2>2, PassOther
  <1> QED BY <1>2, <1>4, <1>5, <1>6, <1>7, PassChange, PassGo, PassPersist, PassRecord, PassComplete
          DEF SyncNext, SyncStep

-----------------------------------------------------------------------------
(* The documents of the items. *)

Named(i) == item[i] # None /\ item[i].doc # None
Holds(d, c) == row[d] # None /\ object[d][row[d]] = c

(* The store works for the item.                                            *)
Storing(i) == writer.pc # "idle" /\ \E s \in Sync : sync[s].pc \in Busy /\ sync[s].at.id = i

(* The document that is being written belongs to the item it is written for.  *)
Names ==
  /\ \A i \in Item : Named(i) => item[i].doc \in used
  /\ \A i, j \in Item : Named(i) /\ Named(j) /\ i # j => item[i].doc # item[j].doc
  /\ \A i \in Item : Named(i) /\ writer.doc # None => (item[i].doc = writer.doc <=> Storing(i))
  /\ \A d \in Doc : row[d] # None =>
       (\E i \in Item : Named(i) /\ item[i].doc = d) \/ writer.doc = d \/ d \in stray

(* What is being written, or has been, is what the item will say.            *)
Writes(s) ==
  sync[s].pc \in Busy =>
    /\ writer.pc \in {"put", "open", "commit"} => writer.data = sync[s].at.content
    /\ writer.pc \in {"drop", "done"} =>
         writer.doc \in Doc /\ (row[writer.doc] # None => Holds(writer.doc, sync[s].at.content))
    /\ sync[s].pc = "record" /\ writer.pc = "idle" =>
         /\ item[sync[s].at.id] # None /\ item[sync[s].at.id].content = sync[s].at.content
         /\ \/ item[sync[s].at.id].doc = sync[s].doc
            \/ sync[s].doc # None /\ row[sync[s].doc] = None

Contents ==
  /\ \A s \in Sync : Writes(s)
  /\ \A i \in Item : Named(i) => Holds(item[i].doc, item[i].content) \/ i \in torn \/ Storing(i)

OwnInv == Names /\ Contents

LEMMA OwnInit == SyncInit => OwnInv
  <1> SUFFICES ASSUME SyncInit PROVE OwnInv
    OBVIOUS
  <1>1. /\ \A i \in Item : ~Named(i)
        /\ \A s \in Sync : sync[s].pc \notin Busy
        /\ \A d \in Doc : row[d] = None
    BY SyncIdleTypes DEF SyncInit, StoreInit, Named, Busy
  <1> QED BY <1>1 DEF OwnInv, Names, Contents, Writes

(* Nothing is stored or recorded, and who is at which item stays.            *)
LEMMA OwnKeep ==
  ASSUME OwnInv, UNCHANGED <<row, object, used, writer, item, torn, stray>>,
         \A s \in Sync : /\ sync'[s].pc \in Busy <=> sync[s].pc \in Busy
                         /\ sync[s].pc \in Busy => sync'[s].at = sync[s].at /\ sync'[s].doc = sync[s].doc
                         /\ sync'[s].pc = "record" => sync[s].pc = "record" \/ writer.pc # "idle"
  PROVE  OwnInv'
  <1>1. \A i \in Item : (Named(i)' <=> Named(i)) /\ (Storing(i)' <=> Storing(i))
    BY DEF Named, Storing
  <1>2. \A d, c : Holds(d, c)' <=> Holds(d, c)
    BY DEF Holds
  <1>3. Names'
    BY <1>1 DEF OwnInv, Names
  <1>4. \A s \in Sync : Writes(s)'
    BY DEF OwnInv, Contents, Writes, Holds
  <1>5. \A i \in Item : (Named(i) => Holds(item[i].doc, item[i].content) \/ i \in torn \/ Storing(i))'
    BY <1>1 DEF OwnInv, Contents, Holds
  <1> QED BY <1>3, <1>4, <1>5 DEF OwnInv, Contents

LEMMA OwnGo ==
  ASSUME SyncInv, OwnInv, NEW s \in Sync,
         BeginSync(s) \/ Fetch(s) \/ FetchFails(s) \/ Receive(s) \/ StoreReturns(s) \/ CompleteSync(s)
  PROVE  OwnInv'
  <1>1. UNCHANGED <<row, object, used, writer, item, torn, stray>>
    BY DEF BeginSync, Fetch, FetchFails, Receive, StoreReturns, CompleteSync, storeVars, tableVars, historyVars
  <1>2. sync \in [Sync -> SyncLocals]
    BY DEF SyncInv, SyncTypeOK
  <1>3. CASE CompleteSync(s)
    <2>1. \A q \in Sync : /\ sync'[q].pc = (IF q = s THEN "idle" ELSE sync[q].pc)
                          /\ q # s => sync'[q].at = sync[q].at /\ sync'[q].doc = sync[q].doc
      BY <1>2, <1>3, SyncIdleTypes DEF CompleteSync, SyncLocals
    <2>2. sync[s].pc = "persist"
      BY <1>3 DEF CompleteSync, At
    <2> QED BY <1>1, <2>1, <2>2, OwnKeep DEF Busy
  <1>4. ASSUME NEW r, r \in SyncLocals, sync' = [sync EXCEPT ![s] = r],
               r.pc \in Busy <=> sync[s].pc \in Busy,
               sync[s].pc \in Busy => r.at = sync[s].at /\ r.doc = sync[s].doc,
               r.pc = "record" => writer.pc # "idle"
        PROVE  OwnInv'
    <2>1. \A q \in Sync : sync'[q] = IF q = s THEN r ELSE sync[q]
      BY <1>2, <1>4
    <2> QED BY <1>1, <1>4, <2>1, OwnKeep
  <1>5. CASE BeginSync(s)
    <2> DEFINE r == [SyncIdle EXCEPT !.pc = "reading", !.cur = cursor]
    <2>1. r \in SyncLocals /\ r.pc = "reading" /\ sync[s].pc = "idle" /\ sync' = [sync EXCEPT ![s] = r]
      BY <1>5 DEF BeginSync, Set, At, SyncInv, SyncTypeOK, SyncIdle, SyncLocals, SyncPhase
    <2> HIDE DEF r
    <2> QED BY <1>4, <2>1 DEF Busy
  <1>6. CASE Fetch(s)
    <2>1. PICK l \in SyncLocals : l.pc = "fetched" /\ sync' = [sync EXCEPT ![s] = l]
      BY <1>6, FetchLocals
    <2>2. sync[s].pc = "reading"
      BY <1>6 DEF Fetch, At
    <2> QED BY <1>4, <2>1, <2>2 DEF Busy
  <1>7. CASE FetchFails(s)
    BY <1>4, <1>7, SyncIdleTypes DEF FetchFails, Set, At, Busy
  <1>8. CASE Receive(s) \/ StoreReturns(s)
    <2>1. PICK p \in {"persist", "record"} :
            /\ sync' = [sync EXCEPT ![s] = [sync[s] EXCEPT !.pc = p]]
            /\ p = "persist" => sync[s].pc = "fetched"
            /\ p = "record" => sync[s].pc = "store" /\ writer.pc # "idle"
      BY <1>8 DEF Receive, StoreReturns, Go, Set, At, WriterAt
    <2> DEFINE r == [sync[s] EXCEPT !.pc = p]
    <2>2. r \in SyncLocals /\ r.pc = p /\ r.at = sync[s].at /\ r.doc = sync[s].doc
      BY <1>2 DEF SyncLocals, SyncPhase
    <2> HIDE DEF r
    <2>3. sync' = [sync EXCEPT ![s] = r]
      BY <2>1 DEF r
    <2> QED BY <1>4, <2>1, <2>2, <2>3 DEF Busy
  <1> QED BY <1>3, <1>5, <1>6, <1>7, <1>8

(* While a synchronisation looks at its page, no document is being written.   *)
LEMMA PersistOwn ==
  ASSUME SyncInv, OwnInv, NEW s \in Sync, sync[s].pc = "persist"
  PROVE  /\ writer = WriterIdle /\ writer.pc = "idle" /\ writer.doc = None
         /\ \A r \in Sync : sync[r].pc \notin Busy
         /\ \A i \in Item : ~Storing(i)
         /\ \A i \in Item : Named(i) => Holds(item[i].doc, item[i].content) \/ i \in torn
  <1>1. writer = WriterIdle
    BY PersistIdle DEF SyncInv
  <1>2. writer.pc = "idle" /\ writer.doc = None
    BY <1>1 DEF WriterIdle
  <1>3. \A r \in Sync : sync[r].pc \notin Busy
    BY DEF SyncInv, Turns, Loop, Busy
  <1> QED BY <1>1, <1>2, <1>3 DEF Storing, OwnInv, Contents

LEMMA OwnDeletion ==
  ASSUME SyncInv, OwnInv, NEW s \in Sync, Persist(s), NEW x \in sync[s].page, RecordDeletion(s, x)
  PROVE  OwnInv'
  <1>1. /\ sync[s].pc = "persist" /\ sync[s] \in SyncLocals /\ sync \in [Sync -> SyncLocals]
        /\ item \in [Item -> ItemRecord \cup {None}] /\ x \in Fetched
        /\ UNCHANGED <<row, object, used, writer, torn, stray>>
    BY DEF Persist, RecordDeletion, At, SyncInv, SyncTypeOK, SyncLocals, storeVars, tableVars
  <1>2. /\ writer.pc = "idle" /\ writer.doc = None
        /\ \A i \in Item : ~Storing(i)
        /\ \A i \in Item : Named(i) => Holds(item[i].doc, item[i].content) \/ i \in torn
    BY <1>1, PersistOwn
  <1>3. x.id \in Item
    BY <1>1 DEF Fetched
  <1>4. \A r \in Sync : sync'[r].pc = sync[r].pc
    BY <1>1 DEF RecordDeletion, Set, SyncLocals
  <1>5. \A r \in Sync : sync'[r].pc \notin Busy
    BY <1>1, <1>4, PersistOwn
  <1>6. ASSUME NEW i \in Item
        PROVE  /\ Named(i)' <=> Named(i)
               /\ Named(i) => item'[i].doc = item[i].doc /\ item'[i].content = item[i].content
    <2>1. CASE i # x.id
      BY <1>1, <1>3, <2>1 DEF RecordDeletion, Named
    <2>2. CASE i = x.id /\ item[i] = None
      BY <1>1, <1>3, <2>2 DEF RecordDeletion, Named
    <2>3. CASE i = x.id /\ item[i] # None
      <3>1. item'[i] = [item[i] EXCEPT !.gone = TRUE] /\ item[i] \in ItemRecord
        BY <1>1, <1>3, <2>3 DEF RecordDeletion
      <3>2. item'[i] \in ItemRecord /\ item'[i].doc = item[i].doc /\ item'[i].content = item[i].content
        BY <3>1 DEF ItemRecord
      <3> QED BY <2>3, <3>2, SyncAssumption DEF Named
    <2> QED BY <2>1, <2>2, <2>3
  <1>7. Names'
    BY <1>1, <1>2, <1>6 DEF OwnInv, Names
  <1>8. Contents'
    BY <1>1, <1>2, <1>5, <1>6 DEF Contents, Writes, Holds
  <1> QED BY <1>7, <1>8 DEF OwnInv

(* An item is taken in hand: what is written from now on is its document.     *)
LEMMA OwnTake ==
  ASSUME SyncInv, OwnInv, NEW s \in Sync, Persist(s), NEW x \in sync[s].page,
         PassUnchanged(s, x) \/ StoreItem(s, x)
  PROVE  OwnInv'
  <1>1. /\ sync[s].pc = "persist" /\ sync[s] \in SyncLocals /\ sync \in [Sync -> SyncLocals]
        /\ x \in Fetched /\ UNCHANGED <<item, torn, stray>>
    BY DEF Persist, PassUnchanged, StoreItem, At, SyncInv, SyncTypeOK, SyncLocals
  <1>2. /\ writer.pc = "idle" /\ writer.doc = None
        /\ \A r \in Sync : sync[r].pc \notin Busy
        /\ \A i \in Item : Named(i) => Holds(item[i].doc, item[i].content) \/ i \in torn
    BY <1>1, PersistOwn
  <1>3. x.id \in Item
    BY <1>1 DEF Fetched
  <1>4. PICK p \in Busy : Set(s, [sync[s] EXCEPT !.pc = p, !.page = Rest(s, x), !.at = x, !.doc = StoredDoc(x)])
                          /\ (p = "record" => PassUnchanged(s, x)) /\ (p = "store" => StoreItem(s, x))
    BY DEF PassUnchanged, StoreItem, Take, Busy
  <1>5. /\ sync'[s].pc = p /\ sync'[s].at = x /\ sync'[s].doc = StoredDoc(x) /\ \A r \in Sync : r # s => sync'[r] = sync[r]
    BY <1>1, <1>4 DEF Set, SyncLocals
  <1>6. UNCHANGED <<row, object>> /\ used \subseteq used'
    BY DEF PassUnchanged, StoreItem, StartIngest, StartReplace, RefuseWrite, storeVars, tableVars
  <1>7. \A i \in Item : Named(i)' <=> Named(i)
    BY <1>1 DEF Named
  <1>8. \A i \in Item : Storing(i)' <=> (writer'.pc # "idle" /\ i = x.id)
    BY <1>2, <1>4, <1>5 DEF Storing
  <1>9. CASE PassUnchanged(s, x)
    <2>1. /\ writer' = writer /\ item[x.id] # None /\ item[x.id].content = x.content /\ used' = used
          /\ item[x.id].doc = StoredDoc(x)
      BY <1>9 DEF PassUnchanged, Unchanged, StoredDoc, storeVars, tableVars
    <2>2. Names'
      BY <1>1, <1>2, <1>6, <1>7, <2>1 DEF OwnInv, Names
    <2>3. \A r \in Sync : Writes(r)'
      BY <1>1, <1>2, <1>5, <2>1 DEF Writes
    <2>4. \A i \in Item : (Named(i) => Holds(item[i].doc, item[i].content) \/ i \in torn \/ Storing(i))'
      BY <1>1, <1>2, <1>6, <1>7 DEF Holds
    <2> QED BY <2>2, <2>3, <2>4 DEF OwnInv, Contents
  <1>10. CASE StoreItem(s, x)
    <2>1. /\ writer'.pc \in {"put", "failed"}
          /\ writer'.pc = "put" => writer'.data = x.content
          /\ writer'.doc # None => \A i \in Item : Named(i) => (item[i].doc = writer'.doc <=> i = x.id)
      <3>1. CASE RefuseWrite
        BY <3>1 DEF RefuseWrite, WriterIdle
      <3>2. ASSUME NEW d \in Doc, StartIngest(d, x.content), ~Named(x.id)
            PROVE  /\ writer'.pc = "put" /\ writer'.data = x.content
                   /\ \A i \in Item : Named(i) => (item[i].doc = writer'.doc <=> i = x.id)
        <4>1. writer'.pc = "put" /\ writer'.data = x.content /\ writer'.doc = d /\ d \notin used
          BY <3>2 DEF StartIngest, WriterIdle
        <4> QED BY <3>2, <4>1 DEF OwnInv, Names
      <3>3. ASSUME Named(x.id), StartReplace(StoredDoc(x), x.content)
            PROVE  /\ writer'.pc = "put" /\ writer'.data = x.content
                   /\ \A i \in Item : Named(i) => (item[i].doc = writer'.doc <=> i = x.id)
        <4>1. writer'.pc = "put" /\ writer'.data = x.content /\ writer'.doc = item[x.id].doc
          BY <3>3 DEF StartReplace, WriterIdle, StoredDoc, Named
        <4> QED BY <1>3, <3>3, <4>1 DEF OwnInv, Names
      <3> QED BY <1>10, <3>1, <3>2, <3>3 DEF StoreItem, StoredDoc, Named
    <2>2. p = "store" /\ writer'.pc # "idle" /\ writer'.pc \notin {"open", "commit", "drop", "done"}
      <3>1. sync'[s].pc = "store"
        BY <1>1, <1>10 DEF StoreItem, Take, Set, SyncLocals
      <3> QED BY <1>5, <2>1, <3>1
    <2>3. Names'
      <3>1. \A i \in Item : (Named(i) => item[i].doc \in used)'
        BY <1>1, <1>6, <1>7 DEF OwnInv, Names
      <3>2. \A i, j \in Item : (Named(i) /\ Named(j) /\ i # j => item[i].doc # item[j].doc)'
        BY <1>1, <1>7 DEF OwnInv, Names
      <3>3. \A i \in Item : (Named(i) /\ writer.doc # None => (item[i].doc = writer.doc <=> Storing(i)))'
        BY <1>1, <1>7, <1>8, <2>1, <2>2
      <3>4. \A d \in Doc : row[d] # None => (\E i \in Item : Named(i) /\ item[i].doc = d) \/ d \in stray
        BY <1>2, Keys DEF OwnInv, Names
      <3>5. \A d \in Doc : (row[d] # None =>
               (\E i \in Item : Named(i) /\ item[i].doc = d) \/ writer.doc = d \/ d \in stray)'
        BY <1>1, <1>6, <1>7, <3>4
      <3> QED BY <3>1, <3>2, <3>3, <3>5 DEF Names
    <2>4. \A r \in Sync : Writes(r)'
      BY <1>2, <1>5, <2>1, <2>2 DEF Writes
    <2>5. \A i \in Item : (Named(i) => Holds(item[i].doc, item[i].content) \/ i \in torn \/ Storing(i))'
      BY <1>1, <1>2, <1>6, <1>7 DEF Holds
    <2> QED BY <2>3, <2>4, <2>5 DEF OwnInv, Contents
  <1> QED BY <1>9, <1>10

(* Only one synchronisation is at an item.                                  *)
LEMMA OneAtItem ==
  ASSUME SyncInv, NEW s \in Sync, sync[s].pc \in Busy
  PROVE  /\ \A r \in Sync : sync[r].pc \in Busy => r = s
         /\ \A i \in Item : Storing(i) <=> (writer.pc # "idle" /\ i = sync[s].at.id)
         /\ sync[s].at \in Fetched /\ sync[s].at.id \in Item
  <1>1. \A r \in Sync : sync[r].pc \in Busy => r = s
    BY DEF SyncInv, Turns, Loop, Busy
  <1>2. sync[s].at \in Fetched
    BY DEF SyncInv, Turns
  <1> QED BY <1>1, <1>2 DEF Storing, Fetched

(* The item is written: it names the document that was, if any, or the one it *)
(* had, and says what that document holds.                                   *)
LEMMA OwnRecord ==
  ASSUME SyncInv, OwnInv, NEW s \in Sync, RecordItem(s)
  PROVE  OwnInv'
  <1>1. /\ sync[s].pc = "record" /\ sync[s].pc \in Busy /\ writer.pc \in {"idle", "done"}
        /\ sync[s] \in SyncLocals /\ sync \in [Sync -> SyncLocals]
        /\ item \in [Item -> ItemRecord \cup {None}]
    BY DEF RecordItem, At, SyncInv, SyncTypeOK, Turns, Busy
  <1> PICK x \in Fetched, j \in Item : x = sync[s].at /\ j = sync[s].at.id
    BY <1>1, OneAtItem
  <1>2. /\ \A r \in Sync : sync[r].pc \in Busy => r = s
        /\ \A i \in Item : Storing(i) <=> (writer.pc # "idle" /\ i = j)
        /\ x.content \in Content
    BY <1>1, OneAtItem DEF Fetched
  <1> PICK d \in Doc \cup {None} : d = DocumentOf(s)
    BY <1>1 DEF SyncInv, SyncTypeOK, SyncLocals, StoreTypeOK, WriterLocals, DocumentOf
  <1> DEFINE t == [content |-> x.content, doc |-> d, gone |-> FALSE]
  <1>3. /\ UNCHANGED <<row, object, used, stray>> /\ writer' = WriterIdle
        /\ d # None => row[d] # None
        /\ item' = [item EXCEPT ![j] = t]
        /\ torn' = IF writer.pc = "done" THEN torn \ {j} ELSE torn
        /\ sync' = [sync EXCEPT ![s] = [sync[s] EXCEPT !.pc = "persist", !.at = None, !.doc = None]]
    BY DEF RecordItem, Set, WriterAt, tableVars
  <1>4. \A r \in Sync : sync'[r].pc \notin Busy
    BY <1>1, <1>2, <1>3 DEF Busy, SyncLocals
  <1>5. writer'.pc = "idle" /\ writer'.doc = None
    BY <1>3 DEF WriterIdle
  <1>6. \A i \in Item : ~Storing(i)'
    BY <1>5 DEF Storing
  <1>7. Writes(s)
    BY DEF OwnInv, Contents
  <1>8. t \in ItemRecord /\ t.doc = d /\ t.content = x.content
    BY <1>2 DEF ItemRecord
  <1> HIDE DEF t
  <1>9. t # None
    BY <1>8, SyncAssumption
  <1>10. /\ item'[j] = t
         /\ \A i \in Item : i # j => item'[i] = item[i]
    BY <1>1, <1>2, <1>3
  <1>11. /\ Named(j)' <=> d # None
         /\ item'[j].doc = d /\ item'[j].content = x.content
         /\ \A i \in Item : i # j => (Named(i)' <=> Named(i))
    BY <1>8, <1>9, <1>10 DEF Named
  <1>12. writer.pc = "idle" => writer.doc = None
    BY DEF SyncInv, Turns, WriterIdle
  <1>13. CASE writer.doc # None
    <2>1. d = writer.doc /\ writer.pc = "done"
      BY <1>1, <1>12, <1>13 DEF DocumentOf
    <2>2. Holds(d, x.content)
      BY <1>1, <1>3, <1>7, <1>13, <2>1 DEF Writes
    <2>3. \A i \in Item : Named(i) => (item[i].doc = d <=> i = j)
      BY <1>2, <1>13, <2>1 DEF OwnInv, Names
    <2>4. d \in used
      <3>1. row[d] # None /\ d \in Doc
        BY <1>3, <1>13, <2>1
      <3> QED BY <3>1 DEF SyncInv, StoreInv, Known, RowUsed
    <2>5. Names'
      <3>1. \A i \in Item : (Named(i) => item[i].doc \in used)'
        BY <1>3, <1>10, <1>11, <2>4 DEF OwnInv, Names
      <3>2. \A i, k \in Item : (Named(i) /\ Named(k) /\ i # k => item[i].doc # item[k].doc)'
        BY <1>10, <1>11, <2>3 DEF OwnInv, Names
      <3>3. \A e \in Doc : row[e] # None => (\E i \in Item : Named(i)' /\ item'[i].doc = e) \/ e \in stray
        <4> TAKE e \in Doc
        <4>1. CASE e = d
          BY <1>2, <1>11, <1>13, <2>1, <4>1
        <4>2. CASE e # d
          <5>1. row[e] # None => (\E i \in Item : Named(i) /\ item[i].doc = e) \/ e \in stray
            BY <2>1, <4>2 DEF OwnInv, Names
          <5>2. \A i \in Item : Named(i) /\ item[i].doc = e => i # j
            BY <2>3, <4>2
          <5> QED BY <1>10, <1>11, <5>1, <5>2
        <4> QED BY <4>1, <4>2
      <3> QED BY <1>3, <1>5, <3>1, <3>2, <3>3 DEF Names
    <2>6. \A i \in Item : (Named(i) => Holds(item[i].doc, item[i].content) \/ i \in torn \/ Storing(i))'
      <3> TAKE i \in Item
      <3>1. CASE i = j
        BY <1>3, <1>11, <2>2, <3>1 DEF Holds
      <3>2. CASE i # j
        BY <1>2, <1>3, <1>10, <1>11, <2>1, <3>2 DEF OwnInv, Contents, Holds
      <3> QED BY <3>1, <3>2
    <2> QED BY <1>4, <2>5, <2>6 DEF OwnInv, Contents, Writes
  <1>14. CASE writer.doc = None
    <2>1. writer.pc = "idle"
      BY <1>1, <1>7, <1>14, Keys DEF Writes
    <2>2. item[j] # None /\ item[j].content = x.content /\ d = item[j].doc
      <3>1. d = sync[s].doc
        BY <1>14 DEF DocumentOf
      <3> QED BY <1>1, <1>3, <1>7, <2>1, <3>1 DEF Writes
    <2>3. \A i \in Item : /\ Named(i)' <=> Named(i)
                          /\ Named(i) => item'[i].doc = item[i].doc /\ item'[i].content = item[i].content
      BY <1>10, <1>11, <2>2 DEF Named
    <2>4. torn' = torn /\ \A i \in Item : ~Storing(i)
      BY <1>2, <1>3, <2>1
    <2>5. Names'
      BY <1>3, <1>5, <1>6, <1>14, <2>3 DEF OwnInv, Names
    <2>6. \A i \in Item : (Named(i) => Holds(item[i].doc, item[i].content) \/ i \in torn \/ Storing(i))'
      BY <1>3, <2>3, <2>4 DEF OwnInv, Contents, Holds
    <2> QED BY <1>4, <2>5, <2>6 DEF OwnInv, Contents, Writes
  <1> QED BY <1>13, <1>14

(* A failure, or the death of the process, leaves the item that was being      *)
(* stored torn and its document stray.                                      *)
LEMMA OwnEnd ==
  ASSUME SyncInv, OwnInv, NEW S \in SUBSET Sync, Tear(S), writer' = WriterIdle,
         UNCHANGED <<row, object, used, item>>,
         \A s \in Sync : sync[s].pc \in Busy => s \in S,
         \A s \in Sync : sync'[s].pc \notin Busy
  PROVE  OwnInv'
  <1>1. writer'.pc = "idle" /\ writer'.doc = None
    BY DEF WriterIdle
  <1>2. \A i \in Item : (Named(i)' <=> Named(i)) /\ ~Storing(i)'
    BY <1>1 DEF Named, Storing
  <1>3. torn \subseteq torn' /\ stray \subseteq stray'
    BY DEF Tear
  <1>4. \A i \in Item : Storing(i) => i \in torn'
    BY DEF Storing, Tear, WriterAt, Busy
  <1>5. \A d \in Doc : writer.doc = d => d \in stray'
    <2> TAKE d \in Doc
    <2>1. SUFFICES ASSUME writer.doc = d PROVE d \in stray'
      OBVIOUS
    <2>2. writer.doc # None /\ writer.pc # "idle"
      BY <2>1, Keys DEF SyncInv, Turns, WriterIdle
    <2>3. PICK s \in Sync : sync[s].pc \in Busy
      BY <2>2 DEF SyncInv, Turns
    <2> QED BY <2>1, <2>2, <2>3 DEF Tear, WriterAt, Busy
  <1>6. Names'
    <2>1. \A d \in Doc : (row[d] # None =>
             (\E i \in Item : Named(i) /\ item[i].doc = d) \/ writer.doc = d \/ d \in stray)'
      BY <1>2, <1>3, <1>5 DEF OwnInv, Names
    <2> QED BY <1>1, <1>2, <2>1 DEF OwnInv, Names
  <1>7. \A i \in Item : (Named(i) => Holds(item[i].doc, item[i].content) \/ i \in torn \/ Storing(i))'
    BY <1>2, <1>3, <1>4 DEF OwnInv, Contents, Holds
  <1> QED BY <1>6, <1>7 DEF OwnInv, Contents, Writes

LEMMA OwnFail ==
  ASSUME SyncInv, OwnInv, NEW s \in Sync, FailSync(s)
  PROVE  OwnInv'
  <1>1. sync[s].pc \in Loop /\ sync' = [sync EXCEPT ![s] = SyncIdle] /\ sync \in [Sync -> SyncLocals]
    BY DEF FailSync, At, Set, Loop, SyncInv, SyncTypeOK
  <1>2. \A r \in Sync : sync[r].pc \in Busy => r \in {s}
    BY <1>1 DEF SyncInv, Turns, Loop, Busy
  <1>3. \A r \in Sync : sync'[r].pc \notin Busy
    BY <1>1, <1>2, SyncIdleTypes DEF Busy
  <1>4. UNCHANGED <<row, object, used, item>> /\ writer' = WriterIdle /\ Tear({s})
    BY DEF FailSync, tableVars
  <1> QED BY <1>2, <1>3, <1>4, OwnEnd

LEMMA OwnCrash ==
  ASSUME SyncInv, OwnInv, Crash
  PROVE  OwnInv'
  <1>1. \A r \in Sync : sync'[r].pc \notin Busy
    BY SyncIdleTypes DEF Crash, Busy
  <1>2. UNCHANGED <<row, object, used, item>> /\ writer' = WriterIdle /\ Tear(Sync)
    BY DEF Crash, StoreCrash, tableVars
  <1> QED BY <1>1, <1>2, OwnEnd

(* The rows and files a step of the store touches are those of the document   *)
(* it commits, or of no row.                                                *)
LEMMA WorkHolds ==
  ASSUME SyncInv, StoreWorks
  PROVE  /\ used' = used /\ writer'.doc = writer.doc
         /\ \A d \in Doc : ~(d = writer.doc /\ writer.pc = "commit") =>
              row'[d] = row[d] /\ \A c : Holds(d, c)' <=> Holds(d, c)
         /\ writer'.pc \in {"put", "open", "commit"} =>
              writer.pc \in {"put", "open", "commit"} /\ writer'.data = writer.data
         /\ writer'.pc \in {"drop", "done"} =>
              \/ writer.pc \in {"drop", "done"}
              \/ /\ writer.pc = "commit" /\ writer.doc \in Doc
                 /\ \A d, c : d = writer.doc /\ c = writer.data => Holds(d, c)'
         /\ writer.pc = "commit" /\ writer'.pc # "commit" /\ writer'.pc \notin {"drop", "done"} =>
              \A d \in Doc : row'[d] = row[d] /\ \A c : Holds(d, c)' <=> Holds(d, c)
  <1>1. /\ StoreTypeOK /\ Known /\ writer \in WriterLocals
        /\ row \in [Doc -> Key \cup {None}] /\ object \in [Doc -> [Key -> Content \cup {None}]]
    BY DEF SyncInv, StoreInv, StoreTypeOK
  <1>2. ASSUME UNCHANGED <<row, object>>
        PROVE  \A d \in Doc : row'[d] = row[d] /\ \A c : Holds(d, c)' <=> Holds(d, c)
    BY <1>2 DEF Holds
  <1>3. ASSUME UNCHANGED row, NEW e \in Doc, NEW k \in Key, row[e] # k,
               \A d \in Doc, q \in Key : ~(d = e /\ q = k) => object'[d][q] = object[d][q]
        PROVE  \A d \in Doc : row'[d] = row[d] /\ \A c : Holds(d, c)' <=> Holds(d, c)
    BY <1>1, <1>3 DEF Holds
  <1>4. CASE PutFile
    <2>1. writer.pc = "put" /\ UNCHANGED <<row, used>> /\ writer'.doc = writer.doc /\ writer'.data = writer.data
          /\ writer'.pc \in {"commit", "open", "failed"}
      BY <1>1, <1>4 DEF PutFile, WriterAt, WriterGo, WriterLocals, tableVars
    <2>2. /\ writer.doc \in Doc /\ writer.key \in Key /\ row[writer.doc] # writer.key
          /\ writer.data \in Content
      BY <1>1, <2>1, Keys DEF Known, Preparing, StoreTypeOK
    <2>3. \A d \in Doc : row'[d] = row[d] /\ \A c : Holds(d, c)' <=> Holds(d, c)
      <3>1. CASE Put(writer.doc, writer.key, writer.data)
        <4>1. \A d \in Doc, q \in Key : ~(d = writer.doc /\ q = writer.key) => object'[d][q] = object[d][q]
          BY <1>1, <2>2, <3>1, PutOne
        <4> QED BY <1>3, <2>1, <2>2, <4>1
      <3> QED BY <1>2, <1>4, <2>1, <3>1 DEF PutFile
    <2> QED BY <2>1, <2>3
  <1>5. CASE OpenReplace
    <2>1. /\ writer.pc = "open" /\ UNCHANGED <<row, used, object>> /\ writer'.doc = writer.doc
          /\ writer'.data = writer.data /\ writer'.pc = "commit"
      BY <1>1, <1>5 DEF OpenReplace, WriterAt, WriterLocals, tableVars
    <2> QED BY <1>2, <2>1
  <1>6. CASE CommitWrite
    <2>1. writer.pc = "commit" /\ UNCHANGED <<object, used>>
      BY <1>6 DEF CommitWrite, WriterAt
    <2>2. writer.doc \in Doc /\ writer.key \in Key /\ writer.data \in Content
      BY <1>1, <2>1 DEF Known, Preparing, StoreTypeOK
    <2>3. CASE WriterGo("discard") /\ UNCHANGED row
      <3>1. writer'.doc = writer.doc /\ writer'.pc = "discard"
        BY <1>1, <2>3 DEF WriterGo, WriterLocals
      <3> QED BY <1>2, <2>1, <2>3, <3>1
    <2>4. CASE /\ writer.new \/ row[writer.doc] # None
               /\ row' = [row EXCEPT ![writer.doc] = writer.key]
               /\ writer' = [WriterIdle EXCEPT !.pc = IF writer.new THEN "done" ELSE "drop",
                                               !.doc = writer.doc, !.old = writer.old]
      <3>1. writer'.doc = writer.doc /\ writer'.pc \in {"done", "drop"}
        BY <2>4 DEF WriterIdle
      <3>2. object[writer.doc][writer.key] = writer.data
        BY <1>1, <2>1, <2>4 DEF Known, Stored
      <3>3. \A d \in Doc : row'[d] = IF d = writer.doc THEN writer.key ELSE row[d]
        BY <1>1, <2>4
      <3>4. row'[writer.doc] = writer.key /\ writer.key # None /\ object'[writer.doc][writer.key] = writer.data
        BY <2>1, <2>2, <3>2, <3>3, Keys
      <3>5. \A d, c : d = writer.doc /\ c = writer.data => Holds(d, c)'
        BY <3>4 DEF Holds
      <3>6. \A d \in Doc : d # writer.doc => row'[d] = row[d] /\ \A c : Holds(d, c)' <=> Holds(d, c)
        BY <2>1, <3>3 DEF Holds
      <3> QED BY <2>1, <2>2, <3>1, <3>5, <3>6
    <2> QED BY <1>6, <2>3, <2>4 DEF CommitWrite
  <1>7. CASE DiscardFile
    <2>1. writer.pc = "discard" /\ UNCHANGED <<row, used>> /\ writer'.doc = writer.doc /\ writer'.pc = "failed"
          /\ DeleteSafely(writer.doc, writer.key)
      BY <1>1, <1>7 DEF DiscardFile, WriterAt, WriterGo, WriterLocals, tableVars
    <2>2. writer.doc \in Doc /\ writer.key \in Key /\ row[writer.doc] # writer.key
      BY <1>1, <2>1, Keys DEF Known, Preparing, StoreTypeOK
    <2>3. \A d \in Doc : row'[d] = row[d] /\ \A c : Holds(d, c)' <=> Holds(d, c)
      BY <1>1, <1>3, <2>1, <2>2, DropOne
    <2> QED BY <2>1, <2>3
  <1>8. CASE DropReplaced
    <2>1. writer.pc = "drop" /\ UNCHANGED <<row, used>> /\ writer'.doc = writer.doc
          /\ writer'.pc \in {"done", "failed"}
      BY <1>1, <1>8 DEF DropReplaced, WriterAt, WriterGo, WriterLocals, tableVars
    <2>2. writer.doc \in Doc /\ writer.old \in Key /\ row[writer.doc] # writer.old
      BY <1>1, <2>1, Keys DEF Known, Dropping, StoreTypeOK
    <2>3. \A d \in Doc : row'[d] = row[d] /\ \A c : Holds(d, c)' <=> Holds(d, c)
      <3>1. CASE DeleteSafely(writer.doc, writer.old)
        BY <1>1, <1>3, <2>1, <2>2, <3>1, DropOne
      <3> QED BY <1>2, <1>8, <2>1, <3>1 DEF DropReplaced
    <2> QED BY <2>1, <2>3
  <1>9. ASSUME NEW u \in User, ReadFile(u) \/ OpenReindex(u) \/ CommitReindex(u)
        PROVE  /\ UNCHANGED <<row, object, used>> /\ writer'.pc = writer.pc
               /\ writer'.doc = writer.doc /\ writer'.data = writer.data
    <2>1. UNCHANGED <<row, object, used>>
      BY <1>9 DEF ReadFile, OpenReindex, CommitReindex, tableVars
    <2>2. writer' = writer \/ writer' = [writer EXCEPT !.overtaken = TRUE]
      BY <1>9 DEF ReadFile, OpenReindex, CommitReindex, OvertakeDeletes
    <2> QED BY <1>1, <2>1, <2>2 DEF WriterLocals
  <1>10. ASSUME NEW u \in User, DropFile(u)
         PROVE  /\ UNCHANGED <<used, writer>>
                /\ \A d \in Doc : row'[d] = row[d] /\ \A c : Holds(d, c)' <=> Holds(d, c)
    <2>1. op[u].doc \in Doc /\ op[u].key \in Key /\ row[op[u].doc] = None
      BY <1>1, <1>10 DEF DropFile, OpAt, Known, OpKnows, StoreTypeOK
    <2>2. UNCHANGED <<row, used, writer>> /\ DeleteSafely(op[u].doc, op[u].key)
      BY <1>10 DEF DropFile, tableVars
    <2> QED BY <1>1, <1>3, <2>1, <2>2, DropOne, Keys
  <1>11. ASSUME NEW u \in User, OpStep(u)
         PROVE  /\ used' = used /\ writer'.pc = writer.pc
                /\ writer'.doc = writer.doc /\ writer'.data = writer.data
                /\ \A d \in Doc : row'[d] = row[d] /\ \A c : Holds(d, c)' <=> Holds(d, c)
    BY <1>2, <1>9, <1>10, <1>11 DEF OpStep
  <1>12. CASE \E u \in User : OpStep(u)
    BY <1>11, <1>12
  <1> QED BY <1>4, <1>5, <1>6, <1>7, <1>8, <1>12 DEF StoreWorks, WriterStep

LEMMA OwnWork ==
  ASSUME SyncInv, OwnInv, StoreWorks
  PROVE  OwnInv'
  <1>1. UNCHANGED <<item, sync, torn, stray>>
    BY DEF StoreWorks, historyVars
  <1>2. /\ used' = used /\ writer'.doc = writer.doc
        /\ (writer.pc # "idle") <=> (writer'.pc # "idle")
    <2>1. \/ UNCHANGED writer
          \/ writer.pc \in {"put", "open", "commit", "discard", "drop"} /\ writer'.pc # "idle"
      BY WorkWriter
    <2> QED BY <2>1, WorkHolds
  <1>3. \A i \in Item : (Named(i)' <=> Named(i)) /\ (Storing(i)' <=> Storing(i))
    BY <1>1, <1>2 DEF Named, Storing
  <1>4. ASSUME NEW d \in Doc, d # writer.doc
        PROVE  row'[d] = row[d] /\ \A c : Holds(d, c)' <=> Holds(d, c)
    BY <1>4, WorkHolds
  <1>5. Names'
    <2>1. \A d \in Doc : (row[d] # None =>
             (\E i \in Item : Named(i) /\ item[i].doc = d) \/ writer.doc = d \/ d \in stray)'
      BY <1>1, <1>2, <1>3, <1>4 DEF OwnInv, Names
    <2> QED BY <1>1, <1>2, <1>3, <2>1 DEF OwnInv, Names
  <1>6. ASSUME NEW s \in Sync PROVE Writes(s)'
    <2> SUFFICES ASSUME sync[s].pc \in Busy PROVE Writes(s)'
      BY <1>1 DEF Writes
    <2>1. Writes(s)
      BY DEF OwnInv, Contents
    <2>2. writer'.pc \in {"put", "open", "commit"} => writer'.data = sync'[s].at.content
      BY <1>1, <2>1, WorkHolds DEF Writes
    <2>3. writer'.pc \in {"drop", "done"} =>
            writer'.doc \in Doc /\ (row'[writer'.doc] # None => Holds(writer.doc, sync[s].at.content)')
      <3> SUFFICES ASSUME writer'.pc \in {"drop", "done"}, NEW d, NEW c, d = writer.doc, c = sync[s].at.content
                   PROVE  d \in Doc /\ (row'[d] # None => Holds(d, c)')
        BY <1>1, <1>2 DEF Holds
      <3>1. CASE writer.pc \in {"drop", "done"}
        <4>1. d \in Doc /\ (row[d] # None => Holds(d, c))
          BY <2>1, <3>1 DEF Writes
        <4>2. row'[d] = row[d] /\ (Holds(d, c)' <=> Holds(d, c))
          BY <3>1, <4>1, WorkHolds
        <4> QED BY <4>1, <4>2
      <3>2. CASE /\ writer.pc = "commit" /\ writer.doc \in Doc
                 /\ \A e, v : e = writer.doc /\ v = writer.data => Holds(e, v)'
        <4>1. c = writer.data
          BY <2>1, <3>2 DEF Writes
        <4> QED BY <3>2, <4>1
      <3> QED BY <3>1, <3>2, WorkHolds
    <2>4. sync'[s].pc = "record" /\ writer'.pc = "idle" =>
            /\ item'[sync'[s].at.id] # None /\ item'[sync'[s].at.id].content = sync'[s].at.content
            /\ \/ item'[sync'[s].at.id].doc = sync'[s].doc
               \/ sync'[s].doc # None /\ row'[sync'[s].doc] = None
      <3> SUFFICES ASSUME sync[s].pc = "record", writer.pc = "idle", sync[s].doc # None
                   PROVE  row'[sync[s].doc] = row[sync[s].doc]
        BY <1>1, <1>2, <2>1 DEF Writes
      <3>1. sync[s].doc \in Doc
        BY DEF SyncInv, SyncTypeOK, SyncLocals
      <3> QED BY <3>1, WorkHolds
    <2> QED BY <2>2, <2>3, <2>4 DEF Writes
  <1>7. ASSUME NEW i \in Item, Named(i)'
        PROVE  (Holds(item[i].doc, item[i].content) \/ i \in torn \/ Storing(i))'
    <2>1. Named(i)
      BY <1>3, <1>7
    <2>2. CASE Storing(i) \/ i \in torn
      BY <1>1, <1>3, <2>2
    <2>3. CASE ~Storing(i) /\ i \notin torn
      <3> PICK d, c : d = item[i].doc /\ c = item[i].content
        OBVIOUS
      <3>1. Holds(d, c) /\ d # None /\ d # writer.doc
        BY <2>1, <2>3 DEF OwnInv, Names, Contents, Named
      <3>2. d \in Doc
        BY <2>1, <3>1, ItemTypes DEF SyncInv, Named
      <3>3. Holds(d, c)'
        BY <1>4, <3>1, <3>2
      <3> QED BY <1>1, <3>3 DEF Holds
    <2> QED BY <2>2, <2>3
  <1> QED BY <1>5, <1>6, <1>7 DEF OwnInv, Contents

(* A document is deleted, and the item that named it names none.             *)
LEMMA OwnDelete ==
  ASSUME SyncInv, OwnInv, NEW u \in User, DeleteDocument(u)
  PROVE  OwnInv'
  <1>1. /\ UNCHANGED <<object, used, writer, sync, torn, stray>>
        /\ row' = [row EXCEPT ![op[u].doc] = None] /\ op[u].pc = "delete"
        /\ item' = [i \in Item |->
                      IF item[i] # None /\ item[i].doc = op[u].doc
                      THEN [item[i] EXCEPT !.doc = None] ELSE item[i]]
    BY DEF DeleteDocument, DeleteRow, OpAt, historyVars
  <1> PICK d \in Doc : d = op[u].doc
    BY <1>1 DEF SyncInv, StoreInv, Known, OpKnows, StoreTypeOK
  <1>2. \A e \in Doc : row'[e] = IF e = d THEN None ELSE row[e]
    BY <1>1 DEF SyncInv, StoreInv, StoreTypeOK
  <1>3. ASSUME NEW i \in Item
        PROVE  /\ item'[i] = None <=> item[i] = None
               /\ item[i] # None => item'[i].content = item[i].content
               /\ Named(i)' <=> (Named(i) /\ item[i].doc # d)
               /\ Named(i)' => item'[i].doc = item[i].doc
    <2>1. item[i] \in ItemRecord \cup {None} /\ None \notin ItemRecord
      BY SyncAssumption DEF SyncInv, SyncTypeOK
    <2>2. CASE item[i] # None /\ item[i].doc = d
      <3>1. item'[i] = [item[i] EXCEPT !.doc = None]
        BY <1>1, <2>2
      <3>2. item'[i] \in ItemRecord /\ item'[i].content = item[i].content /\ item'[i].doc = None
        BY <2>1, <2>2, <3>1 DEF ItemRecord
      <3> QED BY <2>1, <2>2, <3>2 DEF Named
    <2>3. CASE ~(item[i] # None /\ item[i].doc = d)
      <3>1. item'[i] = item[i]
        BY <1>1, <2>3
      <3> QED BY <2>3, <3>1 DEF Named
    <2> QED BY <2>2, <2>3
  <1>4. \A i \in Item : Storing(i)' <=> Storing(i)
    BY <1>1 DEF Storing
  <1>5. Names'
    <2>1. \A i \in Item : (Named(i) => item[i].doc \in used)'
      BY <1>1, <1>3 DEF OwnInv, Names
    <2>2. \A i, j \in Item : (Named(i) /\ Named(j) /\ i # j => item[i].doc # item[j].doc)'
      BY <1>3 DEF OwnInv, Names
    <2>3. \A i \in Item : (Named(i) /\ writer.doc # None => (item[i].doc = writer.doc <=> Storing(i)))'
      BY <1>1, <1>3, <1>4 DEF OwnInv, Names
    <2>4. \A e \in Doc : (row[e] # None =>
             (\E i \in Item : Named(i) /\ item[i].doc = e) \/ writer.doc = e \/ e \in stray)'
      BY <1>1, <1>2, <1>3 DEF OwnInv, Names
    <2> QED BY <2>1, <2>2, <2>3, <2>4 DEF Names
  <1>6. ASSUME NEW s \in Sync PROVE Writes(s)'
    <2>1. Writes(s)
      BY DEF OwnInv, Contents
    <2>2. sync[s].pc \in Busy => sync[s].at.id \in Item
      BY DEF SyncInv, Turns, Fetched
    <2> QED BY <1>1, <1>2, <1>3, <2>1, <2>2 DEF Writes, Holds
  <1>7. \A i \in Item : (Named(i) => Holds(item[i].doc, item[i].content) \/ i \in torn \/ Storing(i))'
    <2> TAKE i \in Item
    <2> SUFFICES ASSUME Named(i)' PROVE (Holds(item[i].doc, item[i].content) \/ i \in torn \/ Storing(i))'
      OBVIOUS
    <2>1. Named(i) /\ item[i].doc # d /\ item'[i].doc = item[i].doc /\ item'[i].content = item[i].content
      BY <1>3 DEF Named
    <2>2. item[i].doc \in Doc
      BY <2>1, ItemTypes DEF SyncInv, Named
    <2> QED BY <1>1, <1>2, <1>4, <2>1, <2>2 DEF OwnInv, Contents, Holds
  <1> QED BY <1>5, <1>6, <1>7 DEF OwnInv, Contents

LEMMA OwnStep ==
  ASSUME SyncInv, OwnInv, [SyncNext]_syncVars
  PROVE  OwnInv'
  <1>1. ASSUME UNCHANGED <<row, object, used, writer, item, torn, stray, sync>> PROVE OwnInv'
    BY <1>1, OwnKeep
  <1>2. CASE UNCHANGED syncVars
    BY <1>1, <1>2 DEF syncVars, storeVars, tableVars, historyVars
  <1>3. CASE \E i \in Item : Change(i)
    BY <1>1, <1>3 DEF Change, storeVars, tableVars, historyVars
  <1>4. CASE \E u \in User : BeginCall(u)
    BY <1>1, <1>4 DEF BeginCall, OpRead, BeginReindex, BeginDelete, tableVars, historyVars
  <1>5. CASE \E s \in Sync : Persist(s)
    BY <1>5, OwnDeletion, OwnTake DEF Persist
  <1> QED BY <1>2, <1>3, <1>4, <1>5, OwnGo, OwnRecord, OwnFail, OwnCrash, OwnWork, OwnDelete
          DEF SyncNext, SyncStep
-----------------------------------------------------------------------------
LEMMA SyncInvariance == SyncSpec => []SyncInv
  BY SyncInitInv, SyncInvStep, PTL DEF SyncSpec

(* What is in the synchronisations' locals and tables.                       *)
THEOREM SyncTypes == SyncSpec => []SyncTypeOK
  BY SyncInvariance, PTL DEF SyncInv

(* The synchronisations, the threads and the crashes of ConnectorSync are a   *)
(* behaviour of DocumentStore: what holds of every use of the store holds of  *)
(* theirs.                                                                  *)
THEOREM SyncUsesStore == SyncSpec => UsesStore
  <1>1. SyncInit => StoreInit
    BY DEF SyncInit
  <1>2. SyncInv /\ [SyncNext]_syncVars => [StoreNext]_storeVars
    BY UseStep DEF SyncInv
  <1> QED BY <1>1, <1>2, SyncInvariance, PTL DEF SyncSpec, UsesStore

(* Of a feed that reads in order, whatever the size of its pages, the number  *)
(* of its items and of the synchronisations and their overlaps, failures and  *)
(* crashes, the cursor never passes an item that is not recorded as it is,     *)
(* unless a synchronisation has stored what it read before another one ended. *)
THEOREM CursorPassesNothing == SyncSpec => [](InOrder => NothingSkipped)
  <1>1. SyncInv /\ PassInv => (InOrder => NothingSkipped)
    <2> SUFFICES ASSUME SyncInv, PassInv, InOrder, ~regressed, NEW i \in Item, stamp[i] \in 1 .. cursor - 1,
                        ~Silent(i)
                 PROVE  Recorded(i)
      BY DEF NothingSkipped, Recorded, Silent
    <2>1. cursor \in Nat
      BY DEF SyncInv, SyncTypeOK
    <2> QED BY <2>1 DEF PassInv, Passed, Before
  <1>2. SyncSpec => []PassInv
    BY PassInit, PassStep, SyncInvariance, PTL DEF SyncSpec
  <1> QED BY <1>1, <1>2, SyncInvariance, PTL

LEMMA OwnInvariance == SyncSpec => []OwnInv
  BY OwnInit, OwnStep, SyncInvariance, PTL DEF SyncSpec

(* What an item says is what its document holds, whatever is replaced,        *)
(* reindexed or deleted beside it, except while it is stored and where a      *)
(* failure or a crash came between the document and the record.               *)
THEOREM ItemsMatch == SyncSpec => []ItemMatchesDocument
  <1>1. SyncInv /\ OwnInv => ItemMatchesDocument
    BY DEF OwnInv, Contents, ItemMatchesDocument, Named, Holds, Storing, Busy
  <1> QED BY <1>1, SyncInvariance, OwnInvariance, PTL

(* No document without its item but those a failure or a crash has left, and  *)
(* no item with two, however many synchronisations overlap.                   *)
THEOREM OneDocument == SyncSpec => []OneDocumentPerItem
  <1>1. OwnInv => OneDocumentPerItem
    BY DEF OwnInv, Names, OneDocumentPerItem, Named
  <1> QED BY <1>1, OwnInvariance, PTL
=============================================================================
