---------------------------- MODULE ProviderFeeds -----------------------------
(***************************************************************************)
(* What one incremental read of a provider returns, per adapter of          *)
(* connector_providers.py: which of the changed items the page holds, and   *)
(* the cursor the adapter hands back to be stored.                          *)
(*                                                                         *)
(* stamp[i] is the provider's time of the last change of item i, 0 for one  *)
(* that it does not list; a cursor is such a time, 0 for none stored.  The   *)
(* items are those the first read asks for (Calendar: events to come).      *)
(***************************************************************************)
EXTENDS Integers, FiniteSets

CONSTANTS
  Item,   \* the provider's items
  Second  \* how many times of the provider's clock make a second

ASSUME FeedAssumption == IsFiniteSet(Item) /\ Second \in Nat \ {0}

(* PROVIDER_CAPABILITIES; the size of a page: connector_sync_max_items, or  *)
(* 100; and by how much the time zone Jira takes a query to be in is ahead  *)
(* of the one it gives times in (the query does not say).                  *)
Feed == [kind : {"github", "jira", "calendar", "gmail", "slack", "notion"},
         size : Nat \ {0}, zone : Int]

(* The adapters that mark items as deleted.  The others ask for lists a     *)
(* deleted item is not in.  (Slack's adapter marks the notice of a deletion, *)
(* which is a message of its own and not the deleted one.)                 *)
Reporting == {"calendar", "notion"}

(* The times of the items a provider lists, when it has deleted some. *)
Listed(feed, stamp, deleted) ==
  [i \in Item |-> IF i \in deleted /\ feed.kind \notin Reporting THEN 0 ELSE stamp[i]]

Existing(stamp) == {i \in Item : stamp[i] # 0}
AtOrAfter(stamp, cur) == {i \in Existing(stamp) : stamp[i] >= cur}
After(stamp, cur) == {i \in Existing(stamp) : stamp[i] > cur}

Pages(S, n) ==
  {P \in SUBSET S : Cardinality(P) = IF Cardinality(S) < n THEN Cardinality(S) ELSE n}
OldestPages(S, stamp, n) == {P \in Pages(S, n) : \A i \in P, j \in S \ P : stamp[i] <= stamp[j]}
NewestPages(S, stamp, n) == {P \in Pages(S, n) : \A i \in P, j \in S \ P : stamp[i] >= stamp[j]}

Latest(P, stamp, cur) ==
  CHOOSE t \in {cur} \cup {stamp[i] : i \in P} : t >= cur /\ \A i \in P : t >= stamp[i]
Read(P, cur) == [items |-> P, cursor |-> cur]

(* Ascending order, one page, from a time on. *)
IssueReads(stamp, from, cur, n) ==
  {Read(P, Latest(P, stamp, cur)) : P \in OldestPages(AtOrAfter(stamp, from), stamp, n)}

(* The cursor without its fraction of a second and without its offset. *)
JiraSince(cur, zone) == IF cur = 0 THEN 0 ELSE cur - (cur % Second) - zone

(* The sync token comes with the last page only, and one page is read.  (A *)
(* token names a point in the event log; what changed at the same time is  *)
(* read again here.)                                                       *)
CalendarReads(stamp, cur, now, n) ==
  LET changed == AtOrAfter(stamp, cur) IN
  {Read(P, IF P = changed THEN now ELSE cur) : P \in Pages(changed, n)}

(* The history list says where the mailbox is now, however many of its     *)
(* records the page holds; the first read takes the newest messages.       *)
GmailReads(stamp, cur, now, n) ==
  LET added == AtOrAfter(stamp, cur) IN
  {Read(P, now) :
     P \in IF cur = 0 THEN NewestPages(added, stamp, n) ELSE OldestPages(added, stamp, n)}

(* Messages newest first, channel after channel until the limit is met; one *)
(* cursor for all channels.                                                *)
SlackReads(stamp, cur, n) ==
  {Read(P, Latest(P, stamp, cur)) : P \in Pages(After(stamp, cur), n)}

(* The first page of all pages, oldest edit first, filtered by the cursor. *)
NotionReads(stamp, cur, n) ==
  {LET P == F \cap After(stamp, cur) IN Read(P, Latest(P, stamp, cur)) :
     F \in OldestPages(Existing(stamp), stamp, n)}

(* sync_provider_resource *)
Reads(feed, stamp, cur, now) ==
  LET n == feed.size IN
  CASE feed.kind = "github" -> IssueReads(stamp, cur, cur, n)
    [] feed.kind = "jira" -> IssueReads(stamp, JiraSince(cur, feed.zone), cur, n)
    [] feed.kind = "calendar" -> CalendarReads(stamp, cur, now, n)
    [] feed.kind = "gmail" -> GmailReads(stamp, cur, now, n)
    [] feed.kind = "slack" -> SlackReads(stamp, cur, n)
    [] feed.kind = "notion" -> NotionReads(stamp, cur, n)
=============================================================================
