--------------------------- MODULE MCConnectorSync ----------------------------
EXTENDS ConnectorSync, TLC

(* What may happen in one behaviour: overlapping synchronisations of a      *)
(* provider that changes; a crash and a deletion or reindex in between; a  *)
(* longer series of such calls beside one.                                 *)
Scope(c, s, u, x) == [change |-> c, sync |-> s, call |-> u, crash |-> x]
MCScopes == {Scope(3, 3, 0, 0), Scope(2, 2, 1, 1), Scope(2, 2, 2, 0)}
MCChanges == {Scope(2, 1, 0, 0)}
MCDeletion == {Scope(3, 2, 0, 0)}
MCFeeds == {[kind |-> "github", size |-> 2, zone |-> 0], [kind |-> "jira", size |-> 1, zone |-> 0],
            [kind |-> "calendar", size |-> 1, zone |-> 0]}
MCGithub == {[kind |-> "github", size |-> 1, zone |-> 0]}
MCJiraBehind == {[kind |-> "jira", size |-> 1, zone |-> -2]}
MCSlack == {[kind |-> "slack", size |-> 1, zone |-> 0]}
Symmetry ==
  Permutations(Sync) \cup Permutations(Item) \cup Permutations(Doc) \cup Permutations(Content)
=============================================================================
