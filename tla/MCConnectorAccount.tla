-------------------------- MODULE MCConnectorAccount --------------------------
EXTENDS ConnectorAccount, TLC

Bound(a, r, d, w, x) ==
  [authorize |-> a, refresh |-> r, disconnect |-> d, deliver |-> w, crash |-> x]
MCBounds == {Bound(2, 2, 1, 0, 0), Bound(1, 2, 1, 0, 1), Bound(1, 0, 1, 3, 1)}
Symmetry == Permutations(Caller) \cup Permutations(State)
=============================================================================
