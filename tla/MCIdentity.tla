------------------------------ MODULE MCIdentity ------------------------------
EXTENDS Identity, TLC

Bound(l, r, o, u, i, a, x) ==
  [login |-> l, refresh |-> r, logout |-> o, update |-> u, invite |-> i, accept |-> a, crash |-> x]
MCBounds == {Bound(2, 2, 1, 0, 0, 0, 1),    \* sessions
             Bound(1, 1, 0, 0, 2, 3, 0),    \* invitations
             Bound(1, 0, 0, 3, 1, 1, 0)}    \* members
Symmetry == Permutations(Caller) \cup Permutations(Session) \cup Permutations(Invitation)
            \cup Permutations(Password)
=============================================================================
