---------------------------- MODULE MCClientOps -----------------------------
(* Instance of ClientOps for TLC: one tracked key, one other hot key, and     *)
(* cold keys at two remote machines, with every trace of a given length.  The *)
(* LIN client has more answers to choose from, so its sizes are smaller.      *)
EXTENDS ClientOps, TLC

CONSTANTS K, U, M1, M2

OneKey == {K}
OtherKey == {U}
TwoHomes == {M1, M2}

BatchSizes == [SC |-> 4, LIN |-> 3]
TraceLengths == [SC |-> 4, LIN |-> 3]
FetchBounds == [SC |-> 12, LIN |-> 5]

\* No step of ClientOps tells one remote machine from another.
Symmetry == Permutations(Home)
=============================================================================
