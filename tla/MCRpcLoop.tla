----------------------------- MODULE MCRpcLoop ------------------------------
(* Instances of RpcLoop for TLC.                                            *)
EXTENDS RpcLoop, TLC

CONSTANTS A, B, C

One == {C}
Two == {A, B}
Three == {A, B, C}

\* Zero or one hot write in a batch.
FewWrites == {0, 1}

\* Apart from Home, no step of RpcLoop tells one machine from another.
Symmetry == Permutations(Machine \ Home) \cup Permutations(Home)
=============================================================================
