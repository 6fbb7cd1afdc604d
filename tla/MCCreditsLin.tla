---------------------------- MODULE MCCreditsLin ----------------------------
(***************************************************************************)
(* Instances of the LIN flow control for TLC.                              *)
(***************************************************************************)
EXTENDS CreditsLin, TLC

\* The machines play the same part.
Symmetry == Permutations(Machine)
=============================================================================
