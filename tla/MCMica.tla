-------------------------------- MODULE MCMica --------------------------------
(* Instances of the MICA store for TLC. *)
EXTENDS Mica, TLC

(* Three keys, two of them with the same tag. *)
CollidingThree == (0 :> 0) @@ (1 :> 1) @@ (2 :> 0)

(* Four keys for two slots: 0 and 2 have the same tag, 1 evicts them and they evict 1. *)
CollidingFour == (0 :> 2) @@ (1 :> 4) @@ (2 :> 2) @@ (3 :> 1)

OneBucket == [k \in Key |-> 0]

Symmetry == Permutations(Worker)
===============================================================================
