------------------------------ MODULE MCCacheSC -----------------------------
(***************************************************************************)
(* Instances of the SC protocol for TLC.                                   *)
(***************************************************************************)
EXTENDS CacheSC

\* The machines at the two ends of the tie-break write, the others only read.
EndWriters == {0, MACHINE_NUM - 1}
=============================================================================
