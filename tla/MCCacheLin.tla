----------------------------- MODULE MCCacheLin -----------------------------
(***************************************************************************)
(* Instances of the LIN protocol for TLC.                                  *)
(***************************************************************************)
EXTENDS CacheLinInv

\* The machines at the two ends of the tie-break write, the others only read.
EndWriters == {0, MACHINE_NUM - 1}
=============================================================================
