---------------------------- MODULE LinRegister -----------------------------
(***************************************************************************)
(* What the LIN protocol promises of one key: reg is the timestamp of the  *)
(* write that completed last, and view[m] is the set of timestamps a read  *)
(* on replica m may return, empty while reads stall there.  A write        *)
(* completes only when no replica serves reads, and only with a newer      *)
(* timestamp, so every read that is answered returns the write that        *)
(* completed last.                                                         *)
(***************************************************************************)
EXTENDS Timestamps

CONSTANTS Replica, Time

VARIABLES reg, view

Init ==
    /\ reg \in Time
    /\ view = [m \in Replica |-> {reg}]

\* A write completes on replica m.
Complete(m) ==
    /\ \A x \in Replica : view[x] = {}
    /\ reg' \in Time
    /\ Less(reg, reg')
    /\ view' = [view EXCEPT ![m] = {reg'}]

\* Reads on m stall from now on.
Stall(m) ==
    /\ view[m] = {reg}
    /\ view' = [view EXCEPT ![m] = {}]
    /\ UNCHANGED reg

\* Reads on m are served again.
Serve(m) ==
    /\ view[m] = {}
    /\ view' = [view EXCEPT ![m] = {reg}]
    /\ UNCHANGED reg

Next == \E m \in Replica : Complete(m) \/ Stall(m) \/ Serve(m)

Spec == Init /\ [][Next]_<<reg, view>>
=============================================================================
