--------------------------- MODULE OrderedWrites ----------------------------
(***************************************************************************)
(* What the SC protocol promises of one key: the writes of all machines    *)
(* have one order, that of their timestamps, and each replica moves        *)
(* forward in it.  A write is a pair of a timestamp and a value; log is    *)
(* the set of writes issued so far and view[m] the one replica m shows.    *)
(***************************************************************************)
EXTENDS Timestamps

CONSTANTS Replica, Time, Data

VARIABLES log, view

Init ==
    /\ view \in [Replica -> Time \X Data]
    /\ \A m \in Replica : log = {view[m]}

\* Replica m issues a write, newer than the one it shows, under a timestamp
\* that no other write has.
Write(m) ==
    /\ view'[m] \in Time \X Data
    /\ Less(view[m][1], view'[m][1])
    /\ \A w \in log : w[1] # view'[m][1]
    /\ log' = log \union {view'[m]}
    /\ view' = [view EXCEPT ![m] = view'[m]]

\* Replica m moves on to a newer write of another replica.
Advance(m) ==
    /\ view'[m] \in log
    /\ Less(view[m][1], view'[m][1])
    /\ view' = [view EXCEPT ![m] = view'[m]]
    /\ UNCHANGED log

Next == \E m \in Replica : Write(m) \/ Advance(m)

Spec == Init /\ [][Next]_<<log, view>>
=============================================================================
