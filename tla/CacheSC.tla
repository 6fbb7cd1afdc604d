------------------------------ MODULE CacheSC -------------------------------
(***************************************************************************)
(* The sequentially consistent (SC) protocol of the symmetric cache, for   *)
(* one key.  A hot write takes effect on the replica of its machine at     *)
(* once, and an update (UPD) with its clock is sent to every other         *)
(* machine; a replica takes an UPD that is newer than what it has.  An     *)
(* action is one operation of a batch, from optik_lock to optik_unlock.    *)
(* An UPD is in upds from the PUT that gives rise to it, through the batch *)
(* of broadcast_cache_ops and the transport, to the operation of req_cache *)
(* that consumes it; the client threads of a machine broadcast             *)
(* independently, so the UPDs of one machine overtake one another.         *)
(***************************************************************************)
EXTENDS Timestamps

CONSTANTS
    MACHINE_NUM,    \* machines, and replicas of the key
    Writer,         \* machines whose clients write the key; all of them read it
    MAX_VERSION,    \* bound on versions: writes beyond it are not issued
    Value,          \* values a PUT may write
    Initial         \* the value the replicas are populated with

ASSUME MachineAssumption == MACHINE_NUM \in Nat \ {0}

ASSUME WriterAssumption == Writer \subseteq 0..(MACHINE_NUM - 1)

ASSUME VersionAssumption == MAX_VERSION \in Nat

Machine == 0..(MACHINE_NUM - 1)

Bytes == Value \union {Initial}

VARIABLES
    version, cid, value,    \* cache_meta and value of each replica
    upds,                   \* UPDs not yet applied, one per destination
    written                 \* history: the writes issued, a set of <<timestamp, value>>

vars == <<version, cid, value, upds, written>>

Timestamp(m) == <<version[m], cid[m]>>

Others(m) == Machine \ {m}

-----------------------------------------------------------------------------

\* cache_populate_fixed_len: the same value and clock on every machine.
Init ==
    /\ version = [m \in Machine |-> 0]
    /\ cid = [m \in Machine |-> 0]
    /\ value = [m \in Machine |-> Initial]
    /\ upds = {}
    /\ written = {<< <<0, 0>>, Initial >>}

\* The UPDs perform_broadcasts_SC sends for a hot write.
Updates(m, v, val) ==
    {[version |-> v, cid |-> m, to |-> x, value |-> val] : x \in Others(m)}

\* CACHE_OP_PUT, and its broadcast.
Put(m, val) ==
    LET v == optik_unlock_write(Locked(version[m]))
    IN  /\ m \in Writer
        /\ v <= MAX_VERSION
        /\ version' = [version EXCEPT ![m] = v]
        /\ cid' = [cid EXCEPT ![m] = m]
        /\ value' = [value EXCEPT ![m] = val]
        /\ upds' = upds \union Updates(m, v, val)
        /\ written' = written \union {<< <<v, m>>, val >>}

\* Whether an UPD with clock (v, c) is newer than the replica on m.
UpdSucceeds(m, v, c) == optik_is_greater_version(Locked(version[m]), cid[m], v, c)

\* CACHE_OP_UPD: a newer value is taken with its clock, an older one dropped.
RecvUpd(m, u) ==
    /\ u \in upds
    /\ u.to = m
    /\ upds' = upds \ {u}
    /\ IF UpdSucceeds(m, u.version, u.cid)
       THEN /\ version' = [version EXCEPT ![m] = u.version]
            /\ cid' = [cid EXCEPT ![m] = u.cid]
            /\ value' = [value EXCEPT ![m] = u.value]
       ELSE UNCHANGED <<version, cid, value>>
    /\ UNCHANGED written

Next ==
    \E m \in Machine :
        \/ \E val \in Value : Put(m, val)
        \/ \E u \in upds : RecvUpd(m, u)

Spec == Init /\ [][Next]_vars

\* Every client thread runs the event loop of its transport in each iteration,
\* so a machine that has UPDs keeps applying them.
FairSpec == Spec /\ \A m \in Machine : WF_vars(\E u \in upds : RecvUpd(m, u))

-----------------------------------------------------------------------------
UpdMsg == [version : Even, cid : Machine, to : Machine, value : Bytes]

\* Versions are even outside critical sections and every clock names a machine.
TypeOK ==
    /\ version \in [Machine -> Even]
    /\ cid \in [Machine -> Machine]
    /\ value \in [Machine -> Bytes]
    /\ upds \subseteq UpdMsg
    /\ written \subseteq (Even \X Machine) \X Bytes

\* Two replicas with the same timestamp have the same value, however the
\* writes of the machines and their UPDs interleave: the clock taken by
\* CACHE_OP_PUT is never taken again by another write.
SameClockSameValue ==
    \A m, n \in Machine : Timestamp(m) = Timestamp(n) => value[m] = value[n]

\* When every UPD has been applied all replicas agree, and on the newest write.
QuiescentAgree ==
    upds = {} =>
        \A m \in Machine :
            /\ << Timestamp(m), value[m] >> \in written
            /\ \A w \in written : LessEq(w[1], Timestamp(m))

\* A write issued on any machine is eventually shown, or superseded by a newer
\* one, on every machine.
EveryWriteSpreads ==
    \A v \in 0..MAX_VERSION, c \in Writer, m \in Machine :
        (\E val \in Value : << <<v, c>>, val >> \in written)
            ~> LessEq(<<v, c>>, Timestamp(m))

-----------------------------------------------------------------------------
(***************************************************************************)
(* The protocol implements a single order of the writes to the key.        *)
(***************************************************************************)
View == [m \in Machine |-> << Timestamp(m), value[m] >>]

Order == INSTANCE OrderedWrites WITH
    Replica <- Machine, Time <- Even \X Machine, Data <- Bytes,
    log <- written, view <- View

\* The writes of all machines have one order, and every replica moves forward
\* in it.
ImplementsOrder == Order!Spec
=============================================================================
