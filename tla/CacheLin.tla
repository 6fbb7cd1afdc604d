------------------------------ MODULE CacheLin ------------------------------
(***************************************************************************)
(* The linearizable (LIN) protocol of the symmetric cache, for one key.    *)
(*                                                                         *)
(* Every machine holds a replica of the key.  A hot write is executed on   *)
(* any machine: it puts the replica in WRITE state with a fresh version    *)
(* and broadcasts an invalidation (INV); the replicas it invalidates       *)
(* acknowledge (ACK), and on the last ACK the writer becomes VALID and     *)
(* broadcasts the update (UPD).  An action below is one operation of a     *)
(* batch, from optik_lock to optik_unlock, with the bookkeeping that       *)
(* queues the message the operation gives rise to.  Different operations   *)
(* of one batch, and the batches of the client threads of one machine,     *)
(* interleave.  A message is in invs, acks or upds from the moment its     *)
(* operation queues it until the operation that consumes it, so the time   *)
(* it waits for credits, in the network, or in the receiving batch is the  *)
(* time it spends in the set.  Messages of different client threads, and   *)
(* INVs with respect to UPDs and ACKs, overtake one another.               *)
(***************************************************************************)
EXTENDS Timestamps, FiniteSets

CONSTANTS
    MACHINE_NUM,    \* machines, and replicas of the key
    Writer,         \* machines whose clients write the key; all of them read it
    SESSIONS,       \* sessions of a machine (SESSIONS_PER_CLIENT * CLIENTS_PER_MACHINE)
    MAX_VERSION,    \* bound on versions: writes beyond it are not issued
    Value,          \* values a PUT may write
    Slot,           \* entries of update_ops, the batch of received UPDs and ACKs
    Initial,        \* the value the replicas are populated with
    Uninit          \* the value bytes of an entry of update_ops never written

ASSUME MachineAssumption == MACHINE_NUM \in Nat /\ MACHINE_NUM >= 2

ASSUME WriterAssumption == Writer \subseteq 0..(MACHINE_NUM - 1)

ASSUME SessionAssumption == SESSIONS \in Nat \ {0}

ASSUME VersionAssumption == MAX_VERSION \in Nat

Machine == 0..(MACHINE_NUM - 1)

Session == 0..(SESSIONS - 1)

States == {"VALID", "INVALID", "INVALID_REPLAY", "WRITE", "WRITE_REPLAY"}

Bytes == Value \union {Initial, Uninit}

VARIABLES
    \* cache_meta and value of each replica; cid is a session id while the
    \* replica is writing and a machine id otherwise
    state, version, cid, pending_acks, value,
    \* value bytes left in each entry of update_ops
    update_ops,
    \* messages on the three virtual channels
    invs, acks, upds,
    \* history: the machines whose ACK the current write has counted, and the
    \* timestamp of the write that completed last
    acked, committed

vars == <<state, version, cid, pending_acks, value, update_ops,
          invs, acks, upds, acked, committed>>

Writing(m) == state[m] \in {"WRITE", "WRITE_REPLAY"}

Invalid(m) == state[m] \in {"INVALID", "INVALID_REPLAY"}

\* The timestamp of the replica on m.  A replica that is writing has the
\* session in cid, and its write carries the id of its machine.
Timestamp(m) == <<version[m], IF Writing(m) THEN m ELSE cid[m]>>

Others(m) == Machine \ {m}

-----------------------------------------------------------------------------

\* cache_populate_fixed_len: every replica VALID, clock zero.
Init ==
    /\ state = [m \in Machine |-> "VALID"]
    /\ version = [m \in Machine |-> 0]
    /\ cid = [m \in Machine |-> 0]
    /\ pending_acks = [m \in Machine |-> 0]
    /\ value = [m \in Machine |-> Initial]
    /\ update_ops = [m \in Machine |-> [s \in Slot |-> Uninit]]
    /\ invs = {}
    /\ acks = {}
    /\ upds = {}
    /\ acked = [m \in Machine |-> {}]
    /\ committed = <<0, 0>>

\* CACHE_OP_GET.  A VALID replica answers and a replica in a REPLAY state
\* stalls the read, both without a change; an INVALID or WRITE replica also
\* stalls it, and notes that a read waits.  A stalled GET is retried with
\* every batch.
Get(m) ==
    /\ state[m] \in {"INVALID", "WRITE"}
    /\ state' = [state EXCEPT ![m] = IF @ = "INVALID" THEN "INVALID_REPLAY"
                                                      ELSE "WRITE_REPLAY"]
    /\ UNCHANGED <<version, cid, pending_acks, value, update_ops,
                   invs, acks, upds, acked, committed>>

\* Whether the replica on m takes a PUT of session s.  Otherwise the PUT
\* fails or stalls, without a change.
PutSucceeds(m, s) ==
    \/ state[m] \in {"VALID", "INVALID"}
    \/ state[m] = "WRITE" /\ s >= cid[m]
    \/ state[m] = "WRITE_REPLAY" /\ s > cid[m]

\* The INVs perform_broadcasts_LIN sends for a hot write.
Invalidations(m, v) == {[version |-> v, cid |-> m, to |-> x] : x \in Others(m)}

\* CACHE_OP_PUT that succeeds, and its broadcast.
Put(m, s, val) ==
    LET v == optik_unlock_write(Locked(version[m]))
    IN  /\ m \in Writer
        /\ v <= MAX_VERSION
        /\ PutSucceeds(m, s)
        /\ state' = [state EXCEPT ![m] = IF Writing(m) THEN @ ELSE "WRITE"]
        /\ version' = [version EXCEPT ![m] = v]
        /\ cid' = [cid EXCEPT ![m] = s]
        /\ pending_acks' = [pending_acks EXCEPT ![m] = MACHINE_NUM - 1]
        /\ value' = [value EXCEPT ![m] = val]
        /\ invs' = invs \union Invalidations(m, v)
        /\ acked' = [acked EXCEPT ![m] = {}]
        /\ UNCHANGED <<update_ops, acks, upds, committed>>

\* Whether an INV with clock (v, c) is newer than the replica on m; a writing
\* replica compares its machine id in place of its cid
\* (optik_is_greater_version_session).
InvSucceeds(m, v, c) ==
    optik_is_greater_version(Locked(version[m]),
                             IF Writing(m) THEN m ELSE cid[m], v, c)

\* The ACK send_acks answers an INV with, in its own name.
Acknowledgement(m, i) == [version |-> i.version, cid |-> m, to |-> i.cid]

\* CACHE_OP_INV.  A newer INV is taken and acknowledged; invs_bookkeeping drops
\* an older one and never acknowledges it.
RecvInv(m, i) ==
    /\ i \in invs
    /\ i.to = m
    /\ invs' = invs \ {i}
    /\ IF InvSucceeds(m, i.version, i.cid)
       THEN /\ state' = [state EXCEPT ![m] =
                            IF @ \in {"INVALID_REPLAY", "WRITE_REPLAY"}
                            THEN "INVALID_REPLAY" ELSE "INVALID"]
            /\ version' = [version EXCEPT ![m] = i.version]
            /\ cid' = [cid EXCEPT ![m] = i.cid]
            /\ acks' = acks \union {Acknowledgement(m, i)}
       ELSE UNCHANGED <<state, version, cid, acks>>
    /\ UNCHANGED <<pending_acks, value, update_ops, upds, acked, committed>>

\* Variant: an ACK of an earlier write of this machine counts too.
AckOfAnyWrite(m, v) == Writing(m)

\* An ACK counts only for the write the replica is executing now.
AckSucceeds(m, v) == Writing(m) /\ Locked(version[m]) = v + 1

\* The UPDs broadcast when entry s of update_ops holds the last ACK of a write.
\* updates_and_acks_bookkeeping copies the entry to make them, and
\* poll_coherence_LIN copied only the key and the opcode of the ACK into it, so
\* they carry the value bytes the entry had before.
Updates(m, v, s) ==
    {[version |-> v, cid |-> m, to |-> x, value |-> update_ops[m][s]] : x \in Others(m)}

\* CACHE_OP_ACK polled into entry s of update_ops.  The last one completes the
\* write.
RecvAck(m, a, s) ==
    /\ a \in acks
    /\ a.to = m
    /\ acks' = acks \ {a}
    /\ \/ /\ ~AckSucceeds(m, a.version)
          /\ UNCHANGED <<state, cid, pending_acks, upds, acked, committed>>
       \/ /\ AckSucceeds(m, a.version)
          /\ pending_acks[m] # 1
          /\ pending_acks' = [pending_acks EXCEPT ![m] = @ - 1]
          /\ acked' = [acked EXCEPT ![m] = @ \union {a.cid}]
          /\ UNCHANGED <<state, cid, upds, committed>>
       \/ /\ AckSucceeds(m, a.version)
          /\ pending_acks[m] = 1
          /\ state' = [state EXCEPT ![m] = "VALID"]
          /\ cid' = [cid EXCEPT ![m] = m]
          /\ pending_acks' = [pending_acks EXCEPT ![m] = 0]
          /\ upds' = upds \union Updates(m, a.version, s)
          /\ acked' = [acked EXCEPT ![m] = {}]
          /\ committed' = <<a.version, m>>
    /\ UNCHANGED <<version, value, update_ops, invs>>

\* Variant: a replica on which a read waits is left out.
UpdSkipsReplay(m, v, c) ==
    /\ optik_is_same_version_plus_one(Locked(version[m]), cid[m], v, c)
    /\ state[m] = "INVALID"

\* An UPD counts only for the write the replica was invalidated by last.
UpdSucceeds(m, v, c) ==
    /\ optik_is_same_version_plus_one(Locked(version[m]), cid[m], v, c)
    /\ Invalid(m)

\* CACHE_OP_UPD polled, value included, into entry s of update_ops.
RecvUpd(m, u, s) ==
    /\ u \in upds
    /\ u.to = m
    /\ upds' = upds \ {u}
    /\ update_ops' = [update_ops EXCEPT ![m][s] = u.value]
    /\ IF UpdSucceeds(m, u.version, u.cid)
       THEN /\ state' = [state EXCEPT ![m] = "VALID"]
            /\ version' = [version EXCEPT ![m] = u.version]
            /\ cid' = [cid EXCEPT ![m] = u.cid]
            /\ value' = [value EXCEPT ![m] = u.value]
       ELSE UNCHANGED <<state, version, cid, value>>
    /\ UNCHANGED <<pending_acks, invs, acks, acked, committed>>

\* One message from the network handled on m.
Receive(m) ==
    \/ \E i \in invs : RecvInv(m, i)
    \/ \E a \in acks, s \in Slot : RecvAck(m, a, s)
    \/ \E u \in upds, s \in Slot : RecvUpd(m, u, s)

Next ==
    \E m \in Machine :
        \/ Get(m)
        \/ \E s \in Session, val \in Value : Put(m, s, val)
        \/ \E i \in invs : RecvInv(m, i)
        \/ \E a \in acks, s \in Slot : RecvAck(m, a, s)
        \/ \E u \in upds, s \in Slot : RecvUpd(m, u, s)

Spec == Init /\ [][Next]_vars

\* The client threads poll for coherence messages in every iteration of their
\* loop, so a machine that has a message keeps handling messages.
FairSpec == Spec /\ \A m \in Machine : WF_vars(Receive(m))

-----------------------------------------------------------------------------
InvMsg == [version : Even, cid : Machine, to : Machine]

UpdMsg == [version : Even, cid : Machine, to : Machine, value : Bytes]

\* Versions are even outside critical sections, pending_acks fits the peers,
\* and cid is a machine unless the replica is writing.
TypeOK ==
    /\ state \in [Machine -> States]
    /\ version \in [Machine -> Even]
    /\ cid \in [Machine -> Nat]
    /\ \A m \in Machine : cid[m] \in IF Writing(m) THEN Session ELSE Machine
    /\ pending_acks \in [Machine -> 0..(MACHINE_NUM - 1)]
    /\ value \in [Machine -> Bytes]
    /\ update_ops \in [Machine -> [Slot -> Bytes]]
    /\ invs \subseteq InvMsg
    /\ acks \subseteq InvMsg
    /\ upds \subseteq UpdMsg
    /\ acked \in [Machine -> SUBSET Machine]
    /\ committed \in Even \X Machine

\* A replica that serves reads has the timestamp of the write that completed
\* last, so once a write has completed no replica anywhere still answers with
\* an older one (CACHE_OP_GET answers in VALID_STATE only; the writer waits
\* for MACHINE_NUM - 1 ACKs).
ValidIsLatest ==
    \A m \in Machine : state[m] = "VALID" => Timestamp(m) = committed

\* The ACKs a write waits for are those of the peers not counted yet, no peer
\* is counted twice, and a counted peer stays invalidated by this write or by
\* a newer one: late ACKs of an overwritten write never count for the write
\* that replaced it (pending_acks is reset by CACHE_OP_PUT but ACKs in flight
\* are not recalled).
AcksCountInvalidated ==
    \A m \in Machine : Writing(m) =>
        /\ pending_acks[m] = MACHINE_NUM - 1 - Cardinality(acked[m])
        /\ pending_acks[m] > 0
        /\ \A x \in acked[m] : x # m /\ LessEq(Timestamp(m), Timestamp(x))

\* When no message is in flight every replica is VALID: no lost race between
\* concurrent writers, and no invalidation dropped without an ACK, leaves a
\* replica waiting for an UPD or for an ACK that nobody will send.
QuiescentIsValid ==
    invs = {} /\ acks = {} /\ upds = {} => \A m \in Machine : state[m] = "VALID"

\* No operation moves a replica back to an older timestamp, whatever the
\* order in which INVs, ACKs and UPDs arrive.
TimestampsIncrease ==
    [][\A m \in Machine : LessEq(Timestamp(m), Timestamp(m)')]_vars

\* A replica that stalls its reads eventually serves them again, however many
\* writes the other machines issue in the meantime.
StallsEnd ==
    \A m \in Machine : state[m] # "VALID" ~> state[m] = "VALID"

\* Two replicas that serve reads at the same time serve the same value.
ValidValuesAgree ==
    \A m, n \in Machine :
        state[m] = "VALID" /\ state[n] = "VALID" => value[m] = value[n]

-----------------------------------------------------------------------------
(***************************************************************************)
(* The protocol implements a single register whose replicas are either up  *)
(* to date or unreadable.                                                  *)
(***************************************************************************)
View == [m \in Machine |-> IF state[m] = "VALID" THEN {Timestamp(m)} ELSE {}]

Register == INSTANCE LinRegister WITH
    Replica <- Machine, Time <- Even \X Machine, reg <- committed, view <- View

\* The replicas of the key behave like one register: every GET that is
\* answered, on any machine, returns the write that completed last.
ImplementsRegister == Register!Spec
=============================================================================
