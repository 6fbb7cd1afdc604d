---------------------------- MODULE CacheLinInv -----------------------------
(***************************************************************************)
(* The inductive invariant of the LIN protocol.  Its parts say where the   *)
(* messages of a write can be, given how far each replica has got.         *)
(***************************************************************************)
EXTENDS CacheLin

InvTo(v, c, x) == [version |-> v, cid |-> c, to |-> x] \in invs

AckTo(v, x, c) == [version |-> v, cid |-> x, to |-> c] \in acks

UpdTo(t, x) == \E u \in upds : u.version = t[1] /\ u.cid = t[2] /\ u.to = x

\* The sender of an INV has not fallen behind it, and its receiver has not
\* been invalidated by that write yet.
InvSound ==
    \A i \in invs :
        /\ i.cid # i.to
        /\ LessEq(<<i.version, i.cid>>, Timestamp(i.cid))
        /\ Timestamp(i.to) # <<i.version, i.cid>>

\* An ACK was sent by a replica that has reached the write, the writer
\* included, and replaced the INV it answers.
AckSound ==
    \A a \in acks :
        /\ a.cid # a.to
        /\ LessEq(<<a.version, a.to>>, Timestamp(a.cid))
        /\ LessEq(<<a.version, a.to>>, Timestamp(a.to))
        /\ ~InvTo(a.version, a.to, a.cid)

\* UPDs are those of completed writes.
UpdSound == \A u \in upds : LessEq(<<u.version, u.cid>>, committed)

\* A peer counted by a write has reached it, and neither the INV nor the ACK
\* that it exchanged with the writer is still in flight.
AckedSound ==
    \A m \in Machine : Writing(m) =>
        \A x \in acked[m] :
            /\ x # m
            /\ LessEq(Timestamp(m), Timestamp(x))
            /\ ~InvTo(version[m], m, x)
            /\ ~AckTo(version[m], x, m)

\* pending_acks counts the peers not in acked.
PendingSound ==
    \A m \in Machine : Writing(m) =>
        /\ pending_acks[m] = MACHINE_NUM - 1 - Cardinality(acked[m])
        /\ pending_acks[m] > 0

\* No replica is behind the write that completed last, and a write in
\* progress is ahead of it.
CommittedSound ==
    \A m \in Machine :
        /\ LessEq(committed, Timestamp(m))
        /\ Writing(m) => Less(committed, Timestamp(m))

\* A replica that carries its own id and is not writing has completed.
OwnerSound ==
    \A m \in Machine :
        ~Writing(m) /\ cid[m] = m => LessEq(Timestamp(m), committed)

\* A timestamp reached by a replica has been reached by its writer, and by
\* every other replica that does not still have its INV coming.
ReachedSpreads ==
    \A y, x \in Machine :
        \/ LessEq(Timestamp(y), Timestamp(x))
        \/ x # Timestamp(y)[2] /\ InvTo(Timestamp(y)[1], Timestamp(y)[2], x)

\* The same of a timestamp carried by an INV.
InvSpreads ==
    \A i \in invs : \A x \in Others(i.cid) :
        \/ InvTo(i.version, i.cid, x)
        \/ LessEq(<<i.version, i.cid>>, Timestamp(x))

\* A peer a write still waits for has the INV coming, or has its ACK on the
\* way, or has moved on to a newer write.
WaitSound ==
    \A m \in Machine : Writing(m) =>
        \A x \in Others(m) \ acked[m] :
            \/ InvTo(version[m], m, x)
            \/ AckTo(version[m], x, m)
            \/ Less(Timestamp(m), Timestamp(x))

\* A replica left invalid by the write that completed last has its UPD coming.
UpdComing ==
    \A m \in Machine :
        Invalid(m) /\ Timestamp(m) = committed => UpdTo(committed, m)

\* The inductive invariant.
IInv ==
    /\ TypeOK
    /\ InvSound
    /\ AckSound
    /\ UpdSound
    /\ AckedSound
    /\ PendingSound
    /\ CommittedSound
    /\ OwnerSound
    /\ ReachedSpreads
    /\ InvSpreads
    /\ WaitSound
    /\ UpdComing
    /\ ValidIsLatest
=============================================================================
