--------------------------- MODULE CacheLinProofs ---------------------------
(***************************************************************************)
(* Proofs about the LIN protocol, for any number of machines, writers and  *)
(* sessions, and any bound on versions: the invariant IInv is inductive,   *)
(* and the safety properties of CacheLin, with the refinement of           *)
(* LinRegister, follow from it.                                            *)
(***************************************************************************)
EXTENDS CacheLinInv, ArithmeticTheorems, FiniteSetTheorems

\* Zenon is tried first; SMT is named where a leaf needs arithmetic.
USE ZenonT(120)

\* No timestamp moves back in a step.
Forward == \A m \in Machine : LessEq(Timestamp(m), Timestamp(m)')

\* Machine ids are naturals, and timestamps are pairs of naturals.
LEMMA MachineIsNat == Machine \subseteq Nat
BY SMTT(120), MachineAssumption DEF Machine

\* The timestamp of a replica, whether it is mid-write or not.
LEMMA TimestampType ==
    ASSUME TypeOK, NEW m \in Machine
    PROVE  /\ Timestamp(m) \in Even \X Machine
           /\ Timestamp(m) \in Nat \X Nat
           /\ Timestamp(m)[1] = version[m]
           /\ Writing(m) => Timestamp(m) = <<version[m], m>>
           /\ ~Writing(m) => Timestamp(m) = <<version[m], cid[m]>>
BY MachineIsNat, EvenIsNat DEF TypeOK, Timestamp

\* The fields of the messages in flight, and of the last completed write.
LEMMA MessageTypes ==
    ASSUME TypeOK
    PROVE  /\ \A i \in invs : /\ i.cid \in Machine /\ i.to \in Machine /\ i.version \in Even
                              /\ <<i.version, i.cid>> \in Nat \X Nat
                              /\ i = [version |-> i.version, cid |-> i.cid, to |-> i.to]
           /\ \A a \in acks : /\ a.cid \in Machine /\ a.to \in Machine /\ a.version \in Even
                              /\ <<a.version, a.to>> \in Nat \X Nat
                              /\ a = [version |-> a.version, cid |-> a.cid, to |-> a.to]
           /\ \A u \in upds : /\ u.cid \in Machine /\ u.to \in Machine /\ u.version \in Even
                              /\ <<u.version, u.cid>> \in Nat \X Nat
           /\ committed \in Nat \X Nat
<1>1. \A i \in InvMsg : /\ i.cid \in Machine /\ i.to \in Machine /\ i.version \in Even
                        /\ i = [version |-> i.version, cid |-> i.cid, to |-> i.to]
  BY SMTT(120) DEF InvMsg
<1>2. \A u \in UpdMsg : u.cid \in Machine /\ u.to \in Machine /\ u.version \in Even
  BY DEF UpdMsg
<1>3. \A v \in Even, c \in Machine : <<v, c>> \in Nat \X Nat
  BY EvenIsNat, MachineIsNat
<1>4. committed \in Nat \X Nat
  BY EvenIsNat, MachineIsNat DEF TypeOK
<1>5. QED
  BY <1>1, <1>2, <1>3, <1>4 DEF TypeOK

\* An INV is taken exactly when it is newer than the replica.
LEMMA InvNewer ==
    ASSUME TypeOK, NEW m \in Machine, NEW v \in Even, NEW c \in Machine
    PROVE  InvSucceeds(m, v, c) <=> Less(Timestamp(m), <<v, c>>)
<1> DEFINE d == IF Writing(m) THEN m ELSE cid[m]
<1>1. version[m] \in Even /\ d \in Nat /\ c \in Nat
  BY MachineIsNat DEF TypeOK
<1>2. optik_is_greater_version(Locked(version[m]), d, v, c)
        <=> Less(<<version[m], d>>, <<v, c>>)
  BY <1>1, GreaterVersion
<1>3. QED
  BY <1>2 DEF InvSucceeds, Timestamp

\* cache_populate_fixed_len leaves the invariant true.
LEMMA InitIInv == Init => IInv
<1> SUFFICES ASSUME Init PROVE IInv
  OBVIOUS
<1>1. TypeOK
  BY SMTT(120), MachineAssumption DEF Init, TypeOK, Machine, States, Bytes, Writing, Even
<1>2. \A m \in Machine : Timestamp(m) = <<0, 0>> /\ ~Writing(m)
  BY DEF Init, Timestamp, Writing
<1>3. LessEq(<<0, 0>>, <<0, 0>>)
  BY DEF LessEq
<1>4. QED
  BY <1>1, <1>2, <1>3 DEF Init, IInv, InvSound, AckSound, UpdSound, AckedSound,
     PendingSound, CommittedSound, OwnerSound, ReachedSpreads, InvSpreads,
     WaitSound, UpdComing, ValidIsLatest, Invalid

-----------------------------------------------------------------------------

\* A step keeps the types, given that pending_acks counts the peers to hear of.
LEMMA TypeStep == TypeOK /\ PendingSound /\ [Next]_vars => TypeOK'
<1> SUFFICES ASSUME TypeOK, PendingSound, [Next]_vars PROVE TypeOK'
  OBVIOUS
<1> USE DEF InvMsg, UpdMsg
<1>1. ASSUME NEW m \in Machine, Get(m) PROVE TypeOK'
  BY <1>1 DEF Get, TypeOK, States, Writing
<1>2. ASSUME NEW m \in Machine, NEW s \in Session, NEW val \in Value, Put(m, s, val)
      PROVE  TypeOK'
  <2> DEFINE v == version[m] + 2
  <2>1. v \in Even /\ v = optik_unlock_write(Locked(version[m]))
    BY WriteVersion DEF TypeOK
  <2>2. \A x \in Others(m) : [version |-> v, cid |-> m, to |-> x] \in InvMsg
    BY <2>1 DEF Others
  <2>3. invs' \subseteq InvMsg
    BY SMTT(120), <1>2, <2>1, <2>2 DEF Put, Invalidations, TypeOK
  <2>4. MACHINE_NUM - 1 \in 0..(MACHINE_NUM - 1) /\ s \in Nat
    BY SMTT(120), MachineAssumption, SessionAssumption DEF Session
  <2>5. /\ version' \in [Machine -> Even]
        /\ cid' \in [Machine -> Nat]
        /\ pending_acks' \in [Machine -> 0..(MACHINE_NUM - 1)]
        /\ value' \in [Machine -> Bytes]
        /\ acked' \in [Machine -> SUBSET Machine]
    BY <1>2, <2>1, <2>4 DEF Put, TypeOK, Bytes
  <2>6. /\ state' \in [Machine -> States]
        /\ \A x \in Machine : cid'[x] \in IF Writing(x)' THEN Session ELSE Machine
    BY <1>2 DEF Put, TypeOK, States, Writing
  <2>7. QED
    BY <1>2, <2>3, <2>5, <2>6 DEF Put, TypeOK
<1>3. ASSUME NEW m \in Machine, NEW i \in invs, RecvInv(m, i) PROVE TypeOK'
  <2>1. i.version \in Even /\ i.cid \in Machine /\ i.cid \in Nat
    BY MachineIsNat DEF TypeOK
  <2>2. [version |-> i.version, cid |-> m, to |-> i.cid] \in InvMsg
    BY <2>1
  <2>3. CASE InvSucceeds(m, i.version, i.cid)
    <3>1. acks' \subseteq InvMsg /\ invs' \subseteq InvMsg
      BY <1>3, <2>2, <2>3 DEF RecvInv, Acknowledgement, TypeOK
    <3>2. /\ state' \in [Machine -> States]
          /\ version' \in [Machine -> Even]
          /\ cid' \in [Machine -> Nat]
      BY <1>3, <2>1, <2>3 DEF RecvInv, TypeOK, States
    <3>3. \A x \in Machine : cid'[x] \in IF Writing(x)' THEN Session ELSE Machine
      BY SMTT(120), <1>3, <2>1, <2>3 DEF RecvInv, TypeOK, Writing
    <3>4. QED
      BY <1>3, <3>1, <3>2, <3>3 DEF RecvInv, TypeOK
  <2>4. CASE ~InvSucceeds(m, i.version, i.cid)
    BY <1>3, <2>4 DEF RecvInv, TypeOK, Writing
  <2>5. QED
    BY <2>3, <2>4
<1>4. ASSUME NEW m \in Machine, NEW a \in acks, NEW s \in Slot, RecvAck(m, a, s)
      PROVE  TypeOK'
  <2>1. a.version \in Even /\ a.cid \in Machine /\ m \in Nat /\ acks' \subseteq InvMsg
    BY <1>4, MachineIsNat DEF TypeOK, RecvAck
  <2>2. CASE ~AckSucceeds(m, a.version)
    BY <1>4, <2>1, <2>2 DEF RecvAck, TypeOK, Writing
  <2>3. CASE AckSucceeds(m, a.version) /\ pending_acks[m] # 1
    <3>1. pending_acks[m] \in 0..(MACHINE_NUM - 1) /\ pending_acks[m] > 0
      BY <2>3 DEF TypeOK, PendingSound, AckSucceeds
    <3>2. pending_acks[m] - 1 \in 0..(MACHINE_NUM - 1)
      BY SMTT(120), <3>1, MachineAssumption
    <3>3. QED
      BY SMTT(120), <1>4, <2>1, <2>3, <3>2 DEF RecvAck, TypeOK, Writing
  <2>4. CASE AckSucceeds(m, a.version) /\ pending_acks[m] = 1
    <3>1. \A x \in Others(m) : [version |-> a.version, cid |-> m, to |-> x,
                                value |-> update_ops[m][s]] \in UpdMsg
      BY SMTT(120), <2>1 DEF Others, TypeOK
    <3>2. upds' \subseteq UpdMsg
      BY SMTT(120), <1>4, <2>4, <3>1 DEF RecvAck, Updates, TypeOK
    <3>3. /\ state' \in [Machine -> States]
          /\ cid' \in [Machine -> Nat]
          /\ pending_acks' \in [Machine -> 0..(MACHINE_NUM - 1)]
          /\ acked' \in [Machine -> SUBSET Machine]
          /\ committed' \in Even \X Machine
      BY SMTT(120), <1>4, <2>1, <2>4, MachineAssumption DEF RecvAck, TypeOK, States
    <3>4. \A x \in Machine : cid'[x] \in IF Writing(x)' THEN Session ELSE Machine
      BY SMTT(120), <1>4, <2>4 DEF RecvAck, TypeOK, Writing
    <3>5. QED
      BY <1>4, <2>1, <3>2, <3>3, <3>4 DEF RecvAck, TypeOK
  <2>5. QED
    BY <2>2, <2>3, <2>4
<1>5. ASSUME NEW m \in Machine, NEW u \in upds, NEW s \in Slot, RecvUpd(m, u, s)
      PROVE  TypeOK'
  <2>1. /\ u.version \in Even /\ u.cid \in Machine /\ u.cid \in Nat /\ u.value \in Bytes
        /\ upds' \subseteq UpdMsg
    BY <1>5, MachineIsNat DEF TypeOK, RecvUpd
  <2>2. update_ops' \in [Machine -> [Slot -> Bytes]]
    BY <1>5, <2>1 DEF RecvUpd, TypeOK
  <2>3. CASE UpdSucceeds(m, u.version, u.cid)
    <3>1. /\ state' \in [Machine -> States]
          /\ version' \in [Machine -> Even]
          /\ cid' \in [Machine -> Nat]
          /\ value' \in [Machine -> Bytes]
      BY <1>5, <2>1, <2>3 DEF RecvUpd, TypeOK, States
    <3>2. \A x \in Machine : cid'[x] \in IF Writing(x)' THEN Session ELSE Machine
      <4>1. /\ state' = [state EXCEPT ![m] = "VALID"]
            /\ cid' = [cid EXCEPT ![m] = u.cid]
        BY <1>5, <2>3 DEF RecvUpd
      <4>2. QED
        BY <2>1, <4>1 DEF TypeOK, Writing
    <3>3. QED
      BY <1>5, <2>1, <2>2, <3>1, <3>2 DEF RecvUpd, TypeOK
  <2>4. CASE ~UpdSucceeds(m, u.version, u.cid)
    BY <1>5, <2>1, <2>2, <2>4 DEF RecvUpd, TypeOK, Writing
  <2>5. QED
    BY <2>3, <2>4
<1>6. CASE UNCHANGED vars
  BY <1>6 DEF vars, TypeOK, Writing
<1>7. QED
  BY <1>1, <1>2, <1>3, <1>4, <1>5, <1>6 DEF Next
-----------------------------------------------------------------------------

\* A write preserves the invariant: its timestamp is new, so no message in
\* flight refers to it, and its INVs are on their way to every peer.
LEMMA PutStep ==
    ASSUME IInv, TypeOK', NEW m \in Machine, NEW s \in Session, NEW val \in Value,
           Put(m, s, val)
    PROVE  IInv' /\ Forward
<1> USE DEF IInv
<1>a. version[m] \in Even
  BY DEF TypeOK
<1>b. PICK v \in Even : v = version[m] + 2
  BY <1>a, WriteVersion
<1>1. v = optik_unlock_write(Locked(version[m])) /\ version[m] < v
  <2>1. v = optik_unlock_write(Locked(version[m]))
    BY <1>a, <1>b, WriteVersion
  <2>2. version[m] < v
    <3>1. version[m] \in Nat
      BY <1>a, EvenIsNat
    <3>2. QED
      BY SMTT(120), <3>1, <1>b
  <2>3. QED
    BY <2>1, <2>2
<1>2. /\ Timestamp(m)' = <<v, m>> /\ Writing(m)' /\ version'[m] = v
      /\ \A x \in Others(m) : /\ Timestamp(x)' = Timestamp(x)
                              /\ Writing(x)' = Writing(x)
                              /\ Invalid(x)' = Invalid(x)
                              /\ state'[x] = state[x]
                              /\ version'[x] = version[x]
                              /\ cid'[x] = cid[x]
                              /\ acked'[x] = acked[x]
                              /\ pending_acks'[x] = pending_acks[x]
  BY SMTT(120), <1>1 DEF Put, PutSucceeds, TypeOK, Timestamp, Writing, Invalid, Others
<1>3. \A x \in Machine : Timestamp(x) \in Nat \X Nat
  BY TimestampType
<1>4. Less(Timestamp(m), <<v, m>>)
  BY <1>1, TimestampType, EvenIsNat DEF Less, TypeOK
<1>5. \A x \in Machine : /\ Timestamp(x)' \in Nat \X Nat
                         /\ LessEq(Timestamp(x), Timestamp(x)')
  <2>1. <<v, m>> \in Nat \X Nat
    BY MachineIsNat, EvenIsNat
  <2>2. LessEq(Timestamp(m), <<v, m>>)
    BY <2>1, <1>3, <1>4, LessTotal
  <2>3. \A x \in Machine : LessEq(Timestamp(x), Timestamp(x))
    BY <1>3, LessTotal
  <2>4. QED
    BY <2>1, <2>2, <2>3, <1>2, <1>3 DEF Others
<1>6. \A i \in invs' : \/ i \in invs
                       \/ \E x \in Others(m) : i = [version |-> v, cid |-> m, to |-> x]
  BY <1>1 DEF Put, Invalidations
<1>7. /\ \A x \in Others(m) : InvTo(v, m, x)'
      /\ invs \subseteq invs'
      /\ acks' = acks /\ upds' = upds /\ committed' = committed
  BY <1>1 DEF Put, Invalidations, InvTo
<1>8. \A i \in invs : /\ i.cid \in Machine /\ i.to \in Machine /\ i.version \in Even
                      /\ <<i.version, i.cid>> \in Nat \X Nat
  BY MessageTypes
<1>9. \A a \in acks : /\ a.cid \in Machine /\ a.to \in Machine /\ a.version \in Even
                      /\ <<a.version, a.to>> \in Nat \X Nat
  BY MessageTypes
<1>10. committed \in Nat \X Nat /\ <<v, m>> \in Nat \X Nat
  BY <1>1, EvenIsNat, MachineIsNat DEF TypeOK
<1>11. \A x \in Machine : Timestamp(x) # <<v, m>>
  <2> SUFFICES ASSUME NEW x \in Machine, Timestamp(x) = <<v, m>> PROVE FALSE
    OBVIOUS
  <2>1. LessEq(<<v, m>>, Timestamp(m))
    BY SMTT(120) DEF ReachedSpreads
  <2>2. QED
    BY <2>1, <1>3, <1>4, <1>10, LessTotal
<1>12. InvSound'
  <2> SUFFICES ASSUME NEW i \in invs'
               PROVE  /\ i.cid # i.to
                      /\ LessEq(<<i.version, i.cid>>, Timestamp(i.cid)')
                      /\ Timestamp(i.to)' # <<i.version, i.cid>>
    BY DEF InvSound
  <2>1. CASE i \in invs
    <3>1. /\ i.cid # i.to
          /\ LessEq(<<i.version, i.cid>>, Timestamp(i.cid))
          /\ Timestamp(i.to) # <<i.version, i.cid>>
      BY <2>1 DEF InvSound
    <3>2. LessEq(<<i.version, i.cid>>, Timestamp(i.cid)')
      BY <2>1, <3>1, <1>3, <1>5, <1>8, LessTransitive
    <3>3. QED
      BY SMTT(120), <2>1, <3>1, <3>2, <1>2, <1>8 DEF Others
  <2>2. ASSUME NEW x \in Others(m), i = [version |-> v, cid |-> m, to |-> x]
        PROVE  /\ i.cid # i.to
               /\ LessEq(<<i.version, i.cid>>, Timestamp(i.cid)')
               /\ Timestamp(i.to)' # <<i.version, i.cid>>
    BY <2>2, <1>2, <1>11, LessTotal, <1>10 DEF Others
  <2>3. QED
    BY <2>1, <2>2, <1>6
<1>13. AckSound'
  <2> SUFFICES ASSUME NEW a \in acks
               PROVE  /\ a.cid # a.to
                      /\ LessEq(<<a.version, a.to>>, Timestamp(a.cid)')
                      /\ LessEq(<<a.version, a.to>>, Timestamp(a.to)')
                      /\ ~InvTo(a.version, a.to, a.cid)'
    BY <1>7 DEF AckSound
  <2>1. /\ a.cid # a.to
        /\ LessEq(<<a.version, a.to>>, Timestamp(a.cid))
        /\ LessEq(<<a.version, a.to>>, Timestamp(a.to))
        /\ ~InvTo(a.version, a.to, a.cid)
    BY DEF AckSound
  <2>2. /\ LessEq(<<a.version, a.to>>, Timestamp(a.cid)')
        /\ LessEq(<<a.version, a.to>>, Timestamp(a.to)')
    BY <2>1, <1>3, <1>5, <1>9, LessTransitive
  <2>3. <<a.version, a.to>> # <<v, m>>
    BY <2>1, <1>3, <1>4, <1>9, <1>10, LessTotal
  <2>4. QED
    BY <2>1, <2>2, <2>3, <1>6 DEF InvTo
<1>14. UpdSound'
  BY <1>7 DEF UpdSound
<1>15. AckedSound'
  <2> SUFFICES ASSUME NEW n \in Machine, Writing(n)', NEW x \in acked'[n]
               PROVE  /\ x # n
                      /\ LessEq(Timestamp(n)', Timestamp(x)')
                      /\ ~InvTo(version[n], n, x)'
                      /\ ~AckTo(version[n], x, n)'
    BY DEF AckedSound
  <2>1. n # m
    BY DEF Put, TypeOK
  <2>2. /\ x # n /\ x \in Machine
        /\ LessEq(Timestamp(n), Timestamp(x))
        /\ ~InvTo(version[n], n, x)
        /\ ~AckTo(version[n], x, n)
    BY <2>1, <1>2 DEF AckedSound, Others, TypeOK
  <2>3. LessEq(Timestamp(n)', Timestamp(x)')
    BY <2>1, <2>2, <1>2, <1>3, <1>5, LessTransitive DEF Others
  <2>4. ~InvTo(version[n], n, x)' /\ ~AckTo(version[n], x, n)'
    BY <2>1, <2>2, <1>2, <1>6, <1>7 DEF InvTo, AckTo, Others
  <2>5. QED
    BY <2>2, <2>3, <2>4
<1>16. PendingSound'
  <2>1. /\ pending_acks'[m] = MACHINE_NUM - 1
        /\ acked'[m] = {}
    BY DEF Put, TypeOK
  <2>2. Cardinality({}) = 0
    BY FS_EmptySet
  <2>3. MACHINE_NUM - 1 = MACHINE_NUM - 1 - 0 /\ MACHINE_NUM - 1 > 0
    BY SMTT(120), MachineAssumption
  <2>4. ASSUME NEW n \in Machine, Writing(n)'
        PROVE  /\ pending_acks'[n] = MACHINE_NUM - 1 - Cardinality(acked'[n])
               /\ pending_acks'[n] > 0
    <3>1. CASE n = m
      BY <3>1, <2>1, <2>2, <2>3
    <3>2. CASE n # m
      BY <3>2, <2>4, <1>2 DEF PendingSound, Others
    <3>3. QED
      BY <3>1, <3>2
  <2>5. QED
    BY <2>4 DEF PendingSound
<1>17. CommittedSound'
  <2> SUFFICES ASSUME NEW n \in Machine
               PROVE  /\ LessEq(committed, Timestamp(n)')
                      /\ Writing(n)' => Less(committed, Timestamp(n)')
    BY <1>7 DEF CommittedSound
  <2>1. LessEq(committed, Timestamp(n)) /\ (Writing(n) => Less(committed, Timestamp(n)))
    BY DEF CommittedSound
  <2>2. QED
    BY <2>1, <1>2, <1>3, <1>4, <1>10, LessTotal, LessTransitive DEF Others
<1>18. OwnerSound'
  BY SMTT(120), <1>2, <1>7 DEF OwnerSound, Others
<1>19. ReachedSpreads'
  <2> SUFFICES ASSUME NEW y \in Machine, NEW x \in Machine
               PROVE  \/ LessEq(Timestamp(y)', Timestamp(x)')
                      \/ /\ x # Timestamp(y)'[2]
                         /\ InvTo(Timestamp(y)[1], Timestamp(y)[2], x)'
    BY DEF ReachedSpreads
  <2>1. CASE y = m
    <3>1. CASE x = m
      BY <2>1, <3>1, <1>5, LessTotal
    <3>2. CASE x # m
      BY SMTT(120), <2>1, <3>2, <1>2, <1>7 DEF Others
    <3>3. QED
      BY <3>1, <3>2
  <2>2. CASE y # m
    <3>1. Timestamp(y)' = Timestamp(y)
      BY <2>2, <1>2 DEF Others
    <3>2. CASE LessEq(Timestamp(y), Timestamp(x))
      BY <3>1, <3>2, <1>3, <1>5, LessTransitive
    <3>3. CASE x # Timestamp(y)[2] /\ InvTo(Timestamp(y)[1], Timestamp(y)[2], x)
      BY <3>1, <3>3, <1>7 DEF InvTo
    <3>4. QED
      BY <3>2, <3>3 DEF ReachedSpreads
  <2>3. QED
    BY <2>1, <2>2
<1>20. InvSpreads'
  <2> SUFFICES ASSUME NEW i \in invs', NEW x \in Others(i.cid)
               PROVE  \/ InvTo(i.version, i.cid, x)'
                      \/ LessEq(<<i.version, i.cid>>, Timestamp(x)')
    BY DEF InvSpreads, Others
  <2>1. CASE i \in invs
    <3>1. CASE InvTo(i.version, i.cid, x)
      BY <3>1, <1>7 DEF InvTo
    <3>2. CASE LessEq(<<i.version, i.cid>>, Timestamp(x))
      BY <2>1, <3>2, <1>3, <1>5, <1>8, LessTransitive DEF Others
    <3>3. QED
      BY <2>1, <3>1, <3>2 DEF InvSpreads
  <2>2. CASE i \notin invs
    BY SMTT(120), <2>2, <1>6, <1>7
  <2>3. QED
    BY <2>1, <2>2
<1>21. WaitSound'
  <2> SUFFICES ASSUME NEW n \in Machine, Writing(n)', NEW x \in Others(n) \ acked'[n]
               PROVE  \/ InvTo(version[n], n, x)'
                      \/ AckTo(version[n], x, n)'
                      \/ Less(Timestamp(n)', Timestamp(x)')
    BY DEF WaitSound, Others
  <2>1. CASE n = m
    BY <2>1, <1>2, <1>7
  <2>2. CASE n # m
    <3>1. \/ InvTo(version[n], n, x)
          \/ AckTo(version[n], x, n)
          \/ Less(Timestamp(n), Timestamp(x))
      BY <2>2, <1>2 DEF WaitSound, Others
    <3>2. Less(Timestamp(n), Timestamp(x)) => Less(Timestamp(n)', Timestamp(x)')
      BY <2>2, <1>2, <1>3, <1>5, LessTransitive DEF Others
    <3>3. QED
      BY <2>2, <3>1, <3>2, <1>2, <1>7 DEF InvTo, AckTo, Others
  <2>3. QED
    BY <2>1, <2>2
<1>22. UpdComing' /\ ValidIsLatest'
  BY SMTT(120), <1>2, <1>7 DEF UpdComing, ValidIsLatest, Others, UpdTo, Invalid, Writing
<1>23. QED
  BY <1>5, <1>12, <1>13, <1>14, <1>15, <1>16, <1>17, <1>18, <1>19, <1>20, <1>21, <1>22
     DEF Forward
-----------------------------------------------------------------------------

\* An INV preserves the invariant.  When it is taken, its ACK takes its place
\* and the replica reaches the timestamp of the write; when it is dropped, the
\* replica is strictly ahead of that write already.
LEMMA RecvInvStep ==
    ASSUME IInv, TypeOK', NEW m \in Machine, NEW i \in invs, RecvInv(m, i)
    PROVE  IInv' /\ Forward
<1> USE DEF IInv
<1>1. /\ i.version \in Even /\ i.cid \in Machine /\ i.to = m /\ i.cid # m
      /\ <<i.version, i.cid>> \in Nat \X Nat
      /\ i = [version |-> i.version, cid |-> i.cid, to |-> m]
  BY MessageTypes DEF RecvInv, InvSound, TypeOK, InvMsg
<1>2. /\ invs' = invs \ {i} /\ upds' = upds /\ committed' = committed
      /\ acked' = acked /\ pending_acks' = pending_acks
  BY DEF RecvInv
<1>3. /\ \A x \in Machine : Timestamp(x) \in Nat \X Nat
      /\ committed \in Nat \X Nat
  BY TimestampType, MessageTypes
<1>4. \A v, c, x : InvTo(v, c, x)' <=>
                     /\ InvTo(v, c, x)
                     /\ ~(v = i.version /\ c = i.cid /\ x = m)
  BY SMTT(120), <1>1, <1>2 DEF InvTo
<1>5. CASE InvSucceeds(m, i.version, i.cid)
  <2>1. /\ Timestamp(m)' = <<i.version, i.cid>> /\ ~Writing(m)' /\ Invalid(m)'
        /\ cid'[m] = i.cid /\ state'[m] # "VALID"
        /\ \A x \in Others(m) : /\ Timestamp(x)' = Timestamp(x)
                                /\ Writing(x)' = Writing(x)
                                /\ Invalid(x)' = Invalid(x)
                                /\ state'[x] = state[x]
                                /\ version'[x] = version[x]
                                /\ cid'[x] = cid[x]
    BY SMTT(120), <1>5 DEF RecvInv, TypeOK, Timestamp, Writing, Invalid, Others
  <2>2. Less(Timestamp(m), <<i.version, i.cid>>)
    BY <1>1, <1>5, InvNewer
  <2>3. \A x \in Machine : /\ Timestamp(x)' \in Nat \X Nat
                           /\ LessEq(Timestamp(x), Timestamp(x)')
    <3>1. LessEq(Timestamp(m), <<i.version, i.cid>>)
      BY SMTT(120), <1>1, <1>3, <2>2, LessTotal
    <3>2. \A x \in Machine : LessEq(Timestamp(x), Timestamp(x))
      BY <1>3, LessTotal
    <3>3. QED
      BY <1>1, <1>3, <2>1, <3>1, <3>2 DEF Others
  <2>4. acks' = acks \union {[version |-> i.version, cid |-> m, to |-> i.cid]}
    BY <1>5 DEF RecvInv, Acknowledgement
  <2>5. /\ LessEq(<<i.version, i.cid>>, Timestamp(i.cid))
        /\ LessEq(<<i.version, i.cid>>, Timestamp(i.cid)')
        /\ LessEq(<<i.version, i.cid>>, <<i.version, i.cid>>)
    BY <1>1, <1>3, <2>3, LessTransitive, LessTotal DEF InvSound
  <2>6. InvSound'
    <3> SUFFICES ASSUME NEW j \in invs'
                 PROVE  /\ j.cid # j.to
                        /\ LessEq(<<j.version, j.cid>>, Timestamp(j.cid)')
                        /\ Timestamp(j.to)' # <<j.version, j.cid>>
      BY DEF InvSound
    <3>1. /\ j \in invs /\ j # i /\ j.cid # j.to
          /\ LessEq(<<j.version, j.cid>>, Timestamp(j.cid))
          /\ Timestamp(j.to) # <<j.version, j.cid>>
      BY <1>2 DEF InvSound
    <3>2. /\ j.cid \in Machine /\ j.to \in Machine /\ j.version \in Even
          /\ <<j.version, j.cid>> \in Nat \X Nat
          /\ j = [version |-> j.version, cid |-> j.cid, to |-> j.to]
      BY <3>1, MessageTypes
    <3>3. LessEq(<<j.version, j.cid>>, Timestamp(j.cid)')
      BY <3>1, <3>2, <1>3, <2>3, LessTransitive
    <3>4. Timestamp(j.to)' # <<j.version, j.cid>>
      BY SMTT(120), <3>1, <3>2, <1>1, <2>1 DEF Others
    <3>5. QED
      BY <3>1, <3>3, <3>4
  <2>7. AckSound'
    <3> SUFFICES ASSUME NEW a \in acks'
                 PROVE  /\ a.cid # a.to
                        /\ LessEq(<<a.version, a.to>>, Timestamp(a.cid)')
                        /\ LessEq(<<a.version, a.to>>, Timestamp(a.to)')
                        /\ ~InvTo(a.version, a.to, a.cid)'
      BY DEF AckSound
    <3>1. CASE a \in acks
      <4>1. /\ a.cid # a.to
            /\ LessEq(<<a.version, a.to>>, Timestamp(a.cid))
            /\ LessEq(<<a.version, a.to>>, Timestamp(a.to))
            /\ ~InvTo(a.version, a.to, a.cid)
        BY <3>1 DEF AckSound
      <4>2. /\ a.cid \in Machine /\ a.to \in Machine
            /\ <<a.version, a.to>> \in Nat \X Nat
        BY <3>1, MessageTypes
      <4>3. QED
        BY <4>1, <4>2, <1>3, <1>4, <2>3, LessTransitive
    <3>2. CASE a = [version |-> i.version, cid |-> m, to |-> i.cid]
      BY <3>2, <1>1, <1>4, <2>1, <2>5
    <3>3. QED
      BY <3>1, <3>2, <2>4
  <2>8. UpdSound'
    BY <1>2 DEF UpdSound
  <2>9. AckedSound'
    <3> SUFFICES ASSUME NEW n \in Machine, Writing(n)', NEW x \in acked'[n]
                 PROVE  /\ x # n
                        /\ LessEq(Timestamp(n)', Timestamp(x)')
                        /\ ~InvTo(version[n], n, x)'
                        /\ ~AckTo(version[n], x, n)'
      BY DEF AckedSound
    <3>1. n # m
      BY <2>1
    <3>2. /\ x # n /\ x \in Machine
          /\ LessEq(Timestamp(n), Timestamp(x))
          /\ ~InvTo(version[n], n, x)
          /\ ~AckTo(version[n], x, n)
      BY <3>1, <1>2, <2>1 DEF AckedSound, Others, TypeOK
    <3>3. LessEq(Timestamp(n)', Timestamp(x)')
      BY SMTT(120), <3>1, <3>2, <2>1, <1>3, <2>3, LessTransitive DEF Others
    <3>4. ~InvTo(version[n], n, x)'
      BY <3>1, <3>2, <1>4, <2>1 DEF InvTo, Others
    <3>5. ~AckTo(version[n], x, n)'
      BY <3>1, <3>2, <1>1, <2>1, <2>4 DEF InvTo, AckTo, Others
    <3>6. QED
      BY <3>2, <3>3, <3>4, <3>5
  <2>10. PendingSound'
    BY <1>2, <2>1 DEF PendingSound, Others
  <2>11. CommittedSound' /\ LessEq(committed, Timestamp(m))
    <3> SUFFICES ASSUME NEW n \in Machine
                 PROVE  /\ LessEq(committed, Timestamp(n)')
                        /\ Writing(n)' => Less(committed, Timestamp(n)')
                        /\ LessEq(committed, Timestamp(n))
      BY <1>2 DEF CommittedSound
    <3>1. LessEq(committed, Timestamp(n)) /\ (Writing(n) => Less(committed, Timestamp(n)))
      BY DEF CommittedSound
    <3>2. LessEq(committed, Timestamp(n)')
      BY <3>1, <1>3, <2>3, LessTransitive
    <3>3. QED
      BY <3>1, <3>2, <2>1 DEF Others
  <2>12. OwnerSound'
    BY <1>1, <1>2, <2>1 DEF OwnerSound, Others
  <2>13. ReachedSpreads'
    <3> SUFFICES ASSUME NEW y \in Machine, NEW x \in Machine
                 PROVE  \/ LessEq(Timestamp(y)', Timestamp(x)')
                        \/ /\ x # Timestamp(y)'[2]
                           /\ InvTo(Timestamp(y)[1], Timestamp(y)[2], x)'
      BY DEF ReachedSpreads
    <3>1. CASE y = m
      <4>1. CASE x \in {m, i.cid}
        BY <3>1, <4>1, <2>1, <2>5
      <4>2. CASE x \notin {m, i.cid}
        <5>1. \/ InvTo(i.version, i.cid, x)
              \/ LessEq(<<i.version, i.cid>>, Timestamp(x))
          BY <4>2 DEF InvSpreads, Others
        <5>2. QED
          BY SMTT(120), <3>1, <4>2, <5>1, <1>4, <2>1 DEF Others
      <4>3. QED
        BY <4>1, <4>2
    <3>2. CASE y # m
      <4>1. Timestamp(y)' = Timestamp(y)
        BY <3>2, <2>1 DEF Others
      <4>2. CASE LessEq(Timestamp(y), Timestamp(x))
        BY <4>1, <4>2, <1>3, <2>3, LessTransitive
      <4>3. CASE x # Timestamp(y)[2] /\ InvTo(Timestamp(y)[1], Timestamp(y)[2], x)
        <5>1. CASE Timestamp(y) = <<i.version, i.cid>> /\ x = m
          BY <4>1, <5>1, <2>1, <2>5
        <5>2. CASE ~(Timestamp(y) = <<i.version, i.cid>> /\ x = m)
          <6>1. ~(Timestamp(y)[1] = i.version /\ Timestamp(y)[2] = i.cid /\ x = m)
            BY SMTT(120), <5>2, <1>3
          <6>2. QED
            BY <4>1, <4>3, <6>1, <1>4
        <5>3. QED
          BY <5>1, <5>2
      <4>4. QED
        BY <4>2, <4>3 DEF ReachedSpreads
    <3>3. QED
      BY <3>1, <3>2
  <2>14. InvSpreads'
    <3> SUFFICES ASSUME NEW j \in invs', NEW x \in Others(j.cid)
                 PROVE  \/ InvTo(j.version, j.cid, x)'
                        \/ LessEq(<<j.version, j.cid>>, Timestamp(x)')
      BY DEF InvSpreads, Others
    <3>1. j \in invs /\ x \in Machine /\ <<j.version, j.cid>> \in Nat \X Nat
      BY <1>2, MessageTypes DEF Others
    <3>2. CASE LessEq(<<j.version, j.cid>>, Timestamp(x))
      BY <3>1, <3>2, <1>3, <2>3, LessTransitive
    <3>3. CASE InvTo(j.version, j.cid, x)
      BY <3>3, <1>4, <2>1, <2>5
    <3>4. QED
      BY <3>1, <3>2, <3>3 DEF InvSpreads
  <2>15. WaitSound'
    <3> SUFFICES ASSUME NEW n \in Machine, Writing(n)', NEW x \in Others(n) \ acked'[n]
                 PROVE  \/ InvTo(version[n], n, x)'
                        \/ AckTo(version[n], x, n)'
                        \/ Less(Timestamp(n)', Timestamp(x)')
      BY DEF WaitSound, Others
    <3>1. n # m
      BY <2>1
    <3>2. \/ InvTo(version[n], n, x)
          \/ AckTo(version[n], x, n)
          \/ Less(Timestamp(n), Timestamp(x))
      BY <3>1, <1>2, <2>1 DEF WaitSound, Others
    <3>3. CASE InvTo(version[n], n, x)
      <4>1. InvTo(version[n], n, x)' \/ (version[n] = i.version /\ n = i.cid /\ x = m)
        BY <3>1, <3>3, <1>4, <2>1 DEF InvTo, Others
      <4>2. QED
        BY <3>1, <4>1, <2>1, <2>4 DEF AckTo, Others
    <3>4. CASE AckTo(version[n], x, n)
      BY <3>1, <3>4, <2>1, <2>4 DEF AckTo, Others
    <3>5. CASE Less(Timestamp(n), Timestamp(x))
      BY SMTT(120), <3>1, <3>5, <1>3, <2>1, <2>3, LessTransitive DEF Others
    <3>6. QED
      BY <3>2, <3>3, <3>4, <3>5
  <2>16. <<i.version, i.cid>> # committed
    BY SMTT(120), <1>1, <1>3, <2>2, <2>11, LessTotal
  <2>17. UpdComing' /\ ValidIsLatest'
    BY <1>2, <2>1, <2>16 DEF UpdComing, ValidIsLatest, UpdTo, Others
  <2>18. QED
    BY <2>3, <2>6, <2>7, <2>8, <2>9, <2>10, <2>11, <2>12, <2>13, <2>14, <2>15, <2>17
       DEF Forward
<1>6. CASE ~InvSucceeds(m, i.version, i.cid)
  <2>1. /\ state' = state /\ version' = version /\ cid' = cid /\ acks' = acks
    BY <1>6 DEF RecvInv
  <2>2. \A x \in Machine : /\ Timestamp(x)' = Timestamp(x)
                           /\ Writing(x)' = Writing(x)
                           /\ Invalid(x)' = Invalid(x)
    BY <2>1 DEF Timestamp, Writing, Invalid
  <2>3. LessEq(<<i.version, i.cid>>, Timestamp(m))
    BY <1>1, <1>3, <1>6, InvNewer, LessTotal
  <2>4. Less(<<i.version, i.cid>>, Timestamp(m))
    BY <1>1, <1>3, <2>3, LessTotal DEF InvSound
  <2>5. InvSound' /\ UpdSound' /\ PendingSound' /\ CommittedSound' /\ OwnerSound'
    BY <1>2, <2>1, <2>2, MessageTypes
       DEF InvSound, UpdSound, PendingSound, CommittedSound, OwnerSound
  <2>6. AckSound'
    BY <1>4, <2>1, <2>2, MessageTypes DEF AckSound
  <2>7. AckedSound'
    BY SMTT(120), <1>2, <1>4, <2>1, <2>2 DEF AckedSound, AckTo, InvTo, TypeOK
  <2>8. UpdComing' /\ ValidIsLatest'
    BY <1>2, <2>1, <2>2 DEF UpdComing, ValidIsLatest, UpdTo
  <2>9. ReachedSpreads'
    BY SMTT(120), <1>3, <1>4, <2>2, <2>3 DEF ReachedSpreads, InvTo
  <2>10. InvSpreads'
    BY <1>2, <1>4, <2>2, <2>3, MessageTypes DEF InvSpreads, Others
  <2>11. WaitSound'
    <3> SUFFICES ASSUME NEW n \in Machine, Writing(n), NEW x \in Others(n) \ acked[n]
                 PROVE  \/ InvTo(version[n], n, x)'
                        \/ AckTo(version[n], x, n)
                        \/ Less(Timestamp(n), Timestamp(x))
      BY <1>2, <2>1, <2>2 DEF WaitSound, AckTo, Others
    <3>1. \/ InvTo(version[n], n, x)
          \/ AckTo(version[n], x, n)
          \/ Less(Timestamp(n), Timestamp(x))
      BY DEF WaitSound
    <3>2. Timestamp(n) = <<version[n], n>>
      BY TimestampType
    <3>3. InvTo(version[n], n, x) =>
            InvTo(version[n], n, x)' \/ (version[n] = i.version /\ n = i.cid /\ x = m)
      BY <1>4, <2>1 DEF InvTo
    <3>4. QED
      BY <3>1, <3>2, <3>3, <2>4
  <2>12. Forward
    BY SMTT(120), <1>3, <2>2, LessTotal DEF Forward
  <2>13. QED
    BY <2>5, <2>6, <2>7, <2>8, <2>9, <2>10, <2>11, <2>12
<1>7. QED
  BY <1>5, <1>6
-----------------------------------------------------------------------------

\* A step that changes no timestamp, no INV, no ACK and no count of ACKs leaves
\* the parts of the invariant that speak of nothing else.
LEMMA QuietStep ==
    ASSUME IInv,
           \A x \in Machine : Timestamp(x)' = Timestamp(x) /\ Writing(x)' = Writing(x),
           version' = version, cid' = cid, pending_acks' = pending_acks,
           acked' = acked, invs' = invs, acks' = acks, committed' = committed
    PROVE  /\ InvSound' /\ AckSound' /\ AckedSound' /\ PendingSound' /\ CommittedSound'
           /\ OwnerSound' /\ ReachedSpreads' /\ InvSpreads' /\ WaitSound'
           /\ Forward
<1> USE DEF IInv
<1>1. /\ \A v, c, x : InvTo(v, c, x)' <=> InvTo(v, c, x)
      /\ \A v, x, c : AckTo(v, x, c)' <=> AckTo(v, x, c)
  BY DEF InvTo, AckTo
<1>2. InvSound' /\ AckSound' /\ PendingSound' /\ CommittedSound' /\ OwnerSound'
  BY <1>1, MessageTypes DEF InvSound, AckSound, PendingSound, CommittedSound, OwnerSound
<1>3. AckedSound'
  BY DEF AckedSound, InvTo, AckTo, TypeOK
<1>4. ReachedSpreads'
  BY DEF ReachedSpreads, InvTo
<1>5. InvSpreads'
  BY <1>1, MessageTypes DEF InvSpreads, Others
<1>6. WaitSound'
  BY DEF WaitSound, InvTo, AckTo, Others
<1>7. Forward
  BY SMTT(120), TimestampType, LessTotal DEF Forward
<1>8. QED
  BY <1>2, <1>3, <1>4, <1>5, <1>6, <1>7

\* A read that must wait only marks the replica for replay.
LEMMA GetStep ==
    ASSUME IInv, TypeOK', NEW m \in Machine, Get(m)
    PROVE  IInv' /\ Forward
<1> USE DEF IInv
<1>1. \A x \in Machine : /\ Timestamp(x)' = Timestamp(x)
                         /\ Writing(x)' = Writing(x)
                         /\ Invalid(x)' = Invalid(x)
                         /\ (state'[x] = "VALID") = (state[x] = "VALID")
  BY SMTT(120) DEF Get, TypeOK, Timestamp, Writing, Invalid
<1>2. /\ version' = version /\ cid' = cid /\ pending_acks' = pending_acks
      /\ acked' = acked /\ invs' = invs /\ acks' = acks /\ committed' = committed
      /\ upds' = upds
  BY DEF Get
<1>3. /\ InvSound' /\ AckSound' /\ AckedSound' /\ PendingSound' /\ CommittedSound'
      /\ OwnerSound' /\ ReachedSpreads' /\ InvSpreads' /\ WaitSound' /\ Forward
  BY <1>1, <1>2, QuietStep
<1>4. UpdSound' /\ UpdComing' /\ ValidIsLatest'
  BY <1>1, <1>2 DEF UpdSound, UpdComing, ValidIsLatest, UpdTo
<1>5. QED
  BY <1>3, <1>4

\* An UPD preserves the invariant: one that is taken is that of the write that
\* completed last.
LEMMA RecvUpdStep ==
    ASSUME IInv, TypeOK', NEW m \in Machine, NEW u \in upds, NEW s \in Slot,
           RecvUpd(m, u, s)
    PROVE  IInv' /\ Forward
<1> USE DEF IInv
<1>1. /\ u.version \in Even /\ u.cid \in Machine /\ u.to = m
      /\ <<u.version, u.cid>> \in Nat \X Nat
  BY MessageTypes DEF RecvUpd
<1>2. /\ upds' = upds \ {u} /\ pending_acks' = pending_acks /\ acked' = acked
      /\ invs' = invs /\ acks' = acks /\ committed' = committed
  BY DEF RecvUpd
<1>3. /\ \A x \in Machine : Timestamp(x) \in Nat \X Nat
      /\ committed \in Nat \X Nat
  BY TimestampType, MessageTypes
<1>4. UpdSound'
  BY <1>2 DEF UpdSound
<1>5. UpdSucceeds(m, u.version, u.cid) <=>
        Invalid(m) /\ version[m] = u.version /\ cid[m] = u.cid
  BY SMTT(120), <1>1, SameVersion DEF UpdSucceeds, TypeOK
<1>6. Invalid(m) => ~Writing(m) /\ Timestamp(m) = <<version[m], cid[m]>>
  BY TimestampType DEF Invalid, Writing
<1>7. CASE UpdSucceeds(m, u.version, u.cid)
  <2>1. version' = version /\ cid' = cid
    BY SMTT(120), <1>5, <1>7 DEF RecvUpd, TypeOK
  <2>2. state' = [state EXCEPT ![m] = "VALID"]
    BY <1>7 DEF RecvUpd
  <2>3. \A x \in Machine : /\ Timestamp(x)' = Timestamp(x)
                           /\ Writing(x)' = Writing(x)
    BY SMTT(120), <1>5, <1>6, <1>7, <2>1, <2>2 DEF TypeOK, Timestamp, Writing
  <2>4. Timestamp(m) = committed
    <3>1. LessEq(Timestamp(m), committed) /\ LessEq(committed, Timestamp(m))
      BY <1>5, <1>6, <1>7 DEF UpdSound, CommittedSound
    <3>2. QED
      BY <3>1, <1>3, LessTotal
  <2>5. ValidIsLatest'
    BY <1>2, <2>2, <2>3, <2>4 DEF ValidIsLatest, TypeOK
  <2>6. UpdComing'
    <3> SUFFICES ASSUME NEW n \in Machine, Invalid(n)', Timestamp(n) = committed
                 PROVE  UpdTo(committed, n)'
      BY <1>2, <2>3 DEF UpdComing
    <3>1. n # m /\ Invalid(n)
      BY <2>2 DEF Invalid, TypeOK
    <3>2. UpdTo(committed, n)
      BY <3>1 DEF UpdComing
    <3>3. QED
      BY <3>1, <3>2, <1>1, <1>2 DEF UpdTo
  <2>7. QED
    BY <1>2, <1>4, <2>1, <2>3, <2>5, <2>6, QuietStep
<1>8. CASE ~UpdSucceeds(m, u.version, u.cid)
  <2>1. version' = version /\ cid' = cid /\ state' = state
    BY <1>8 DEF RecvUpd
  <2>2. \A x \in Machine : /\ Timestamp(x)' = Timestamp(x)
                           /\ Writing(x)' = Writing(x)
                           /\ Invalid(x)' = Invalid(x)
    BY <2>1 DEF Timestamp, Writing, Invalid
  <2>3. ValidIsLatest'
    BY <1>2, <2>1, <2>2 DEF ValidIsLatest
  <2>4. UpdComing'
    <3> SUFFICES ASSUME NEW n \in Machine, Invalid(n), Timestamp(n) = committed
                 PROVE  UpdTo(committed, n)'
      BY <1>2, <2>2 DEF UpdComing
    <3>1. PICK w \in upds : w.version = committed[1] /\ w.cid = committed[2] /\ w.to = n
      BY DEF UpdComing, UpdTo
    <3>2. w # u
      BY SMTT(120), <3>1, <1>1, <1>3, <1>5, <1>6, <1>8
    <3>3. QED
      BY <3>1, <3>2, <1>2 DEF UpdTo
  <2>5. QED
    BY <1>2, <1>4, <2>1, <2>2, <2>3, <2>4, QuietStep
<1>9. QED
  BY <1>7, <1>8

\* A machine has MACHINE_NUM - 1 peers.
LEMMA OthersFinite ==
    ASSUME NEW m \in Machine
    PROVE  IsFiniteSet(Others(m)) /\ Cardinality(Others(m)) = MACHINE_NUM - 1
<1>1. IsFiniteSet(Machine) /\ Cardinality(Machine) = MACHINE_NUM
  <2>1. 0 \in Int /\ MACHINE_NUM - 1 \in Int /\ 0 <= MACHINE_NUM - 1
    BY SMTT(120), MachineAssumption
  <2>2. QED
    BY SMTT(120), <2>1, FS_Interval, MachineAssumption DEF Machine
<1>2. QED
  BY <1>1, FS_RemoveElement DEF Others

\* An ACK preserves the invariant.  One that counts comes from a peer that was
\* not counted before, so the last one means that every peer has reached the
\* write.
LEMMA RecvAckStep ==
    ASSUME IInv, TypeOK', NEW m \in Machine, NEW a \in acks, NEW s \in Slot,
           RecvAck(m, a, s)
    PROVE  IInv' /\ Forward
<1> USE DEF IInv
<1>1. /\ a.version \in Even /\ a.cid \in Machine /\ a.to = m /\ a.cid # m
      /\ <<a.version, m>> \in Nat \X Nat
      /\ a = [version |-> a.version, cid |-> a.cid, to |-> m]
  BY MessageTypes DEF RecvAck, AckSound
<1>2. acks' = acks \ {a} /\ invs' = invs /\ version' = version
  BY DEF RecvAck
<1>3. /\ \A x \in Machine : Timestamp(x) \in Nat \X Nat
      /\ committed \in Nat \X Nat
  BY TimestampType, MessageTypes
<1>4. /\ \A v, c, x : InvTo(v, c, x)' <=> InvTo(v, c, x)
      /\ \A v, x, c : AckTo(v, x, c)' <=>
                        /\ AckTo(v, x, c)
                        /\ ~(v = a.version /\ x = a.cid /\ c = m)
  BY SMTT(120), <1>1, <1>2 DEF InvTo, AckTo
<1>5. AckSucceeds(m, a.version) <=> Writing(m) /\ version[m] = a.version
  <2>1. version[m] \in Nat /\ a.version \in Nat
    BY <1>1, EvenIsNat DEF TypeOK
  <2>2. QED
    BY SMTT(120), <2>1 DEF AckSucceeds, Locked
\* No ACK changes a timestamp.
<1>6. \A x \in Machine : Timestamp(x)' = Timestamp(x)
  <2>1. CASE AckSucceeds(m, a.version) /\ pending_acks[m] = 1
    BY SMTT(120), <2>1, <1>2, <1>5 DEF RecvAck, Timestamp, Writing, TypeOK
  <2>2. CASE ~(AckSucceeds(m, a.version) /\ pending_acks[m] = 1)
    BY <2>2, <1>2 DEF RecvAck, Timestamp, Writing
  <2>3. QED
    BY <2>1, <2>2
<1>7. InvSound' /\ AckSound' /\ ReachedSpreads' /\ InvSpreads' /\ Forward
  <2>1. InvSound' /\ AckSound'
    BY <1>2, <1>4, <1>6, MessageTypes DEF InvSound, AckSound
  <2>2. ReachedSpreads'
    BY <1>2, <1>6 DEF ReachedSpreads, InvTo
  <2>3. InvSpreads'
    BY <1>2, <1>4, <1>6, MessageTypes DEF InvSpreads, Others
  <2>4. Forward
    BY SMTT(120), <1>3, <1>6, LessTotal DEF Forward
  <2>5. QED
    BY <2>1, <2>2, <2>3, <2>4
<1>8. CASE ~AckSucceeds(m, a.version)
  <2>1. /\ state' = state /\ cid' = cid /\ pending_acks' = pending_acks
        /\ upds' = upds /\ acked' = acked /\ committed' = committed
    BY <1>8 DEF RecvAck
  <2>2. \A x \in Machine : Writing(x)' = Writing(x) /\ Invalid(x)' = Invalid(x)
    BY <2>1 DEF Writing, Invalid
  <2>3. UpdSound' /\ PendingSound' /\ CommittedSound' /\ OwnerSound'
    BY <1>6, <2>1, <2>2 DEF UpdSound, PendingSound, CommittedSound, OwnerSound
  <2>4. UpdComing' /\ ValidIsLatest'
    BY <1>6, <2>1, <2>2 DEF UpdComing, ValidIsLatest, UpdTo
  <2>5. AckedSound'
    BY SMTT(120), <1>2, <1>6, <2>1, <2>2 DEF AckedSound, InvTo, AckTo, TypeOK
  <2>6. WaitSound'
    <3> SUFFICES ASSUME NEW n \in Machine, Writing(n), NEW x \in Others(n) \ acked[n],
                        ~InvTo(version[n], n, x), ~Less(Timestamp(n), Timestamp(x))
                 PROVE  AckTo(version[n], x, n)'
      BY <1>2, <1>6, <2>1, <2>2 DEF WaitSound, InvTo, Others
    <3>1. AckTo(version[n], x, n)
      BY DEF WaitSound
    <3>2. ~(version[n] = a.version /\ n = m)
      BY <1>5, <1>8
    <3>3. QED
      BY SMTT(120), <3>1, <3>2, <1>1, <1>2 DEF AckTo
  <2>7. QED
    BY <1>7, <2>3, <2>4, <2>5, <2>6
<1>9. ASSUME AckSucceeds(m, a.version)
      PROVE  /\ Writing(m) /\ version[m] = a.version
             /\ Timestamp(m) = <<a.version, m>>
             /\ a.cid \notin acked[m] /\ acked[m] \subseteq Others(m)
             /\ LessEq(Timestamp(m), Timestamp(a.cid))
             /\ ~InvTo(version[m], m, a.cid)
             /\ Cardinality(acked[m] \union {a.cid}) = Cardinality(acked[m]) + 1
             /\ Cardinality(acked[m]) \in Nat
  <2>1. Writing(m) /\ version[m] = a.version /\ Timestamp(m) = <<a.version, m>>
    BY <1>5, <1>9, TimestampType
  <2>2. AckTo(version[m], a.cid, m)
    BY <1>1, <2>1 DEF AckTo
  <2>3. a.cid \notin acked[m] /\ acked[m] \subseteq Others(m)
    BY <2>1, <2>2 DEF AckedSound, TypeOK, Others
  <2>4. IsFiniteSet(acked[m]) /\ Cardinality(acked[m]) \in Nat
    BY <2>3, OthersFinite, FS_Subset, FS_CardinalityType
  <2>5. Cardinality(acked[m] \union {a.cid}) = Cardinality(acked[m]) + 1
    BY <2>3, <2>4, FS_AddElement
  <2>6. LessEq(Timestamp(m), Timestamp(a.cid)) /\ ~InvTo(version[m], m, a.cid)
    BY <1>1, <2>1 DEF AckSound
  <2>7. QED
    BY <2>1, <2>3, <2>4, <2>5, <2>6
<1>10. CASE AckSucceeds(m, a.version) /\ pending_acks[m] # 1
  <2>1. /\ state' = state /\ cid' = cid /\ upds' = upds /\ committed' = committed
        /\ pending_acks'[m] = pending_acks[m] - 1
        /\ acked'[m] = acked[m] \union {a.cid}
        /\ \A x \in Others(m) : /\ pending_acks'[x] = pending_acks[x]
                                /\ acked'[x] = acked[x]
    BY SMTT(120), <1>10 DEF RecvAck, TypeOK, Others
  <2>2. \A x \in Machine : Writing(x)' = Writing(x) /\ Invalid(x)' = Invalid(x)
    BY <2>1 DEF Writing, Invalid
  <2>3. UpdSound' /\ CommittedSound' /\ OwnerSound'
    BY <1>6, <2>1, <2>2 DEF UpdSound, CommittedSound, OwnerSound
  <2>4. UpdComing' /\ ValidIsLatest'
    BY <1>6, <2>1, <2>2 DEF UpdComing, ValidIsLatest, UpdTo
  <2>5. PendingSound'
    <3>1. /\ pending_acks[m] = MACHINE_NUM - 1 - Cardinality(acked[m])
          /\ pending_acks[m] > 0
      BY <1>9, <1>10 DEF PendingSound
    <3>2. /\ pending_acks'[m] = MACHINE_NUM - 1 - Cardinality(acked'[m])
          /\ pending_acks'[m] > 0
      BY SMTT(120), <3>1, <1>9, <1>10, <2>1, MachineAssumption
    <3>3. ASSUME NEW n \in Others(m), Writing(n)'
          PROVE  /\ pending_acks'[n] = MACHINE_NUM - 1 - Cardinality(acked'[n])
                 /\ pending_acks'[n] > 0
      BY <3>3, <2>1, <2>2 DEF PendingSound, Others
    <3>4. QED
      BY <3>2, <3>3 DEF PendingSound, Others
  <2>6. AckedSound'
    <3> SUFFICES ASSUME NEW n \in Machine, Writing(n), NEW x \in acked'[n]
                 PROVE  /\ x # n
                        /\ LessEq(Timestamp(n)', Timestamp(x)')
                        /\ ~InvTo(version[n], n, x)'
                        /\ ~AckTo(version[n], x, n)'
      BY <2>2 DEF AckedSound
    <3>1. CASE x \in acked[n]
      BY SMTT(120), <3>1, <1>2, <1>6 DEF AckedSound, InvTo, AckTo, TypeOK
    <3>2. CASE x \notin acked[n]
      <4>1. n = m /\ x = a.cid
        BY <3>2, <2>1 DEF Others
      <4>2. QED
        BY <4>1, <1>1, <1>2, <1>6, <1>9, <1>10 DEF InvTo, AckTo
    <3>3. QED
      BY <3>1, <3>2
  <2>7. WaitSound'
    <3> SUFFICES ASSUME NEW n \in Machine, Writing(n), NEW x \in Others(n) \ acked'[n],
                        ~InvTo(version[n], n, x), ~Less(Timestamp(n), Timestamp(x))
                 PROVE  AckTo(version[n], x, n)'
      BY <1>2, <1>6, <2>2 DEF WaitSound, InvTo, Others
    <3>1. x \notin acked[n] /\ ~(n = m /\ x = a.cid)
      BY <2>1 DEF Others
    <3>2. AckTo(version[n], x, n)
      BY <3>1 DEF WaitSound
    <3>3. QED
      BY SMTT(120), <3>1, <3>2, <1>1, <1>2 DEF AckTo
  <2>8. QED
    BY <1>7, <2>3, <2>4, <2>5, <2>6, <2>7
<1>11. CASE AckSucceeds(m, a.version) /\ pending_acks[m] = 1
  <2>1. /\ state'[m] = "VALID" /\ ~Writing(m)' /\ ~Invalid(m)'
        /\ committed' = <<a.version, m>>
        /\ \A x \in Others(m) : /\ state'[x] = state[x]
                                /\ Writing(x)' = Writing(x)
                                /\ Invalid(x)' = Invalid(x)
                                /\ cid'[x] = cid[x]
                                /\ pending_acks'[x] = pending_acks[x]
                                /\ acked'[x] = acked[x]
    BY SMTT(120), <1>11 DEF RecvAck, TypeOK, Others, Writing, Invalid
  <2>2. upds' = upds \union {[version |-> a.version, cid |-> m, to |-> x,
                              value |-> update_ops[m][s]] : x \in Others(m)}
    BY <1>11 DEF RecvAck, Updates
  <2>3. acked[m] \union {a.cid} = Others(m)
    <3>1. pending_acks[m] = MACHINE_NUM - 1 - Cardinality(acked[m])
      BY <1>9, <1>11 DEF PendingSound
    <3>2. Cardinality(acked[m] \union {a.cid}) = MACHINE_NUM - 1
      BY SMTT(120), <3>1, <1>9, <1>11, MachineAssumption
    <3>3. acked[m] \union {a.cid} \in SUBSET Others(m)
      BY <1>1, <1>9, <1>11 DEF Others
    <3>4. QED
      BY <3>2, <3>3, OthersFinite, FS_Subset
  <2>4. Timestamp(m) = committed' /\ Less(committed, committed')
    BY <1>9, <1>11, <2>1 DEF CommittedSound
  <2>5. \A x \in Machine : LessEq(committed', Timestamp(x))
    <3>1. ASSUME NEW x \in Others(m) PROVE LessEq(Timestamp(m), Timestamp(x))
      BY <2>3, <1>9, <1>11 DEF AckedSound
    <3>2. LessEq(Timestamp(m), Timestamp(m))
      BY <1>3, LessTotal
    <3>3. QED
      BY <3>1, <3>2, <2>4 DEF Others
  <2>6. committed' \in Nat \X Nat
    BY <1>1, <2>1
  <2>7. \A x \in Machine : Timestamp(x) # committed
    BY SMTT(120), <2>4, <2>5, <2>6, <1>3, LessTotal
  <2>8. UpdSound'
    <3> SUFFICES ASSUME NEW u \in upds'
                 PROVE  LessEq(<<u.version, u.cid>>, committed')
      BY DEF UpdSound
    <3>1. CASE u \in upds
      <4>1. LessEq(<<u.version, u.cid>>, committed) /\ <<u.version, u.cid>> \in Nat \X Nat
        BY <3>1, MessageTypes DEF UpdSound
      <4>2. QED
        BY <4>1, <2>4, <2>6, <1>3, LessTransitive, LessTotal
    <3>2. CASE u \notin upds
      <4>1. <<u.version, u.cid>> = committed'
        BY SMTT(120), <3>2, <2>1, <2>2
      <4>2. QED
        BY <4>1 DEF LessEq
    <3>3. QED
      BY <3>1, <3>2
  <2>9. PendingSound'
    BY <2>1 DEF PendingSound, Others
  <2>10. AckedSound'
    <3> SUFFICES ASSUME NEW n \in Others(m), Writing(n), NEW x \in acked[n]
                 PROVE  /\ x # n
                        /\ LessEq(Timestamp(n)', Timestamp(x)')
                        /\ ~InvTo(version[n], n, x)'
                        /\ ~AckTo(version[n], x, n)'
      BY <2>1 DEF AckedSound, Others
    <3>1. QED
      BY SMTT(120), <1>2, <1>6 DEF AckedSound, InvTo, AckTo, TypeOK, Others
  <2>11. CommittedSound'
    <3> SUFFICES ASSUME NEW n \in Machine
                 PROVE  /\ LessEq(committed', Timestamp(n))
                        /\ Writing(n)' => Less(committed', Timestamp(n))
      BY <1>6 DEF CommittedSound
    <3>1. Writing(n)' => n # m /\ Timestamp(n) = <<version[n], n>>
      BY <2>1, TimestampType DEF Others
    <3>2. Writing(n)' => Timestamp(n) # committed'
      BY SMTT(120), <3>1, <2>1
    <3>3. QED
      BY <3>2, <2>5, <2>6, <1>3, LessTotal
  <2>12. OwnerSound'
    <3> SUFFICES ASSUME NEW n \in Machine, ~Writing(n)', cid'[n] = n
                 PROVE  LessEq(Timestamp(n), committed')
      BY <1>6 DEF OwnerSound
    <3>1. CASE n = m
      BY <3>1, <2>4, <2>6, LessTotal
    <3>2. CASE n # m
      <4>1. LessEq(Timestamp(n), committed)
        BY <3>2, <2>1 DEF OwnerSound, Others
      <4>2. QED
        BY <4>1, <2>4, <2>6, <1>3, LessTransitive, LessTotal
    <3>3. QED
      BY <3>1, <3>2
  <2>13. WaitSound'
    <3> SUFFICES ASSUME NEW n \in Others(m), Writing(n), NEW x \in Others(n) \ acked[n],
                        ~InvTo(version[n], n, x), ~Less(Timestamp(n), Timestamp(x))
                 PROVE  AckTo(version[n], x, n)'
      BY <1>2, <1>6, <2>1 DEF WaitSound, InvTo, Others
    <3>1. AckTo(version[n], x, n)
      BY DEF WaitSound, Others
    <3>2. QED
      BY SMTT(120), <3>1, <1>1, <1>2 DEF AckTo, Others
  <2>14. UpdComing'
    <3> HIDE DEF IInv
    <3> SUFFICES ASSUME NEW n \in Machine, Invalid(n)' PROVE UpdTo(committed, n)'
      BY DEF UpdComing
    <3> n \in Others(m)
      BY <2>1 DEF Others
    <3>1. [version |-> a.version, cid |-> m, to |-> n,
           value |-> update_ops[m][s]] \in upds'
      BY <2>2
    <3>2. QED
      BY <3>1, <2>1 DEF UpdTo
  <2>15. ValidIsLatest'
    BY <1>6, <2>1, <2>4, <2>7 DEF ValidIsLatest, Others
  <2>16. QED
    BY <1>7, <2>8, <2>9, <2>10, <2>11, <2>12, <2>13, <2>14, <2>15
<1>12. QED
  BY <1>8, <1>10, <1>11

-----------------------------------------------------------------------------

\* A step that changes nothing preserves the invariant.
LEMMA StutterStep ==
    ASSUME IInv, UNCHANGED vars
    PROVE  IInv' /\ Forward
<1> USE DEF IInv
<1>1. /\ version' = version /\ cid' = cid /\ pending_acks' = pending_acks
      /\ acked' = acked /\ invs' = invs /\ acks' = acks /\ committed' = committed
      /\ upds' = upds /\ state' = state
  BY DEF vars
<1>2. \A x \in Machine : /\ Timestamp(x)' = Timestamp(x)
                         /\ Writing(x)' = Writing(x)
                         /\ Invalid(x)' = Invalid(x)
  BY <1>1 DEF Timestamp, Writing, Invalid
<1>3. UpdSound' /\ UpdComing' /\ ValidIsLatest'
  BY <1>1, <1>2 DEF UpdSound, UpdComing, ValidIsLatest, UpdTo
<1>4. TypeOK'
  BY TypeStep
<1>5. QED
  BY <1>1, <1>2, <1>3, <1>4, QuietStep

\* Every step of the protocol preserves the invariant.
LEMMA IInvStep == IInv /\ [Next]_vars => IInv' /\ Forward
<1> SUFFICES ASSUME IInv, [Next]_vars PROVE IInv' /\ Forward
  OBVIOUS
<1>1. TypeOK'
  BY TypeStep DEF IInv
<1>2. CASE UNCHANGED vars
  BY <1>2, StutterStep
<1>3. CASE Next
  BY <1>1, <1>3, GetStep, PutStep, RecvInvStep, RecvAckStep, RecvUpdStep DEF Next
<1>4. QED
  BY <1>2, <1>3

\* With no message in flight, all replicas have the same timestamp, its writer
\* has completed it, and no replica is left to be updated.
LEMMA IInvQuiescent == IInv => QuiescentIsValid
<1> SUFFICES ASSUME IInv, invs = {}, acks = {}, upds = {}, NEW m \in Machine
             PROVE  state[m] = "VALID"
  BY DEF QuiescentIsValid
<1> USE DEF IInv
<1>1. /\ \A x \in Machine : Timestamp(x) \in Nat \X Nat /\ Timestamp(x)[2] \in Machine
      /\ committed \in Nat \X Nat
  BY TimestampType, MessageTypes
<1>2. \A x, y \in Machine : LessEq(Timestamp(y), Timestamp(x))
  BY DEF ReachedSpreads, InvTo
<1>3. \A x, y \in Machine : Timestamp(x) = Timestamp(y)
  BY <1>1, <1>2, LessTotal
<1>4. \A x \in Machine : ~Writing(x)
  <2> SUFFICES ASSUME NEW x \in Machine, Writing(x) PROVE FALSE
    OBVIOUS
  <2>1. \A y \in Others(x) : y \in acked[x]
    BY <1>1, <1>3, LessTotal DEF WaitSound, InvTo, AckTo, Others
  <2>2. acked[x] = Others(x)
    BY <2>1 DEF AckedSound, TypeOK, Others
  <2>3. QED
    BY SMTT(120), <2>2, OthersFinite, MachineAssumption DEF PendingSound
<1> DEFINE c == Timestamp(m)[2]
<1>5. c \in Machine /\ cid[c] = c
  <2>1. c \in Machine
    BY <1>1
  <2>2. Timestamp(c) = <<version[c], cid[c]>> /\ Timestamp(c) = Timestamp(m)
    BY <2>1, <1>3, <1>4, TimestampType
  <2>3. QED
    BY SMTT(120), <2>1, <2>2
<1>6. LessEq(Timestamp(m), committed)
  BY <1>3, <1>4, <1>5 DEF OwnerSound
<1>7. Timestamp(m) = committed
  BY <1>1, <1>6, LessTotal DEF CommittedSound
<1>8. ~Invalid(m)
  BY <1>7 DEF UpdComing, UpdTo
<1>9. QED
  BY <1>4, <1>8 DEF TypeOK, States, Writing, Invalid

\* The part of the invariant about the ACKs a writer has counted.
LEMMA IInvAcks == IInv => AcksCountInvalidated
BY DEF IInv, PendingSound, AckedSound, AcksCountInvalidated

-----------------------------------------------------------------------------

\* IInv holds in every reachable state of the protocol.
THEOREM Invariance == Spec => []IInv
<1>1. IInv /\ [Next]_vars => IInv'
  BY IInvStep
<1>2. QED
  BY InitIInv, <1>1, PTL DEF Spec

\* The replicas, the messages and the counts of ACKs keep their types; in
\* particular pending_acks, an unsigned byte, is never decremented at zero.
THEOREM TypeCorrect == Spec => []TypeOK
<1>1. IInv => TypeOK
  BY DEF IInv
<1>2. QED
  BY <1>1, Invariance, PTL

\* A replica in VALID_STATE has the write that completed last.
THEOREM ValidLatest == Spec => []ValidIsLatest
<1>1. IInv => ValidIsLatest
  BY DEF IInv
<1>2. QED
  BY <1>1, Invariance, PTL

\* CACHE_OP_ACK counts each invalidated peer once.
THEOREM AcksCounted == Spec => []AcksCountInvalidated
BY IInvAcks, Invariance, PTL

\* The coherence messages always suffice to bring every replica back to
\* VALID_STATE.
THEOREM Quiescence == Spec => []QuiescentIsValid
BY IInvQuiescent, Invariance, PTL

\* No operation moves the clock of a replica back.
THEOREM Monotonic == Spec => TimestampsIncrease
<1>1. IInv /\ [Next]_vars => [\A m \in Machine : LessEq(Timestamp(m), Timestamp(m)')]_vars
  BY IInvStep DEF Forward
<1>2. QED
  BY <1>1, Invariance, PTL DEF Spec, TimestampsIncrease

-----------------------------------------------------------------------------

\* The initial states are initial states of the register.
LEMMA InitRefines == Init => Register!Init
<1> SUFFICES ASSUME Init PROVE Register!Init
  OBVIOUS
<1>1. committed \in Even \X Machine
  BY SMTT(120), MachineAssumption DEF Init, Machine, Even
<1>2. View = [m \in Machine |-> {committed}]
  BY DEF Init, View, Timestamp, Writing
<1>3. QED
  BY <1>1, <1>2 DEF Register!Init

\* Every step of the protocol is a step of the register or leaves it alone:
\* a write or an INV stalls the reads of a replica that served them, the last
\* ACK completes a write, and the UPD that is taken serves reads again.
LEMMA StepRefines ==
    ASSUME IInv, IInv', [Next]_vars
    PROVE  [Register!Next]_<<committed, View>>
<1> USE DEF IInv
<1>1. \A x \in Machine : /\ state[x] = "VALID" => Timestamp(x) = committed
                         /\ state'[x] = "VALID" => Timestamp(x)' = committed'
  BY DEF ValidIsLatest
<1>2. /\ View = [x \in Machine |-> IF state[x] = "VALID" THEN {committed} ELSE {}]
      /\ View' = [x \in Machine |-> IF state'[x] = "VALID" THEN {committed'} ELSE {}]
  BY <1>1 DEF View
\* A step that keeps committed and makes no replica VALID or stop being VALID.
<1>3. ASSUME committed' = committed,
             \A x \in Machine : (state'[x] = "VALID") = (state[x] = "VALID")
      PROVE  UNCHANGED <<committed, View>>
  BY <1>2, <1>3
\* A step after which one replica stops serving reads.
<1>4. ASSUME committed' = committed, NEW m \in Machine, state[m] = "VALID",
             state'[m] # "VALID", \A x \in Others(m) : state'[x] = state[x]
      PROVE  Register!Stall(m)
  BY <1>2, <1>4 DEF Register!Stall, Others
<1>5. ASSUME NEW m \in Machine, Get(m) PROVE UNCHANGED <<committed, View>>
  BY <1>3, <1>5 DEF Get, TypeOK
<1>6. ASSUME NEW m \in Machine, NEW s \in Session, NEW val \in Value, Put(m, s, val)
      PROVE  Register!Stall(m) \/ UNCHANGED <<committed, View>>
  <2>1. /\ committed' = committed /\ state'[m] # "VALID"
        /\ \A x \in Others(m) : state'[x] = state[x]
    BY SMTT(120), <1>6 DEF Put, TypeOK, Writing, Others
  <2>2. QED
    BY <2>1, <1>3, <1>4 DEF Others
<1>7. ASSUME NEW m \in Machine, NEW i \in invs, RecvInv(m, i)
      PROVE  Register!Stall(m) \/ UNCHANGED <<committed, View>>
  <2>1. CASE InvSucceeds(m, i.version, i.cid)
    <3>1. /\ committed' = committed /\ state'[m] # "VALID"
          /\ \A x \in Others(m) : state'[x] = state[x]
      BY SMTT(120), <1>7, <2>1 DEF RecvInv, TypeOK, Others
    <3>2. QED
      BY <3>1, <1>3, <1>4 DEF Others
  <2>2. CASE ~InvSucceeds(m, i.version, i.cid)
    BY <1>3, <1>7, <2>2 DEF RecvInv
  <2>3. QED
    BY <2>1, <2>2
<1>8. ASSUME NEW m \in Machine, NEW a \in acks, NEW s \in Slot, RecvAck(m, a, s)
      PROVE  Register!Complete(m) \/ UNCHANGED <<committed, View>>
  <2>1. CASE AckSucceeds(m, a.version) /\ pending_acks[m] = 1
    <3>1. /\ state' = [state EXCEPT ![m] = "VALID"] /\ Writing(m)
          /\ committed' = <<a.version, m>> /\ version[m] = a.version
      <4>1. version[m] \in Nat /\ a.version \in Nat
        BY MessageTypes, EvenIsNat DEF TypeOK
      <4>2. QED
        BY SMTT(120), <4>1, <1>8, <2>1 DEF RecvAck, AckSucceeds, Locked
    <3>2. committed' = Timestamp(m) /\ Less(committed, committed')
      BY <3>1, TimestampType DEF CommittedSound
    <3>3. committed' \in Even \X Machine /\ committed' \in Nat \X Nat /\ committed \in Nat \X Nat
      BY <3>2, TimestampType, MessageTypes
    \* All replicas have reached the write, so none is VALID with an older one.
    <3>4. \A x \in Others(m) : state[x] # "VALID"
      <4> SUFFICES ASSUME NEW x \in Others(m), state[x] = "VALID" PROVE FALSE
        OBVIOUS
      <4>1. state'[x] = "VALID"
        BY <3>1 DEF Others, TypeOK
      <4>2. Timestamp(x) = committed /\ Timestamp(x)' = committed'
        BY <4>1, <1>1 DEF Others
      <4>3. version' = version /\ cid' = [cid EXCEPT ![m] = m]
        BY <1>8, <2>1 DEF RecvAck
      <4>4. /\ state = [y \in Machine |-> state[y]]
            /\ cid = [y \in Machine |-> cid[y]]
        BY DEF TypeOK
      <4> HIDE DEF IInv
      <4>5. state'[x] = state[x] /\ cid'[x] = cid[x]
        BY <3>1, <4>3, <4>4 DEF Others
      <4>6. Timestamp(x)' = Timestamp(x)
        BY <4>3, <4>5 DEF Timestamp, Writing
      <4>7. QED
        BY <3>2, <3>3, <4>2, <4>6, LessTotal
    <3>5. \A x \in Machine : View[x] = {}
      BY <3>1, <3>4, <1>2 DEF Writing, Others
    <3>6. View' = [View EXCEPT ![m] = {committed'}]
      <4>1. \A x \in Machine : (state'[x] = "VALID") = (x = m)
        BY <3>1, <3>4 DEF Others, TypeOK
      <4>2. View' = [x \in Machine |-> IF x = m THEN {committed'} ELSE {}]
        BY <1>2, <4>1
      <4>3. View = [x \in Machine |-> {}]
        BY <1>2, <3>5
      <4>4. QED
        BY <4>2, <4>3
    <3>7. QED
      BY <3>2, <3>3, <3>5, <3>6 DEF Register!Complete, Register!Less, Less
  <2>2. CASE ~(AckSucceeds(m, a.version) /\ pending_acks[m] = 1)
    BY <1>3, <1>8, <2>2 DEF RecvAck
  <2>3. QED
    BY <2>1, <2>2
<1>9. ASSUME NEW m \in Machine, NEW u \in upds, NEW s \in Slot, RecvUpd(m, u, s)
      PROVE  Register!Serve(m) \/ UNCHANGED <<committed, View>>
  <2>1. CASE UpdSucceeds(m, u.version, u.cid)
    <3>1. /\ committed' = committed /\ Invalid(m)
          /\ state' = [state EXCEPT ![m] = "VALID"]
      BY <1>9, <2>1 DEF RecvUpd, UpdSucceeds
    <3>2. View[m] = {} /\ View' = [View EXCEPT ![m] = {committed}]
      BY <3>1, <1>2 DEF Invalid, TypeOK
    <3>3. QED
      BY <3>1, <3>2 DEF Register!Serve
  <2>2. CASE ~UpdSucceeds(m, u.version, u.cid)
    BY <1>3, <1>9, <2>2 DEF RecvUpd
  <2>3. QED
    BY <2>1, <2>2
<1>10. CASE UNCHANGED vars
  BY <1>3, <1>10 DEF vars
<1>11. CASE Next
  BY <1>5, <1>6, <1>7, <1>8, <1>9, <1>11 DEF Next, Register!Next
<1>12. QED
  BY <1>10, <1>11

\* The LIN protocol implements the register, with reads served only by up to
\* date replicas.
THEOREM Refinement == Spec => ImplementsRegister
<1>1. IInv /\ IInv' /\ [Next]_vars => [Register!Next]_<<committed, View>>
  BY StepRefines
<1>2. QED
  BY <1>1, InitRefines, Invariance, PTL DEF Spec, ImplementsRegister, Register!Spec
=============================================================================
