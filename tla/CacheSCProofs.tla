---------------------------- MODULE CacheSCProofs ---------------------------
(***************************************************************************)
(* Proofs about the SC protocol, for any number of machines and writers    *)
(* and any bound on versions.                                              *)
(***************************************************************************)
EXTENDS CacheSC, ArithmeticTheorems

UpdTo(w, x) == [version |-> w[1][1], cid |-> w[1][2], to |-> x, value |-> w[2]] \in upds

\* An UPD carries a write that was issued.
UpdSound == \A u \in upds : << <<u.version, u.cid>>, u.value >> \in written

\* A replica shows a write that was issued.
ViewSound == \A m \in Machine : << Timestamp(m), value[m] >> \in written

\* No two writes have the same timestamp.
WritesUnique == \A w, z \in written : w[1] = z[1] => w = z

\* A write has been reached by its writer, and by every other replica that
\* does not still have its UPD coming.
WritesSpread ==
    \A w \in written : \A x \in Machine :
        \/ LessEq(w[1], Timestamp(x))
        \/ x # w[1][2] /\ UpdTo(w, x)

\* The inductive invariant.
IInv == TypeOK /\ UpdSound /\ ViewSound /\ WritesUnique /\ WritesSpread

-----------------------------------------------------------------------------

\* Machine ids are naturals.
LEMMA MachineIsNat == Machine \subseteq Nat
BY MachineAssumption DEF Machine

\* The types the steps below need.
LEMMA Types ==
    ASSUME TypeOK
    PROVE  /\ \A m \in Machine : Timestamp(m) \in Even \X Machine /\ Timestamp(m) \in Nat \X Nat
           /\ \A w \in written : /\ w[1] \in Even \X Machine /\ w[1] \in Nat \X Nat
                                 /\ w[2] \in Bytes /\ w = << w[1], w[2] >>
                                 /\ w[1] = << w[1][1], w[1][2] >>
           /\ \A u \in upds : /\ u.version \in Even /\ u.cid \in Machine /\ u.to \in Machine
                              /\ u.value \in Bytes
                              /\ <<u.version, u.cid>> \in Nat \X Nat
                              /\ u = [version |-> u.version, cid |-> u.cid, to |-> u.to,
                                      value |-> u.value]
<1>1. \A t \in Even \X Machine : t \in Nat \X Nat
  BY Zenon, EvenIsNat, MachineIsNat
<1>2. \A m \in Machine : Timestamp(m) \in Even \X Machine
  BY DEF TypeOK, Timestamp
<1>3. \A w \in written : /\ w[1] \in Even \X Machine /\ w[2] \in Bytes
                         /\ w = << w[1], w[2] >> /\ w[1] = << w[1][1], w[1][2] >>
  BY DEF TypeOK
<1>4. \A u \in UpdMsg : /\ u.version \in Even /\ u.cid \in Machine /\ u.to \in Machine
                        /\ u.value \in Bytes
                        /\ u = [version |-> u.version, cid |-> u.cid, to |-> u.to,
                                value |-> u.value]
  BY DEF UpdMsg
<1>5. \A u \in upds : u \in UpdMsg
  BY DEF TypeOK
<1>6. QED
  BY <1>1, <1>2, <1>3, <1>4, <1>5

\* cache_populate_fixed_len leaves the invariant true.
LEMMA InitIInv == Init => IInv
<1> SUFFICES ASSUME Init PROVE IInv
  OBVIOUS
<1>1. TypeOK
  <2>1. 0 \in Even /\ 0 \in Machine /\ Initial \in Bytes
    BY MachineAssumption DEF Machine, Even, Bytes
  <2>2. QED
    BY <2>1 DEF Init, TypeOK
<1>2. \A m \in Machine : Timestamp(m) = <<0, 0>>
  BY DEF Init, Timestamp
<1>3. UpdSound /\ ViewSound /\ WritesUnique
  BY <1>2 DEF Init, UpdSound, ViewSound, WritesUnique
<1>4. WritesSpread
  BY <1>2 DEF Init, WritesSpread, LessEq
<1>5. QED
  BY <1>1, <1>3, <1>4 DEF IInv

\* A write takes a timestamp that no write has, and its UPDs are on their way.
\* The step is also one of OrderedWrites.
LEMMA PutStep ==
    ASSUME IInv, NEW m \in Machine, NEW val \in Value, Put(m, val)
    PROVE  IInv' /\ Order!Write(m)
<1> USE DEF IInv
<1>1. version[m] \in Even /\ version[m] \in Nat /\ val \in Bytes
  BY Zenon, EvenIsNat DEF TypeOK, Bytes
<1>2. PICK v \in Even : v = version[m] + 2
  BY <1>1, WriteVersion
<1>3. v = optik_unlock_write(Locked(version[m]))
  BY <1>1, <1>2, WriteVersion
<1> DEFINE w == << <<v, m>>, val >>
<1>4. /\ version' = [version EXCEPT ![m] = v]
      /\ cid' = [cid EXCEPT ![m] = m]
      /\ value' = [value EXCEPT ![m] = val]
      /\ upds' = upds \union {[version |-> v, cid |-> m, to |-> x, value |-> val] :
                                  x \in Others(m)}
      /\ written' = written \union {w}
  BY <1>3 DEF Put, Updates
<1>5. /\ Timestamp(m)' = <<v, m>> /\ value'[m] = val
      /\ \A x \in Others(m) : Timestamp(x)' = Timestamp(x) /\ value'[x] = value[x]
  BY <1>4 DEF Timestamp, TypeOK, Others
<1>6. <<v, m>> \in Nat \X Nat /\ <<v, m>> \in Even \X Machine
  BY EvenIsNat, MachineIsNat
<1>7. Less(Timestamp(m), <<v, m>>)
  BY <1>1, <1>2 DEF Less, Timestamp
<1>8. \A z \in written : z[1] # <<v, m>>
  <2> SUFFICES ASSUME NEW z \in written, z[1] = <<v, m>> PROVE FALSE
    OBVIOUS
  <2>1. LessEq(<<v, m>>, Timestamp(m))
    BY DEF WritesSpread
  <2>2. QED
    BY <2>1, <1>6, <1>7, Types, LessTotal
<1>9. TypeOK'
  <2>1. \A x \in Others(m) :
          [version |-> v, cid |-> m, to |-> x, value |-> val] \in UpdMsg
    BY <1>1 DEF UpdMsg, Others
  <2>2. upds' \subseteq UpdMsg
    BY <2>1, <1>4 DEF TypeOK
  <2>3. /\ version' \in [Machine -> Even] /\ cid' \in [Machine -> Machine]
        /\ value' \in [Machine -> Bytes]
    BY <1>1, <1>4 DEF TypeOK
  <2>4. written' \subseteq (Even \X Machine) \X Bytes
    BY <1>1, <1>4, <1>6 DEF TypeOK
  <2>5. QED
    BY <2>2, <2>3, <2>4 DEF TypeOK
<1>10. \A x \in Machine : LessEq(Timestamp(x), Timestamp(x)') /\ Timestamp(x)' \in Nat \X Nat
  <2>1. LessEq(Timestamp(m), <<v, m>>) /\ \A x \in Machine : LessEq(Timestamp(x), Timestamp(x))
    BY <1>6, <1>7, Types, LessTotal
  <2>2. QED
    BY <2>1, <1>5, <1>6, Types DEF Others
<1>11. UpdSound'
  <2> SUFFICES ASSUME NEW u \in upds'
               PROVE  << <<u.version, u.cid>>, u.value >> \in written'
    BY Zenon DEF UpdSound
  <2>1. CASE u \in upds
    BY <2>1, <1>4 DEF UpdSound
  <2>2. CASE u \notin upds
    <3>1. u.version = v /\ u.cid = m /\ u.value = val
      BY <2>2, <1>4
    <3>2. QED
      BY <3>1, <1>4
  <2>3. QED
    BY <2>1, <2>2
<1>12. ViewSound'
  BY <1>4, <1>5 DEF ViewSound, Others
<1>13. WritesUnique'
  BY <1>4, <1>8 DEF WritesUnique
<1>14. WritesSpread'
  <2> SUFFICES ASSUME NEW z \in written', NEW x \in Machine
               PROVE  \/ LessEq(z[1], Timestamp(x)')
                      \/ x # z[1][2] /\ UpdTo(z, x)'
    BY DEF WritesSpread
  <2>1. CASE z \in written
    <3>1. CASE LessEq(z[1], Timestamp(x))
      BY <2>1, <3>1, <1>10, Types, LessTransitive
    <3>2. CASE x # z[1][2] /\ UpdTo(z, x)
      BY <3>2, <1>4 DEF UpdTo
    <3>3. QED
      BY <2>1, <3>1, <3>2 DEF WritesSpread
  <2>2. CASE z = w
    <3>1. CASE x = m
      BY <2>2, <3>1, <1>5 DEF LessEq
    <3>2. CASE x # m
      <4>1. [version |-> v, cid |-> m, to |-> x, value |-> val] \in upds'
        BY <3>2, <1>4 DEF Others
      <4>2. QED
        BY <2>2, <3>2, <4>1 DEF UpdTo
    <3>3. QED
      BY <3>1, <3>2
  <2>3. QED
    BY <2>1, <2>2, <1>4
<1>15. Order!Write(m)
  <2>1. View'[m] = w /\ View[m] = << Timestamp(m), value[m] >>
    BY <1>5 DEF View
  <2>2. View' = [View EXCEPT ![m] = View'[m]]
    BY Zenon, <1>5 DEF View, Others
  <2>3. w \in (Even \X Machine) \X Bytes
    BY <1>1, <1>6
  <2>4. QED
    BY <2>1, <2>2, <2>3, <1>4, <1>7, <1>8 DEF Order!Write, Order!Less, Less
<1>16. QED
  BY <1>9, <1>11, <1>12, <1>13, <1>14, <1>15

\* An UPD that is taken advances the replica; one that is dropped is not newer
\* than what the replica shows.
LEMMA RecvUpdStep ==
    ASSUME IInv, NEW m \in Machine, NEW u \in upds, RecvUpd(m, u)
    PROVE  IInv' /\ (Order!Advance(m) \/ UNCHANGED <<written, View>>)
<1> USE DEF IInv
<1> DEFINE t == <<u.version, u.cid>>
           w == << t, u.value >>
<1>1. /\ u.version \in Even /\ u.cid \in Machine /\ u.to = m /\ u.value \in Bytes
      /\ t \in Nat \X Nat /\ w \in written
      /\ u = [version |-> u.version, cid |-> u.cid, to |-> m, value |-> u.value]
  BY Types DEF RecvUpd, UpdSound
<1>2. upds' = upds \ {u} /\ written' = written
  BY DEF RecvUpd
<1>3. UpdSucceeds(m, u.version, u.cid) <=> Less(Timestamp(m), t)
  <2>1. version[m] \in Even /\ cid[m] \in Nat /\ u.cid \in Nat
    BY <1>1, MachineIsNat DEF TypeOK
  <2>2. QED
    BY <1>1, <2>1, GreaterVersion DEF UpdSucceeds, Timestamp
<1>4. UpdSound' /\ WritesUnique'
  BY <1>2 DEF UpdSound, WritesUnique
\* What is left to show once the replica has reached the write of the UPD.
<1>5. ASSUME \A x \in Machine : LessEq(Timestamp(x), Timestamp(x)') /\ Timestamp(x)' \in Nat \X Nat,
             LessEq(t, Timestamp(m)')
      PROVE  WritesSpread'
  <2> SUFFICES ASSUME NEW z \in written, NEW x \in Machine
               PROVE  \/ LessEq(z[1], Timestamp(x)')
                      \/ x # z[1][2] /\ UpdTo(z, x)'
    BY <1>2 DEF WritesSpread
  <2>1. CASE LessEq(z[1], Timestamp(x))
    BY <2>1, <1>5, Types, LessTransitive
  <2>2. CASE x # z[1][2] /\ UpdTo(z, x)
    <3>1. CASE UpdTo(z, x)'
      BY <2>2, <3>1
    <3>2. CASE ~UpdTo(z, x)'
      <4>1. [version |-> z[1][1], cid |-> z[1][2], to |-> x, value |-> z[2]] = u
        BY <2>2, <3>2, <1>2 DEF UpdTo
      <4>2. z[1] = t /\ x = m
        BY <4>1, <1>1, Types
      <4>3. QED
        BY <4>2, <1>5
    <3>3. QED
      BY <3>1, <3>2
  <2>3. QED
    BY <2>1, <2>2 DEF WritesSpread
<1>6. CASE UpdSucceeds(m, u.version, u.cid)
  <2>1. /\ version' = [version EXCEPT ![m] = u.version]
        /\ cid' = [cid EXCEPT ![m] = u.cid]
        /\ value' = [value EXCEPT ![m] = u.value]
    BY <1>6 DEF RecvUpd
  <2>2. /\ Timestamp(m)' = t /\ value'[m] = u.value
        /\ \A x \in Others(m) : Timestamp(x)' = Timestamp(x) /\ value'[x] = value[x]
    BY <2>1 DEF Timestamp, TypeOK, Others
  <2>3. TypeOK'
    BY <1>1, <1>2, <2>1 DEF TypeOK
  <2>4. ViewSound'
    BY <1>1, <1>2, <2>2 DEF ViewSound, Others
  <2>5. LessEq(Timestamp(m), t) /\ LessEq(t, t) /\ \A x \in Machine : LessEq(Timestamp(x), Timestamp(x))
    BY <1>1, <1>3, <1>6, Types, LessTotal
  <2>6. WritesSpread'
    BY Zenon, <1>1, <1>5, <2>2, <2>5, Types DEF Others
  <2>7. Order!Advance(m)
    <3>1. View'[m] = w /\ View[m] = << Timestamp(m), value[m] >>
      BY <2>2 DEF View
    <3>2. View' = [View EXCEPT ![m] = View'[m]]
      BY Zenon, <2>2 DEF View, Others
    <3>3. QED
      BY <3>1, <3>2, <1>1, <1>2, <1>3, <1>6 DEF Order!Advance, Order!Less, Less
  <2>8. QED
    BY <1>4, <2>3, <2>4, <2>6, <2>7
<1>7. CASE ~UpdSucceeds(m, u.version, u.cid)
  <2>1. version' = version /\ cid' = cid /\ value' = value
    BY <1>7 DEF RecvUpd
  <2>2. \A x \in Machine : Timestamp(x)' = Timestamp(x)
    BY <2>1 DEF Timestamp
  <2>3. TypeOK' /\ ViewSound'
    BY <1>2, <2>1, <2>2 DEF TypeOK, ViewSound
  <2>4. LessEq(t, Timestamp(m)) /\ \A x \in Machine : LessEq(Timestamp(x), Timestamp(x))
    BY <1>1, <1>3, <1>7, Types, LessTotal
  <2>5. WritesSpread'
    BY <1>5, <2>2, <2>4, Types
  <2>6. UNCHANGED <<written, View>>
    BY <1>2, <2>1, <2>2 DEF View
  <2>7. QED
    BY <1>4, <2>3, <2>5, <2>6
<1>8. QED
  BY <1>6, <1>7

\* Every step preserves the invariant and is a step of OrderedWrites.
LEMMA IInvStep == IInv /\ [Next]_vars => IInv' /\ [Order!Next]_<<written, View>>
<1> SUFFICES ASSUME IInv, [Next]_vars PROVE IInv' /\ [Order!Next]_<<written, View>>
  OBVIOUS
<1>1. CASE Next
  BY <1>1, PutStep, RecvUpdStep DEF Next, Order!Next
<1>2. CASE UNCHANGED vars
  <2>1. \A x \in Machine : Timestamp(x)' = Timestamp(x)
    BY <1>2 DEF vars, Timestamp
  <2>2. TypeOK' /\ UpdSound' /\ ViewSound' /\ WritesUnique'
    BY <1>2, <2>1 DEF vars, IInv, TypeOK, UpdSound, ViewSound, WritesUnique
  <2>3. WritesSpread'
    BY Zenon, <1>2, <2>1 DEF vars, IInv, WritesSpread, UpdTo
  <2>4. UNCHANGED <<written, View>>
    BY <1>2, <2>1 DEF vars, View
  <2>5. QED
    BY <2>2, <2>3, <2>4 DEF IInv
<1>3. QED
  BY <1>1, <1>2

-----------------------------------------------------------------------------

\* The inductive invariant holds in every reachable state.
THEOREM Invariance == Spec => []IInv
<1>1. IInv /\ [Next]_vars => IInv'
  BY IInvStep
<1>2. QED
  BY InitIInv, <1>1, PTL DEF Spec

\* Versions stay even and clocks name machines.
THEOREM TypeCorrect == Spec => []TypeOK
<1>1. IInv => TypeOK
  BY DEF IInv
<1>2. QED
  BY <1>1, Invariance, PTL

\* Replicas with the same clock hold the same value.
THEOREM SameClock == Spec => []SameClockSameValue
<1>1. IInv => SameClockSameValue
  <2> SUFFICES ASSUME IInv, NEW m \in Machine, NEW n \in Machine, Timestamp(m) = Timestamp(n)
               PROVE  value[m] = value[n]
    BY DEF SameClockSameValue
  <2>1. << Timestamp(m), value[m] >> = << Timestamp(n), value[n] >>
    BY Zenon DEF IInv, ViewSound, WritesUnique
  <2>2. QED
    BY <2>1
<1>2. QED
  BY <1>1, Invariance, PTL

\* Once every UPD has been applied, all replicas show the newest write.
THEOREM Convergence == Spec => []QuiescentAgree
<1>1. IInv => QuiescentAgree
  BY DEF IInv, QuiescentAgree, ViewSound, WritesSpread, UpdTo
<1>2. QED
  BY <1>1, Invariance, PTL

\* The SC protocol orders the writes of all machines by their clocks, and no
\* replica ever moves back in that order.
THEOREM Refinement == Spec => ImplementsOrder
<1>1. Init => Order!Init
  <2> SUFFICES ASSUME Init PROVE Order!Init
    OBVIOUS
  <2>1. View = [m \in Machine |-> << <<0, 0>>, Initial >>]
    BY DEF Init, View, Timestamp
  <2>2. 0 \in Even /\ 0 \in Machine /\ Initial \in Bytes
    BY MachineAssumption DEF Machine, Even, Bytes
  <2>3. QED
    BY <2>1, <2>2 DEF Init, Order!Init
<1>2. IInv /\ [Next]_vars => [Order!Next]_<<written, View>>
  BY IInvStep
<1>3. QED
  BY <1>1, <1>2, Invariance, PTL DEF Spec, ImplementsOrder, Order!Spec
=============================================================================
