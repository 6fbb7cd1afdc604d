-------------------------- MODULE CreditsLinProofs --------------------------
(***************************************************************************)
(* The LIN flow control, for every number of machines, credits and credits *)
(* in a message: the credits of every channel are conserved, and from that *)
(* every message finds a receive posted, every queue has room for what it  *)
(* is given, and every credit message finds a receive.                     *)
(***************************************************************************)
EXTENDS CreditsLin, ArithmeticTheorems, TLAPS

\* Zenon is tried first; SMT is named where a leaf needs arithmetic.
USE ZenonT(120)

Counter == [VC -> [Machine -> [Machine -> Nat]]]

\* The types of the counters that conservation speaks of.
CountersOK ==
    /\ credits \in Counter
    /\ in_flight \in Counter
    /\ seen \in [VC -> [Machine -> [Machine -> 0..(CREDITS_IN_MESSAGE - 1)]]]
    /\ credit_msgs \in Counter
    /\ inv_to_send \in [Machine -> [Machine -> Nat]]
    /\ ack_bcast \in [Machine -> [Machine -> Nat]]

\* What m has emptied of the messages of r and the credits of it that r has not seen.
Returning(vc, m, r) == seen[vc][m][r] + credit_msgs[vc][m][r] * CREDITS_IN_MESSAGE

\* The inductive invariant.
IInv == CountersOK /\ CreditsConserved

-----------------------------------------------------------------------------

\* The size of a credit message is positive and at most the credits of a channel.
LEMMA MessageSize ==
    /\ CREDITS_IN_MESSAGE \in Nat \ {0}
    /\ CREDITS_FOR_EACH_CLIENT \in Nat \ {0}
    /\ CREDITS_IN_MESSAGE <= CREDITS_FOR_EACH_CLIENT
BY SMTT(120), SizeAssumption

\* The credits on their way back are a natural number.
LEMMA ReturningType ==
    ASSUME CountersOK, NEW vc \in VC, NEW m \in Machine, NEW r \in Machine
    PROVE  Returning(vc, m, r) \in Nat
<1>1. seen[vc][m][r] \in Nat /\ credit_msgs[vc][m][r] \in Nat
    BY SMTT(120), MessageSize DEF CountersOK, Counter
<1>. QED
    BY SMTT(120), <1>1, MessageSize DEF Returning

\* forge_credits_LIN: emptying a slot adds one to what returns, to that channel only,
\* whether or not it fills a credit message.
LEMMA CountReturns ==
    ASSUME CountersOK, NEW vc \in VC, NEW m \in Machine, NEW r \in Machine, Count(vc, m, r)
    PROVE  /\ seen' \in [VC -> [Machine -> [Machine -> 0..(CREDITS_IN_MESSAGE - 1)]]]
           /\ credit_msgs' \in Counter
           /\ Returning(vc, m, r)' = Returning(vc, m, r) + 1
           /\ \A v \in VC, a \in Machine, b \in Machine :
                <<v, a, b>> # <<vc, m, r>> => Returning(v, a, b)' = Returning(v, a, b)
<1>. DEFINE s == seen[vc][m][r]
            c == credit_msgs[vc][m][r]
<1>1. s \in 0..(CREDITS_IN_MESSAGE - 1) /\ c \in Nat
    BY SMTT(120) DEF CountersOK, Counter
<1>2. CASE FillsMessage(vc, m, r)
    <2>1. /\ seen' = [seen EXCEPT ![vc][m][r] = 0]
          /\ credit_msgs' = [credit_msgs EXCEPT ![vc][m][r] = c + 1]
        BY <1>2 DEF Count
    <2>2. seen' \in [VC -> [Machine -> [Machine -> 0..(CREDITS_IN_MESSAGE - 1)]]]
        BY SMTT(120), <2>1, MessageSize DEF CountersOK
    <2>3. credit_msgs' \in Counter
        BY SMTT(120), <2>1, <1>1 DEF CountersOK, Counter
    <2>4. seen'[vc][m][r] = 0 /\ credit_msgs'[vc][m][r] = c + 1
        BY SMTT(120), <2>1 DEF CountersOK, Counter
    <2>5. (c + 1) * CREDITS_IN_MESSAGE = c * CREDITS_IN_MESSAGE + CREDITS_IN_MESSAGE
        BY SMTT(120), <1>1, MessageSize
    <2>6. s + 1 = CREDITS_IN_MESSAGE
        BY <1>2 DEF FillsMessage
    <2>7. c * CREDITS_IN_MESSAGE \in Nat
        BY SMTT(120), <1>1, MessageSize
    <2>8. Returning(vc, m, r)' = Returning(vc, m, r) + 1
        BY SMTT(120), <1>1, <2>4, <2>5, <2>6, <2>7, MessageSize DEF Returning
    <2>9. ASSUME NEW v \in VC, NEW a \in Machine, NEW b \in Machine,
                 <<v, a, b>> # <<vc, m, r>>
          PROVE  Returning(v, a, b)' = Returning(v, a, b)
        <3>1. seen'[v][a][b] = seen[v][a][b] /\ credit_msgs'[v][a][b] = credit_msgs[v][a][b]
            BY SMTT(120), <2>1, <2>9 DEF CountersOK, Counter
        <3>. QED
            BY <3>1 DEF Returning
    <2>. QED
        BY <2>2, <2>3, <2>8, <2>9
<1>3. CASE ~ FillsMessage(vc, m, r)
    <2>1. /\ seen' = [seen EXCEPT ![vc][m][r] = s + 1]
          /\ credit_msgs' = credit_msgs
        BY <1>3 DEF Count
    <2>2. s + 1 \in 0..(CREDITS_IN_MESSAGE - 1)
        BY SMTT(120), <1>1, <1>3, MessageSize DEF FillsMessage
    <2>3. seen' \in [VC -> [Machine -> [Machine -> 0..(CREDITS_IN_MESSAGE - 1)]]]
        BY <2>1, <2>2 DEF CountersOK
    <2>4. seen'[vc][m][r] = s + 1
        BY <2>1 DEF CountersOK
    <2>5. c * CREDITS_IN_MESSAGE \in Nat
        BY SMTT(120), <1>1, MessageSize
    <2>6. Returning(vc, m, r)' = Returning(vc, m, r) + 1
        BY SMTT(120), <1>1, <2>1, <2>4, <2>5, MessageSize DEF Returning
    <2>7. ASSUME NEW v \in VC, NEW a \in Machine, NEW b \in Machine,
                 <<v, a, b>> # <<vc, m, r>>
          PROVE  Returning(v, a, b)' = Returning(v, a, b)
        <3>1. seen'[v][a][b] = seen[v][a][b]
            BY SMTT(120), <2>1, <2>7 DEF CountersOK
        <3>. QED
            BY <3>1, <2>1 DEF Returning
    <2>. QED
        BY <2>1, <2>3, <2>6, <2>7 DEF CountersOK
<1>. QED
    BY <1>2, <1>3

-----------------------------------------------------------------------------

\* The sum that conservation keeps constant, with what returns in one term.
Balance(vc, m, r) ==
    credits[vc][m][r] + in_flight[vc][m][r] + Held(vc, m, r) + Returning(vc, r, m)

\* A message that occupies a slot after it was polled is counted by a natural number.
LEMMA HeldType ==
    ASSUME CountersOK, NEW vc \in VC, NEW m \in Machine, NEW r \in Machine
    PROVE  Held(vc, m, r) \in Nat
BY SMTT(120) DEF CountersOK, Held, VC, ACK_VC, INV_VC, UPD_VC

\* The balance is the sum of CreditsConserved.
LEMMA BalanceIsSum ==
    ASSUME CountersOK, NEW vc \in VC, NEW m \in Machine, NEW r \in Machine
    PROVE  Balance(vc, m, r) = credits[vc][m][r] + Outstanding(vc, m, r)
<1>1. /\ credits[vc][m][r] \in Nat /\ in_flight[vc][m][r] \in Nat
      /\ seen[vc][r][m] \in Nat /\ credit_msgs[vc][r][m] \in Nat
    BY SMTT(120), MessageSize DEF CountersOK, Counter
<1>2. credit_msgs[vc][r][m] * CREDITS_IN_MESSAGE \in Nat
    BY SMTT(120), <1>1, MessageSize
<1>. QED
    BY SMTT(120), <1>1, <1>2, HeldType DEF Balance, Outstanding, Returning

\* A step that keeps the types and every balance keeps the invariant.
LEMMA BalancedStep ==
    ASSUME IInv, CountersOK',
           \A vc \in VC, m \in Machine : \A r \in Others(m) :
                Balance(vc, m, r)' = Balance(vc, m, r)
    PROVE  IInv'
<1>1. ASSUME NEW vc \in VC, NEW m \in Machine, NEW r \in Others(m)
      PROVE  (credits[vc][m][r] + Outstanding(vc, m, r) = CREDITS_FOR_EACH_CLIENT)'
    <2>1. r \in Machine
        BY DEF Others
    <2>2. Balance(vc, m, r) = CREDITS_FOR_EACH_CLIENT
        BY <2>1, BalanceIsSum DEF IInv, CreditsConserved
    <2>3. Balance(vc, m, r)' = (credits[vc][m][r] + Outstanding(vc, m, r))'
        <3>1. /\ credits'[vc][m][r] \in Nat /\ in_flight'[vc][m][r] \in Nat
              /\ seen'[vc][r][m] \in Nat /\ credit_msgs'[vc][r][m] \in Nat
            BY SMTT(120), <2>1, MessageSize DEF CountersOK, Counter
        <3>2. credit_msgs'[vc][r][m] * CREDITS_IN_MESSAGE \in Nat
            BY SMTT(120), <3>1, MessageSize
        <3>3. Held(vc, m, r)' \in Nat
            BY SMTT(120), <2>1 DEF CountersOK, Held, VC, ACK_VC, INV_VC, UPD_VC
        <3>. QED
            BY SMTT(120), <3>1, <3>2, <3>3 DEF Balance, Outstanding, Returning
    <2>. QED
        BY <2>2, <2>3
<1>. QED
    BY <1>1 DEF IInv, CreditsConserved

\* What returns changes only with seen and credit_msgs.
LEMMA SameReturning ==
    ASSUME UNCHANGED <<seen, credit_msgs>>, NEW vc, NEW m, NEW r
    PROVE  Returning(vc, m, r)' = Returning(vc, m, r)
BY DEF Returning

\* What is held changes only with inv_to_send and ack_bcast.
LEMMA SameHeld ==
    ASSUME UNCHANGED <<inv_to_send, ack_bcast>>, NEW vc, NEW m, NEW r
    PROVE  Held(vc, m, r)' = Held(vc, m, r)
BY DEF Held

\* A step that leaves the counters alone keeps the invariant.
LEMMA SameCounters ==
    ASSUME IInv, UNCHANGED <<credits, in_flight, seen, credit_msgs, inv_to_send, ack_bcast>>
    PROVE  IInv'
<1>1. CountersOK'
    BY DEF IInv, CountersOK
<1>2. ASSUME NEW vc \in VC, NEW m \in Machine, NEW r \in Others(m)
      PROVE  Balance(vc, m, r)' = Balance(vc, m, r)
    BY SameHeld, SameReturning DEF Balance
<1>. QED
    BY <1>1, <1>2, BalancedStep

-----------------------------------------------------------------------------

\* A broadcast turns a credit of every destination into a message to it.
LEMMA BroadcastBalance ==
    ASSUME CountersOK, NEW vc \in VC, NEW m \in Machine, Broadcast(vc, m)
    PROVE  /\ credits' \in Counter
           /\ in_flight' \in Counter
           /\ \A v \in VC, a \in Machine : \A b \in Others(a) :
                credits'[v][a][b] + in_flight'[v][a][b] = credits[v][a][b] + in_flight[v][a][b]
<1>. DEFINE cs == [r \in Machine |->
                    IF r = m THEN credits[vc][m][r] ELSE credits[vc][m][r] - 1]
            fs == [r \in Machine |->
                    IF r = m THEN in_flight[vc][m][r] ELSE in_flight[vc][m][r] + 1]
<1>1. /\ credits' = [credits EXCEPT ![vc][m] = cs]
      /\ in_flight' = [in_flight EXCEPT ![vc][m] = fs]
      /\ \A r \in Others(m) : credits[vc][m][r] > 0
    BY DEF Broadcast, HasBroadcastCredits
<1>2. cs \in [Machine -> Nat] /\ fs \in [Machine -> Nat]
    BY SMTT(120), <1>1 DEF CountersOK, Counter, Others
<1>3. credits' \in Counter /\ in_flight' \in Counter
    <2>. HIDE DEF cs, fs
    <2>. QED
        BY <1>1, <1>2 DEF CountersOK, Counter
<1>4. ASSUME NEW v \in VC, NEW a \in Machine, NEW b \in Others(a)
      PROVE  credits'[v][a][b] + in_flight'[v][a][b] = credits[v][a][b] + in_flight[v][a][b]
    <2>1. b \in Machine /\ b # a
        BY DEF Others
    <2>2. credits[v][a][b] \in Nat /\ in_flight[v][a][b] \in Nat
        BY SMTT(120), <2>1 DEF CountersOK, Counter
    <2>3. CASE v = vc /\ a = m
        <3>1. credits'[v][a][b] = cs[b] /\ in_flight'[v][a][b] = fs[b]
            <4>. HIDE DEF cs, fs
            <4>. QED
                BY <1>1, <2>3 DEF CountersOK, Counter
        <3>. QED
            BY SMTT(120), <2>1, <2>2, <2>3, <3>1
    <2>4. CASE ~ (v = vc /\ a = m)
        <3>. HIDE DEF cs, fs
        <3>. QED
            BY <1>1, <2>1, <2>4 DEF CountersOK, Counter
    <2>. QED
        BY <2>3, <2>4
<1>. QED
    BY <1>3, <1>4

\* perform_broadcasts_LIN keeps the invariant when it sends the INV of a hot write.
LEMMA BroadcastInvStep ==
    ASSUME IInv, NEW m \in Machine, BroadcastInv(m)
    PROVE  IInv'
<1>. USE DEF IInv
<1>1. Broadcast(INV_VC, m) /\ UNCHANGED <<seen, credit_msgs, inv_to_send, ack_bcast>>
    BY DEF BroadcastInv
<1>2. INV_VC \in VC
    BY DEF VC
<1>3. CountersOK'
    BY <1>1, <1>2, BroadcastBalance DEF CountersOK
<1>4. ASSUME NEW v \in VC, NEW a \in Machine, NEW b \in Others(a)
      PROVE  Balance(v, a, b)' = Balance(v, a, b)
    <2>1. credits'[v][a][b] + in_flight'[v][a][b] = credits[v][a][b] + in_flight[v][a][b]
        BY <1>1, <1>2, BroadcastBalance
    <2>2. Held(v, a, b)' = Held(v, a, b) /\ Returning(v, b, a)' = Returning(v, b, a)
        BY <1>1, SameHeld, SameReturning
    <2>. QED
        BY <2>1, <2>2 DEF Balance
<1>. QED
    BY <1>3, <1>4, BalancedStep

\* perform_broadcasts_LIN keeps it when it sends the UPD of a completed write: the slot
\* held by the last ACK becomes one to be credited.
LEMMA BroadcastUpdStep ==
    ASSUME IInv, NEW m \in Machine, NEW r \in Others(m), BroadcastUpd(m, r)
    PROVE  IInv'
<1>. USE DEF IInv
<1>1. /\ Broadcast(UPD_VC, m)
      /\ Count(ACK_VC, m, r)
      /\ ack_bcast[m][r] > 0
      /\ ack_bcast' = [ack_bcast EXCEPT ![m][r] = ack_bcast[m][r] - 1]
      /\ UNCHANGED inv_to_send
    BY DEF BroadcastUpd
<1>2. UPD_VC \in VC /\ ACK_VC \in VC /\ r \in Machine
    BY DEF VC, Others
<1>3. CountersOK'
    <2>1. ack_bcast' \in [Machine -> [Machine -> Nat]]
        BY SMTT(120), <1>1, <1>2 DEF CountersOK
    <2>. QED
        BY <1>1, <1>2, <2>1, BroadcastBalance, CountReturns DEF CountersOK
<1>4. ASSUME NEW v \in VC, NEW a \in Machine, NEW b \in Others(a)
      PROVE  Balance(v, a, b)' = Balance(v, a, b)
    <2>1. credits'[v][a][b] + in_flight'[v][a][b] = credits[v][a][b] + in_flight[v][a][b]
        BY <1>1, <1>2, BroadcastBalance
    <2>2. b \in Machine
        BY DEF Others
    <2>3. /\ credits[v][a][b] \in Nat /\ in_flight[v][a][b] \in Nat
          /\ Held(v, a, b) \in Nat /\ Returning(v, b, a) \in Nat
        BY SMTT(120), <2>2, HeldType, ReturningType DEF CountersOK, Counter
    <2>4. CASE v = ACK_VC /\ b = m /\ a = r
        <3>1. Held(v, a, b)' = Held(v, a, b) - 1
            BY SMTT(120), <1>1, <1>2, <2>4 DEF Held, CountersOK, ACK_VC, INV_VC, UPD_VC
        <3>2. Returning(v, b, a)' = Returning(v, b, a) + 1
            BY SMTT(120), <1>1, <1>2, <2>4, CountReturns
        <3>. QED
            BY SMTT(120), <2>1, <2>3, <3>1, <3>2 DEF Balance
    <2>5. CASE ~ (v = ACK_VC /\ b = m /\ a = r)
        <3>1. Held(v, a, b)' = Held(v, a, b)
            BY SMTT(120), <1>1, <1>2, <2>2, <2>5 DEF Held, CountersOK, VC, ACK_VC, INV_VC, UPD_VC
        <3>2. <<v, b, a>> # <<ACK_VC, m, r>>
            BY <2>5
        <3>3. Returning(v, b, a)' = Returning(v, b, a)
            BY SMTT(120), <1>1, <1>2, <2>2, <3>2, CountReturns
        <3>. QED
            BY <2>1, <3>1, <3>3 DEF Balance
    <2>. QED
        BY <2>4, <2>5
<1>. QED
    BY <1>3, <1>4, BalancedStep

\* send_acks keeps it: a credit becomes an ACK, and the slot of the INV one to be credited.
LEMMA SendAckStep ==
    ASSUME IInv, NEW m \in Machine, NEW r \in Others(m), SendAck(m, r)
    PROVE  IInv'
<1>. USE DEF IInv
<1>1. /\ inv_to_send[m][r] > 0
      /\ credits[ACK_VC][m][r] > 0
      /\ credits' = [credits EXCEPT ![ACK_VC][m][r] = credits[ACK_VC][m][r] - 1]
      /\ in_flight' = [in_flight EXCEPT ![ACK_VC][m][r] = in_flight[ACK_VC][m][r] + 1]
      /\ inv_to_send' = [inv_to_send EXCEPT ![m][r] = inv_to_send[m][r] - 1]
      /\ Count(INV_VC, m, r)
      /\ UNCHANGED ack_bcast
    BY DEF SendAck
<1>2. INV_VC \in VC /\ ACK_VC \in VC /\ r \in Machine
    BY DEF VC, Others
<1>3. CountersOK'
    <2>1. inv_to_send' \in [Machine -> [Machine -> Nat]]
        BY SMTT(120), <1>1, <1>2 DEF CountersOK
    <2>2. credits' \in Counter /\ in_flight' \in Counter
        BY SMTT(120), <1>1, <1>2 DEF CountersOK, Counter
    <2>. QED
        BY <1>1, <1>2, <2>1, <2>2, CountReturns DEF CountersOK
<1>4. ASSUME NEW v \in VC, NEW a \in Machine, NEW b \in Others(a)
      PROVE  Balance(v, a, b)' = Balance(v, a, b)
    <2>1. b \in Machine
        BY DEF Others
    <2>2. /\ credits[v][a][b] \in Nat /\ in_flight[v][a][b] \in Nat
          /\ Held(v, a, b) \in Nat /\ Returning(v, b, a) \in Nat
        BY SMTT(120), <2>1, HeldType, ReturningType DEF CountersOK, Counter
    <2>3. credits'[v][a][b] + in_flight'[v][a][b] = credits[v][a][b] + in_flight[v][a][b]
        <3>1. CASE v = ACK_VC /\ a = m /\ b = r
            <4>1. /\ credits'[v][a][b] = credits[v][a][b] - 1
                  /\ in_flight'[v][a][b] = in_flight[v][a][b] + 1
                BY SMTT(120), <1>1, <1>2, <3>1 DEF CountersOK, Counter
            <4>. QED
                BY SMTT(120), <4>1, <2>2
        <3>2. CASE ~ (v = ACK_VC /\ a = m /\ b = r)
            BY SMTT(120), <1>1, <1>2, <2>1, <3>2 DEF CountersOK, Counter
        <3>. QED
            BY <3>1, <3>2
    <2>4. CASE v = INV_VC /\ b = m /\ a = r
        <3>1. Held(v, a, b)' = Held(v, a, b) - 1
            BY SMTT(120), <1>1, <1>2, <2>4 DEF Held, CountersOK, ACK_VC, INV_VC, UPD_VC
        <3>2. Returning(v, b, a)' = Returning(v, b, a) + 1
            BY SMTT(120), <1>1, <1>2, <2>4, CountReturns
        <3>. QED
            BY SMTT(120), <2>2, <2>3, <3>1, <3>2 DEF Balance
    <2>5. CASE ~ (v = INV_VC /\ b = m /\ a = r)
        <3>1. Held(v, a, b)' = Held(v, a, b)
            BY SMTT(120), <1>1, <1>2, <2>1, <2>5 DEF Held, CountersOK, VC, ACK_VC, INV_VC, UPD_VC
        <3>2. <<v, b, a>> # <<INV_VC, m, r>>
            BY <2>5
        <3>3. Returning(v, b, a)' = Returning(v, b, a)
            BY SMTT(120), <1>1, <1>2, <2>1, <3>2, CountReturns
        <3>. QED
            BY <2>3, <3>1, <3>3 DEF Balance
    <2>. QED
        BY <2>4, <2>5
<1>. QED
    BY <1>3, <1>4, BalancedStep

\* poll_coherence_LIN takes a message off one channel and leaves the other ones alone.
LEMMA TakeMessageBalance ==
    ASSUME CountersOK, NEW vc \in VC, NEW m \in Machine, NEW r \in Machine,
           TakeMessage(vc, m, r)
    PROVE  /\ in_flight' \in Counter
           /\ in_flight'[vc][r][m] = in_flight[vc][r][m] - 1
           /\ \A v \in VC, a \in Machine, b \in Machine :
                <<v, a, b>> # <<vc, r, m>> => in_flight'[v][a][b] = in_flight[v][a][b]
BY SMTT(120) DEF TakeMessage, CountersOK, Counter

\* A message that is done with leaves the channel and is counted as emptied.
LEMMA DropStep ==
    ASSUME IInv, NEW vc \in VC, NEW m \in Machine, NEW r \in Others(m),
           TakeMessage(vc, m, r), Drop(vc, m, r), UNCHANGED credits
    PROVE  IInv'
<1>. USE DEF IInv
<1>1. r \in Machine /\ Count(vc, m, r) /\ UNCHANGED <<inv_to_send, ack_bcast>>
    BY DEF Others, Drop
<1>2. CountersOK'
    BY <1>1, TakeMessageBalance, CountReturns DEF CountersOK
<1>3. ASSUME NEW v \in VC, NEW a \in Machine, NEW b \in Others(a)
      PROVE  Balance(v, a, b)' = Balance(v, a, b)
    <2>1. b \in Machine
        BY DEF Others
    <2>2. Held(v, a, b)' = Held(v, a, b)
        BY <1>1, SameHeld
    <2>3. /\ credits[v][a][b] \in Nat /\ in_flight[v][a][b] \in Nat
          /\ Held(v, a, b) \in Nat /\ Returning(v, b, a) \in Nat
        BY SMTT(120), <2>1, HeldType, ReturningType DEF CountersOK, Counter
    <2>4. CASE v = vc /\ b = m /\ a = r
        <3>1. in_flight'[v][a][b] = in_flight[v][a][b] - 1
            BY <1>1, <2>4, TakeMessageBalance
        <3>2. Returning(v, b, a)' = Returning(v, b, a) + 1
            BY <1>1, <2>4, CountReturns
        <3>. QED
            BY SMTT(120), <2>2, <2>3, <3>1, <3>2 DEF Balance
    <2>5. CASE ~ (v = vc /\ b = m /\ a = r)
        <3>1. <<v, b, a>> # <<vc, m, r>> /\ <<v, a, b>> # <<vc, r, m>>
            BY <2>5
        <3>2. in_flight'[v][a][b] = in_flight[v][a][b]
            BY SMTT(120), <1>1, <2>1, <3>1, TakeMessageBalance
        <3>3. Returning(v, b, a)' = Returning(v, b, a)
            BY SMTT(120), <1>1, <2>1, <3>1, CountReturns
        <3>. QED
            BY <2>2, <3>2, <3>3 DEF Balance
    <2>. QED
        BY <2>4, <2>5
<1>. QED
    BY <1>2, <1>3, BalancedStep

\* poll_coherence_LIN keeps it for a UPD.
LEMMA PollUpdStep ==
    ASSUME IInv, NEW m \in Machine, NEW r \in Others(m), PollUpd(m, r)
    PROVE  IInv'
<1>1. TakeMessage(UPD_VC, m, r) /\ Drop(UPD_VC, m, r) /\ UNCHANGED credits
    BY DEF PollUpd
<1>. QED
    BY <1>1, DropStep DEF VC

\* It keeps it for an ACK: the last one holds its slot until the UPD leaves.
LEMMA PollAckStep ==
    ASSUME IInv, NEW m \in Machine, NEW r \in Others(m), PollAck(m, r)
    PROVE  IInv'
<1>. USE DEF IInv
<1>1. TakeMessage(ACK_VC, m, r) /\ UNCHANGED credits
    BY DEF PollAck
<1>2. ACK_VC \in VC /\ r \in Machine
    BY DEF VC, Others
<1>3. CASE Drop(ACK_VC, m, r)
    BY <1>1, <1>2, <1>3, DropStep
<1>4. CASE /\ ack_bcast' = [ack_bcast EXCEPT ![m][r] = ack_bcast[m][r] + 1]
           /\ UNCHANGED <<seen, credit_msgs, inv_to_send>>
    <2>1. CountersOK'
        <3>1. ack_bcast' \in [Machine -> [Machine -> Nat]]
            BY SMTT(120), <1>4, <1>2 DEF CountersOK
        <3>. QED
            BY <1>1, <1>2, <1>4, <3>1, TakeMessageBalance DEF CountersOK
    <2>2. ASSUME NEW v \in VC, NEW a \in Machine, NEW b \in Others(a)
          PROVE  Balance(v, a, b)' = Balance(v, a, b)
        <3>1. b \in Machine
            BY DEF Others
        <3>2. Returning(v, b, a)' = Returning(v, b, a)
            BY <1>4, SameReturning
        <3>3. /\ credits[v][a][b] \in Nat /\ in_flight[v][a][b] \in Nat
              /\ Held(v, a, b) \in Nat /\ Returning(v, b, a) \in Nat
            BY SMTT(120), <3>1, HeldType, ReturningType DEF CountersOK, Counter
        <3>4. CASE v = ACK_VC /\ b = m /\ a = r
            <4>1. in_flight'[v][a][b] = in_flight[v][a][b] - 1
                BY <1>1, <1>2, <3>4, TakeMessageBalance
            <4>2. Held(v, a, b)' = Held(v, a, b) + 1
                BY SMTT(120), <1>2, <1>4, <3>4 DEF Held, CountersOK, ACK_VC, INV_VC, UPD_VC
            <4>. QED
                BY SMTT(120), <1>1, <3>2, <3>3, <4>1, <4>2 DEF Balance
        <3>5. CASE ~ (v = ACK_VC /\ b = m /\ a = r)
            <4>1. <<v, a, b>> # <<ACK_VC, r, m>>
                BY <3>5
            <4>2. in_flight'[v][a][b] = in_flight[v][a][b]
                BY SMTT(120), <1>1, <1>2, <3>1, <4>1, TakeMessageBalance
            <4>3. Held(v, a, b)' = Held(v, a, b)
                BY SMTT(120), <1>2, <1>4, <3>1, <3>5 DEF Held, CountersOK, VC, ACK_VC, INV_VC, UPD_VC
            <4>. QED
                BY <1>1, <3>2, <4>2, <4>3 DEF Balance
        <3>. QED
            BY <3>4, <3>5
    <2>. QED
        BY <2>1, <2>2, BalancedStep
<1>. QED
    BY <1>3, <1>4 DEF PollAck

\* It keeps it for an INV: one that succeeds holds its slot until its ACK leaves.
LEMMA PollInvStep ==
    ASSUME IInv, NEW m \in Machine, NEW r \in Others(m), PollInv(m, r)
    PROVE  IInv'
<1>. USE DEF IInv
<1>1. TakeMessage(INV_VC, m, r) /\ UNCHANGED credits
    BY DEF PollInv
<1>2. INV_VC \in VC /\ r \in Machine
    BY DEF VC, Others
<1>3. CASE Drop(INV_VC, m, r)
    BY <1>1, <1>2, <1>3, DropStep
<1>4. CASE /\ inv_to_send' = [inv_to_send EXCEPT ![m][r] = inv_to_send[m][r] + 1]
           /\ UNCHANGED <<seen, credit_msgs, ack_bcast>>
    <2>1. CountersOK'
        <3>1. inv_to_send' \in [Machine -> [Machine -> Nat]]
            BY SMTT(120), <1>4, <1>2 DEF CountersOK
        <3>. QED
            BY <1>1, <1>2, <1>4, <3>1, TakeMessageBalance DEF CountersOK
    <2>2. ASSUME NEW v \in VC, NEW a \in Machine, NEW b \in Others(a)
          PROVE  Balance(v, a, b)' = Balance(v, a, b)
        <3>1. b \in Machine
            BY DEF Others
        <3>2. Returning(v, b, a)' = Returning(v, b, a)
            BY <1>4, SameReturning
        <3>3. /\ credits[v][a][b] \in Nat /\ in_flight[v][a][b] \in Nat
              /\ Held(v, a, b) \in Nat /\ Returning(v, b, a) \in Nat
            BY SMTT(120), <3>1, HeldType, ReturningType DEF CountersOK, Counter
        <3>4. CASE v = INV_VC /\ b = m /\ a = r
            <4>1. in_flight'[v][a][b] = in_flight[v][a][b] - 1
                BY <1>1, <1>2, <3>4, TakeMessageBalance
            <4>2. Held(v, a, b)' = Held(v, a, b) + 1
                BY SMTT(120), <1>2, <1>4, <3>4 DEF Held, CountersOK, ACK_VC, INV_VC, UPD_VC
            <4>. QED
                BY SMTT(120), <1>1, <3>2, <3>3, <4>1, <4>2 DEF Balance
        <3>5. CASE ~ (v = INV_VC /\ b = m /\ a = r)
            <4>1. <<v, a, b>> # <<INV_VC, r, m>>
                BY <3>5
            <4>2. in_flight'[v][a][b] = in_flight[v][a][b]
                BY SMTT(120), <1>1, <1>2, <3>1, <4>1, TakeMessageBalance
            <4>3. Held(v, a, b)' = Held(v, a, b)
                BY SMTT(120), <1>2, <1>4, <3>1, <3>5 DEF Held, CountersOK, VC, ACK_VC, INV_VC, UPD_VC
            <4>. QED
                BY <1>1, <3>2, <4>2, <4>3 DEF Balance
        <3>. QED
            BY <3>4, <3>5
    <2>. QED
        BY <2>1, <2>2, BalancedStep
<1>. QED
    BY <1>3, <1>4 DEF PollInv

\* poll_credits keeps it: a credit message becomes CREDITS_IN_MESSAGE credits.
LEMMA PollCreditsStep ==
    ASSUME IInv, NEW vc \in VC, NEW m \in Machine, NEW r \in Others(m), PollCredits(vc, m, r)
    PROVE  IInv'
<1>. USE DEF IInv
<1>. DEFINE c == credit_msgs[vc][r][m]
<1>1. /\ c > 0
      /\ credit_msgs' = [credit_msgs EXCEPT ![vc][r][m] = c - 1]
      /\ credits' = [credits EXCEPT ![vc][m][r] = credits[vc][m][r] + CREDITS_IN_MESSAGE]
      /\ UNCHANGED <<in_flight, seen, inv_to_send, ack_bcast>>
    BY DEF PollCredits
<1>2. r \in Machine /\ c \in Nat
    BY SMTT(120) DEF Others, CountersOK, Counter
<1>3. CountersOK'
    <2>1. credits' \in Counter /\ credit_msgs' \in Counter
        BY SMTT(120), <1>1, <1>2, MessageSize DEF CountersOK, Counter
    <2>. QED
        BY <1>1, <2>1 DEF CountersOK
<1>4. ASSUME NEW v \in VC, NEW a \in Machine, NEW b \in Others(a)
      PROVE  Balance(v, a, b)' = Balance(v, a, b)
    <2>1. b \in Machine
        BY DEF Others
    <2>2. Held(v, a, b)' = Held(v, a, b)
        BY <1>1, SameHeld
    <2>3. /\ credits[v][a][b] \in Nat /\ in_flight[v][a][b] \in Nat
          /\ Held(v, a, b) \in Nat /\ Returning(v, b, a) \in Nat
        BY SMTT(120), <2>1, HeldType, ReturningType DEF CountersOK, Counter
    <2>4. CASE v = vc /\ a = m /\ b = r
        <3>1. credits'[v][a][b] = credits[v][a][b] + CREDITS_IN_MESSAGE
            BY SMTT(120), <1>1, <1>2, <2>4 DEF CountersOK, Counter
        <3>2. credit_msgs'[v][b][a] = c - 1 /\ seen'[v][b][a] = seen[v][b][a]
            BY SMTT(120), <1>1, <1>2, <2>4 DEF CountersOK, Counter
        <3>3. (c - 1) * CREDITS_IN_MESSAGE = c * CREDITS_IN_MESSAGE - CREDITS_IN_MESSAGE
            BY SMTT(120), <1>2, MessageSize
        <3>4. c * CREDITS_IN_MESSAGE \in Nat /\ seen[v][b][a] \in Nat
            BY SMTT(120), <1>2, <2>1, MessageSize DEF CountersOK
        <3>5. Returning(v, b, a)' = Returning(v, b, a) - CREDITS_IN_MESSAGE
            BY SMTT(120), <2>4, <3>2, <3>3, <3>4, MessageSize DEF Returning
        <3>. QED
            BY SMTT(120), <1>1, <2>2, <2>3, <3>1, <3>5, MessageSize DEF Balance
    <2>5. CASE ~ (v = vc /\ a = m /\ b = r)
        <3>1. credits'[v][a][b] = credits[v][a][b]
            BY SMTT(120), <1>1, <1>2, <2>1, <2>5 DEF CountersOK, Counter
        <3>2. credit_msgs'[v][b][a] = credit_msgs[v][b][a] /\ seen'[v][b][a] = seen[v][b][a]
            BY SMTT(120), <1>1, <1>2, <2>1, <2>5 DEF CountersOK, Counter
        <3>. QED
            BY <1>1, <2>2, <3>1, <3>2 DEF Balance, Returning
    <2>. QED
        BY <2>4, <2>5
<1>. QED
    BY <1>3, <1>4, BalancedStep

-----------------------------------------------------------------------------

\* The invariant holds when the clients start and is kept by every step.
LEMMA Invariance == Spec => []IInv
<1>1. Init => IInv
    <2>. SUFFICES ASSUME Init PROVE IInv
        OBVIOUS
    <2>1. CountersOK
        BY SMTT(120), MessageSize DEF Init, PerChannel, CountersOK, Counter
    <2>2. ASSUME NEW vc \in VC, NEW m \in Machine, NEW r \in Others(m)
          PROVE  credits[vc][m][r] + Outstanding(vc, m, r) = CREDITS_FOR_EACH_CLIENT
        <3>1. r \in Machine
            BY DEF Others
        <3>2. /\ credits[vc][m][r] = CREDITS_FOR_EACH_CLIENT
              /\ in_flight[vc][m][r] = 0
              /\ seen[vc][r][m] = 0
              /\ credit_msgs[vc][r][m] = 0
            BY <3>1 DEF Init, PerChannel
        <3>3. Held(vc, m, r) = 0
            BY <3>1 DEF Init, Held, VC, ACK_VC, INV_VC, UPD_VC
        <3>. QED
            BY SMTT(120), <3>2, <3>3, MessageSize DEF Outstanding
    <2>. QED
        BY <2>1, <2>2 DEF IInv, CreditsConserved
<1>2. IInv /\ [Next]_vars => IInv'
    <2>. SUFFICES ASSUME IInv, [Next]_vars PROVE IInv'
        OBVIOUS
    <2>1. CASE UNCHANGED vars
        BY <2>1, SameCounters DEF vars
    <2>2. ASSUME NEW m \in Machine, HotWrite(m) PROVE IInv'
        <3>1. UNCHANGED <<credits, in_flight, seen, credit_msgs, inv_to_send, ack_bcast>>
            BY <2>2 DEF HotWrite
        <3>. QED
            BY <3>1, SameCounters
    <2>3. ASSUME NEW m \in Machine, BroadcastInv(m) PROVE IInv'
        BY <2>3, BroadcastInvStep
    <2>4. ASSUME NEW m \in Machine, NEW r \in Others(m), Exchange(m, r) PROVE IInv'
        BY <2>4, BroadcastUpdStep, SendAckStep, PollUpdStep, PollAckStep, PollInvStep,
           PollCreditsStep DEF Exchange
    <2>. QED
        BY <2>1, <2>2, <2>3, <2>4 DEF Next
<1>. QED
    BY <1>1, <1>2, PTL DEF Spec

\* No credit is lost or made up, whatever the machines, credits and message size.
THEOREM Conservation == Spec => []CreditsConserved
<1>1. IInv => CreditsConserved
    BY DEF IInv
<1>. QED
    BY <1>1, Invariance, PTL

\* A channel never carries more messages, polled or not, than it has credits, and the
\* credits left fit the uint8_t of the credits array.
ChannelsWithinCredits ==
    \A vc \in VC, m \in Machine : \A r \in Others(m) :
        /\ in_flight[vc][m][r] + Held(vc, m, r) <= CREDITS_FOR_EACH_CLIENT
        /\ credits[vc][m][r] \in 0..255

\* What a sender has in the slots of its destination stays within its share of them.
THEOREM NoOverrun == Spec => []ChannelsWithinCredits
<1>1. IInv => ChannelsWithinCredits
    <2>. SUFFICES ASSUME IInv, NEW vc \in VC, NEW m \in Machine, NEW r \in Others(m)
                  PROVE  /\ in_flight[vc][m][r] + Held(vc, m, r) <= CREDITS_FOR_EACH_CLIENT
                         /\ credits[vc][m][r] \in 0..255
        BY DEF ChannelsWithinCredits
    <2>1. r \in Machine /\ CountersOK
        BY DEF Others, IInv
    <2>2. Balance(vc, m, r) = CREDITS_FOR_EACH_CLIENT
        BY <2>1, BalanceIsSum DEF IInv, CreditsConserved
    <2>3. /\ credits[vc][m][r] \in Nat /\ in_flight[vc][m][r] \in Nat
          /\ Held(vc, m, r) \in Nat /\ Returning(vc, r, m) \in Nat
        BY SMTT(120), <2>1, HeldType, ReturningType DEF CountersOK, Counter
    <2>4. CREDITS_FOR_EACH_CLIENT \in 1..255
        BY SizeAssumption
    <2>5. credits[vc][m][r] + in_flight[vc][m][r] + Held(vc, m, r) + Returning(vc, r, m)
                = CREDITS_FOR_EACH_CLIENT
        BY <2>2 DEF Balance
    <2>6. credits[vc][m][r] <= CREDITS_FOR_EACH_CLIENT
        BY SMTT(120), <2>3, <2>4, <2>5
    <2>7. in_flight[vc][m][r] + Held(vc, m, r) <= CREDITS_FOR_EACH_CLIENT
        BY SMTT(120), <2>3, <2>4, <2>5
    <2>8. credits[vc][m][r] \in 0..255
        BY SMTT(120), <2>3, <2>4, <2>6
    <2>. QED
        BY <2>7, <2>8
<1>. QED
    BY <1>1, Invariance, PTL

-----------------------------------------------------------------------------
(* Receives.                                                                *)

\* The slots of m taken up by messages of r that have been polled: those held, and those
\* emptied and not posted again.
Taken(m, r) ==
    ack_bcast[m][r] + inv_to_send[m][r]
        + seen[ACK_VC][m][r] + seen[INV_VC][m][r] + seen[UPD_VC][m][r]

TakenFrom(m) == [r \in Others(m) |-> Taken(m, r)]

\* A receive is either posted or in a slot that has been taken.
PostedAccounted ==
    /\ posted \in [Machine -> Int]
    /\ \A m \in Machine :
        posted[m] + SumFunctionOnSet(TakenFrom(m), Others(m)) = LIN_CLT_BUF_SLOTS

\* The other machines are one fewer.
LEMMA OthersFinite ==
    ASSUME NEW m \in Machine
    PROVE  /\ IsFiniteSet(Others(m))
           /\ Cardinality(Others(m)) = MACHINE_NUM - 1
           /\ MACHINE_NUM \in Nat
           /\ MACHINE_NUM - 1 \in Nat
<1>1. IsFiniteSet(Machine) /\ Cardinality(Machine) > 1
    BY MachineAssumption
<1>2. Cardinality(Machine) \in Nat
    BY <1>1, FS_CardinalityType
<1>3. IsFiniteSet(Others(m)) /\ Cardinality(Others(m)) = Cardinality(Machine) - 1
    BY <1>1, FS_RemoveElement DEF Others
<1>. QED
    BY SMTT(120), <1>1, <1>2, <1>3 DEF MACHINE_NUM

\* The slots taken are a natural number.
LEMMA TakenType ==
    ASSUME CountersOK, NEW m \in Machine, NEW r \in Machine
    PROVE  Taken(m, r) \in Nat
<1>1. /\ ack_bcast[m][r] \in Nat /\ inv_to_send[m][r] \in Nat
      /\ seen[ACK_VC][m][r] \in Nat /\ seen[INV_VC][m][r] \in Nat /\ seen[UPD_VC][m][r] \in Nat
    BY SMTT(120), MessageSize DEF CountersOK, VC
<1>. QED
    BY SMTT(120), <1>1 DEF Taken

\* A step that posts as many receives as it frees slots of one machine keeps the account.
LEMMA PostedStep ==
    ASSUME CountersOK, CountersOK', PostedAccounted,
           NEW m \in Machine, NEW r \in Others(m), NEW d \in Int,
           Taken(m, r)' = Taken(m, r) - d,
           \A a \in Machine : \A b \in Others(a) :
                <<a, b>> # <<m, r>> => Taken(a, b)' = Taken(a, b),
           posted' = [posted EXCEPT ![m] = posted[m] + d]
    PROVE  PostedAccounted'
<1>1. posted' \in [Machine -> Int]
    BY SMTT(120) DEF PostedAccounted
<1>2. ASSUME NEW a \in Machine
      PROVE  posted'[a] + SumFunctionOnSet(TakenFrom(a)', Others(a)) = LIN_CLT_BUF_SLOTS
    <2>. DEFINE f == TakenFrom(a)
                g == TakenFrom(a)'
    <2>1. IsFiniteSet(Others(a))
        BY OthersFinite
    <2>2. \A b \in Others(a) : /\ f[b] = Taken(a, b) /\ g[b] = Taken(a, b)'
                               /\ f[b] \in Nat /\ g[b] \in Nat
        <3>. SUFFICES ASSUME NEW b \in Others(a)
                      PROVE  /\ f[b] = Taken(a, b) /\ g[b] = Taken(a, b)'
                             /\ f[b] \in Nat /\ g[b] \in Nat
            OBVIOUS
        <3>1. b \in Machine
            BY DEF Others
        <3>2. Taken(a, b) \in Nat
            BY <3>1, TakenType
        <3>3. Taken(a, b)' \in Nat
            <4>1. /\ ack_bcast'[a][b] \in Nat /\ inv_to_send'[a][b] \in Nat
                  /\ seen'[ACK_VC][a][b] \in Nat /\ seen'[INV_VC][a][b] \in Nat
                  /\ seen'[UPD_VC][a][b] \in Nat
                BY SMTT(120), <3>1, MessageSize DEF CountersOK, VC
            <4>. QED
                BY SMTT(120), <4>1 DEF Taken
        <3>. QED
            BY <3>2, <3>3 DEF TakenFrom
    <2>3. posted[a] + SumFunctionOnSet(f, Others(a)) = LIN_CLT_BUF_SLOTS
        BY DEF PostedAccounted
    <2>. HIDE DEF f, g
    <2>4. SumFunctionOnSet(f, Others(a)) \in Nat /\ SumFunctionOnSet(g, Others(a)) \in Nat
        BY <2>1, <2>2, SumSplit
    <2>5. CASE a = m
        <3>1. \A b \in Others(a) \ {r} : f[b] = g[b]
            BY <2>2, <2>5
        <3>2. SumFunctionOnSet(g, Others(a)) + f[r] = SumFunctionOnSet(f, Others(a)) + g[r]
            BY SMTT(120), <2>1, <2>2, <2>5, <3>1, SumChange
        <3>3. g[r] = f[r] - d /\ f[r] \in Nat
            BY <2>2, <2>5
        <3>4. posted'[a] = posted[a] + d /\ posted[a] \in Int
            BY <2>5 DEF PostedAccounted
        <3>. QED
            BY SMTT(120), <2>3, <2>4, <3>2, <3>3, <3>4 DEF g
    <2>6. CASE a # m
        <3>1. \A b \in Others(a) : f[b] = g[b]
            BY <2>2, <2>6
        <3>2. SumFunctionOnSet(f, Others(a)) = SumFunctionOnSet(g, Others(a))
            BY <2>1, <3>1, SumEqual
        <3>3. posted'[a] = posted[a]
            BY <2>6 DEF PostedAccounted
        <3>. QED
            BY <2>3, <3>2, <3>3 DEF g
    <2>. QED
        BY <2>5, <2>6
<1>. QED
    BY <1>1, <1>2 DEF PostedAccounted

\* forge_credits_LIN: emptying a slot counts it, or posts the ones of a whole message.
LEMMA CountPosts ==
    ASSUME CountersOK, NEW vc \in VC, NEW m \in Machine, NEW r \in Machine, Count(vc, m, r)
    PROVE  /\ seen'[vc][m][r] = seen[vc][m][r] + 1 - Reposts(vc, m, r)
           /\ Reposts(vc, m, r) \in Nat
           /\ \A v \in VC, a \in Machine, b \in Machine :
                <<v, a, b>> # <<vc, m, r>> => seen'[v][a][b] = seen[v][a][b]
<1>1. seen[vc][m][r] \in 0..(CREDITS_IN_MESSAGE - 1)
    BY SMTT(120) DEF CountersOK
<1>2. CASE FillsMessage(vc, m, r)
    <2>1. seen' = [seen EXCEPT ![vc][m][r] = 0] /\ Reposts(vc, m, r) = CREDITS_IN_MESSAGE
        BY <1>2 DEF Count, Reposts
    <2>2. seen[vc][m][r] + 1 = CREDITS_IN_MESSAGE
        BY <1>2 DEF FillsMessage
    <2>3. seen'[vc][m][r] = 0
        BY <2>1 DEF CountersOK
    <2>4. ASSUME NEW v \in VC, NEW a \in Machine, NEW b \in Machine,
                 <<v, a, b>> # <<vc, m, r>>
          PROVE  seen'[v][a][b] = seen[v][a][b]
        BY <2>1, <2>4 DEF CountersOK
    <2>. QED
        BY SMTT(120), <1>1, <2>1, <2>2, <2>3, <2>4, MessageSize
<1>3. CASE ~ FillsMessage(vc, m, r)
    <2>1. seen' = [seen EXCEPT ![vc][m][r] = seen[vc][m][r] + 1] /\ Reposts(vc, m, r) = 0
        BY <1>3 DEF Count, Reposts
    <2>2. seen'[vc][m][r] = seen[vc][m][r] + 1
        BY <2>1 DEF CountersOK
    <2>3. ASSUME NEW v \in VC, NEW a \in Machine, NEW b \in Machine,
                 <<v, a, b>> # <<vc, m, r>>
          PROVE  seen'[v][a][b] = seen[v][a][b]
        BY SMTT(120), <2>1, <2>3 DEF CountersOK
    <2>. QED
        BY SMTT(120), <1>1, <2>1, <2>2, <2>3, MessageSize
<1>. QED
    BY <1>2, <1>3

\* What Count does to the slots taken, when the held ones change by h.
LEMMA CountTaken ==
    ASSUME CountersOK, NEW vc \in VC, NEW m \in Machine, NEW r \in Others(m), Count(vc, m, r),
           NEW h \in Int,
           ack_bcast'[m][r] + inv_to_send'[m][r] = ack_bcast[m][r] + inv_to_send[m][r] + h,
           ack_bcast'[m][r] \in Nat, inv_to_send'[m][r] \in Nat,
           \A a \in Machine : \A b \in Others(a) : <<a, b>> # <<m, r>> =>
                ack_bcast'[a][b] = ack_bcast[a][b] /\ inv_to_send'[a][b] = inv_to_send[a][b]
    PROVE  /\ Taken(m, r)' = Taken(m, r) - (Reposts(vc, m, r) - 1 - h)
           /\ Reposts(vc, m, r) - 1 - h \in Int
           /\ \A a \in Machine : \A b \in Others(a) :
                <<a, b>> # <<m, r>> => Taken(a, b)' = Taken(a, b)
<1>1. r \in Machine /\ VC = {ACK_VC, INV_VC, UPD_VC}
    BY DEF Others, VC
<1>2. /\ seen'[vc][m][r] = seen[vc][m][r] + 1 - Reposts(vc, m, r)
      /\ Reposts(vc, m, r) \in Nat
      /\ \A v \in VC, a \in Machine, b \in Machine :
                <<v, a, b>> # <<vc, m, r>> => seen'[v][a][b] = seen[v][a][b]
    BY SMTT(120), <1>1, CountPosts
<1>3. ASSUME NEW a \in Machine, NEW b \in Others(a), <<a, b>> # <<m, r>>
      PROVE  Taken(a, b)' = Taken(a, b)
    <2>1. b \in Machine
        BY DEF Others
    <2>2. \A v \in VC : seen'[v][a][b] = seen[v][a][b]
        BY <1>2, <1>3, <2>1
    <2>. QED
        BY <1>1, <1>3, <2>2 DEF Taken
<1>4. /\ ack_bcast[m][r] \in Nat /\ inv_to_send[m][r] \in Nat
      /\ seen[ACK_VC][m][r] \in Nat /\ seen[INV_VC][m][r] \in Nat /\ seen[UPD_VC][m][r] \in Nat
    BY SMTT(120), <1>1, MessageSize DEF CountersOK
<1>5. \A v \in VC : v # vc => seen'[v][m][r] = seen[v][m][r]
    BY <1>1, <1>2
<1>6. seen'[ACK_VC][m][r] + seen'[INV_VC][m][r] + seen'[UPD_VC][m][r]
        = seen[ACK_VC][m][r] + seen[INV_VC][m][r] + seen[UPD_VC][m][r]
            + 1 - Reposts(vc, m, r)
    <2>1. CASE vc = ACK_VC
        BY SMTT(120), <1>1, <1>2, <1>4, <1>5, <2>1 DEF ACK_VC, INV_VC, UPD_VC
    <2>2. CASE vc = INV_VC
        BY SMTT(120), <1>1, <1>2, <1>4, <1>5, <2>2 DEF ACK_VC, INV_VC, UPD_VC
    <2>3. CASE vc = UPD_VC
        BY SMTT(120), <1>1, <1>2, <1>4, <1>5, <2>3 DEF ACK_VC, INV_VC, UPD_VC
    <2>. QED
        BY <1>1, <2>1, <2>2, <2>3
<1>7. \A v \in VC : seen'[v][m][r] \in Int
    BY SMTT(120), <1>1, <1>2, <1>4, <1>5
<1>8. Taken(m, r)' = Taken(m, r) - (Reposts(vc, m, r) - 1 - h)
    BY SMTT(120), <1>1, <1>2, <1>4, <1>6, <1>7 DEF Taken
<1>. QED
    BY SMTT(120), <1>2, <1>3, <1>8

\* A step that neither polls messages nor empties slots keeps the account.
LEMMA SamePosted ==
    ASSUME PostedAccounted, UNCHANGED <<posted, seen, inv_to_send, ack_bcast>>
    PROVE  PostedAccounted'
<1>1. ASSUME NEW a \in Machine PROVE TakenFrom(a)' = TakenFrom(a)
    BY DEF TakenFrom, Taken
<1>. QED
    BY <1>1 DEF PostedAccounted

\* perform_broadcasts_LIN frees the slot of the last ACK.
LEMMA BroadcastUpdPosts ==
    ASSUME CountersOK, CountersOK', PostedAccounted,
           NEW m \in Machine, NEW r \in Others(m), BroadcastUpd(m, r)
    PROVE  PostedAccounted'
<1>1. /\ Count(ACK_VC, m, r)
      /\ ack_bcast' = [ack_bcast EXCEPT ![m][r] = ack_bcast[m][r] - 1]
      /\ inv_to_send' = inv_to_send
      /\ posted' = [posted EXCEPT ![m] = posted[m] + Reposts(ACK_VC, m, r)]
    BY DEF BroadcastUpd
<1>2. r \in Machine /\ ACK_VC \in VC
    BY DEF Others, VC
<1>3. /\ ack_bcast'[m][r] = ack_bcast[m][r] - 1
      /\ ack_bcast[m][r] \in Nat /\ ack_bcast'[m][r] \in Nat
      /\ inv_to_send[m][r] \in Nat /\ inv_to_send'[m][r] \in Nat
    BY SMTT(120), <1>1, <1>2 DEF CountersOK
<1>4. \A a \in Machine : \A b \in Others(a) : <<a, b>> # <<m, r>> =>
            ack_bcast'[a][b] = ack_bcast[a][b] /\ inv_to_send'[a][b] = inv_to_send[a][b]
    BY <1>1, <1>2 DEF CountersOK, Others
<1>5. ack_bcast'[m][r] + inv_to_send'[m][r] = ack_bcast[m][r] + inv_to_send[m][r] + (-1)
    BY SMTT(120), <1>1, <1>3
<1>6. /\ Taken(m, r)' = Taken(m, r) - (Reposts(ACK_VC, m, r) - 1 - (-1))
      /\ Reposts(ACK_VC, m, r) - 1 - (-1) \in Int
      /\ \A a \in Machine : \A b \in Others(a) :
            <<a, b>> # <<m, r>> => Taken(a, b)' = Taken(a, b)
    BY SMTT(120), <1>1, <1>2, <1>3, <1>4, <1>5, CountTaken
<1>7. Reposts(ACK_VC, m, r) \in Nat
    BY <1>1, <1>2, CountPosts
<1>8. Reposts(ACK_VC, m, r) - 1 - (-1) = Reposts(ACK_VC, m, r)
    BY SMTT(120), <1>7
<1>. QED
    BY <1>1, <1>6, <1>8, PostedStep

\* send_acks frees the slot of the INV.
LEMMA SendAckPosts ==
    ASSUME CountersOK, CountersOK', PostedAccounted,
           NEW m \in Machine, NEW r \in Others(m), SendAck(m, r)
    PROVE  PostedAccounted'
<1>1. /\ Count(INV_VC, m, r)
      /\ inv_to_send' = [inv_to_send EXCEPT ![m][r] = inv_to_send[m][r] - 1]
      /\ ack_bcast' = ack_bcast
      /\ posted' = [posted EXCEPT ![m] = posted[m] + Reposts(INV_VC, m, r)]
    BY DEF SendAck
<1>2. r \in Machine /\ INV_VC \in VC
    BY DEF Others, VC
<1>3. /\ inv_to_send'[m][r] = inv_to_send[m][r] - 1
      /\ ack_bcast[m][r] \in Nat /\ ack_bcast'[m][r] \in Nat
      /\ inv_to_send[m][r] \in Nat /\ inv_to_send'[m][r] \in Nat
    BY SMTT(120), <1>1, <1>2 DEF CountersOK
<1>4. \A a \in Machine : \A b \in Others(a) : <<a, b>> # <<m, r>> =>
            ack_bcast'[a][b] = ack_bcast[a][b] /\ inv_to_send'[a][b] = inv_to_send[a][b]
    BY <1>1, <1>2 DEF CountersOK, Others
<1>5. ack_bcast'[m][r] + inv_to_send'[m][r] = ack_bcast[m][r] + inv_to_send[m][r] + (-1)
    BY SMTT(120), <1>1, <1>3
<1>6. /\ Taken(m, r)' = Taken(m, r) - (Reposts(INV_VC, m, r) - 1 - (-1))
      /\ Reposts(INV_VC, m, r) - 1 - (-1) \in Int
      /\ \A a \in Machine : \A b \in Others(a) :
            <<a, b>> # <<m, r>> => Taken(a, b)' = Taken(a, b)
    BY SMTT(120), <1>1, <1>2, <1>3, <1>4, <1>5, CountTaken
<1>7. Reposts(INV_VC, m, r) \in Nat
    BY <1>1, <1>2, CountPosts
<1>8. Reposts(INV_VC, m, r) - 1 - (-1) = Reposts(INV_VC, m, r)
    BY SMTT(120), <1>7
<1>. QED
    BY <1>1, <1>6, <1>8, PostedStep

\* A message that is done with takes a slot and frees it.
LEMMA DropPosts ==
    ASSUME CountersOK, CountersOK', PostedAccounted, NEW vc \in VC,
           NEW m \in Machine, NEW r \in Others(m), Drop(vc, m, r)
    PROVE  PostedAccounted'
<1>1. /\ Count(vc, m, r)
      /\ inv_to_send' = inv_to_send
      /\ ack_bcast' = ack_bcast
      /\ posted' = [posted EXCEPT ![m] = (posted[m] - 1) + Reposts(vc, m, r)]
    BY DEF Drop
<1>2. r \in Machine
    BY DEF Others
<1>3. /\ ack_bcast[m][r] \in Nat /\ ack_bcast'[m][r] \in Nat
      /\ inv_to_send[m][r] \in Nat /\ inv_to_send'[m][r] \in Nat
    BY <1>1, <1>2 DEF CountersOK
<1>4. ack_bcast'[m][r] + inv_to_send'[m][r] = ack_bcast[m][r] + inv_to_send[m][r] + 0
    BY SMTT(120), <1>1, <1>3
<1>5. /\ Taken(m, r)' = Taken(m, r) - (Reposts(vc, m, r) - 1 - 0)
      /\ Reposts(vc, m, r) - 1 - 0 \in Int
      /\ \A a \in Machine : \A b \in Others(a) :
            <<a, b>> # <<m, r>> => Taken(a, b)' = Taken(a, b)
    BY SMTT(120), <1>1, <1>2, <1>3, <1>4, CountTaken
<1>6. Reposts(vc, m, r) \in Nat /\ posted[m] \in Int
    BY <1>1, <1>2, CountPosts DEF PostedAccounted
<1>7. (posted[m] - 1) + Reposts(vc, m, r) = posted[m] + (Reposts(vc, m, r) - 1 - 0)
    BY SMTT(120), <1>6
<1>. QED
    BY <1>1, <1>5, <1>7, PostedStep

\* A message that holds its slot takes it.
LEMMA HoldPosts ==
    ASSUME CountersOK, CountersOK', PostedAccounted,
           NEW m \in Machine, NEW r \in Others(m),
           \/ /\ ack_bcast' = [ack_bcast EXCEPT ![m][r] = ack_bcast[m][r] + 1]
              /\ UNCHANGED inv_to_send
           \/ /\ inv_to_send' = [inv_to_send EXCEPT ![m][r] = inv_to_send[m][r] + 1]
              /\ UNCHANGED ack_bcast,
           posted' = [posted EXCEPT ![m] = posted[m] - 1],
           UNCHANGED seen
    PROVE  PostedAccounted'
<1>1. r \in Machine
    BY DEF Others
<1>2. /\ ack_bcast[m][r] \in Nat /\ inv_to_send[m][r] \in Nat
      /\ seen[ACK_VC][m][r] \in Nat /\ seen[INV_VC][m][r] \in Nat /\ seen[UPD_VC][m][r] \in Nat
      /\ posted[m] \in Int
    BY SMTT(120), <1>1, MessageSize DEF CountersOK, VC, PostedAccounted
<1>3. ack_bcast'[m][r] + inv_to_send'[m][r] = ack_bcast[m][r] + inv_to_send[m][r] + 1
    BY SMTT(120), <1>1, <1>2 DEF CountersOK
<1>4. ack_bcast'[m][r] \in Nat /\ inv_to_send'[m][r] \in Nat
    BY SMTT(120), <1>1 DEF CountersOK
<1>5. Taken(m, r)' = Taken(m, r) - (-1)
    BY SMTT(120), <1>2, <1>3, <1>4 DEF Taken
<1>6. ASSUME NEW a \in Machine, NEW b \in Others(a), <<a, b>> # <<m, r>>
      PROVE  Taken(a, b)' = Taken(a, b)
    <2>1. ack_bcast'[a][b] = ack_bcast[a][b] /\ inv_to_send'[a][b] = inv_to_send[a][b]
        BY SMTT(120), <1>1, <1>6 DEF CountersOK, Others
    <2>. QED
        BY <2>1 DEF Taken
<1>7. posted[m] - 1 = posted[m] + (-1) /\ -1 \in Int
    BY SMTT(120), <1>2
<1>8. posted' = [posted EXCEPT ![m] = posted[m] + (-1)]
    BY <1>7
<1>. QED
    BY <1>5, <1>6, <1>7, <1>8, PostedStep

\* Receives are never lost or posted twice, whatever message comes when.
LEMMA PostedInvariance == Spec => []PostedAccounted
<1>1. Init => PostedAccounted
    <2>. SUFFICES ASSUME Init PROVE PostedAccounted
        OBVIOUS
    <2>1. MACHINE_NUM - 1 \in Nat /\ LIN_CLT_BUF_SLOTS \in Nat
        BY SMTT(120), MachineAssumption, OthersFinite, MessageSize, FS_EmptySet DEF LIN_CLT_BUF_SLOTS
    <2>2. posted \in [Machine -> Int] /\ \A m \in Machine : posted[m] = LIN_CLT_BUF_SLOTS
        BY SMTT(120), <2>1 DEF Init
    <2>3. ASSUME NEW m \in Machine
          PROVE  SumFunctionOnSet(TakenFrom(m), Others(m)) = 0
        <3>1. \A r \in Others(m) : TakenFrom(m)[r] = 0
            BY SMTT(120) DEF Init, PerChannel, TakenFrom, Taken, Others, VC
        <3>. QED
            BY SMTT(120), <3>1, SumZero, OthersFinite
    <2>. QED
        BY SMTT(120), <2>1, <2>2, <2>3 DEF PostedAccounted
<1>2. PostedAccounted /\ IInv /\ IInv' /\ [Next]_vars => PostedAccounted'
    <2>. SUFFICES ASSUME PostedAccounted, IInv, IInv', [Next]_vars PROVE PostedAccounted'
        OBVIOUS
    <2>0. CountersOK /\ CountersOK'
        BY DEF IInv
    <2>1. CASE UNCHANGED vars
        BY <2>1, SamePosted DEF vars
    <2>2. ASSUME NEW m \in Machine, HotWrite(m) \/ BroadcastInv(m) PROVE PostedAccounted'
        BY <2>2, SamePosted DEF HotWrite, BroadcastInv
    <2>3. ASSUME NEW m \in Machine, NEW r \in Others(m), Exchange(m, r)
          PROVE  PostedAccounted'
        <3>1. CASE BroadcastUpd(m, r)
            BY <2>0, <3>1, BroadcastUpdPosts
        <3>2. CASE SendAck(m, r)
            BY <2>0, <3>2, SendAckPosts
        <3>3. CASE PollUpd(m, r)
            BY <2>0, <3>3, DropPosts DEF PollUpd, VC
        <3>4. CASE PollAck(m, r)
            BY <2>0, <3>4, DropPosts, HoldPosts DEF PollAck, VC
        <3>5. CASE PollInv(m, r)
            BY <2>0, <3>5, DropPosts, HoldPosts DEF PollInv, VC
        <3>6. CASE \E vc \in VC : PollCredits(vc, m, r)
            BY <3>6, SamePosted DEF PollCredits
        <3>. QED
            BY <2>3, <3>1, <3>2, <3>3, <3>4, <3>5, <3>6 DEF Exchange
    <2>. QED
        BY <2>1, <2>2, <2>3 DEF Next
<1>. QED
    BY <1>1, <1>2, Invariance, PTL DEF Spec

\* The credits of a channel that the sender does not have.
LEMMA SpentIsOutstanding ==
    ASSUME IInv, NEW vc \in VC, NEW m \in Machine, NEW r \in Others(m)
    PROVE  /\ credits[vc][m][r] \in Nat
           /\ Outstanding(vc, m, r) \in Nat
           /\ CREDITS_FOR_EACH_CLIENT - credits[vc][m][r] = Outstanding(vc, m, r)
           /\ in_flight[vc][m][r] + Held(vc, m, r) + seen[vc][r][m] <= CREDITS_FOR_EACH_CLIENT
           /\ credit_msgs[vc][r][m] * CREDITS_IN_MESSAGE <= Outstanding(vc, m, r)
<1>1. r \in Machine /\ CountersOK
    BY DEF Others, IInv
<1>2. /\ credits[vc][m][r] \in Nat /\ in_flight[vc][m][r] \in Nat
      /\ seen[vc][r][m] \in Nat /\ credit_msgs[vc][r][m] \in Nat
    BY SMTT(120), <1>1, MessageSize DEF CountersOK, Counter
<1>3. credit_msgs[vc][r][m] * CREDITS_IN_MESSAGE \in Nat
    BY SMTT(120), <1>2, MessageSize
<1>4. Held(vc, m, r) \in Nat
    BY <1>1, HeldType
<1>5. credits[vc][m][r] + Outstanding(vc, m, r) = CREDITS_FOR_EACH_CLIENT
    BY DEF IInv, CreditsConserved
<1>. DEFINE x == credit_msgs[vc][r][m] * CREDITS_IN_MESSAGE
<1>6. Outstanding(vc, m, r) = in_flight[vc][m][r] + Held(vc, m, r) + seen[vc][r][m] + x
    BY DEF Outstanding
<1>7. x \in Nat
    BY <1>3
<1>. HIDE DEF x
<1>8. Outstanding(vc, m, r) \in Nat /\ x <= Outstanding(vc, m, r)
    BY SMTT(120), <1>2, <1>4, <1>6, <1>7
<1>9. CREDITS_FOR_EACH_CLIENT - credits[vc][m][r] = Outstanding(vc, m, r)
    BY SMTT(120), <1>2, <1>5, <1>8
<1>10. in_flight[vc][m][r] + Held(vc, m, r) + seen[vc][r][m] <= CREDITS_FOR_EACH_CLIENT
    BY SMTT(120), <1>2, <1>4, <1>5, <1>6, <1>7, <1>8, MessageSize
<1>. QED
    BY <1>2, <1>8, <1>9, <1>10 DEF x

\* Messages in flight and slots taken share the slots set aside for their sender.
LEMMA ShareSuffices ==
    ASSUME IInv, NEW m \in Machine, NEW r \in Others(m)
    PROVE  /\ in_flight[ACK_VC][r][m] \in Nat
           /\ in_flight[INV_VC][r][m] \in Nat
           /\ in_flight[UPD_VC][r][m] \in Nat
           /\ in_flight[ACK_VC][r][m] + in_flight[INV_VC][r][m] + in_flight[UPD_VC][r][m]
                + Taken(m, r) <= 3 * CREDITS_FOR_EACH_CLIENT
<1>1. r \in Machine /\ m \in Others(r) /\ CountersOK
    BY DEF Others, IInv
<1>2. \A vc \in VC : /\ in_flight[vc][r][m] \in Nat /\ seen[vc][m][r] \in Nat
                     /\ in_flight[vc][r][m] + Held(vc, r, m) + seen[vc][m][r]
                            <= CREDITS_FOR_EACH_CLIENT
    BY SMTT(120), <1>1, SpentIsOutstanding, MessageSize DEF CountersOK, Counter
<1>3. /\ Held(ACK_VC, r, m) = ack_bcast[m][r]
      /\ Held(INV_VC, r, m) = inv_to_send[m][r]
      /\ Held(UPD_VC, r, m) = 0
    BY SMTT(120) DEF Held, ACK_VC, INV_VC, UPD_VC
<1>4. ack_bcast[m][r] \in Nat /\ inv_to_send[m][r] \in Nat
    BY <1>1 DEF CountersOK
<1>5. ACK_VC \in VC /\ INV_VC \in VC /\ UPD_VC \in VC
    BY DEF VC
<1>6. /\ in_flight[ACK_VC][r][m] \in Nat /\ seen[ACK_VC][m][r] \in Nat
      /\ in_flight[ACK_VC][r][m] + ack_bcast[m][r] + seen[ACK_VC][m][r]
            <= CREDITS_FOR_EACH_CLIENT
    BY <1>2, <1>3, <1>5
<1>7. /\ in_flight[INV_VC][r][m] \in Nat /\ seen[INV_VC][m][r] \in Nat
      /\ in_flight[INV_VC][r][m] + inv_to_send[m][r] + seen[INV_VC][m][r]
            <= CREDITS_FOR_EACH_CLIENT
    BY <1>2, <1>3, <1>5
<1>8. /\ in_flight[UPD_VC][r][m] \in Nat /\ seen[UPD_VC][m][r] \in Nat
      /\ in_flight[UPD_VC][r][m] + 0 + seen[UPD_VC][m][r] <= CREDITS_FOR_EACH_CLIENT
    BY <1>2, <1>3, <1>5
<1>. QED
    BY SMTT(120), <1>4, <1>6, <1>7, <1>8, MessageSize DEF Taken

\* post_coh_recvs posts enough: a message never finds no receive.
LEMMA EnoughPosted ==
    ASSUME IInv, PostedAccounted, NEW m \in Machine
    PROVE  /\ posted[m] \in Nat
           /\ Arriving(in_flight, m) <= posted[m]
           /\ posted[m] <= LIN_CLT_BUF_SLOTS
<1>. DEFINE S == Others(m)
            f == [r \in S |-> in_flight[ACK_VC][r][m] + in_flight[INV_VC][r][m]
                                + in_flight[UPD_VC][r][m]]
            t == TakenFrom(m)
            h == [r \in S |-> f[r] + t[r]]
            c == [r \in S |-> 3 * CREDITS_FOR_EACH_CLIENT]
<1>1. IsFiniteSet(S) /\ Cardinality(S) = MACHINE_NUM - 1 /\ MACHINE_NUM - 1 \in Nat
    BY OthersFinite
<1>2. \A r \in S : t[r] = Taken(m, r) /\ t[r] \in Nat
    BY TakenType DEF TakenFrom, IInv, Others
<1>3. \A r \in S : f[r] \in Nat /\ t[r] \in Nat /\ h[r] = f[r] + t[r]
    BY SMTT(120), <1>2, ShareSuffices
<1>4. \A r \in S : h[r] \in Nat /\ c[r] \in Nat /\ h[r] <= c[r]
    BY SMTT(120), <1>2, <1>3, ShareSuffices, MessageSize
<1>5. Arriving(in_flight, m) = SumFunctionOnSet(f, S)
    BY DEF Arriving
<1>6. \A r \in S : c[r] = 3 * CREDITS_FOR_EACH_CLIENT
    OBVIOUS
<1>7. 3 * CREDITS_FOR_EACH_CLIENT \in Nat
    BY SMTT(120), MessageSize
<1>8. posted[m] + SumFunctionOnSet(t, S) = LIN_CLT_BUF_SLOTS /\ posted[m] \in Int
    BY DEF PostedAccounted
<1>. HIDE DEF S, f, t, h, c
<1>9. SumFunctionOnSet(h, S) = SumFunctionOnSet(f, S) + SumFunctionOnSet(t, S)
    BY SMTT(120), <1>1, <1>3, SumPlus
<1>10. SumFunctionOnSet(h, S) <= SumFunctionOnSet(c, S)
    BY <1>1, <1>4, SumMonotone
<1>11. SumFunctionOnSet(c, S) = (3 * CREDITS_FOR_EACH_CLIENT) * (MACHINE_NUM - 1)
    BY SMTT(120), <1>1, <1>6, <1>7, SumConstant
<1>12. (3 * CREDITS_FOR_EACH_CLIENT) * (MACHINE_NUM - 1) = LIN_CLT_BUF_SLOTS
    BY SMTT(120), <1>1, MessageSize DEF LIN_CLT_BUF_SLOTS
<1>13. SumFunctionOnSet(f, S) \in Nat /\ SumFunctionOnSet(t, S) \in Nat
    BY <1>1, <1>3, SumSplit
<1>14. LIN_CLT_BUF_SLOTS \in Nat
    BY SMTT(120), <1>1, MessageSize DEF LIN_CLT_BUF_SLOTS
<1>. QED
    BY SMTT(120), <1>5, <1>8, <1>9, <1>10, <1>11, <1>12, <1>13, <1>14

\* A message never arrives at a machine that has no receive posted for it, and no slot is
\* posted twice, whatever the machines, credits and message size.
THEOREM ReceivesAlwaysSuffice == Spec => []ReceivesSuffice
<1>1. IInv /\ PostedAccounted => ReceivesSuffice
    BY EnoughPosted DEF ReceivesSuffice
<1>. QED
    BY <1>1, Invariance, PostedInvariance, PTL

\* What waits for m's ACKs, and for its UPDs, fits the credits of its peers.
LEMMA QueuesBounded ==
    ASSUME IInv, NEW m \in Machine
    PROVE  inv_size(m) < BCAST_TO_CACHE_BATCH /\ ack_size(m) < BCAST_TO_CACHE_BATCH
<1>. DEFINE S == Others(m)
            c == [r \in S |-> CREDITS_FOR_EACH_CLIENT]
<1>1. IsFiniteSet(S) /\ Cardinality(S) = MACHINE_NUM - 1 /\ MACHINE_NUM - 1 \in Nat
    BY OthersFinite
<1>2. ASSUME NEW r \in S
      PROVE  /\ inv_to_send[m][r] \in Nat /\ inv_to_send[m][r] <= CREDITS_FOR_EACH_CLIENT
             /\ ack_bcast[m][r] \in Nat /\ ack_bcast[m][r] <= CREDITS_FOR_EACH_CLIENT
    <2>1. r \in Machine /\ m \in Others(r) /\ CountersOK
        BY DEF Others, IInv
    <2>2. \A vc \in VC : /\ in_flight[vc][r][m] \in Nat /\ seen[vc][m][r] \in Nat
                         /\ in_flight[vc][r][m] + Held(vc, r, m) + seen[vc][m][r]
                                <= CREDITS_FOR_EACH_CLIENT
        BY SMTT(120), <2>1, SpentIsOutstanding, MessageSize DEF CountersOK, Counter
    <2>3. ack_bcast[m][r] \in Nat /\ inv_to_send[m][r] \in Nat
        BY <2>1 DEF CountersOK
    <2>4. ack_bcast[m][r] <= CREDITS_FOR_EACH_CLIENT
        BY SMTT(120), <2>2, <2>3, MessageSize DEF Held, VC, ACK_VC, INV_VC, UPD_VC
    <2>5. inv_to_send[m][r] <= CREDITS_FOR_EACH_CLIENT
        BY SMTT(120), <2>2, <2>3, MessageSize DEF Held, VC, ACK_VC, INV_VC, UPD_VC
    <2>. QED
        BY <2>3, <2>4, <2>5
<1>3. \A r \in S : c[r] = CREDITS_FOR_EACH_CLIENT /\ c[r] \in Nat
    BY MessageSize
<1>. HIDE DEF c
<1>4. /\ SumFunctionOnSet(inv_to_send[m], S) <= SumFunctionOnSet(c, S)
      /\ SumFunctionOnSet(ack_bcast[m], S) <= SumFunctionOnSet(c, S)
    BY <1>1, <1>2, <1>3, SumMonotone
<1>5. SumFunctionOnSet(c, S) = CREDITS_FOR_EACH_CLIENT * (MACHINE_NUM - 1)
    BY SMTT(120), <1>1, <1>3, SumConstant, MessageSize
<1>6. /\ SumFunctionOnSet(inv_to_send[m], S) \in Nat
      /\ SumFunctionOnSet(ack_bcast[m], S) \in Nat
    BY <1>1, <1>2, SumSplit
<1>7. /\ BCAST_TO_CACHE_BATCH > CREDITS_FOR_EACH_CLIENT * (MACHINE_NUM - 1)
      /\ BCAST_TO_CACHE_BATCH \in Nat
      /\ CREDITS_FOR_EACH_CLIENT * (MACHINE_NUM - 1) \in Nat
    BY SMTT(120), <1>1, MessageSize, SizeAssumption DEF MACHINE_NUM
<1>8. inv_size(m) = SumFunctionOnSet(inv_to_send[m], S)
    BY DEF inv_size
<1>9. ack_size(m) = SumFunctionOnSet(ack_bcast[m], S)
    BY DEF ack_size
<1>. QED
    BY SMTT(120), <1>4, <1>5, <1>6, <1>7, <1>8, <1>9

\* inv_to_send_ops and ack_bcast_ops never fill up.
THEOREM QueuesAlwaysHaveRoom == Spec => []QueuesNeverFull
<1>1. IInv => QueuesNeverFull
    BY QueuesBounded DEF QueuesNeverFull
<1>. QED
    BY <1>1, Invariance, PTL

-----------------------------------------------------------------------------
(* Receives for credit messages.                                           *)

Spent(vc, m, r) == CREDITS_FOR_EACH_CLIENT - credits[vc][m][r]

AcksSpent(m) == [r \in Others(m) |-> Spent(ACK_VC, m, r)]

\* The credit receives of m are k[r] for what broadcasts have spent with r and a for
\* what ACKs have spent with all machines, up to the rest that br_tx and sent_ack_tx count.
Covers(m, k, a) ==
    /\ k \in [Others(m) -> Nat]
    /\ a \in Nat
    /\ \A r \in Others(m) :
        Spent(INV_VC, m, r) + Spent(UPD_VC, m, r) = br_tx[m] + CREDITS_IN_MESSAGE * k[r]
    /\ SumFunctionOnSet(AcksSpent(m), Others(m)) = sent_ack_tx[m] + CREDITS_IN_MESSAGE * a
    /\ credit_recvs[m] = SumFunctionOnSet(k, Others(m)) + a

\* What is counted modulo the size of a credit message.
SendCountersOK ==
    /\ credit_recvs \in [Machine -> Int]
    /\ br_tx \in [Machine -> 0..(CREDITS_IN_MESSAGE - 1)]
    /\ sent_ack_tx \in [Machine -> 0..(CREDITS_IN_MESSAGE - 1)]

CreditReceivesAccounted ==
    /\ SendCountersOK
    /\ \A m \in Machine : \E k, a : Covers(m, k, a)

\* One more, modulo c.
LEMMA NextModulo ==
    ASSUME NEW c \in Nat \ {0}, NEW b \in 0..(c - 1)
    PROVE  /\ b + 1 = c => (b + 1) % c = 0
           /\ b + 1 # c => (b + 1) % c = b + 1
           /\ (b + 1) % c \in 0..(c - 1)
           /\ (b + 1) % c = 0 <=> b + 1 = c
<1>1. CASE b + 1 = c
    <2>1. (b + 1) % c = 0
        BY SMTT(120), <1>1
    <2>. QED
        BY SMTT(120), <1>1, <2>1
<1>2. CASE b + 1 # c
    <2>1. (b + 1) % c = b + 1
        BY SMTT(120), <1>2
    <2>. QED
        BY SMTT(120), <1>2, <2>1
<1>. QED
    BY <1>1, <1>2

\* A rest below c does not make up for a multiple of c.
LEMMA WholeMessages ==
    ASSUME NEW c \in Nat \ {0}, NEW b \in 0..(c - 1), NEW k \in Nat, NEW n \in Nat,
           c * n <= b + c * k
    PROVE  n <= k
<1>1. SUFFICES ASSUME k + 1 <= n PROVE FALSE
    BY SMTT(120)
<1>2. c * (k + 1) <= c * n
    BY SMTT(120), <1>1
<1>3. c * (k + 1) = c * k + c
    BY SMTT(120)
<1>4. c * k \in Nat /\ c * n \in Nat
    BY SMTT(120)
<1>. QED
    BY SMTT(120), <1>2, <1>3, <1>4

\* What a channel has spent is a natural number.
LEMMA SpentType ==
    ASSUME IInv, NEW vc \in VC, NEW m \in Machine, NEW r \in Others(m)
    PROVE  Spent(vc, m, r) \in Nat /\ Spent(vc, m, r) = Outstanding(vc, m, r)
BY SpentIsOutstanding DEF Spent

\* A machine whose counters do not change stays covered.
LEMMA SameCover ==
    ASSUME NEW m \in Machine, NEW k, NEW a, Covers(m, k, a),
           \A vc \in VC : \A r \in Others(m) : credits'[vc][m][r] = credits[vc][m][r],
           br_tx'[m] = br_tx[m], sent_ack_tx'[m] = sent_ack_tx[m],
           credit_recvs'[m] = credit_recvs[m]
    PROVE  Covers(m, k, a)'
<1>1. \A vc \in VC : \A r \in Others(m) : Spent(vc, m, r)' = Spent(vc, m, r)
    BY DEF Spent
<1>2. AcksSpent(m)' = AcksSpent(m)
    BY <1>1 DEF AcksSpent, VC
<1>. QED
    BY <1>1, <1>2 DEF Covers, VC

\* The enlarged cover of a broadcast that fills a message with every destination.
LEMMA OneMoreEach ==
    ASSUME NEW S, IsFiniteSet(S), NEW k \in [S -> Nat]
    PROVE  /\ [r \in S |-> k[r] + 1] \in [S -> Nat]
           /\ SumFunctionOnSet([r \in S |-> k[r] + 1], S)
                = SumFunctionOnSet(k, S) + Cardinality(S)
<1>. DEFINE h == [r \in S |-> k[r] + 1]
            one == [r \in S |-> 1]
<1>1. \A r \in S : k[r] \in Nat /\ one[r] \in Nat /\ h[r] = k[r] + one[r] /\ one[r] = 1
    OBVIOUS
<1>2. h \in [S -> Nat]
    BY SMTT(120)
<1>. HIDE DEF h, one
<1>3. SumFunctionOnSet(h, S) = SumFunctionOnSet(k, S) + SumFunctionOnSet(one, S)
    BY SMTT(120), <1>1, SumPlus
<1>4. SumFunctionOnSet(one, S) = Cardinality(S)
    BY <1>1, SumOnes
<1>5. SumFunctionOnSet(h, S) = SumFunctionOnSet(k, S) + Cardinality(S)
    BY <1>3, <1>4
<1>. QED
    BY <1>2, <1>5 DEF h

\* A step that changes the counters of one machine keeps the others covered.
LEMMA OthersCovered ==
    ASSUME CountersOK, CreditReceivesAccounted, SendCountersOK', NEW m \in Machine,
           \A v \in VC, a \in Machine, b \in Machine :
                a # m => credits'[v][a][b] = credits[v][a][b],
           \A a \in Machine : a # m => /\ br_tx'[a] = br_tx[a]
                                       /\ sent_ack_tx'[a] = sent_ack_tx[a]
                                       /\ credit_recvs'[a] = credit_recvs[a],
           \E k, a : Covers(m, k, a)'
    PROVE  CreditReceivesAccounted'
<1>1. ASSUME NEW n \in Machine, n # m
      PROVE  \E k, a : Covers(n, k, a)'
    <2>1. PICK k, a : Covers(n, k, a)
        BY DEF CreditReceivesAccounted
    <2>2. \A v \in VC : \A b \in Others(n) : credits'[v][n][b] = credits[v][n][b]
        BY <1>1 DEF Others
    <2>3. Covers(n, k, a)'
        BY <1>1, <2>1, <2>2, SameCover
    <2>. QED
        BY <2>3
<1>. QED
    BY <1>1 DEF CreditReceivesAccounted

\* A broadcast posts a receive for every destination when the credits that come back
\* fill another message with each of them.
LEMMA BroadcastCovers ==
    ASSUME IInv, CreditReceivesAccounted, NEW vc \in {INV_VC, UPD_VC}, NEW m \in Machine,
           Broadcast(vc, m)
    PROVE  CreditReceivesAccounted'
<1>. DEFINE c == CREDITS_IN_MESSAGE
            S == Others(m)
<1>1. /\ credits' = [credits EXCEPT ![vc][m] =
                        [r \in Machine |-> IF r = m THEN credits[vc][m][r]
                                                    ELSE credits[vc][m][r] - 1]]
      /\ br_tx' = [br_tx EXCEPT ![m] = (br_tx[m] + 1) % c]
      /\ credit_recvs' = [credit_recvs EXCEPT ![m] =
                            IF br_tx'[m] = 0 THEN credit_recvs[m] + (MACHINE_NUM - 1)
                                             ELSE credit_recvs[m]]
      /\ sent_ack_tx' = sent_ack_tx
    BY DEF Broadcast
<1>2. CountersOK /\ SendCountersOK /\ c \in Nat \ {0} /\ vc \in VC /\ vc # ACK_VC
    BY SMTT(120), MessageSize DEF IInv, CreditReceivesAccounted, VC, ACK_VC, INV_VC, UPD_VC
<1>3. br_tx[m] \in 0..(c - 1) /\ credit_recvs[m] \in Int
    BY <1>2 DEF SendCountersOK
<1>4. /\ IsFiniteSet(S) /\ Cardinality(S) = MACHINE_NUM - 1
      /\ MACHINE_NUM - 1 \in Nat
    BY OthersFinite
<1>5. br_tx'[m] = (br_tx[m] + 1) % c
    BY <1>1, <1>2 DEF SendCountersOK
<1>6. SendCountersOK'
    <2>1. (br_tx[m] + 1) % c \in 0..(c - 1)
        BY <1>2, <1>3, NextModulo
    <2>2. br_tx' \in [Machine -> 0..(c - 1)]
        BY <1>1, <1>2, <2>1 DEF SendCountersOK
    <2>3. credit_recvs' \in [Machine -> Int]
        BY SMTT(120), <1>1, <1>2, <1>3, <1>4 DEF SendCountersOK
    <2>. QED
        BY <1>1, <1>2, <2>2, <2>3 DEF SendCountersOK
<1>7. ASSUME NEW v \in VC, NEW r \in S
      PROVE  Spent(v, m, r)' = IF v = vc THEN Spent(v, m, r) + 1 ELSE Spent(v, m, r)
    <2>1. r \in Machine /\ r # m /\ credits[v][m][r] \in Nat
        BY SMTT(120), <1>2 DEF Others, CountersOK, Counter
    <2>2. CASE v = vc
        <3>1. credits'[v][m][r] = credits[v][m][r] - 1
            BY <1>1, <1>2, <2>1, <2>2 DEF CountersOK, Counter
        <3>. QED
            BY SMTT(120), <2>1, <2>2, <3>1, MessageSize DEF Spent
    <2>3. CASE v # vc
        <3>1. credits'[v][m][r] = credits[v][m][r]
            BY <1>1, <1>2, <2>1, <2>3 DEF CountersOK, Counter
        <3>. QED
            BY <2>3, <3>1 DEF Spent
    <2>. QED
        BY <2>2, <2>3
<1>8. AcksSpent(m)' = AcksSpent(m)
    BY <1>2, <1>7 DEF AcksSpent, VC
<1>9. ASSUME NEW r \in S
      PROVE  /\ (Spent(INV_VC, m, r) + Spent(UPD_VC, m, r))'
                    = Spent(INV_VC, m, r) + Spent(UPD_VC, m, r) + 1
             /\ Spent(INV_VC, m, r) + Spent(UPD_VC, m, r) \in Nat
    <2>1. Spent(INV_VC, m, r) \in Nat /\ Spent(UPD_VC, m, r) \in Nat
        BY SpentType DEF VC
    <2>2. /\ Spent(INV_VC, m, r)' = IF INV_VC = vc THEN Spent(INV_VC, m, r) + 1
                                                   ELSE Spent(INV_VC, m, r)
          /\ Spent(UPD_VC, m, r)' = IF UPD_VC = vc THEN Spent(UPD_VC, m, r) + 1
                                                   ELSE Spent(UPD_VC, m, r)
        BY <1>7 DEF VC
    <2>3. INV_VC # UPD_VC
        BY SMTT(120) DEF INV_VC, UPD_VC
    <2>4. CASE vc = INV_VC
        BY SMTT(120), <2>1, <2>2, <2>3, <2>4
    <2>5. CASE vc = UPD_VC
        BY SMTT(120), <2>1, <2>2, <2>3, <2>5
    <2>. QED
        BY <2>4, <2>5
<1>10. PICK k, a : Covers(m, k, a)
    BY DEF CreditReceivesAccounted
<1>11. \E l, b : Covers(m, l, b)'
    <2>1. CASE br_tx[m] + 1 = c
        <3>. DEFINE l == [r \in S |-> k[r] + 1]
        <3>1. k \in [S -> Nat] /\ a \in Nat
            BY <1>10 DEF Covers
        <3>2. br_tx'[m] = 0
            BY <1>2, <1>3, <1>5, <2>1, NextModulo
        <3>3. credit_recvs'[m] = credit_recvs[m] + (MACHINE_NUM - 1)
            BY <1>1, <1>2, <3>2 DEF SendCountersOK
        <3>4. l \in [S -> Nat]
              /\ SumFunctionOnSet(l, S) = SumFunctionOnSet(k, S) + (MACHINE_NUM - 1)
            BY <1>4, <3>1, OneMoreEach
        <3>5. ASSUME NEW r \in S
              PROVE  (Spent(INV_VC, m, r) + Spent(UPD_VC, m, r))' = 0 + c * l[r]
            <4>1. Spent(INV_VC, m, r) + Spent(UPD_VC, m, r) = br_tx[m] + c * k[r]
                BY <1>10 DEF Covers
            <4>2. k[r] \in Nat /\ l[r] = k[r] + 1
                BY <3>1
            <4>3. c * (k[r] + 1) = c * k[r] + c /\ c * k[r] \in Nat
                BY SMTT(120), <1>2, <4>2
            <4>. QED
                BY SMTT(120), <1>3, <1>9, <2>1, <4>1, <4>2, <4>3
        <3>6. SumFunctionOnSet(k, S) \in Nat
            BY <1>4, <3>1, SumSplit
        <3>7. credit_recvs[m] = SumFunctionOnSet(k, S) + a
            BY <1>10 DEF Covers
        <3>. HIDE DEF l
        <3>8. credit_recvs'[m] = SumFunctionOnSet(l, S) + a
            BY SMTT(120), <1>4, <3>1, <3>3, <3>4, <3>6, <3>7
        <3>9. Covers(m, l, a)'
            BY <1>1, <1>8, <1>10, <3>1, <3>2, <3>4, <3>5, <3>8 DEF Covers
        <3>. QED
            BY <3>9
    <2>2. CASE br_tx[m] + 1 # c
        <3>1. k \in [S -> Nat] /\ a \in Nat
            BY <1>10 DEF Covers
        <3>2. br_tx'[m] = br_tx[m] + 1 /\ br_tx'[m] # 0
            BY <1>2, <1>3, <1>5, <2>2, NextModulo
        <3>3. credit_recvs'[m] = credit_recvs[m]
            BY <1>1, <1>2, <3>2 DEF SendCountersOK
        <3>4. ASSUME NEW r \in S
              PROVE  (Spent(INV_VC, m, r) + Spent(UPD_VC, m, r))' = br_tx'[m] + c * k[r]
            <4>1. Spent(INV_VC, m, r) + Spent(UPD_VC, m, r) = br_tx[m] + c * k[r]
                BY <1>10 DEF Covers
            <4>2. c * k[r] \in Nat
                BY SMTT(120), <1>2, <3>1
            <4>. QED
                BY SMTT(120), <1>3, <1>9, <3>2, <4>1, <4>2
        <3>5. Covers(m, k, a)'
            BY <1>1, <1>8, <1>10, <3>1, <3>3, <3>4 DEF Covers
        <3>. QED
            BY <3>5
    <2>. QED
        BY <2>1, <2>2
<1>12. \A v \in VC, n \in Machine, b \in Machine : n # m => credits'[v][n][b] = credits[v][n][b]
    BY <1>1, <1>2 DEF CountersOK, Counter
<1>13. \A n \in Machine : n # m => /\ br_tx'[n] = br_tx[n]
                                   /\ sent_ack_tx'[n] = sent_ack_tx[n]
                                   /\ credit_recvs'[n] = credit_recvs[n]
    BY <1>1, <1>2 DEF SendCountersOK
<1>. QED
    BY <1>2, <1>6, <1>11, <1>12, <1>13, OthersCovered

\* No sender ever has more credits than it started with.
LEMMA CreditsAtMost ==
    ASSUME IInv', NEW vc \in VC, NEW m \in Machine, NEW r \in Others(m)
    PROVE  credits'[vc][m][r] <= CREDITS_FOR_EACH_CLIENT
<1>1. r \in Machine /\ CountersOK'
    BY DEF Others, IInv
<1>2. /\ credits'[vc][m][r] \in Nat /\ in_flight'[vc][m][r] \in Nat
      /\ seen'[vc][r][m] \in Nat /\ credit_msgs'[vc][r][m] \in Nat
    BY SMTT(120), <1>1, MessageSize DEF CountersOK, Counter
<1>3. credit_msgs'[vc][r][m] * CREDITS_IN_MESSAGE \in Nat
    BY SMTT(120), <1>2, MessageSize
<1>4. Held(vc, m, r)' \in Nat
    BY SMTT(120), <1>1 DEF CountersOK, Held, VC, ACK_VC, INV_VC, UPD_VC
<1>5. (credits[vc][m][r] + Outstanding(vc, m, r))' = CREDITS_FOR_EACH_CLIENT
    BY DEF IInv, CreditsConserved
<1>. QED
    BY SMTT(120), <1>2, <1>3, <1>4, <1>5, MessageSize DEF Outstanding

\* A change of one channel's ACK credits changes the sum over the machines as much.
LEMMA AcksSpentChange ==
    ASSUME IInv, IInv', NEW m \in Machine, NEW r \in Others(m), NEW d \in Int,
           Spent(ACK_VC, m, r)' = Spent(ACK_VC, m, r) + d,
           \A b \in Others(m) : b # r => credits'[ACK_VC][m][b] = credits[ACK_VC][m][b]
    PROVE  /\ SumFunctionOnSet(AcksSpent(m), Others(m)) \in Nat
           /\ SumFunctionOnSet(AcksSpent(m), Others(m))'
                = SumFunctionOnSet(AcksSpent(m), Others(m)) + d
<1>. DEFINE S == Others(m)
            f == AcksSpent(m)
            g == AcksSpent(m)'
<1>1. ACK_VC \in VC /\ IsFiniteSet(S)
    BY OthersFinite DEF VC
<1>2. \A b \in S : /\ f[b] = Spent(ACK_VC, m, b) /\ f[b] \in Nat
                   /\ g[b] = Spent(ACK_VC, m, b)'
    BY <1>1, SpentType DEF AcksSpent
<1>3. \A b \in S : Spent(ACK_VC, m, b)' \in Nat
    <2>. SUFFICES ASSUME NEW b \in S PROVE Spent(ACK_VC, m, b)' \in Nat
        OBVIOUS
    <2>1. CASE b = r
        <3>1. r \in Machine /\ credits'[ACK_VC][m][r] \in Nat
            BY SMTT(120), <1>1 DEF IInv, CountersOK, Counter, Others
        <3>2. credits'[ACK_VC][m][r] <= CREDITS_FOR_EACH_CLIENT
            BY <1>1, <3>1, CreditsAtMost
        <3>. QED
            BY SMTT(120), <2>1, <3>1, <3>2, MessageSize DEF Spent
    <2>2. CASE b # r
        BY <1>2, <2>2 DEF Spent
    <2>. QED
        BY <2>1, <2>2
<1>4. \A b \in S \ {r} : f[b] = g[b]
    BY <1>2 DEF Spent
<1>5. f[r] \in Nat /\ g[r] = f[r] + d
    BY <1>2
<1>6. \A b \in S : f[b] \in Nat /\ g[b] \in Nat
    BY <1>2, <1>3
<1>. HIDE DEF f, g, S
<1>7. SumFunctionOnSet(g, S) + f[r] = SumFunctionOnSet(f, S) + g[r]
    BY SMTT(120), <1>1, <1>4, <1>6, SumChange DEF S
<1>8. SumFunctionOnSet(f, S) \in Nat /\ SumFunctionOnSet(g, S) \in Nat
    BY <1>1, <1>6, SumSplit
<1>9. SumFunctionOnSet(g, S) = SumFunctionOnSet(f, S) + d
    BY SMTT(120), <1>5, <1>7, <1>8
<1>. QED
    BY <1>8, <1>9 DEF f, g, S

\* send_acks posts a receive when the credits that come back fill another message.
LEMMA SendAckCovers ==
    ASSUME IInv, IInv', CreditReceivesAccounted, NEW m \in Machine, NEW r \in Others(m),
           SendAck(m, r)
    PROVE  CreditReceivesAccounted'
<1>. DEFINE c == CREDITS_IN_MESSAGE
            S == Others(m)
<1>1. /\ credits' = [credits EXCEPT ![ACK_VC][m][r] = credits[ACK_VC][m][r] - 1]
      /\ sent_ack_tx' = [sent_ack_tx EXCEPT ![m] = (sent_ack_tx[m] + 1) % c]
      /\ credit_recvs' = [credit_recvs EXCEPT ![m] =
                            IF sent_ack_tx'[m] = 0 THEN credit_recvs[m] + 1
                                                   ELSE credit_recvs[m]]
      /\ br_tx' = br_tx
    BY DEF SendAck
<1>2. CountersOK /\ SendCountersOK /\ c \in Nat \ {0} /\ ACK_VC \in VC /\ r \in Machine
    BY MessageSize DEF IInv, CreditReceivesAccounted, VC, Others
<1>3. sent_ack_tx[m] \in 0..(c - 1) /\ credit_recvs[m] \in Int
    BY <1>2 DEF SendCountersOK
<1>4. IsFiniteSet(S)
    BY OthersFinite
<1>5. sent_ack_tx'[m] = (sent_ack_tx[m] + 1) % c
    BY <1>1, <1>2 DEF SendCountersOK
<1>6. SendCountersOK'
    <2>1. (sent_ack_tx[m] + 1) % c \in 0..(c - 1)
        BY <1>2, <1>3, NextModulo
    <2>2. sent_ack_tx' \in [Machine -> 0..(c - 1)]
        BY <1>1, <1>2, <2>1 DEF SendCountersOK
    <2>3. credit_recvs' \in [Machine -> Int]
        BY SMTT(120), <1>1, <1>2, <1>3 DEF SendCountersOK
    <2>. QED
        BY <1>1, <1>2, <2>2, <2>3 DEF SendCountersOK
<1>7. \A v \in VC, n \in Machine, b \in Machine :
        <<v, n, b>> # <<ACK_VC, m, r>> => credits'[v][n][b] = credits[v][n][b]
    BY SMTT(120), <1>1, <1>2 DEF CountersOK, Counter
<1>8. Spent(ACK_VC, m, r)' = Spent(ACK_VC, m, r) + 1
    <2>1. credits'[ACK_VC][m][r] = credits[ACK_VC][m][r] - 1 /\ credits[ACK_VC][m][r] \in Nat
        BY SMTT(120), <1>1, <1>2 DEF CountersOK, Counter
    <2>. QED
        BY SMTT(120), <2>1, MessageSize DEF Spent
<1>9. /\ SumFunctionOnSet(AcksSpent(m), S) \in Nat
      /\ SumFunctionOnSet(AcksSpent(m), S)' = SumFunctionOnSet(AcksSpent(m), S) + 1
    BY SMTT(120), <1>2, <1>7, <1>8, AcksSpentChange DEF Others
<1>10. ASSUME NEW b \in S
       PROVE  (Spent(INV_VC, m, b) + Spent(UPD_VC, m, b))'
                = Spent(INV_VC, m, b) + Spent(UPD_VC, m, b)
    BY SMTT(120), <1>7 DEF Spent, Others, VC, ACK_VC, INV_VC, UPD_VC
<1>11. PICK k, a : Covers(m, k, a)
    BY DEF CreditReceivesAccounted
<1>12. /\ k \in [S -> Nat] /\ a \in Nat
       /\ \A b \in S : Spent(INV_VC, m, b) + Spent(UPD_VC, m, b) = br_tx[m] + c * k[b]
       /\ SumFunctionOnSet(AcksSpent(m), S) = sent_ack_tx[m] + c * a
       /\ credit_recvs[m] = SumFunctionOnSet(k, S) + a
    BY <1>11 DEF Covers
<1>13. SumFunctionOnSet(k, S) \in Nat
    BY <1>4, <1>12, SumSplit
<1>14. c * a \in Nat /\ c * (a + 1) = c * a + c
    BY SMTT(120), <1>2, <1>12
<1>15. \E l, b : Covers(m, l, b)'
    <2>1. CASE sent_ack_tx[m] + 1 = c
        <3>1. sent_ack_tx'[m] = 0
            BY <1>2, <1>3, <1>5, <2>1, NextModulo
        <3>2. credit_recvs'[m] = credit_recvs[m] + 1
            BY <1>1, <1>2, <3>1 DEF SendCountersOK
        <3>3. credit_recvs'[m] = SumFunctionOnSet(k, S) + (a + 1) /\ a + 1 \in Nat
            BY SMTT(120), <1>12, <1>13, <3>2
        <3>4. SumFunctionOnSet(AcksSpent(m), S)' = 0 + c * (a + 1)
            BY SMTT(120), <1>3, <1>9, <1>12, <1>14, <2>1
        <3>5. Covers(m, k, a + 1)'
            BY <1>1, <1>10, <1>12, <3>1, <3>3, <3>4 DEF Covers
        <3>. QED
            BY <3>5
    <2>2. CASE sent_ack_tx[m] + 1 # c
        <3>1. sent_ack_tx'[m] = sent_ack_tx[m] + 1 /\ sent_ack_tx'[m] # 0
            BY <1>2, <1>3, <1>5, <2>2, NextModulo
        <3>2. credit_recvs'[m] = credit_recvs[m]
            BY <1>1, <1>2, <3>1 DEF SendCountersOK
        <3>3. SumFunctionOnSet(AcksSpent(m), S)' = sent_ack_tx'[m] + c * a
            BY SMTT(120), <1>3, <1>9, <1>12, <1>14, <3>1
        <3>4. Covers(m, k, a)'
            BY <1>1, <1>10, <1>12, <3>2, <3>3 DEF Covers
        <3>. QED
            BY <3>4
    <2>. QED
        BY <2>1, <2>2
<1>16. \A v \in VC, n \in Machine, b \in Machine : n # m => credits'[v][n][b] = credits[v][n][b]
    BY <1>7
<1>17. \A n \in Machine : n # m => /\ br_tx'[n] = br_tx[n]
                                   /\ sent_ack_tx'[n] = sent_ack_tx[n]
                                   /\ credit_recvs'[n] = credit_recvs[n]
    BY <1>1, <1>2 DEF SendCountersOK
<1>. QED
    BY <1>2, <1>6, <1>15, <1>16, <1>17, OthersCovered

\* poll_credits uses up one of the receives it is covered by.
LEMMA PollCreditsCovers ==
    ASSUME IInv, IInv', CreditReceivesAccounted, NEW vc \in VC, NEW m \in Machine,
           NEW r \in Others(m), PollCredits(vc, m, r)
    PROVE  CreditReceivesAccounted'
<1>. DEFINE c == CREDITS_IN_MESSAGE
            S == Others(m)
<1>1. /\ credit_msgs[vc][r][m] > 0
      /\ credits' = [credits EXCEPT ![vc][m][r] = credits[vc][m][r] + c]
      /\ credit_recvs' = [credit_recvs EXCEPT ![m] = credit_recvs[m] - 1]
      /\ br_tx' = br_tx
      /\ sent_ack_tx' = sent_ack_tx
    BY DEF PollCredits
<1>2. CountersOK /\ SendCountersOK /\ c \in Nat \ {0} /\ r \in Machine
    BY MessageSize DEF IInv, CreditReceivesAccounted, Others
<1>3. /\ br_tx[m] \in 0..(c - 1) /\ sent_ack_tx[m] \in 0..(c - 1)
      /\ credit_recvs[m] \in Int /\ credit_recvs'[m] = credit_recvs[m] - 1
    BY <1>1, <1>2 DEF SendCountersOK
<1>4. IsFiniteSet(S)
    BY OthersFinite
<1>5. SendCountersOK'
    BY SMTT(120), <1>1, <1>2, <1>3 DEF SendCountersOK
<1>6. \A v \in VC, n \in Machine, b \in Machine :
        <<v, n, b>> # <<vc, m, r>> => credits'[v][n][b] = credits[v][n][b]
    BY SMTT(120), <1>1, <1>2 DEF CountersOK, Counter
<1>7. Spent(vc, m, r)' = Spent(vc, m, r) - c
    <2>1. credits'[vc][m][r] = credits[vc][m][r] + c /\ credits[vc][m][r] \in Nat
        BY SMTT(120), <1>1, <1>2 DEF CountersOK, Counter
    <2>. QED
        BY SMTT(120), <1>2, <2>1, MessageSize DEF Spent
<1>8. Spent(vc, m, r) \in Nat /\ c <= Spent(vc, m, r)
    <2>1. credit_msgs[vc][r][m] \in Nat
        BY SMTT(120), <1>2 DEF CountersOK, Counter
    <2>2. credit_msgs[vc][r][m] * c \in Nat /\ c <= credit_msgs[vc][r][m] * c
        BY SMTT(120), <1>1, <1>2, <2>1
    <2>3. credit_msgs[vc][r][m] * c <= Outstanding(vc, m, r)
        BY SpentIsOutstanding
    <2>4. Spent(vc, m, r) \in Nat /\ Spent(vc, m, r) = Outstanding(vc, m, r)
        BY SpentType
    <2>. QED
        BY SMTT(120), <1>2, <2>2, <2>3, <2>4
<1>9. PICK k, a : Covers(m, k, a)
    BY DEF CreditReceivesAccounted
<1>10. /\ k \in [S -> Nat] /\ a \in Nat
       /\ \A b \in S : Spent(INV_VC, m, b) + Spent(UPD_VC, m, b) = br_tx[m] + c * k[b]
       /\ SumFunctionOnSet(AcksSpent(m), S) = sent_ack_tx[m] + c * a
       /\ credit_recvs[m] = SumFunctionOnSet(k, S) + a
    BY <1>9 DEF Covers
<1>11. SumFunctionOnSet(k, S) \in Nat
    BY <1>4, <1>10, SumSplit
<1>12. \E l, b : Covers(m, l, b)'
    <2>1. CASE vc = ACK_VC
        <3>1. /\ SumFunctionOnSet(AcksSpent(m), S) \in Nat
              /\ SumFunctionOnSet(AcksSpent(m), S)' = SumFunctionOnSet(AcksSpent(m), S) + (-c)
            <4>1. Spent(ACK_VC, m, r)' = Spent(ACK_VC, m, r) + (-c) /\ -c \in Int
                BY SMTT(120), <1>2, <1>7, <1>8, <2>1
            <4>2. \A b \in S : b # r => credits'[ACK_VC][m][b] = credits[ACK_VC][m][b]
                BY <1>6, <2>1 DEF Others
            <4>. QED
                BY <4>1, <4>2, AcksSpentChange
        <3>2. c <= SumFunctionOnSet(AcksSpent(m), S)
            <4>1. \A b \in S : AcksSpent(m)[b] = Spent(ACK_VC, m, b) /\ AcksSpent(m)[b] \in Nat
                BY SpentType DEF AcksSpent, VC
            <4>2. Spent(ACK_VC, m, r) <= SumFunctionOnSet(AcksSpent(m), S)
                BY SMTT(120), <1>4, <4>1, SumZero
            <4>. QED
                BY SMTT(120), <1>2, <1>8, <2>1, <3>1, <4>2
        <3>3. 1 <= a
            <4>1. c * 1 <= sent_ack_tx[m] + c * a
                BY SMTT(120), <1>2, <1>10, <3>2
            <4>. QED
                BY <1>2, <1>3, <1>10, <4>1, WholeMessages
        <3>4. a - 1 \in Nat /\ c * (a - 1) = c * a - c /\ c * a \in Nat
            BY SMTT(120), <1>2, <1>10, <3>3
        <3>5. SumFunctionOnSet(AcksSpent(m), S)' = sent_ack_tx[m] + c * (a - 1)
            BY SMTT(120), <1>2, <1>3, <1>10, <3>1, <3>4
        <3>6. credit_recvs'[m] = SumFunctionOnSet(k, S) + (a - 1)
            BY SMTT(120), <1>3, <1>10, <1>11
        <3>7. \A b \in S : (Spent(INV_VC, m, b) + Spent(UPD_VC, m, b))' = br_tx[m] + c * k[b]
            BY SMTT(120), <1>6, <1>10, <2>1 DEF Spent, Others, VC, ACK_VC, INV_VC, UPD_VC
        <3>8. Covers(m, k, a - 1)'
            BY <1>1, <1>10, <3>4, <3>5, <3>6, <3>7 DEF Covers
        <3>. QED
            BY <3>8
    <2>2. CASE vc # ACK_VC
        <3>. DEFINE l == [k EXCEPT ![r] = k[r] - 1]
        <3>1. /\ Spent(INV_VC, m, r) \in Nat /\ Spent(UPD_VC, m, r) \in Nat
              /\ vc = INV_VC \/ vc = UPD_VC
              /\ INV_VC # UPD_VC
            BY SMTT(120), <2>2, SpentType DEF VC, INV_VC, UPD_VC
        <3>2. (Spent(INV_VC, m, r) + Spent(UPD_VC, m, r))'
                = Spent(INV_VC, m, r) + Spent(UPD_VC, m, r) - c
            <4>1. CASE vc = INV_VC
                <5>1. Spent(UPD_VC, m, r)' = Spent(UPD_VC, m, r)
                    BY <1>2, <1>6, <3>1, <4>1 DEF Spent, VC
                <5>. QED
                    BY SMTT(120), <1>2, <1>7, <3>1, <4>1, <5>1
            <4>2. CASE vc = UPD_VC
                <5>1. Spent(INV_VC, m, r)' = Spent(INV_VC, m, r)
                    BY <1>2, <1>6, <3>1, <4>2 DEF Spent, VC
                <5>. QED
                    BY <1>2, <1>7, <3>1, <4>2, <5>1
            <4>. QED
                BY <3>1, <4>1, <4>2
        <3>3. k[r] \in Nat
            BY <1>10
        <3>4. 1 <= k[r]
            <4>1. c * 1 <= br_tx[m] + c * k[r]
                BY SMTT(120), <1>2, <1>8, <1>10, <3>1
            <4>. QED
                BY <1>2, <1>3, <3>3, <4>1, WholeMessages
        <3>5. /\ l \in [S -> Nat] /\ l[r] = k[r] - 1
              /\ \A b \in S \ {r} : k[b] = l[b]
              /\ \A b \in S : k[b] \in Nat /\ l[b] \in Nat
            BY SMTT(120), <1>10, <3>3, <3>4
        <3>6. c * (k[r] - 1) = c * k[r] - c /\ c * k[r] \in Nat
            BY SMTT(120), <1>2, <3>3
        <3>. HIDE DEF l
        <3>7. ASSUME NEW b \in S
              PROVE  (Spent(INV_VC, m, b) + Spent(UPD_VC, m, b))' = br_tx[m] + c * l[b]
            <4>1. CASE b = r
                <5>1. Spent(INV_VC, m, r) + Spent(UPD_VC, m, r) = br_tx[m] + c * k[r]
                    BY <1>10
                <5>2. c * l[b] = c * k[r] - c
                    BY <3>5, <3>6, <4>1
                <5>3. (Spent(INV_VC, m, b) + Spent(UPD_VC, m, b))'
                        = (Spent(INV_VC, m, r) + Spent(UPD_VC, m, r))'
                    BY <4>1 DEF Spent
                <5>. QED
                    BY SMTT(120), <1>2, <1>3, <3>1, <3>2, <3>6, <5>1, <5>2, <5>3
            <4>2. CASE b # r
                <5>1. /\ Spent(INV_VC, m, b)' = Spent(INV_VC, m, b)
                      /\ Spent(UPD_VC, m, b)' = Spent(UPD_VC, m, b)
                    BY <1>6, <4>2 DEF Spent, Others, VC
                <5>. QED
                    BY <1>10, <3>5, <4>2, <5>1
            <4>. QED
                BY <4>1, <4>2
        <3>8. SumFunctionOnSet(l, S) + k[r] = SumFunctionOnSet(k, S) + l[r]
            BY SMTT(120), <1>4, <3>5, SumChange
        <3>9. SumFunctionOnSet(l, S) \in Nat
            BY <1>4, <3>5, SumSplit
        <3>10. credit_recvs'[m] = SumFunctionOnSet(l, S) + a
            BY SMTT(120), <1>3, <1>10, <1>11, <3>3, <3>5, <3>8, <3>9
        <3>11. AcksSpent(m)' = AcksSpent(m)
            BY <1>6, <2>2 DEF AcksSpent, Spent, Others, VC
        <3>12. Covers(m, l, a)'
            BY <1>1, <1>10, <3>5, <3>7, <3>10, <3>11 DEF Covers
        <3>. QED
            BY <3>12
    <2>. QED
        BY <2>1, <2>2
<1>13. \A v \in VC, n \in Machine, b \in Machine : n # m => credits'[v][n][b] = credits[v][n][b]
    BY <1>6
<1>14. \A n \in Machine : n # m => /\ br_tx'[n] = br_tx[n]
                                   /\ sent_ack_tx'[n] = sent_ack_tx[n]
                                   /\ credit_recvs'[n] = credit_recvs[n]
    BY <1>1, <1>2 DEF SendCountersOK
<1>. QED
    BY <1>2, <1>5, <1>12, <1>13, <1>14, OthersCovered

\* A step that neither sends nor polls credits keeps every machine covered.
LEMMA SameCovers ==
    ASSUME CreditReceivesAccounted, UNCHANGED <<credits, br_tx, sent_ack_tx, credit_recvs>>
    PROVE  CreditReceivesAccounted'
<1>1. ASSUME NEW n \in Machine
      PROVE  \E k, a : Covers(n, k, a)'
    <2>1. PICK k, a : Covers(n, k, a)
        BY DEF CreditReceivesAccounted
    <2>2. Covers(n, k, a)'
        BY <2>1, SameCover
    <2>. QED
        BY <2>2
<1>. QED
    BY <1>1 DEF CreditReceivesAccounted, SendCountersOK

\* Credit receives keep up with the credits that are out, whatever is sent when.
LEMMA CoverInvariance == Spec => []CreditReceivesAccounted
<1>1. Init => CreditReceivesAccounted
    <2>. SUFFICES ASSUME Init PROVE CreditReceivesAccounted
        OBVIOUS
    <2>1. SendCountersOK
        BY SMTT(120), MessageSize DEF Init, SendCountersOK
    <2>2. ASSUME NEW m \in Machine
          PROVE  \E k, a : Covers(m, k, a)
        <3>. DEFINE zero == [r \in Others(m) |-> 0]
        <3>1. zero \in [Others(m) -> Nat] /\ \A r \in Others(m) : zero[r] = 0
            OBVIOUS
        <3>2. \A vc \in VC : \A r \in Others(m) : Spent(vc, m, r) = 0
            BY SMTT(120), MessageSize DEF Init, PerChannel, Spent, Others
        <3>3. \A r \in Others(m) : AcksSpent(m)[r] = 0
            BY <3>2 DEF AcksSpent, VC
        <3>. HIDE DEF zero
        <3>4. /\ SumFunctionOnSet(AcksSpent(m), Others(m)) = 0
              /\ SumFunctionOnSet(zero, Others(m)) = 0
            BY SMTT(120), <3>1, <3>3, SumZero, OthersFinite
        <3>5. /\ br_tx[m] = 0 /\ sent_ack_tx[m] = 0 /\ credit_recvs[m] = 0
              /\ CREDITS_IN_MESSAGE * 0 = 0
            BY SMTT(120), MessageSize DEF Init
        <3>6. Covers(m, zero, 0)
            BY SMTT(120), <3>1, <3>2, <3>4, <3>5, MessageSize DEF Covers, VC
        <3>. QED
            BY <3>6
    <2>. QED
        BY <2>1, <2>2 DEF CreditReceivesAccounted
<1>2. CreditReceivesAccounted /\ IInv /\ IInv' /\ [Next]_vars => CreditReceivesAccounted'
    <2>. SUFFICES ASSUME CreditReceivesAccounted, IInv, IInv', [Next]_vars
                  PROVE  CreditReceivesAccounted'
        OBVIOUS
    <2>1. CASE UNCHANGED vars
        BY <2>1, SameCovers DEF vars
    <2>2. ASSUME NEW m \in Machine, HotWrite(m) PROVE CreditReceivesAccounted'
        BY <2>2, SameCovers DEF HotWrite
    <2>3. ASSUME NEW m \in Machine, BroadcastInv(m) PROVE CreditReceivesAccounted'
        BY <2>3, BroadcastCovers DEF BroadcastInv
    <2>4. ASSUME NEW m \in Machine, NEW r \in Others(m), Exchange(m, r)
          PROVE  CreditReceivesAccounted'
        <3>1. CASE BroadcastUpd(m, r)
            BY <3>1, BroadcastCovers DEF BroadcastUpd
        <3>2. CASE SendAck(m, r)
            BY <3>2, SendAckCovers
        <3>3. CASE PollUpd(m, r)
            BY <3>3, SameCovers DEF PollUpd
        <3>4. CASE PollAck(m, r)
            BY <3>4, SameCovers DEF PollAck
        <3>5. CASE PollInv(m, r)
            BY <3>5, SameCovers DEF PollInv
        <3>6. CASE \E vc \in VC : PollCredits(vc, m, r)
            BY <3>6, PollCreditsCovers
        <3>. QED
            BY <2>4, <3>1, <3>2, <3>3, <3>4, <3>5, <3>6 DEF Exchange
    <2>. QED
        BY <2>1, <2>2, <2>3, <2>4 DEF Next
<1>. QED
    BY <1>1, <1>2, Invariance, PTL DEF Spec

\* The receives that cover what has been spent are enough for the credit messages on
\* their way, each of which returns CREDITS_IN_MESSAGE of it.
LEMMA EnoughCreditReceives ==
    ASSUME IInv, CreditReceivesAccounted, NEW m \in Machine
    PROVE  credit_recvs[m] \in Nat /\ Arriving(credit_msgs, m) <= credit_recvs[m]
<1>. DEFINE c == CREDITS_IN_MESSAGE
            S == Others(m)
            acks == [r \in S |-> credit_msgs[ACK_VC][r][m]]
            rest == [r \in S |-> credit_msgs[INV_VC][r][m] + credit_msgs[UPD_VC][r][m]]
            all == [r \in S |-> credit_msgs[ACK_VC][r][m] + credit_msgs[INV_VC][r][m]
                                    + credit_msgs[UPD_VC][r][m]]
            due == [r \in S |-> c * acks[r]]
            spent == AcksSpent(m)
<1>1. IsFiniteSet(S) /\ c \in Nat \ {0} /\ CountersOK
    BY OthersFinite, MessageSize DEF IInv
<1>2. PICK k, a : Covers(m, k, a)
    BY DEF CreditReceivesAccounted
<1>3. /\ k \in [S -> Nat] /\ a \in Nat
      /\ \A b \in S : Spent(INV_VC, m, b) + Spent(UPD_VC, m, b) = br_tx[m] + c * k[b]
      /\ SumFunctionOnSet(spent, S) = sent_ack_tx[m] + c * a
      /\ credit_recvs[m] = SumFunctionOnSet(k, S) + a
    BY <1>2 DEF Covers
<1>4. br_tx[m] \in 0..(c - 1) /\ sent_ack_tx[m] \in 0..(c - 1)
    BY DEF CreditReceivesAccounted, SendCountersOK
<1>5. ASSUME NEW r \in S, NEW vc \in VC
      PROVE  /\ credit_msgs[vc][r][m] \in Nat
             /\ Spent(vc, m, r) \in Nat
             /\ c * credit_msgs[vc][r][m] \in Nat
             /\ c * credit_msgs[vc][r][m] <= Spent(vc, m, r)
    <2>1. credit_msgs[vc][r][m] \in Nat
        BY SMTT(120), <1>1 DEF CountersOK, Counter, Others
    <2>2. Spent(vc, m, r) \in Nat /\ Spent(vc, m, r) = Outstanding(vc, m, r)
        BY SpentType
    <2>3. credit_msgs[vc][r][m] * c <= Outstanding(vc, m, r)
        BY SpentIsOutstanding
    <2>4. credit_msgs[vc][r][m] * c = c * credit_msgs[vc][r][m] /\ c * credit_msgs[vc][r][m] \in Nat
        BY SMTT(120), <1>1, <2>1
    <2>. QED
        BY <2>1, <2>2, <2>3, <2>4
<1>6. ACK_VC \in VC /\ INV_VC \in VC /\ UPD_VC \in VC
    BY DEF VC
<1>7. ASSUME NEW r \in S
      PROVE  rest[r] \in Nat /\ k[r] \in Nat /\ rest[r] <= k[r]
    <2>. DEFINE i == credit_msgs[INV_VC][r][m]
                u == credit_msgs[UPD_VC][r][m]
    <2>1. /\ i \in Nat /\ u \in Nat /\ c * i \in Nat /\ c * u \in Nat
          /\ c * i <= Spent(INV_VC, m, r) /\ c * u <= Spent(UPD_VC, m, r)
          /\ Spent(INV_VC, m, r) \in Nat /\ Spent(UPD_VC, m, r) \in Nat
        BY <1>5, <1>6
    <2>2. k[r] \in Nat /\ c * k[r] \in Nat
        BY SMTT(120), <1>1, <1>3
    <2>3. c * (i + u) = c * i + c * u
        BY <1>1, <2>1, Distribute
    <2>4. c * (i + u) <= br_tx[m] + c * k[r]
        BY SMTT(120), <1>3, <2>1, <2>3
    <2>5. i + u \in Nat
        BY SMTT(120), <2>1
    <2>6. i + u <= k[r]
        BY <1>1, <1>4, <2>2, <2>4, <2>5, WholeMessages
    <2>. QED
        BY <2>2, <2>5, <2>6
<1>8. \A r \in S : /\ acks[r] \in Nat /\ due[r] = c * acks[r] /\ due[r] \in Nat
                   /\ spent[r] \in Nat /\ due[r] <= spent[r]
    BY <1>5, <1>6 DEF AcksSpent
<1>9. \A r \in S : acks[r] \in Nat /\ rest[r] \in Nat /\ all[r] = acks[r] + rest[r]
    BY SMTT(120), <1>5, <1>6
<1>10. Arriving(credit_msgs, m) = SumFunctionOnSet(all, S)
    BY DEF Arriving
<1>. HIDE DEF S, acks, rest, all, due, spent, c
<1>11. SumFunctionOnSet(all, S) = SumFunctionOnSet(acks, S) + SumFunctionOnSet(rest, S)
    BY SMTT(120), <1>1, <1>9, SumPlus
<1>12. SumFunctionOnSet(rest, S) <= SumFunctionOnSet(k, S)
    BY <1>1, <1>7, SumMonotone
<1>13. SumFunctionOnSet(due, S) = c * SumFunctionOnSet(acks, S)
    BY SMTT(120), <1>1, <1>8, SumScaled
<1>14. SumFunctionOnSet(due, S) <= SumFunctionOnSet(spent, S)
    BY <1>1, <1>8, SumMonotone
<1>15. /\ SumFunctionOnSet(acks, S) \in Nat /\ SumFunctionOnSet(rest, S) \in Nat
       /\ SumFunctionOnSet(k, S) \in Nat
    BY <1>1, <1>3, <1>7, <1>9, SumSplit
<1>16. SumFunctionOnSet(acks, S) <= a
    <2>1. c * SumFunctionOnSet(acks, S) <= sent_ack_tx[m] + c * a
        BY <1>3, <1>13, <1>14
    <2>. QED
        BY <1>1, <1>3, <1>4, <1>15, <2>1, WholeMessages
<1>. QED
    BY SMTT(120), <1>3, <1>10, <1>11, <1>12, <1>15, <1>16

\* A credit message never arrives where no receive is posted for it.
THEOREM CreditReceivesAlwaysSuffice == Spec => []CreditReceivesSuffice
<1>1. IInv /\ CreditReceivesAccounted => CreditReceivesSuffice
    BY EnoughCreditReceives DEF CreditReceivesSuffice
<1>. QED
    BY <1>1, Invariance, CoverInvariance, PTL

\* The counters that no account speaks of: a client's own entry of a credits row is left
\* alone, and a batch never marks more hot writes than it holds.
RestOK ==
    /\ \A vc \in VC, m \in Machine : credits[vc][m][m] = CREDITS_FOR_EACH_CLIENT
    /\ hot_writes \in [Machine -> 0..CACHE_BATCH_SIZE]

\* They stay so.
LEMMA RestInvariance == Spec => []RestOK
<1>1. Init => RestOK
    BY SMTT(120), SizeAssumption DEF Init, PerChannel, RestOK
<1>2. RestOK /\ IInv /\ [Next]_vars => RestOK'
    <2>. SUFFICES ASSUME RestOK, IInv, [Next]_vars PROVE RestOK'
        OBVIOUS
    <2>1. credits \in Counter /\ CACHE_BATCH_SIZE \in Nat
        BY SizeAssumption DEF IInv, CountersOK
    <2>2. CASE UNCHANGED <<credits, hot_writes>>
        BY <2>2 DEF RestOK
    <2>3. ASSUME NEW m \in Machine, HotWrite(m) PROVE RestOK'
        <3>1. /\ hot_writes[m] < CACHE_BATCH_SIZE
              /\ hot_writes' = [hot_writes EXCEPT ![m] = hot_writes[m] + 1]
              /\ credits' = credits
            BY <2>3 DEF HotWrite
        <3>. QED
            BY SMTT(120), <2>1, <3>1 DEF RestOK
    <2>4. ASSUME NEW vc \in VC, NEW m \in Machine, Broadcast(vc, m)
          PROVE  \A v \in VC, n \in Machine : credits'[v][n][n] = CREDITS_FOR_EACH_CLIENT
        BY <2>1, <2>4 DEF Broadcast, RestOK, Counter
    <2>5. ASSUME NEW m \in Machine, BroadcastInv(m) PROVE RestOK'
        <3>1. /\ hot_writes[m] > 0
              /\ hot_writes' = [hot_writes EXCEPT ![m] = hot_writes[m] - 1]
              /\ Broadcast(INV_VC, m)
            BY <2>5 DEF BroadcastInv
        <3>2. hot_writes' \in [Machine -> 0..CACHE_BATCH_SIZE]
            BY SMTT(120), <2>1, <3>1 DEF RestOK
        <3>. QED
            BY <2>4, <3>1, <3>2 DEF RestOK, VC
    <2>6. ASSUME NEW m \in Machine, NEW r \in Others(m), Exchange(m, r) PROVE RestOK'
        <3>0. r \in Machine /\ r # m
            BY DEF Others
        <3>1. CASE BroadcastUpd(m, r)
            <4>1. Broadcast(UPD_VC, m) /\ hot_writes' = hot_writes
                BY <3>1 DEF BroadcastUpd
            <4>. QED
                BY <2>4, <4>1 DEF RestOK, VC
        <3>2. CASE SendAck(m, r)
            <4>1. /\ credits' = [credits EXCEPT ![ACK_VC][m][r] = credits[ACK_VC][m][r] - 1]
                  /\ hot_writes' = hot_writes
                BY <3>2 DEF SendAck
            <4>2. \A v \in VC, n \in Machine : credits'[v][n][n] = credits[v][n][n]
                BY <2>1, <3>0, <4>1 DEF Counter
            <4>. QED
                BY <4>1, <4>2 DEF RestOK
        <3>3. CASE PollUpd(m, r) \/ PollAck(m, r) \/ PollInv(m, r)
            BY <2>2, <3>3 DEF PollUpd, PollAck, PollInv
        <3>4. ASSUME NEW vc \in VC, PollCredits(vc, m, r) PROVE RestOK'
            <4>1. /\ credits' = [credits EXCEPT ![vc][m][r] =
                                    credits[vc][m][r] + CREDITS_IN_MESSAGE]
                  /\ hot_writes' = hot_writes
                BY <3>4 DEF PollCredits
            <4>2. \A v \in VC, n \in Machine : credits'[v][n][n] = credits[v][n][n]
                BY <2>1, <3>0, <4>1 DEF Counter
            <4>. QED
                BY SMTT(120), <4>1, <4>2 DEF RestOK
        <3>. QED
            BY <2>6, <3>1, <3>2, <3>3, <3>4 DEF Exchange
    <2>. QED
        BY <2>2, <2>3, <2>5, <2>6 DEF Next, vars
<1>. QED
    BY <1>1, <1>2, Invariance, PTL DEF Spec

\* What is at most a byte is a byte.
LEMMA AtMostByte ==
    ASSUME NEW x \in Nat, NEW y \in 0..255, x <= y
    PROVE  x \in 0..255
BY SMTT(120)

\* Every counter stays within its type: no credit counter leaves its uint8_t, and no
\* count of receives becomes negative.
THEOREM TypeCorrect == Spec => []TypeOK
<1>1. IInv /\ PostedAccounted /\ CreditReceivesAccounted /\ RestOK => TypeOK
    <2>. SUFFICES ASSUME IInv, PostedAccounted, CreditReceivesAccounted, RestOK
                  PROVE  TypeOK
        OBVIOUS
    <2>1. posted \in [Machine -> Nat]
        BY EnoughPosted DEF PostedAccounted
    <2>2. credit_recvs \in [Machine -> Nat]
        BY EnoughCreditReceives DEF CreditReceivesAccounted, SendCountersOK
    <2>3. credits \in [VC -> [Machine -> [Machine -> 0..255]]]
        <3>1. CREDITS_FOR_EACH_CLIENT \in 0..255
            BY SMTT(120), SizeAssumption
        <3>2. ASSUME NEW vc \in VC, NEW m \in Machine, NEW r \in Machine
              PROVE  credits[vc][m][r] \in 0..255
            <4>1. CASE r = m
                BY <3>1, <4>1 DEF RestOK
            <4>2. CASE r # m
                <5>1. r \in Others(m)
                    BY <4>2 DEF Others
                <5>2. credits[vc][m][r] \in Nat /\ Outstanding(vc, m, r) \in Nat
                      /\ CREDITS_FOR_EACH_CLIENT - credits[vc][m][r] = Outstanding(vc, m, r)
                    BY <5>1, SpentIsOutstanding
                <5>3. credits[vc][m][r] <= CREDITS_FOR_EACH_CLIENT
                    BY SMTT(120), <5>2, MessageSize
                <5>. QED
                    BY <3>1, <5>2, <5>3, AtMostByte
            <4>. QED
                BY <4>1, <4>2
        <3>. QED
            BY SMTT(120), <3>2 DEF IInv, CountersOK, Counter
    <2>. QED
        BY <2>1, <2>2, <2>3
           DEF TypeOK, IInv, CountersOK, Counter, CreditReceivesAccounted, SendCountersOK, RestOK
<1>. QED
    BY <1>1, Invariance, PostedInvariance, CoverInvariance, RestInvariance, PTL
=============================================================================
