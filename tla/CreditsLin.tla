----------------------------- MODULE CreditsLin -----------------------------
(***************************************************************************)
(* Flow control of the linearizable (LIN) client: the credits that stop    *)
(* invalidations (INV), acknowledgements (ACK) and updates (UPD) from      *)
(* overrunning the receives their destination has posted.  Every kind of   *)
(* message is a virtual channel with CREDITS_FOR_EACH_CLIENT credits for   *)
(* each destination.  The receiver gives credits back in one message for   *)
(* every CREDITS_IN_MESSAGE slots it has emptied.  An INV holds its slot   *)
(* until its ACK leaves, and the last ACK of a write until the UPD leaves. *)
(*                                                                         *)
(* One client thread per machine; thread i of every machine talks only to  *)
(* thread i of the others.  An action is one message through a stage of    *)
(* the loop of run_client.  Whether an INV succeeds and which ACK is the   *)
(* last one is what CacheLin is about, and is left open here.  Messages in *)
(* flight are counted, not ordered.  A machine's own entry of a credits    *)
(* row is never read, and left alone.                                      *)
(***************************************************************************)
EXTENDS Naturals, FiniteSets, Functions

CONSTANTS
    Machine,
    Writer,                     \* machines whose clients issue hot writes
    CREDITS_FOR_EACH_CLIENT,
    LIN_CREDIT_DIVIDER,
    BCAST_TO_CACHE_BATCH,       \* slots of inv_to_send_ops and of ack_bcast_ops
    CACHE_BATCH_SIZE            \* operations of a batch, any of them a hot write

CREDITS_IN_MESSAGE == CREDITS_FOR_EACH_CLIENT \div LIN_CREDIT_DIVIDER

ASSUME MachineAssumption == IsFiniteSet(Machine) /\ Cardinality(Machine) > 1

ASSUME WriterAssumption == Writer \subseteq Machine

ASSUME SizeAssumption ==
    /\ CREDITS_FOR_EACH_CLIENT \in 1..255
    /\ LIN_CREDIT_DIVIDER \in 1..CREDITS_FOR_EACH_CLIENT
    /\ CREDITS_IN_MESSAGE \in 1..CREDITS_FOR_EACH_CLIENT
    /\ CACHE_BATCH_SIZE \in Nat
    /\ BCAST_TO_CACHE_BATCH \in Nat
    /\ BCAST_TO_CACHE_BATCH > (Cardinality(Machine) - 1) * CREDITS_FOR_EACH_CLIENT

ACK_VC == 0
INV_VC == 1
UPD_VC == 2

VC == {ACK_VC, INV_VC, UPD_VC}

Others(m) == Machine \ {m}

MACHINE_NUM == Cardinality(Machine)

LIN_CLT_BUF_SLOTS == (MACHINE_NUM - 1) * 3 * CREDITS_FOR_EACH_CLIENT

VARIABLES
    credits,        \* [vc][m][r]: messages m may still send to r
    in_flight,      \* [vc][m][r]: messages of m that r has not polled
    seen,           \* [vc][m][r]: slots m has emptied of r's messages since its last credit message
    credit_msgs,    \* [vc][m][r]: credit messages of m that r has not polled
    hot_writes,     \* [m]: operations of the batch marked CACHE_OP_BRC
    inv_to_send,    \* [m][r]: INVs of r that succeeded and wait for their ACK
    ack_bcast,      \* [m][r]: writes that wait for their UPD, completed by an ACK of r
    posted,         \* [m]: receives posted for coherence messages and not yet polled
    credit_recvs,   \* [m]: receives posted for credit messages and not yet polled
    br_tx,          \* [m]: broadcasts sent, modulo CREDITS_IN_MESSAGE
    sent_ack_tx     \* [m]: ACKs sent, modulo CREDITS_IN_MESSAGE

vars == <<credits, in_flight, seen, credit_msgs, hot_writes, inv_to_send, ack_bcast,
          posted, credit_recvs, br_tx, sent_ack_tx>>

-----------------------------------------------------------------------------

PerChannel(n) == [vc \in VC |-> [m \in Machine |-> [r \in Machine |-> n]]]

\* setup_credits and post_coh_recvs; no receive for a credit is posted in advance.
Init ==
    /\ credits = PerChannel(CREDITS_FOR_EACH_CLIENT)
    /\ in_flight = PerChannel(0)
    /\ seen = PerChannel(0)
    /\ credit_msgs = PerChannel(0)
    /\ hot_writes = [m \in Machine |-> 0]
    /\ inv_to_send = [m \in Machine |-> [r \in Machine |-> 0]]
    /\ ack_bcast = [m \in Machine |-> [r \in Machine |-> 0]]
    /\ posted = [m \in Machine |-> LIN_CLT_BUF_SLOTS]
    /\ credit_recvs = [m \in Machine |-> 0]
    /\ br_tx = [m \in Machine |-> 0]
    /\ sent_ack_tx = [m \in Machine |-> 0]

\* The slots occupied by INVs that wait for their ACK, and by writes that wait for their UPD.
inv_size(m) == SumFunctionOnSet(inv_to_send[m], Others(m))
ack_size(m) == SumFunctionOnSet(ack_bcast[m], Others(m))

\* check_broadcast_credits: a broadcast needs a credit of every other machine.
HasBroadcastCredits(m, vc) == \A r \in Others(m) : credits[vc][m][r] > 0

\* Some stage of m is short of credits, and polls for credit messages.
PollsForCredits(m) ==
    \/ hot_writes[m] > 0 /\ ~ HasBroadcastCredits(m, INV_VC)
    \/ ack_size(m) > 0 /\ ~ HasBroadcastCredits(m, UPD_VC)
    \/ \E r \in Others(m) : inv_to_send[m][r] > 0 /\ credits[ACK_VC][m][r] = 0

\* poll_coherence_LIN takes a message of r out of the buffer of m.
TakeMessage(vc, m, r) ==
    /\ in_flight[vc][r][m] > 0
    /\ in_flight' = [in_flight EXCEPT ![vc][r][m] = @ - 1]

\* Variant: the slot is compared before it is counted.
FillsOneLate(vc, m, r) == seen[vc][m][r] = CREDITS_IN_MESSAGE

\* The slot that fills a credit message.
FillsMessage(vc, m, r) == seen[vc][m][r] + 1 = CREDITS_IN_MESSAGE

\* Variant: the count of emptied slots goes on after a credit message.
CountWithoutReset(vc, m, r) ==
    /\ seen' = [seen EXCEPT ![vc][m][r] = @ + 1]
    /\ IF FillsMessage(vc, m, r)
       THEN credit_msgs' = [credit_msgs EXCEPT ![vc][m][r] = @ + 1]
       ELSE UNCHANGED credit_msgs

\* forge_credits_LIN and send_credits for a slot m has emptied of a message of r:
\* the receives are posted before the credits are sent.
Count(vc, m, r) ==
    IF FillsMessage(vc, m, r)
    THEN /\ seen' = [seen EXCEPT ![vc][m][r] = 0]
         /\ credit_msgs' = [credit_msgs EXCEPT ![vc][m][r] = @ + 1]
    ELSE /\ seen' = [seen EXCEPT ![vc][m][r] = @ + 1]
         /\ UNCHANGED credit_msgs

Reposts(vc, m, r) == IF FillsMessage(vc, m, r) THEN CREDITS_IN_MESSAGE ELSE 0

-----------------------------------------------------------------------------

\* A hot write of the batch succeeds in the cache and is marked for broadcasting.
HotWrite(m) ==
    /\ m \in Writer
    /\ hot_writes[m] < CACHE_BATCH_SIZE
    /\ hot_writes' = [hot_writes EXCEPT ![m] = @ + 1]
    /\ UNCHANGED <<credits, in_flight, seen, credit_msgs, inv_to_send, ack_bcast,
                   posted, credit_recvs, br_tx, sent_ack_tx>>

\* The credits a broadcast takes and the messages it sends; a credit receive per
\* destination is posted ahead of every CREDITS_IN_MESSAGE-th broadcast.
Broadcast(vc, m) ==
    /\ HasBroadcastCredits(m, vc)
    /\ credits' = [credits EXCEPT ![vc][m] =
            [r \in Machine |-> IF r = m THEN @[r] ELSE @[r] - 1]]
    /\ in_flight' = [in_flight EXCEPT ![vc][m] =
            [r \in Machine |-> IF r = m THEN @[r] ELSE @[r] + 1]]
    /\ br_tx' = [br_tx EXCEPT ![m] = (@ + 1) % CREDITS_IN_MESSAGE]
    /\ credit_recvs' = [credit_recvs EXCEPT ![m] =
            IF br_tx'[m] = 0 THEN @ + (MACHINE_NUM - 1) ELSE @]
    /\ UNCHANGED sent_ack_tx

\* perform_broadcasts_LIN for a hot write.
BroadcastInv(m) ==
    /\ hot_writes[m] > 0
    /\ Broadcast(INV_VC, m)
    /\ hot_writes' = [hot_writes EXCEPT ![m] = @ - 1]
    /\ UNCHANGED <<seen, credit_msgs, inv_to_send, ack_bcast, posted>>

\* perform_broadcasts_LIN for a completed write: the slot of its last ACK is emptied.
BroadcastUpd(m, r) ==
    /\ ack_bcast[m][r] > 0
    /\ Broadcast(UPD_VC, m)
    /\ ack_bcast' = [ack_bcast EXCEPT ![m][r] = @ - 1]
    /\ Count(ACK_VC, m, r)
    /\ posted' = [posted EXCEPT ![m] = @ + Reposts(ACK_VC, m, r)]
    /\ UNCHANGED <<hot_writes, inv_to_send>>

\* Variant: ACKs are sent without receives for the credits they bring back.
AckWithoutReceive(m, r) ==
    /\ inv_to_send[m][r] > 0
    /\ credits[ACK_VC][m][r] > 0
    /\ credits' = [credits EXCEPT ![ACK_VC][m][r] = @ - 1]
    /\ in_flight' = [in_flight EXCEPT ![ACK_VC][m][r] = @ + 1]
    /\ inv_to_send' = [inv_to_send EXCEPT ![m][r] = @ - 1]
    /\ Count(INV_VC, m, r)
    /\ posted' = [posted EXCEPT ![m] = @ + Reposts(INV_VC, m, r)]
    /\ UNCHANGED <<hot_writes, ack_bcast, credit_recvs, br_tx, sent_ack_tx>>

\* send_acks for one INV of r: its slot is emptied.
SendAck(m, r) ==
    /\ inv_to_send[m][r] > 0
    /\ credits[ACK_VC][m][r] > 0
    /\ credits' = [credits EXCEPT ![ACK_VC][m][r] = @ - 1]
    /\ in_flight' = [in_flight EXCEPT ![ACK_VC][m][r] = @ + 1]
    /\ inv_to_send' = [inv_to_send EXCEPT ![m][r] = @ - 1]
    /\ sent_ack_tx' = [sent_ack_tx EXCEPT ![m] = (@ + 1) % CREDITS_IN_MESSAGE]
    /\ credit_recvs' = [credit_recvs EXCEPT ![m] =
            IF sent_ack_tx'[m] = 0 THEN @ + 1 ELSE @]
    /\ Count(INV_VC, m, r)
    /\ posted' = [posted EXCEPT ![m] = @ + Reposts(INV_VC, m, r)]
    /\ UNCHANGED <<hot_writes, ack_bcast, br_tx>>

\* A message that is done with once the cache has seen it: a UPD, an ACK that is not
\* the last one, an INV that fails.
Drop(vc, m, r) ==
    /\ Count(vc, m, r)
    /\ posted' = [posted EXCEPT ![m] = (@ - 1) + Reposts(vc, m, r)]
    /\ UNCHANGED <<inv_to_send, ack_bcast>>

\* The back pressure of poll_coherence_LIN: ACKs and UPDs wait when ack_bcast_ops is
\* full, INVs when inv_to_send_ops is full.
PollUpd(m, r) ==
    /\ ack_size(m) # BCAST_TO_CACHE_BATCH
    /\ TakeMessage(UPD_VC, m, r)
    /\ Drop(UPD_VC, m, r)
    /\ UNCHANGED <<credits, hot_writes, credit_recvs, br_tx, sent_ack_tx>>

PollAck(m, r) ==
    /\ ack_size(m) # BCAST_TO_CACHE_BATCH
    /\ TakeMessage(ACK_VC, m, r)
    /\ \/ Drop(ACK_VC, m, r)
       \/ /\ ack_bcast' = [ack_bcast EXCEPT ![m][r] = @ + 1]
          /\ posted' = [posted EXCEPT ![m] = @ - 1]
          /\ UNCHANGED <<seen, credit_msgs, inv_to_send>>
    /\ UNCHANGED <<credits, hot_writes, credit_recvs, br_tx, sent_ack_tx>>

\* Variant: the slot of an INV counts as emptied although its ACK has not been sent.
InvEmptiesAtOnce(m, r) ==
    /\ inv_size(m) # BCAST_TO_CACHE_BATCH
    /\ TakeMessage(INV_VC, m, r)
    /\ inv_to_send' = [inv_to_send EXCEPT ![m][r] = @ + 1]
    /\ Count(INV_VC, m, r)
    /\ posted' = [posted EXCEPT ![m] = (@ - 1) + Reposts(INV_VC, m, r)]
    /\ UNCHANGED <<ack_bcast, credits, hot_writes, credit_recvs, br_tx, sent_ack_tx>>

PollInv(m, r) ==
    /\ inv_size(m) # BCAST_TO_CACHE_BATCH
    /\ TakeMessage(INV_VC, m, r)
    /\ \/ Drop(INV_VC, m, r)
       \/ /\ inv_to_send' = [inv_to_send EXCEPT ![m][r] = @ + 1]
          /\ posted' = [posted EXCEPT ![m] = @ - 1]
          /\ UNCHANGED <<seen, credit_msgs, ack_bcast>>
    /\ UNCHANGED <<credits, hot_writes, credit_recvs, br_tx, sent_ack_tx>>

\* poll_credits and poll_credits_LIN take a credit message of r.
PollCredits(vc, m, r) ==
    /\ PollsForCredits(m)
    /\ credit_msgs[vc][r][m] > 0
    /\ credit_msgs' = [credit_msgs EXCEPT ![vc][r][m] = @ - 1]
    /\ credits' = [credits EXCEPT ![vc][m][r] = @ + CREDITS_IN_MESSAGE]
    /\ credit_recvs' = [credit_recvs EXCEPT ![m] = @ - 1]
    /\ UNCHANGED <<in_flight, seen, hot_writes, inv_to_send, ack_bcast, posted,
                   br_tx, sent_ack_tx>>

\* The stages of an iteration of run_client between two machines.
Exchange(m, r) ==
    \/ BroadcastUpd(m, r)
    \/ SendAck(m, r)
    \/ PollUpd(m, r)
    \/ PollAck(m, r)
    \/ PollInv(m, r)
    \/ \E vc \in VC : PollCredits(vc, m, r)

Next ==
    \E m \in Machine :
        \/ HotWrite(m)
        \/ BroadcastInv(m)
        \/ \E r \in Others(m) : Exchange(m, r)

Spec == Init /\ [][Next]_vars

\* Every stage of run_client is reached in every iteration, and the network delivers.
Fairness ==
    \A m \in Machine :
        /\ WF_vars(BroadcastInv(m))
        /\ WF_vars(\E r \in Others(m) : BroadcastUpd(m, r))
        /\ \A r \in Others(m) :
            /\ WF_vars(SendAck(m, r))
            /\ WF_vars(PollUpd(m, r))
            /\ WF_vars(PollAck(m, r))
            /\ WF_vars(PollInv(m, r))
            /\ \A vc \in VC : WF_vars(PollCredits(vc, m, r))

FairSpec == Spec /\ Fairness

-----------------------------------------------------------------------------

\* The counters are naturals; credits fit the uint8_t they are kept in, and what is
\* emptied but not yet credited stays below a credit message (forge_credits_LIN).
TypeOK ==
    /\ credits \in [VC -> [Machine -> [Machine -> 0..255]]]
    /\ in_flight \in [VC -> [Machine -> [Machine -> Nat]]]
    /\ seen \in [VC -> [Machine -> [Machine -> 0..(CREDITS_IN_MESSAGE - 1)]]]
    /\ credit_msgs \in [VC -> [Machine -> [Machine -> Nat]]]
    /\ hot_writes \in [Machine -> 0..CACHE_BATCH_SIZE]
    /\ inv_to_send \in [Machine -> [Machine -> Nat]]
    /\ ack_bcast \in [Machine -> [Machine -> Nat]]
    /\ posted \in [Machine -> Nat]
    /\ credit_recvs \in [Machine -> Nat]
    /\ br_tx \in [Machine -> 0..(CREDITS_IN_MESSAGE - 1)]
    /\ sent_ack_tx \in [Machine -> 0..(CREDITS_IN_MESSAGE - 1)]

\* The messages of m that occupy a slot of r although r has polled them.
Held(vc, m, r) ==
    CASE vc = ACK_VC -> ack_bcast[r][m]
      [] vc = INV_VC -> inv_to_send[r][m]
      [] vc = UPD_VC -> 0

\* The credits of a channel that are not with the sender.
Outstanding(vc, m, r) ==
    in_flight[vc][m][r] + Held(vc, m, r) + seen[vc][r][m]
        + credit_msgs[vc][r][m] * CREDITS_IN_MESSAGE

\* No credit is ever lost or made up: what the sender may still send, what occupies a
\* slot and what is on its way back add up to CREDITS_FOR_EACH_CLIENT, for every
\* channel and pair of machines (forge_bcast_wrs_LIN, send_acks, forge_credits_LIN).
CreditsConserved ==
    \A vc \in VC, m \in Machine : \A r \in Others(m) :
        credits[vc][m][r] + Outstanding(vc, m, r) = CREDITS_FOR_EACH_CLIENT

\* What is on its way to m from all machines, over all channels of counter.
Arriving(counter, m) ==
    LET From(r) == counter[ACK_VC][r][m] + counter[INV_VC][r][m] + counter[UPD_VC][r][m]
    IN  SumFunctionOnSet([r \in Others(m) |-> From(r)], Others(m))

\* A message never arrives at a machine that has no receive posted for it, where an
\* unreliable datagram would be dropped; and a slot is not posted again before its
\* message has been polled (send_credits posts in ring order whichever slot emptied).
ReceivesSuffice ==
    \A m \in Machine :
        /\ Arriving(in_flight, m) <= posted[m]
        /\ posted[m] <= LIN_CLT_BUF_SLOTS

\* Nor does a credit message arrive where no receive is posted for it, although the
\* receives are counted over all broadcasts and over all ACKs (br_tx, sent_ack_tx) and
\* the credits return for every channel and machine separately.
CreditReceivesSuffice ==
    \A m \in Machine : Arriving(credit_msgs, m) <= credit_recvs[m]

\* inv_to_send_ops and ack_bcast_ops never fill up: the asserts of invs_bookkeeping and
\* updates_and_acks_bookkeeping hold, and the back pressure of poll_coherence_LIN never
\* keeps a UPD behind an INV.
QueuesNeverFull ==
    \A m \in Machine :
        /\ inv_size(m) < BCAST_TO_CACHE_BATCH
        /\ ack_size(m) < BCAST_TO_CACHE_BATCH

\* A stage that is short of credits gets them: INVs, UPDs and ACKs never wait for one
\* another in a circle, though credits return only CREDITS_IN_MESSAGE at a time.
CreditsReturn ==
    \A m \in Machine :
        /\ hot_writes[m] > 0 ~> HasBroadcastCredits(m, INV_VC)
        /\ ack_size(m) > 0 ~> HasBroadcastCredits(m, UPD_VC)
        /\ \A r \in Others(m) : inv_to_send[m][r] > 0 ~> credits[ACK_VC][m][r] > 0

=============================================================================
