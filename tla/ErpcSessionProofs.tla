-------------------------- MODULE ErpcSessionProofs -------------------------
(***************************************************************************)
(* Every step of ErpcSession preserves the invariant of ErpcSessionInv.    *)
(* First lemmas about the operators and what a step that leaves a slot     *)
(* alone keeps; then the steps that only move packets (the two NICs,       *)
(* losses, packets the server sends again), the steps of the server, the   *)
(* steps by which the client sends and asks for the rest of a response,    *)
(* the arrival of responses and new requests.  The theorems follow: for    *)
(* every number of slots, credits and packets, and whatever the network    *)
(* does, the session keeps its invariants and implements RpcService.       *)
(* What the proofs need of cardinalities is one fact, Counting: the steps  *)
(* take it as a hypothesis, and it is proved last, from the library.       *)
(***************************************************************************)
EXTENDS ErpcSessionInv, Integers, TLAPS

\* Zenon is tried first; SMT is named where a leaf needs arithmetic.
USE ZenonT(120)


-----------------------------------------------------------------------------
(* Arithmetic of request and packet numbers.                                  *)

\* Quotient and remainder of a request number by the number of slots: SlotOf is
\* the remainder.
LEMMA Division ==
    ASSUME NEW n \in Nat, NEW W \in Nat \ {0}
    PROVE  /\ n \div W \in Int
           /\ n = W * (n \div W) + (n % W)
           /\ n % W \in 0..(W - 1)
BY SMTT(120)

\* A positive multiple of the number of slots is at least that number.
LEMMA MultipleGrows ==
    ASSUME NEW W \in Nat \ {0}, NEW d \in Int, d >= 1
    PROVE  W * d >= W
BY SMTT(120)

\* A request number is in one slot and one round only: requests of a slot that
\* are less than kSessionReqWindow apart are the same.
LEMMA UniqueQuotient ==
    ASSUME NEW W \in Nat \ {0}, NEW a \in Int, NEW b \in Int,
           NEW x \in 0..(W - 1), NEW y \in 0..(W - 1), W * a + x = W * b + y
    PROVE  a = b
<1>1. W * (a - b) = y - x /\ W * (b - a) = x - y
    BY SMTT(120)
<1>2. ~ (a - b >= 1)
    BY SMTT(120), <1>1, MultipleGrows
<1>3. ~ (b - a >= 1)
    BY SMTT(120), <1>1, MultipleGrows
<1>. QED
    BY SMTT(120), <1>2, <1>3

\* enqueue_request: the next request number of a slot belongs to the slot.
LEMMA NextNumber ==
    ASSUME NEW n \in Nat, NEW W \in Nat \ {0}
    PROVE  (n + W) % W = n % W
<1>. DEFINE q == n \div W
            m == n + W
            q2 == m \div W
<1>1. n = W * q + (n % W) /\ q \in Int /\ n % W \in 0..(W - 1)
    BY Division
<1>2. m = W * q2 + (m % W) /\ q2 \in Int /\ m % W \in 0..(W - 1)
  <2>1. m \in Nat
      BY SMTT(120)
  <2>. HIDE DEF m
  <2>. QED
      BY <2>1, Division
<1>3. m = W * (q + 1) + (n % W)
    BY SMTT(120), <1>1
<1>. HIDE DEF q, q2, m
<1>4. q2 = q + 1
    BY SMTT(120), <1>1, <1>2, <1>3, UniqueQuotient
<1>5. m % W = n % W
    BY SMTT(120), <1>1, <1>2, <1>3, <1>4
<1>. QED
    BY <1>5 DEF m

\* in_wheel: two packets less than kSessionCredits apart have different indices.
LEMMA DistinctIndices ==
    ASSUME NEW i \in Nat, NEW j \in Nat, NEW C \in Nat \ {0},
           i <= j, j < i + C, i % C = j % C
    PROVE  i = j
<1>. DEFINE a == i \div C
            b == j \div C
<1>1. i = C * a + (i % C) /\ j = C * b + (j % C) /\ a \in Int /\ b \in Int
    BY Division
<1>. HIDE DEF a, b
<1>2. C * (b - a) = j - i /\ C * (a - b) = i - j
    BY SMTT(120), <1>1
<1>3. ~ (b - a >= 1)
    BY SMTT(120), <1>1, <1>2, MultipleGrows
<1>4. ~ (a - b >= 1)
    BY SMTT(120), <1>1, <1>2, MultipleGrows
<1>. QED
    BY SMTT(120), <1>1, <1>3, <1>4

\* Sums of counters.
LEMMA Sums ==
    ASSUME NEW a \in Nat, NEW b \in Nat
    PROVE  a + b \in Nat /\ b <= a + b /\ (a = a + b <=> b = 0) /\ a <= a
BY SMTT(120)

\* Packet rx of a slot has arrived and k more are sent: the credits.
CreditsMoved(c, tx, old, rx, k) ==
    /\ c + 1 - k \in Nat /\ c + 1 - k = c + (tx - old) - (tx + k - rx)
    /\ old <= rx /\ rx <= tx /\ tx # old

\* The credits add up when packet old + 1 arrives.
LEMMA CreditsMove ==
    ASSUME NEW c \in Nat, NEW tx \in Nat, NEW old \in Nat, NEW rx, NEW k \in Nat,
           rx = old + 1, old < tx, k <= c + 1
    PROVE  CreditsMoved(c, tx, old, rx, k)
BY SMTT(120) DEF CreditsMoved

\* The last packet of a response: a packets of the request and b of the response.
LEMMA LastPacket ==
    ASSUME NEW a \in Nat \ {0}, NEW b \in Nat \ {0}, NEW i \in Nat, NEW rx \in Nat,
           i + 1 = b, rx = a - 1 + i
    PROVE  a + b - 1 = rx + 1 /\ a + b - 1 \in Nat
BY SMTT(120)

\* A counter between two that are equal.
LEMMA Squeezed ==
    ASSUME NEW a \in Nat, NEW b \in Nat, NEW w, w = a + 1, b <= w, a < b \/ a + 1 <= b
    PROVE  b = a + 1 /\ b = w /\ w \in Nat
BY SMTT(120)

\* Every packet belongs to a slot of the session.
LEMMA SlotOfType ==
    ASSUME NEW p, p.req_num \in Nat
    PROVE  SlotOf(p) \in Slot
BY SessionAssumption, Division DEF SlotOf, Slot

-----------------------------------------------------------------------------
(* Message buffers.                                                           *)

\* copy_data_to_msgbuf: the next piece of a message extends it.
LEMMA CopyNext ==
    ASSUME NEW r, NEW k \in Nat
    PROVE  copy_data_to_msgbuf(Message(r, k), <<k, r>>) = Message(r, k + 1)
BY SMTT(120) DEF copy_data_to_msgbuf, Message

\* A buffer to which every packet of a request's message was copied is read as
\* that request.
LEMMA ContentOfMessage ==
    ASSUME NEW Size \in [Req -> Nat \ {0}], NEW r \in Req
    PROVE  Content(Message(r, Size[r]), Size) = r
<1>1. \A q \in Req : Message(r, Size[r]) = Message(q, Size[q]) => q = r
  <2>. SUFFICES ASSUME NEW q \in Req, Message(r, Size[r]) = Message(q, Size[q])
                PROVE  q = r
      OBVIOUS
  <2>1. <<0, r>> \in Message(r, Size[r])
      BY SMTT(120) DEF Message
  <2>. QED
      BY <2>1 DEF Message
<1>. QED
    BY <1>1 DEF Content

\* The first piece tells how many packets the message of a buffer has.
LEMMA NumPktsOfMessage ==
    ASSUME NEW Size \in [Req -> Nat \ {0}], NEW r \in Req, NEW k \in Nat \ {0}
    PROVE  NumPkts(Message(r, k), Size) = Size[r]
<1>1. <<0, r>> \in Message(r, k)
    BY SMTT(120) DEF Message
<1>2. \A x \in Message(r, k) : x[2] = r
    BY SMTT(120) DEF Message
<1>. DEFINE x == CHOOSE x \in Message(r, k) : x[1] = 0
<1>3. x \in Message(r, k)
    BY <1>1
<1>4. x[2] = r
    BY <1>2, <1>3
<1>. QED
    BY <1>4 DEF NumPkts

\* A message is a set of pieces.
LEMMA MessageType ==
    ASSUME NEW r \in Req, NEW k \in Nat
    PROVE  Message(r, k) \in SUBSET (Nat \X Req)
BY SMTT(120) DEF Message

-----------------------------------------------------------------------------
(* The queues of the session: each member once.                               *)

\* push_back: a new member joins the queue, the backlog or the free slots.
LEMMA QueueAppend ==
    ASSUME NEW T, NEW q \in Seq(T), NEW S, Queues(q, S), NEW x \in T, x \notin S
    PROVE  Queues(Append(q, x), S \cup {x})
<1>. DEFINE z == Append(q, x)
            n == Len(q)
<1>1. /\ n \in Nat
      /\ DOMAIN z = 1..(n + 1)
      /\ DOMAIN q = 1..n
    BY SMTT(120)
<1>2. (\A i \in 1..n : z[i] = q[i]) /\ z[n + 1] = x
    BY SMTT(120)
<1>3. \A i \in DOMAIN z : i \in DOMAIN q \/ i = n + 1
    BY SMTT(120), <1>1
<1>. HIDE DEF z, n
<1>4. {z[i] : i \in DOMAIN z} = S \cup {x}
  <2>1. (\A y \in S : \E i \in DOMAIN q : q[i] = y) /\ \A i \in DOMAIN q : q[i] \in S
      BY DEF Queues
  <2>2. \A y \in S \cup {x} : \E i \in DOMAIN z : z[i] = y
      BY SMTT(120), <2>1, <1>1, <1>2
  <2>3. \A i \in DOMAIN z : z[i] \in S \cup {x}
      BY <2>1, <1>1, <1>2, <1>3
  <2>. QED
      BY <2>2, <2>3
<1>5. \A i, j \in DOMAIN z : z[i] = z[j] => i = j
    BY SMTT(120), <1>1, <1>2, <1>3 DEF Queues
<1>. QED
    BY <1>4, <1>5 DEF Queues, z

\* The stall queue and the backlog are served from the front.
LEMMA QueueTail ==
    ASSUME NEW T, NEW q \in Seq(T), NEW S, Queues(q, S), q # <<>>
    PROVE  Head(q) \in S /\ Queues(Tail(q), S \ {Head(q)})
<1>. DEFINE z == Tail(q)
            h == Head(q)
<1>1. /\ Len(q) \in Nat \ {0}
      /\ DOMAIN z = 1..(Len(q) - 1)
      /\ DOMAIN q = 1..Len(q)
      /\ h = q[1]
    BY SMTT(120)
<1>2. \A i \in DOMAIN z : z[i] = q[i + 1] /\ i + 1 \in DOMAIN q /\ i + 1 # 1
    BY SMTT(120), <1>1
<1>3. \A i \in DOMAIN q : i = 1 \/ (i - 1 \in DOMAIN z /\ z[i - 1] = q[i])
    BY SMTT(120), <1>1, <1>2
<1>. HIDE DEF z, h
<1>4. h \in S /\ 1 \in DOMAIN q
    BY SMTT(120), <1>1 DEF Queues
<1>5. {z[i] : i \in DOMAIN z} = S \ {h}
  <2>1. (\A y \in S : \E i \in DOMAIN q : q[i] = y) /\ \A i \in DOMAIN q : q[i] \in S
      BY DEF Queues
  <2>2. \A y \in S \ {h} : \E i \in DOMAIN z : z[i] = y
      BY <2>1, <1>3, <1>1
  <2>3. \A i \in DOMAIN z : z[i] \in S \ {h}
      BY SMTT(120), <2>1, <1>1, <1>2, <1>4 DEF Queues
  <2>. QED
      BY <2>2, <2>3
<1>6. \A i, j \in DOMAIN z : z[i] = z[j] => i = j
    BY SMTT(120), <1>1, <1>2 DEF Queues
<1>. QED
    BY <1>4, <1>5, <1>6 DEF Queues, z, h

\* A slot is taken from the end of sslot_free_vec.
LEMMA QueueFront ==
    ASSUME NEW T, NEW q \in Seq(T), NEW S, Queues(q, S), q # <<>>
    PROVE  /\ q[Len(q)] \in S
           /\ Queues(SubSeq(q, 1, Len(q) - 1), S \ {q[Len(q)]})
           /\ SubSeq(q, 1, Len(q) - 1) \in Seq(T)
<1>. DEFINE z == SubSeq(q, 1, Len(q) - 1)
            n == Len(q)
<1>1. z \in Seq(T) /\ n \in Nat \ {0} /\ DOMAIN z = 1..(n - 1) /\ DOMAIN q = 1..n
    BY SMTT(120)
<1>2. \A i \in DOMAIN z : z[i] = q[i] /\ i \in DOMAIN q /\ i # n
    BY SMTT(120), <1>1
<1>3. \A i \in DOMAIN q : i = n \/ i \in DOMAIN z
    BY SMTT(120), <1>1
<1>. HIDE DEF z, n
<1>4. q[n] \in S /\ n \in DOMAIN q
    BY SMTT(120), <1>1 DEF Queues
<1>5. {z[i] : i \in DOMAIN z} = S \ {q[n]}
  <2>1. (\A y \in S : \E i \in DOMAIN q : q[i] = y) /\ \A i \in DOMAIN q : q[i] \in S
      BY DEF Queues
  <2>2. \A y \in S \ {q[n]} : \E i \in DOMAIN z : z[i] = y
      BY <2>1, <1>2, <1>3
  <2>3. \A i \in DOMAIN z : z[i] \in S \ {q[n]}
      BY <2>1, <1>2, <1>4 DEF Queues
  <2>. QED
      BY <2>2, <2>3
<1>6. \A i, j \in DOMAIN z : z[i] = z[j] => i = j
    BY <1>2 DEF Queues
<1>. QED
    BY <1>1, <1>4, <1>5, <1>6 DEF Queues, z, n

\* The empty queue holds nothing.
LEMMA QueueEmpty ==
    ASSUME NEW T, NEW q \in Seq(T), NEW S, Queues(q, S)
    PROVE  q = <<>> <=> S = {}
<1>1. q = <<>> => S = {}
    BY SMTT(120) DEF Queues
<1>2. q # <<>> => S # {}
    BY QueueTail
<1>. QED
    BY <1>1, <1>2

-----------------------------------------------------------------------------
(* Counting the packets that are not answered.                                *)

\* A step that changes the counts of one slot changes the number of packets that
\* are not answered by as much: CountingHolds proves it for every Slot.
Counting ==
    \A rx, tx, rx2, tx2 \in [Slot -> Nat] : \A s \in Slot :
        ( /\ rx[s] <= tx[s] /\ rx2[s] <= tx2[s]
          /\ \A x \in Slot \ {s} : rx2[x] = rx[x] /\ tx2[x] = tx[x]
          /\ IsFiniteSet(Between(rx, tx)) )
        => /\ IsFiniteSet(Between(rx2, tx2))
           /\ Cardinality(Between(rx, tx)) \in Nat
           /\ tx[s] - rx[s] <= Cardinality(Between(rx, tx))
           /\ Cardinality(Between(rx2, tx2)) =
                 Cardinality(Between(rx, tx)) - (tx[s] - rx[s]) + (tx2[s] - rx2[s])

\* A step that changes the counts of one slot, by Counting.
LEMMA Recount ==
    ASSUME Counting, NEW rx \in [Slot -> Nat], NEW tx \in [Slot -> Nat],
           NEW rx2 \in [Slot -> Nat], NEW tx2 \in [Slot -> Nat],
           NEW s \in Slot, rx[s] <= tx[s], rx2[s] <= tx2[s],
           \A x \in Slot \ {s} : rx2[x] = rx[x] /\ tx2[x] = tx[x],
           IsFiniteSet(Between(rx, tx))
    PROVE  /\ IsFiniteSet(Between(rx2, tx2))
           /\ Cardinality(Between(rx, tx)) \in Nat
           /\ tx[s] - rx[s] <= Cardinality(Between(rx, tx))
           /\ Cardinality(Between(rx2, tx2)) =
                 Cardinality(Between(rx, tx)) - (tx[s] - rx[s]) + (tx2[s] - rx2[s])
BY SMTT(120) DEF Counting

-----------------------------------------------------------------------------
(* What a step leaves alone.                                                  *)

SameClient(x) ==
    /\ tx_msgbuf'[x] = tx_msgbuf[x]
    /\ cur_req_num'[x] = cur_req_num[x]
    /\ num_tx'[x] = num_tx[x]
    /\ num_rx'[x] = num_rx[x]
    /\ resp_msgbuf'[x] = resp_msgbuf[x]

SameServer(x) ==
    /\ s_cur_req_num'[x] = s_cur_req_num[x]
    /\ s_num_rx'[x] = s_num_rx[x]
    /\ s_req_msgbuf'[x] = s_req_msgbuf[x]
    /\ s_req_type'[x] = s_req_type[x]
    /\ s_tx_msgbuf'[x] = s_tx_msgbuf[x]
    /\ sav_num_req_pkts'[x] = sav_num_req_pkts[x]

\* No handler runs, or it runs for the first time for r0, which is not slot x's.
Elsewhere(x, r0) ==
    /\ \A r \in Req : r # r0 => executed'[r] = executed[r]
    /\ r0 \in Req => executed[r0] = 0 /\ tx_msgbuf[x] # r0

\* A slot that a step leaves alone serves the same request.
LEMMA ServesFrame ==
    ASSUME NEW x \in Slot, SameClient(x), SameServer(x), NEW r0, Elsewhere(x, r0),
           NEW r \in Req
    PROVE  /\ Active(x)' <=> Active(x)
           /\ Received(x)' <=> Received(x)
           /\ Serves(x, r) => Serves(x, r)'
           /\ Responded(x, r) => Responded(x, r)'
<1>1. /\ Active(x)' <=> Active(x)
      /\ Received(x)' <=> Received(x)
    BY DEF SameClient, SameServer, Active, Received
<1>2. Responded(x, r) => Responded(x, r)'
    BY SMTT(120) DEF SameServer, Elsewhere, Responded, wire_pkts
<1>3. Assembling(x, r) /\ tx_msgbuf[x] = r => Assembling(x, r)'
    BY DEF SameServer, Elsewhere, Assembling
<1>4. Pending(x, r) /\ tx_msgbuf[x] = r => Pending(x, r)'
    BY DEF SameServer, Elsewhere, Pending
<1>. QED
    BY <1>1, <1>2, <1>3, <1>4 DEF Serves, SameClient, SameServer, wire_pkts

\* What the invariant says of a slot stays true of a slot that a step leaves
\* alone.
LEMMA SlotFrame ==
    ASSUME NEW x \in Slot, SameClient(x), SameServer(x), NEW r0, Elsewhere(x, r0),
           tx_msgbuf[x] \in Req \cup {NoReq}
    PROVE  /\ NumbersInv(x) => NumbersInv(x)'
           /\ ServerInv(x) => ServerInv(x)'
           /\ ClientInv(x) => ClientInv(x)'
<1>1. /\ Active(x)' <=> Active(x)
      /\ Received(x)' <=> Received(x)
    BY DEF SameClient, SameServer, Active, Received
<1>2. NumbersInv(x) => NumbersInv(x)'
    BY <1>1 DEF NumbersInv, SameClient, SameServer
<1>3. ServerInv(x) => ServerInv(x)'
  <2>1. Fresh(x) => Fresh(x)'
      BY DEF Fresh, SameServer
  <2>2. \A r \in Req : Serves(x, r) => Serves(x, r)'
      BY ServesFrame
  <2>. QED
      BY <2>1, <2>2 DEF ServerInv
<1>4. ClientInv(x) => ClientInv(x)'
  <2>1. Active(x) => tx_msgbuf[x] \in Req
      BY DEF Active
  <2>2. Active(x) /\ Responded(x, tx_msgbuf[x]) => Responded(x, tx_msgbuf[x])'
    <3>1. \A r \in Req : Responded(x, r) => Responded(x, r)'
        BY ServesFrame
    <3>. QED
        BY <2>1, <3>1 DEF SameClient, Responded, wire_pkts
  <2>3. Active(x) /\ Asking(x, tx_msgbuf[x]) => Asking(x, tx_msgbuf[x])'
      BY DEF Asking, SameClient
  <2>4. Active(x) /\ Collecting(x, tx_msgbuf[x]) => Collecting(x, tx_msgbuf[x])'
      BY <1>1, <2>2 DEF Collecting, SameClient, wire_pkts
  <2>. QED
      BY <1>1, <2>3, <2>4 DEF ClientInv, SameClient
<1>. QED
    BY <1>2, <1>3, <1>4

\* A packet keeps its promise while its slot is left alone.
LEMMA PacketFrame ==
    ASSUME NEW p \in Packet, SameClient(SlotOf(p)), SameServer(SlotOf(p)),
           NEW r0, Elsewhere(SlotOf(p), r0), PacketInv(p)
    PROVE  PacketInv(p)'
<1>. DEFINE x == SlotOf(p)
<1>1. x \in Slot /\ SlotOf(p)' = x
    BY SlotOfType DEF Packet, SlotOf
<1>. HIDE DEF x
<1>2. SameClient(x) /\ SameServer(x) /\ Elsewhere(x, r0)
    BY DEF x
<1>3. /\ Active(x)' <=> Active(x)
      /\ Received(x)' <=> Received(x)
      /\ \A r \in Req : Serves(x, r) => Serves(x, r)'
      /\ \A r \in Req : Responded(x, r) => Responded(x, r)'
  <2>1. /\ Active(x)' <=> Active(x)
        /\ Received(x)' <=> Received(x)
      BY <1>2 DEF SameClient, SameServer, Active, Received
  <2>. QED
      BY <1>1, <1>2, <2>1, ServesFrame
<1>4. p.type = "req" => ReqPktInv(p)'
    BY <1>1, <1>2, <1>3 DEF PacketInv, ReqPktInv, SameClient, SameServer, x
<1>5. p.type = "resp" => RespPktInv(p)'
    BY <1>1, <1>2, <1>3 DEF PacketInv, RespPktInv, SameClient, SameServer, x
<1>6. p.type = "cr" => CrInv(p)'
    BY <1>1, <1>2, <1>3 DEF PacketInv, CrInv, SameClient, SameServer, x
<1>7. p.type = "rfr" => RfrInv(p)'
    BY <1>1, <1>2, <1>3 DEF PacketInv, RfrInv, SameClient, SameServer, wire_pkts, x
<1>. QED
    BY <1>4, <1>5, <1>6, <1>7 DEF PacketInv

\* The client's queues, credits and wheel when it does nothing.
LEMMA ClientFrame ==
    ASSUME UNCHANGED <<progress, pacing, queues, credits>>,
           IsFiniteSet(Unanswered), CreditsAccounted, WheelIsCurrent
    PROVE  IsFiniteSet(Unanswered)' /\ CreditsAccounted' /\ WheelIsCurrent'
<1>1. /\ UNCHANGED <<tx_msgbuf, num_tx, num_rx, wheel, in_wheel, sslot_free_vec>>
      /\ UNCHANGED <<enq_req_backlog, stallq, credits>>
    BY DEF progress, pacing, queues
<1>2. Unanswered' = Unanswered
    BY <1>1 DEF Unanswered, Between
<1>3. CreditsAccounted'
    BY SMTT(120), <1>1, <1>2 DEF CreditsAccounted, Queues
<1>4. WheelIsCurrent'
    BY <1>1 DEF WheelIsCurrent
<1>. QED
    BY <1>2, <1>3, <1>4

-----------------------------------------------------------------------------
(* Steps that only move packets, or add packets that are as they should be.   *)

serverSlots ==
    <<s_cur_req_num, s_num_rx, s_req_msgbuf, s_req_type, s_tx_msgbuf,
      sav_num_req_pkts>>

\* Steps that change nothing at one endpoint leave its slots alone.
LEMMA SameSlots ==
    ASSUME NEW x \in Slot
    PROVE  /\ UNCHANGED progress => SameClient(x)
           /\ UNCHANGED serverSlots => SameServer(x)
           /\ UNCHANGED executed => Elsewhere(x, NoReq)
BY ReqAssumption DEF progress, serverSlots, SameClient, SameServer, Elsewhere

\* The histories and the backlog decide RequestsInv.
LEMMA RequestsFrame ==
    ASSUME UNCHANGED <<enq_req_backlog, issued, executed, answer>>, RequestsInv
    PROVE  RequestsInv'
BY DEF RequestsInv, Backlogged, Queues

\* The slots and the histories decide ActiveInv.
LEMMA ActiveFrame ==
    ASSUME UNCHANGED <<progress, serverSlots, enq_req_backlog, issued, executed, answer>>,
           NEW x \in Slot, ActiveInv(x)
    PROVE  ActiveInv(x)'
BY DEF ActiveInv, Active, Received, Backlogged, progress, serverSlots

\* A step that only moves packets, or adds packets that are sound, keeps the
\* invariant: the NICs, losses, credit returns.
LEMMA MovesPackets ==
    ASSUME IInv,
           UNCHANGED <<progress, pacing, queues, credits, serverSlots>>,
           UNCHANGED <<issued, executed, answer>>,
           c_txq' \subseteq c_txq, s_txq' \subseteq s_txq,
           \A p \in net' : p \in Sent \/ (p \in Packet /\ PacketInv(p)),
           \A p \in s_txq' : p \notin net'
    PROVE  IInv'
<1>1. \A p \in Sent' : p \in Packet /\ PacketInv(p)
    BY DEF IInv, PacketsInv, Sent, TypeOK
<1>2. TypeOK'
  <2>1. c_txq' \cup s_txq' \cup net' \subseteq Packet
      BY <1>1 DEF Sent
  <2>. QED
      BY <2>1 DEF IInv, TypeOK, progress, pacing, queues, serverSlots
<1>3. SlotsInv'
  <2>. SUFFICES ASSUME NEW x \in Slot
                PROVE  (NumbersInv(x) /\ ServerInv(x) /\ ClientInv(x) /\ ActiveInv(x))'
      BY DEF SlotsInv
  <2>1. SameClient(x) /\ SameServer(x) /\ Elsewhere(x, NoReq)
      BY SameSlots
  <2>2. NumbersInv(x) /\ ServerInv(x) /\ ClientInv(x) /\ ActiveInv(x)
      BY DEF IInv, SlotsInv
  <2>3. tx_msgbuf[x] \in Req \cup {NoReq}
      BY DEF IInv, TypeOK
  <2>. QED
      BY <2>1, <2>2, <2>3, SlotFrame, ActiveFrame DEF queues
<1>4. RequestsInv'
    BY RequestsFrame DEF IInv, queues
<1>5. IsFiniteSet(Unanswered)' /\ CreditsAccounted' /\ WheelIsCurrent'
    BY ClientFrame DEF IInv
<1>6. PacketsInv'
  <2>1. \A p \in Sent' : PacketInv(p)'
    <3>. SUFFICES ASSUME NEW p \in Sent' PROVE PacketInv(p)'
        OBVIOUS
    <3>1. p \in Packet /\ PacketInv(p) /\ SlotOf(p) \in Slot
        BY <1>1, SlotOfType DEF Packet
    <3>. QED
        BY <3>1, SameSlots, PacketFrame
  <2>2. (\A p \in c_txq' : p.type = "req") /\ (\A p \in s_txq' : p.type = "resp")
      BY DEF IInv, PacketsInv
  <2>. QED
      BY <2>1, <2>2 DEF PacketsInv
<1>7. (\A p \in s_txq : ReleaseInv(p))'
  <2>. SUFFICES ASSUME NEW p \in s_txq' PROVE ReleaseInv(p)'
      OBVIOUS
  <2>1. ReleaseInv(p) /\ p \notin net'
      BY DEF IInv
  <2>2. SlotOf(p)' = SlotOf(p)
      BY DEF SlotOf
  <2>. QED
      BY <2>1, <2>2 DEF ReleaseInv, Received, Active, progress, serverSlots
<1>. QED
    BY <1>2, <1>3, <1>4, <1>5, <1>6, <1>7 DEF IInv

\* The network may lose any packet.
LEMMA LoseStep ==
    ASSUME IInv, NEW p \in net, Lose(p)
    PROVE  IInv'
<1>1. /\ UNCHANGED <<progress, pacing, queues, credits, serverSlots>>
      /\ UNCHANGED <<issued, executed, answer, c_txq, s_txq>>
      /\ net' = net \ {p}
    BY DEF Lose, client, server, serverSlots
<1>2. \A q \in s_txq : q \notin net
    BY DEF IInv, ReleaseInv
<1>. QED
    BY <1>1, <1>2, MovesPackets DEF Sent

\* The server's NIC may send queued packets in any order.
LEMMA ServerNicStep ==
    ASSUME IInv, NEW p \in s_txq, ServerNic(p)
    PROVE  IInv'
<1>1. /\ UNCHANGED <<progress, pacing, queues, credits, serverSlots>>
      /\ UNCHANGED <<issued, executed, answer, c_txq>>
      /\ s_txq' = s_txq \ {p}
      /\ net' = net \cup {p}
    BY DEF ServerNic, client, serverSlots, history
<1>2. \A q \in s_txq : q \notin net
    BY DEF IInv, ReleaseInv
<1>. QED
    BY <1>1, <1>2, MovesPackets DEF Sent

\* A request packet of an active slot, as ReqPkt makes it.
LEMMA ActivePacket ==
    ASSUME IInv, NEW s \in Slot, Active(s), NEW i \in Nat, i < ReqPkts[tx_msgbuf[s]]
    PROVE  /\ ReqPkt(tx_msgbuf[s], cur_req_num[s], i) \in Packet
           /\ PacketInv(ReqPkt(tx_msgbuf[s], cur_req_num[s], i))
<1>. DEFINE r == tx_msgbuf[s]
            n == cur_req_num[s]
            p == ReqPkt(r, n, i)
<1>1. r \in Req /\ n \in Nat
    BY DEF IInv, TypeOK, Active
<1>2. NumbersInv(s) /\ ServerInv(s) /\ ClientInv(s)
    BY DEF IInv, SlotsInv
<1>3. /\ p.type = "req" /\ p.req_num = n /\ p.pkt_num = i /\ p.data = <<i, r>>
      /\ p \in Packet
    BY <1>1 DEF ReqPkt, Pkt, Packet
<1>4. SlotOf(p) = s
    BY <1>2, <1>3 DEF SlotOf, NumbersInv
<1>5. n = s_cur_req_num[s] => Serves(s, r)
  <2>. SUFFICES ASSUME n = s_cur_req_num[s]
                PROVE  Serves(s, r)
      OBVIOUS
  <2>1. ~ Fresh(s)
      BY SMTT(120), <1>1, <1>2, SessionAssumption DEF Fresh, NumbersInv
  <2>2. PICK q \in Req : Serves(s, q)
      BY <1>2, <2>1 DEF ServerInv
  <2>. QED
      BY <2>2 DEF Serves, Received
<1>. HIDE DEF p
<1>6. ReqPktInv(p)
    BY SMTT(120), <1>1, <1>2, <1>3, <1>4, <1>5 DEF ReqPktInv, NumbersInv
<1>7. PacketInv(p)
    BY <1>3, <1>6 DEF PacketInv
<1>. QED
    BY <1>3, <1>7 DEF p

\* The client's NIC may send queued packets in any order, even from a buffer that
\* has been given back and filled again: what it then finds is a packet of an
\* active request.
LEMMA ClientNicStep ==
    ASSUME IInv, NEW p \in c_txq, ClientNic(p)
    PROVE  IInv'
<1>1. /\ UNCHANGED <<progress, pacing, queues, credits, serverSlots, s_txq>>
      /\ UNCHANGED <<issued, executed, answer>>
      /\ c_txq' = c_txq \ {p}
    BY DEF ClientNic, server, serverSlots, history
<1>2. PICK q \in InBuffer(p) : net' = net \cup {q}
    BY DEF ClientNic
<1>3. p \in Packet /\ PacketInv(p)
    BY DEF IInv, TypeOK, PacketsInv, Sent
<1>4. p.pkt_num \in Nat
    BY <1>3 DEF Packet
<1>5. q \in Packet /\ PacketInv(q) /\ q.type = "req"
  <2>1. CASE q = p
      BY <1>3, <2>1 DEF IInv, PacketsInv
  <2>2. CASE q # p
    <3>1. PICK s \in Slot : /\ Active(s)
                            /\ p.pkt_num < ReqPkts[tx_msgbuf[s]]
                            /\ q = ReqPkt(tx_msgbuf[s], cur_req_num[s], p.pkt_num)
        BY <1>2, <2>2 DEF InBuffer, Active
    <3>. QED
        BY <1>4, <3>1, ActivePacket DEF ReqPkt, Pkt
  <2>. QED
      BY <2>1, <2>2
<1>6. \A x \in s_txq : x \notin net /\ x.type = "resp"
    BY DEF IInv, ReleaseInv, PacketsInv
<1>. QED
    BY <1>1, <1>2, <1>5, <1>6, MovesPackets DEF Sent

-----------------------------------------------------------------------------
(* The server answers again.                                                  *)

\* A packet of the slot's response, as Response makes it.
LEMMA ResponsePacket ==
    ASSUME IInv, NEW s \in Slot, NEW r \in Req, Responded(s, r), Serves(s, r),
           NEW i \in Nat, i < RespPkts[r], ReqPkts[r] - 1 + i < s_num_rx[s]
    PROVE  /\ Response(s, i) \in Packet
           /\ PacketInv(Response(s, i))
           /\ Response(s, i).type = "resp"
<1>. DEFINE n == s_cur_req_num[s]
            p == Response(s, i)
<1>1. n \in Nat /\ ReqPkts[r] \in Nat \ {0} /\ NumbersInv(s)
    BY ReqAssumption DEF IInv, TypeOK, SlotsInv
<1>2. p = Pkt("resp", n, ReqPkts[r] - 1 + i, <<i, r>>)
    BY DEF Response, RespPkt, Responded
<1>3. /\ p.type = "resp" /\ p.req_num = n /\ p.data = <<i, r>>
      /\ p.pkt_num = ReqPkts[r] - 1 + i
      /\ p \in Packet
    BY SMTT(120), <1>1, <1>2 DEF Pkt, Packet
<1>4. SlotOf(p) = s
    BY <1>1, <1>3 DEF SlotOf, NumbersInv
<1>. HIDE DEF p
<1>5. RespPktInv(p)
    BY SMTT(120), <1>1, <1>3, <1>4 DEF RespPktInv
<1>. QED
    BY <1>3, <1>5 DEF PacketInv, p

\* A response packet may be sent again as long as the slot has its response.
LEMMA ResendStep ==
    ASSUME IInv, NEW s \in Slot, NEW r \in Req, Responded(s, r), Serves(s, r),
           NEW i \in Nat, i < RespPkts[r], ReqPkts[r] - 1 + i < s_num_rx[s],
           Resend(s, i)
    PROVE  IInv'
<1>1. /\ UNCHANGED <<progress, pacing, queues, credits, serverSlots, c_txq>>
      /\ UNCHANGED <<issued, executed, answer>>
      /\ s_txq' = {}
      /\ net' = net \cup s_txq \cup {Response(s, i)}
    BY DEF Resend, client, serverSlots, history
<1>2. Response(s, i) \in Packet /\ PacketInv(Response(s, i))
    BY ResponsePacket
<1>. QED
    BY <1>1, <1>2, MovesPackets DEF Sent

\* The past packet of a large request: its credit is returned again.
LEMMA CreditReturnAgain ==
    ASSUME IInv, NEW p \in net, p.type = "req", p.req_num = s_cur_req_num[SlotOf(p)],
           p.pkt_num # ReqPkts[p.data[2]] - 1,
           net' = net \cup {Cr(p)}, UNCHANGED <<server, client, history>>
    PROVE  IInv'
<1>. DEFINE s == SlotOf(p)
            c == Cr(p)
<1>1. p \in Packet /\ ReqPktInv(p) /\ s \in Slot
    BY SlotOfType DEF IInv, TypeOK, PacketsInv, PacketInv, Sent, Packet
<1>2. /\ c.type = "cr" /\ c.req_num = p.req_num /\ c.pkt_num = p.pkt_num
      /\ c \in Packet /\ SlotOf(c) = s
    BY <1>1 DEF Cr, Pkt, Control, Packet, SlotOf
<1>3. p.pkt_num \in Nat /\ p.data[2] \in Req /\ ReqPkts[p.data[2]] \in Nat
      /\ s_cur_req_num[s] \in Nat
    BY <1>1, ReqAssumption DEF Packet, ReqPktInv, IInv, TypeOK
<1>. HIDE DEF c
<1>4. CrInv(c)
    BY SMTT(120), <1>1, <1>2, <1>3 DEF CrInv, ReqPktInv
<1>5. PacketInv(c)
    BY <1>2, <1>4 DEF PacketInv
<1>6. \A x \in s_txq : x \notin net /\ x.type = "resp"
    BY DEF IInv, ReleaseInv, PacketsInv
<1>7. /\ UNCHANGED <<progress, pacing, queues, credits, serverSlots, c_txq, s_txq>>
      /\ UNCHANGED <<issued, executed, answer>>
    BY DEF client, server, serverSlots, history
<1>. QED
    BY <1>2, <1>5, <1>6, <1>7, MovesPackets DEF Sent, c

\* The server never has a request that the client has not sent yet.
LEMMA NumbersOrder ==
    ASSUME IInv, NEW s \in Slot
    PROVE  /\ s_cur_req_num[s] \in Nat
           /\ cur_req_num[s] \in Nat
           /\ s_cur_req_num[s] <= cur_req_num[s]
<1>1. s_cur_req_num[s] \in Nat /\ cur_req_num[s] \in Nat
    BY DEF IInv, TypeOK
<1>2. \/ s_cur_req_num[s] = cur_req_num[s]
      \/ cur_req_num[s] = s_cur_req_num[s] + kSessionReqWindow
    BY DEF IInv, SlotsInv, NumbersInv, Received
<1>. QED
    BY SMTT(120), <1>1, <1>2, SessionAssumption


-----------------------------------------------------------------------------
(* The server takes a packet of the client's current request r.               *)

\* What the session does is a step of its service, or none.
ServiceStep == Service!Next \/ UNCHANGED <<issued, executed, answer>>

\* A packet of the active request of a slot arrives in order, as the first of the
\* request or the next: the handler runs at most once, when the last has arrived.
LEMMA TakeStep ==
    ASSUME IInv, TypeOK', NEW s \in Slot, NEW r \in Req, tx_msgbuf[s] = r,
           executed[r] = 0, ~ Received(s) \/ Assembling(s, r),
           UNCHANGED <<progress, pacing, queues, credits, c_txq, s_txq>>,
           UNCHANGED <<issued, answer>>,
           \A x \in Slot \ {s} : SameServer(x),
           s_cur_req_num'[s] = cur_req_num[s],
           \/ Assembling(s, r)' /\ UNCHANGED executed
           \/ Pending(s, r)' /\ executed' = [executed EXCEPT ![r] = 1],
           net \subseteq net',
           \A p \in net' \ net : p.type # "resp" /\ PacketInv(p)'
    PROVE  IInv' /\ ServiceStep
<1>1. UNCHANGED <<tx_msgbuf, cur_req_num, num_tx, num_rx, resp_msgbuf, enq_req_backlog>>
    BY DEF progress, queues
<1>2. \A x \in Slot : SameClient(x)
    BY SameSlots
<1>3. \A x \in Slot \ {s} : Elsewhere(x, r)
  <2>1. \A x \in Slot \ {s} : tx_msgbuf[x] # r
      BY ReqAssumption DEF IInv, SlotsInv, ActiveInv, Active
  <2>2. \A q \in Req : q # r => executed'[q] = executed[q]
      BY DEF IInv, TypeOK
  <2>. QED
      BY <2>1, <2>2 DEF Elsewhere
<1>4. Active(s) /\ Active(s)' /\ Received(s)'
    BY <1>1, ReqAssumption DEF Active, Received
<1>5. Serves(s, r)'
    BY <1>1, <1>4 DEF Serves
<1>6. NumbersInv(s) /\ ServerInv(s) /\ ClientInv(s) /\ ActiveInv(s)
    BY DEF IInv, SlotsInv
<1>7. s_cur_req_num[s] \in Nat /\ cur_req_num[s] \in Nat /\ s_cur_req_num[s] <= cur_req_num[s]
    BY NumbersOrder
<1>8. \A q \in Req : ~ (Received(s) /\ Responded(s, q))
    BY ReqAssumption DEF Assembling, Responded
<1>9. SlotsInv'
  <2>. SUFFICES ASSUME NEW x \in Slot
                PROVE  (NumbersInv(x) /\ ServerInv(x) /\ ClientInv(x) /\ ActiveInv(x))'
      BY DEF SlotsInv
  <2>1. CASE x # s
    <3>1. NumbersInv(x) /\ ServerInv(x) /\ ClientInv(x) /\ ActiveInv(x)
        BY DEF IInv, SlotsInv
    <3>2. tx_msgbuf[x] \in Req \cup {NoReq}
        BY DEF IInv, TypeOK
    <3>3. NumbersInv(x)' /\ ServerInv(x)' /\ ClientInv(x)'
        BY <1>2, <1>3, <2>1, <3>1, <3>2, SlotFrame
    <3>4. Active(x) => executed'[tx_msgbuf[x]] = executed[tx_msgbuf[x]]
        BY <1>3, <2>1, <3>2 DEF Elsewhere, Active
    <3>5. ActiveInv(x)'
        BY SMTT(120), <1>1, <2>1, <3>1, <3>4 DEF ActiveInv, Active, Received, Backlogged, SameServer
    <3>. QED
        BY <3>3, <3>5
  <2>2. CASE x = s
    <3>1. NumbersInv(s)'
        BY <1>1, <1>4, <1>6 DEF NumbersInv, Active
    <3>2. ServerInv(s)'
        BY <1>5 DEF ServerInv
    <3>3. ClientInv(s)'
      <4>1. Asking(s, r)
          BY <1>4, <1>6, <1>8 DEF ClientInv, Collecting
      <4>. QED
          BY <1>1, <1>4, <1>6, <4>1 DEF ClientInv, Asking
    <3>4. ActiveInv(s)'
        BY <1>1, <1>4, <1>6 DEF ActiveInv, Active, Backlogged
    <3>. QED
        BY <2>2, <3>1, <3>2, <3>3, <3>4
  <2>. QED
      BY <2>1, <2>2
<1>10. RequestsInv'
  <2>1. r \in issued \ Backlogged
      BY <1>4, <1>6 DEF ActiveInv
  <2>2. \A q \in Req \cup {NoReq} : q # r => executed'[q] = executed[q]
      BY DEF IInv, TypeOK
  <2>3. Backlogged' = Backlogged /\ Queues(enq_req_backlog, Backlogged)'
      BY SMTT(120), <1>1 DEF Backlogged, IInv, RequestsInv, Queues
  <2>. QED
      BY <1>1, <2>1, <2>2, <2>3, ReqAssumption DEF RequestsInv, IInv
<1>11. IsFiniteSet(Unanswered)' /\ CreditsAccounted' /\ WheelIsCurrent'
    BY ClientFrame DEF IInv
<1>12. PacketsInv'
  <2>1. ASSUME NEW p \in Sent
        PROVE  PacketInv(p)'
    <3>1. p \in Packet /\ PacketInv(p) /\ SlotOf(p) \in Slot /\ p.req_num \in Nat
        BY SlotOfType DEF IInv, TypeOK, PacketsInv, Sent, Packet
    <3>2. SlotOf(p)' = SlotOf(p)
        BY DEF SlotOf
    <3>3. CASE SlotOf(p) # s
        BY <1>2, <1>3, <3>1, <3>3, PacketFrame
    <3>4. CASE SlotOf(p) = s
      <4>1. \/ s_cur_req_num[s] < cur_req_num[s]
            \/ Received(s) /\ s_cur_req_num[s] = cur_req_num[s]
          BY SMTT(120), <1>7 DEF Received
      <4>2. ASSUME p.type = "req" PROVE ReqPktInv(p)'
        <5>1. ReqPktInv(p)
            BY <3>1, <4>2 DEF PacketInv
        <5>2. p.req_num = cur_req_num[s] => p.data[2] = r
            BY <1>4, <3>4, <5>1 DEF ReqPktInv
        <5>3. p.req_num = s_cur_req_num'[s] => Serves(s, p.data[2])'
            BY <1>5, <5>2
        <5>4. p.req_num = cur_req_num'[s] \/ p.req_num <= s_cur_req_num'[s]
            BY SMTT(120), <1>1, <1>7, <3>1, <3>4, <5>1 DEF ReqPktInv
        <5>. QED
            BY <1>1, <3>2, <3>4, <5>1, <5>2, <5>3, <5>4 DEF ReqPktInv
      <4>3. ASSUME p.type = "resp" PROVE RespPktInv(p)'
        <5>1. RespPktInv(p)
            BY <3>1, <4>3 DEF PacketInv
        <5>2. p.req_num < s_cur_req_num'[s]
            BY SMTT(120), <1>7, <1>8, <3>1, <3>4, <4>1, <5>1 DEF RespPktInv
        <5>. QED
            BY SMTT(120), <1>7, <3>1, <3>2, <3>4, <5>1, <5>2 DEF RespPktInv
      <4>4. ASSUME p.type = "cr" PROVE CrInv(p)'
        <5>1. CrInv(p) /\ p.req_num <= s_cur_req_num'[s]
            BY SMTT(120), <1>7, <3>1, <3>4, <4>4 DEF PacketInv, CrInv
        <5>. QED
            BY <1>1, <1>4, <3>2, <3>4, <5>1 DEF CrInv
      <4>5. ASSUME p.type = "rfr" PROVE RfrInv(p)'
        <5>1. RfrInv(p)
            BY <3>1, <4>5 DEF PacketInv
        <5>2. p.req_num < s_cur_req_num'[s]
            BY SMTT(120), <1>7, <1>8, <3>1, <3>4, <4>1, <5>1 DEF RfrInv
        <5>. QED
            BY SMTT(120), <1>7, <3>1, <3>2, <3>4, <5>2 DEF RfrInv
      <4>. QED
          BY <4>2, <4>3, <4>4, <4>5 DEF PacketInv
    <3>. QED
        BY <3>3, <3>4
  <2>2. (\A p \in c_txq' : p.type = "req") /\ (\A p \in s_txq' : p.type = "resp")
      BY DEF IInv, PacketsInv
  <2>3. \A p \in Sent' : PacketInv(p)'
    <3>1. \A p \in Sent' : p \in Sent \/ p \in net' \ net
        BY DEF Sent
    <3>. QED
        BY <2>1, <3>1
  <2>. QED
      BY <2>2, <2>3 DEF PacketsInv
<1>13. (\A p \in s_txq : ReleaseInv(p))'
  <2>. SUFFICES ASSUME NEW p \in s_txq PROVE ReleaseInv(p)'
      OBVIOUS
  <2>1. /\ p \in Packet /\ RespPktInv(p) /\ SlotOf(p) \in Slot /\ p.type = "resp"
        /\ ReleaseInv(p)
      BY SMTT(120), SlotOfType DEF IInv, TypeOK, PacketsInv, PacketInv, Sent, Packet
  <2>2. SlotOf(p) # s
      BY <1>8, <2>1 DEF RespPktInv, ReleaseInv
  <2>3. SlotOf(p)' = SlotOf(p) /\ p \notin net'
      BY <2>1 DEF SlotOf, ReleaseInv
  <2>. QED
      BY <1>1, <2>1, <2>2, <2>3 DEF ReleaseInv, Received, Active, SameServer
<1>14. ServiceStep
  <2>1. executed' = [executed EXCEPT ![r] = 1] => Service!Execute(r)
      BY <1>4, <1>6 DEF Service!Execute, ActiveInv
  <2>. QED
      BY <2>1 DEF ServiceStep, Service!Next
<1>. QED
    BY <1>9, <1>10, <1>11, <1>12, <1>13, <1>14 DEF IInv

\* A packet of a request that the server has not seen is of the client's current
\* request, and the server is done with the one before.
LEMMA NewRequest ==
    ASSUME IInv, NEW p \in net, p.type = "req", p.req_num > s_cur_req_num[SlotOf(p)]
    PROVE  /\ SlotOf(p) \in Slot
           /\ p.data[2] \in Req
           /\ p.data = <<p.pkt_num, p.data[2]>>
           /\ tx_msgbuf[SlotOf(p)] = p.data[2]
           /\ p.req_num = cur_req_num[SlotOf(p)]
           /\ executed[p.data[2]] = 0
           /\ ~ Received(SlotOf(p))
           /\ ~ s_req_type[SlotOf(p)]
<1>. DEFINE s == SlotOf(p)
<1>1. p \in Packet /\ ReqPktInv(p) /\ s \in Slot /\ p.req_num \in Nat
    BY SlotOfType DEF IInv, TypeOK, PacketsInv, PacketInv, Sent, Packet
<1>2. p.req_num = cur_req_num[s] /\ ~ Received(s)
    BY SMTT(120), <1>1, NumbersOrder DEF ReqPktInv, Received
<1>3. NumbersInv(s) /\ ServerInv(s) /\ ActiveInv(s)
    BY <1>1 DEF IInv, SlotsInv
<1>4. Active(s)
    BY <1>2, <1>3 DEF NumbersInv
<1>5. tx_msgbuf[s] = p.data[2] /\ p.data[2] \in Req
    BY <1>1, <1>2, <1>4 DEF ReqPktInv
<1>6. executed[p.data[2]] = 0
    BY <1>2, <1>3, <1>4, <1>5 DEF ActiveInv
<1>7. ~ s_req_type[s]
    BY <1>2, <1>3 DEF ServerInv, Fresh, Serves, Responded
<1>8. p.data = <<p.pkt_num, p.data[2]>>
    BY SMTT(120), <1>1 DEF Packet, ReqPktInv
<1>. QED
    BY <1>1, <1>2, <1>5, <1>6, <1>7, <1>8

\* The handler runs for the request whose message is in the buffer.
LEMMA HandlerRuns ==
    ASSUME NEW s, NEW buf, NEW r, Content(buf, ReqPkts) = r, executed[r] = 0,
           RunHandler(s, buf)
    PROVE  /\ executed' = [executed EXCEPT ![r] = 1]
           /\ s_req_type' = [s_req_type EXCEPT ![s] = TRUE]
<1>1. executed' = [executed EXCEPT ![r] = executed[r] + 1]
    BY DEF RunHandler
<1>2. executed[r] + 1 = 1
    BY SMTT(120)
<1>. QED
    BY <1>1, <1>2 DEF RunHandler

\* process_small_req_st keeps the invariant, and runs the handler as the service
\* allows.
LEMMA SmallReqStep ==
    ASSUME IInv, NEW p \in net, process_small_req_st(p)
    PROVE  IInv' /\ ServiceStep
<1>. DEFINE s == SlotOf(p)
            r == p.data[2]
<1>1. p \in Packet /\ ReqPktInv(p) /\ s \in Slot /\ r \in Req
    BY SlotOfType DEF process_small_req_st, IInv, TypeOK, PacketsInv, PacketInv, Sent,
                      Packet, ReqPktInv
<1>2. ReqPkts[r] = 1 /\ RespPkts[r] \in Nat \ {0}
    BY <1>1, ReqAssumption DEF process_small_req_st
<1>3. CASE p.req_num = s_cur_req_num[s] /\ s_tx_msgbuf[s] # NoReq /\ Resend(s, 0)
  <2>1. Serves(s, r)
      BY <1>1, <1>3 DEF ReqPktInv
  <2>2. Responded(s, r)
      BY <1>3, <2>1 DEF Serves, Assembling, Pending
  <2>3. ReqPkts[r] - 1 + 0 < s_num_rx[s]
      BY SMTT(120), <1>1, <1>2, <2>2 DEF Responded, IInv, TypeOK
  <2>4. IInv'
      BY SMTT(120), <1>1, <1>2, <1>3, <2>1, <2>2, <2>3, ResendStep
  <2>. QED
      BY <1>3, <2>4 DEF Resend, history, ServiceStep
<1>4. CASE /\ p.req_num > s_cur_req_num[s]
           /\ s_tx_msgbuf' = [s_tx_msgbuf EXCEPT ![s] = NoReq]
           /\ s_cur_req_num' = [s_cur_req_num EXCEPT ![s] = p.req_num]
           /\ s_num_rx' = [s_num_rx EXCEPT ![s] = 1]
           /\ s_req_msgbuf' = [s_req_msgbuf EXCEPT ![s] = {p.data}]
           /\ RunHandler(s, {p.data})
           /\ UNCHANGED <<sav_num_req_pkts, s_txq, net, client, issued, answer, losses>>
  <2>1. /\ p.data = <<p.pkt_num, r>> /\ tx_msgbuf[s] = r /\ p.req_num = cur_req_num[s]
        /\ executed[r] = 0 /\ ~ Received(s) /\ p.type = "req"
      BY <1>4, NewRequest DEF process_small_req_st
  <2>2. p.pkt_num = 0 /\ p.req_num \in Nat
      BY SMTT(120), <1>1, <1>2 DEF ReqPktInv, Packet
  <2>3. {p.data} = Message(r, 1)
      BY SMTT(120), <2>1, <2>2 DEF Message
  <2>4. Content({p.data}, ReqPkts) = r
      BY SMTT(120), <1>1, <1>2, <2>3, ContentOfMessage, ReqAssumption
  <2>5. /\ executed' = [executed EXCEPT ![r] = 1]
        /\ s_req_type' = [s_req_type EXCEPT ![s] = TRUE]
      BY <1>1, <1>4, <2>1, <2>4, HandlerRuns
  <2>6. /\ UNCHANGED <<progress, pacing, queues, credits, c_txq, s_txq, issued, answer>>
        /\ UNCHANGED <<net, sav_num_req_pkts>>
      BY <1>4 DEF client
  <2>7. TypeOK'
    <3>1. {p.data} \in SUBSET (Nat \X Req)
        BY <1>1, <2>3, MessageType
    <3>2. /\ s_tx_msgbuf' \in [Slot -> Req \cup {NoReq}]
          /\ s_cur_req_num' \in [Slot -> Nat]
          /\ s_num_rx' \in [Slot -> Nat]
          /\ s_req_msgbuf' \in [Slot -> SUBSET (Nat \X Req)]
          /\ s_req_type' \in [Slot -> BOOLEAN]
          /\ executed' \in [Req \cup {NoReq} -> Nat]
        BY <1>4, <2>2, <2>5, <3>1 DEF IInv, TypeOK
    <3>. QED
        BY <2>6, <3>2 DEF IInv, TypeOK, progress, pacing, queues
  <2>8. Pending(s, r)'
      BY <1>1, <1>2, <1>4, <2>3, <2>5 DEF Pending, IInv, TypeOK
  <2>9. (\A x \in Slot \ {s} : SameServer(x)) /\ s_cur_req_num'[s] = cur_req_num[s]
      BY <1>1, <1>4, <2>1, <2>5 DEF SameServer, IInv, TypeOK
  <2>. QED
      BY <1>1, <2>1, <2>5, <2>6, <2>7, <2>8, <2>9, TakeStep
<1>. QED
    BY <1>3, <1>4 DEF process_small_req_st

\* TakeReqPkt: packet k of request r, in order.
LEMMA TakePacket ==
    ASSUME IInv, NEW p \in net, NEW s \in Slot, s = SlotOf(p), NEW r \in Req,
           NEW k \in Nat, NEW old,
           p.type = "req", p.pkt_num = k, p.data = <<k, r>>, k < ReqPkts[r],
           p.req_num = cur_req_num[s], tx_msgbuf[s] = r, executed[r] = 0,
           old = Message(r, k),
           ~ Received(s) \/ Assembling(s, r), ~ s_req_type[s],
           s_tx_msgbuf' = [s_tx_msgbuf EXCEPT ![s] = NoReq],
           TakeReqPkt(s, p, old)
    PROVE  IInv' /\ ServiceStep
<1>. DEFINE buf == copy_data_to_msgbuf(old, p.data)
<1>1. /\ buf = Message(r, k + 1)
      /\ NumPkts(buf, ReqPkts) = ReqPkts[r]
      /\ buf \in SUBSET (Nat \X Req)
      /\ k + 1 \in Nat \ {0}
  <2>1. k + 1 \in Nat \ {0}
      BY SMTT(120)
  <2>2. buf = Message(r, k + 1)
      BY CopyNext
  <2>. HIDE DEF buf
  <2>3. NumPkts(buf, ReqPkts) = ReqPkts[r]
      BY SMTT(120), <2>1, <2>2, NumPktsOfMessage, ReqAssumption
  <2>4. buf \in SUBSET (Nat \X Req)
      BY <2>1, <2>2, MessageType
  <2>. QED
      BY <2>1, <2>2, <2>3, <2>4
<1>2. /\ s_cur_req_num' = [s_cur_req_num EXCEPT ![s] = p.req_num]
      /\ s_num_rx' = [s_num_rx EXCEPT ![s] = k + 1]
      /\ s_req_msgbuf' = [s_req_msgbuf EXCEPT ![s] = buf]
      /\ net' = IF k + 1 # ReqPkts[r] THEN net \cup {Cr(p)} ELSE net
      /\ IF k + 1 = ReqPkts[r] THEN RunHandler(s, buf)
                               ELSE UNCHANGED <<executed, s_req_type>>
      /\ UNCHANGED <<sav_num_req_pkts, s_txq, client, issued, answer>>
    BY <1>1 DEF TakeReqPkt
<1>. HIDE DEF buf
<1>3. /\ UNCHANGED <<progress, pacing, queues, credits, c_txq, s_txq, issued, answer>>
      /\ UNCHANGED <<sav_num_req_pkts, tx_msgbuf, cur_req_num>>
    BY <1>2 DEF client, progress
<1>4. p.req_num \in Nat /\ cur_req_num[s] \in Nat /\ s_cur_req_num[s] <= cur_req_num[s]
    BY NumbersOrder
<1>5. /\ s_tx_msgbuf' \in [Slot -> Req \cup {NoReq}]
      /\ s_cur_req_num' \in [Slot -> Nat]
      /\ s_num_rx' \in [Slot -> Nat]
      /\ s_req_msgbuf' \in [Slot -> SUBSET (Nat \X Req)]
    BY <1>1, <1>2, <1>4 DEF IInv, TypeOK
<1>6. s_cur_req_num'[s] = cur_req_num[s]
    BY <1>2 DEF IInv, TypeOK
<1>7. /\ Cr(p) \in Packet
      /\ Cr(p).type = "cr"
      /\ k + 1 # ReqPkts[r] => PacketInv(Cr(p))'
  <2>. DEFINE c == Cr(p)
  <2>1. /\ c.type = "cr" /\ c.req_num = p.req_num /\ c.pkt_num = k /\ c \in Packet
        /\ SlotOf(c)' = s
    <3>. DEFINE n == p.req_num
                d == Pkt("cr", n, k, Control)
    <3>1. c = d
        BY DEF Cr
    <3>2. d.type = "cr" /\ d.req_num = n /\ d.pkt_num = k
        BY DEF Pkt
    <3>3. 0 \in Nat /\ n \in Nat
        BY SMTT(120), <1>4
    <3>. HIDE DEF n
    <3>4. d \in Packet
        BY <3>3 DEF Pkt, Control, Packet
    <3>. HIDE DEF d, c
    <3>5. SlotOf(c)' = n % kSessionReqWindow
        BY <3>1, <3>2 DEF SlotOf
    <3>. QED
        BY <3>1, <3>2, <3>4, <3>5 DEF n, SlotOf
  <2>. HIDE DEF c
  <2>2. ReqPkts[r] \in Nat
      BY ReqAssumption
  <2>3. k + 1 # ReqPkts[r] => CrInv(c)'
      BY SMTT(120), <1>3, <1>4, <1>6, <2>1, <2>2 DEF CrInv
  <2>4. k + 1 # ReqPkts[r] => PacketInv(c)'
      BY <2>1, <2>3 DEF PacketInv
  <2>. QED
      BY <2>1, <2>4 DEF c
<1>8. CASE k + 1 = ReqPkts[r]
  <2>1. Content(buf, ReqPkts) = r
      BY SMTT(120), <1>1, <1>8, ContentOfMessage, ReqAssumption
  <2>2. /\ executed' = [executed EXCEPT ![r] = 1]
        /\ s_req_type' = [s_req_type EXCEPT ![s] = TRUE]
        /\ UNCHANGED net
      BY SMTT(120), <1>2, <1>8, <2>1, HandlerRuns
  <2>3. TypeOK'
    <3>1. executed' \in [Req \cup {NoReq} -> Nat] /\ s_req_type' \in [Slot -> BOOLEAN]
        BY <2>2 DEF IInv, TypeOK
    <3>. QED
        BY <1>3, <1>5, <2>2, <3>1 DEF IInv, TypeOK, progress, pacing, queues
  <2>4. Pending(s, r)'
      BY <1>1, <1>2, <1>8, <2>2 DEF Pending, IInv, TypeOK
  <2>5. \A x \in Slot \ {s} : SameServer(x)
      BY <1>2, <1>3, <2>2 DEF SameServer, IInv, TypeOK
  <2>. QED
      BY <1>3, <1>6, <2>2, <2>3, <2>4, <2>5, TakeStep
<1>9. CASE k + 1 # ReqPkts[r]
  <2>1. UNCHANGED <<executed, s_req_type>> /\ net' = net \cup {Cr(p)}
      BY <1>2, <1>9
  <2>2. TypeOK'
      BY <1>3, <1>5, <1>7, <2>1 DEF IInv, TypeOK, progress, pacing, queues
  <2>3. Assembling(s, r)'
    <3>1. 0 < k + 1 /\ k + 1 < ReqPkts[r]
        BY SMTT(120), <1>9, ReqAssumption
    <3>. QED
        BY <1>1, <1>2, <2>1, <3>1 DEF Assembling, IInv, TypeOK
  <2>4. \A x \in Slot \ {s} : SameServer(x)
      BY <1>2, <1>3, <2>1 DEF SameServer, IInv, TypeOK
  <2>5. \A q \in net' \ net : q.type # "resp" /\ PacketInv(q)'
      BY <1>7, <1>9, <2>1
  <2>. QED
      BY <1>3, <1>6, <2>1, <2>2, <2>3, <2>4, <2>5, TakeStep
<1>. QED
    BY <1>8, <1>9

\* process_large_req_one_st keeps the invariant, and runs the handler as the
\* service allows.
LEMMA LargeReqStep ==
    ASSUME IInv, NEW p \in net, process_large_req_one_st(p)
    PROVE  IInv' /\ ServiceStep
<1>. DEFINE s == SlotOf(p)
            r == p.data[2]
<1>1. /\ p \in Packet /\ ReqPktInv(p) /\ s \in Slot /\ r \in Req /\ p.type = "req"
      /\ p.data = <<p.pkt_num, r>> /\ p.pkt_num \in Nat /\ p.pkt_num < ReqPkts[r]
  <2>1. p \in Packet /\ p.type = "req"
      BY DEF process_large_req_one_st, IInv, TypeOK, Sent
  <2>2. ReqPktInv(p)
      BY <2>1 DEF IInv, PacketsInv, PacketInv, Sent
  <2>3. s \in Slot /\ p.pkt_num \in Nat
      BY <2>1, SlotOfType DEF Packet
  <2>4. p.data = <<p.data[1], p.data[2]>>
      BY SMTT(120), <2>1 DEF Packet
  <2>. QED
      BY <2>1, <2>2, <2>3, <2>4 DEF ReqPktInv
<1>2. ReqPkts[r] \in Nat \ {0} /\ RespPkts[r] \in Nat \ {0} /\ s_num_rx[s] \in Nat
    BY <1>1, ReqAssumption DEF IInv, TypeOK
<1>3. p.req_num = s_cur_req_num[s] => Serves(s, r)
    BY <1>1 DEF ReqPktInv
<1>4. CASE /\ p.req_num = s_cur_req_num[s]
           /\ p.pkt_num = s_num_rx[s]
           /\ TakeReqPkt(s, p, s_req_msgbuf[s])
           /\ UNCHANGED s_tx_msgbuf
  <2>a. s_num_rx[s] # ReqPkts[r] /\ ~ (ReqPkts[r] <= s_num_rx[s])
      BY SMTT(120), <1>1, <1>2, <1>4
  <2>1. Assembling(s, r) /\ Received(s) /\ tx_msgbuf[s] = r
      BY <1>3, <1>4, <2>a DEF Serves, Pending, Responded
  <2>2. /\ executed[r] = 0 /\ ~ s_req_type[s] /\ p.req_num = cur_req_num[s]
        /\ s_req_msgbuf[s] = Message(r, p.pkt_num) /\ s_tx_msgbuf[s] = NoReq
      BY <1>4, <2>1 DEF Assembling, Received
  <2>3. s_tx_msgbuf' = [s_tx_msgbuf EXCEPT ![s] = NoReq]
      BY <1>1, <1>4, <2>2 DEF IInv, TypeOK
  <2>. QED
      BY <1>1, <1>4, <2>1, <2>2, <2>3, TakePacket
<1>5. CASE /\ p.req_num = s_cur_req_num[s] + kSessionReqWindow
           /\ p.pkt_num = 0
           /\ TakeReqPkt(s, p, Buried)
           /\ s_tx_msgbuf' = [s_tx_msgbuf EXCEPT ![s] = NoReq]
  <2>1. p.req_num > s_cur_req_num[s]
      BY SMTT(120), <1>1, <1>5, SessionAssumption DEF IInv, TypeOK
  <2>2. /\ tx_msgbuf[s] = r /\ p.req_num = cur_req_num[s] /\ executed[r] = 0
        /\ ~ Received(s) /\ ~ s_req_type[s]
      BY <1>1, <2>1, NewRequest
  <2>3. Buried = Message(r, 0)
      BY SMTT(120) DEF Buried, Message
  <2>. QED
      BY <1>1, <1>5, <2>2, <2>3, TakePacket
<1>6. CASE /\ p.req_num = s_cur_req_num[s]
           /\ p.pkt_num # ReqPkts[r] - 1
           /\ net' = net \cup {Cr(p)}
           /\ UNCHANGED <<server, client, history>>
    BY <1>1, <1>6, CreditReturnAgain DEF ServiceStep, history
<1>7. CASE /\ p.req_num = s_cur_req_num[s]
           /\ p.pkt_num = ReqPkts[r] - 1
           /\ s_tx_msgbuf[s] # NoReq
           /\ Resend(s, 0)
  <2>1. Serves(s, r) /\ Responded(s, r)
      BY <1>3, <1>7 DEF Serves, Assembling, Pending
  <2>2. ReqPkts[r] - 1 + 0 < s_num_rx[s]
      BY SMTT(120), <1>2, <2>1 DEF Responded
  <2>3. IInv'
      BY SMTT(120), <1>1, <1>2, <1>7, <2>1, <2>2, ResendStep
  <2>. QED
      BY <1>7, <2>3 DEF Resend, history, ServiceStep
<1>. QED
    BY <1>4, <1>5, <1>6, <1>7 DEF process_large_req_one_st

-----------------------------------------------------------------------------
(* The server answers the client's current request r: packet q is new.        *)

\* A server slot queues a packet of its response.
LEMMA AnswerStep ==
    ASSUME IInv, TypeOK', NEW s \in Slot, NEW r \in Req, Received(s), tx_msgbuf[s] = r,
           Pending(s, r) \/ Responded(s, r),
           UNCHANGED <<progress, pacing, queues, credits, c_txq, net>>,
           UNCHANGED <<issued, executed, answer>>,
           \A x \in Slot \ {s} : SameServer(x),
           s_cur_req_num'[s] = s_cur_req_num[s], Responded(s, r)',
           s_num_rx[s] <= s_num_rx'[s], num_rx[s] <= s_num_rx'[s],
           NEW q, s_txq' = s_txq \cup {q}, q.type = "resp", PacketInv(q)', ReleaseInv(q)'
    PROVE  IInv'
<1>1. UNCHANGED <<tx_msgbuf, cur_req_num, num_tx, num_rx, resp_msgbuf, enq_req_backlog>>
    BY DEF progress, queues
<1>2. \A x \in Slot : SameClient(x) /\ Elsewhere(x, NoReq)
    BY SameSlots
<1>3. Active(s) /\ Active(s)' /\ Received(s)'
    BY <1>1, ReqAssumption DEF Active, Received
<1>4. Serves(s, r)'
    BY <1>1, <1>3 DEF Serves
<1>5. NumbersInv(s) /\ ServerInv(s) /\ ClientInv(s) /\ ActiveInv(s)
    BY DEF IInv, SlotsInv
<1>6. \A t \in Req : Serves(s, t) => t = r
    BY <1>3 DEF Serves
<1>7. \A t \in Req : Responded(s, t) => Responded(s, t)' /\ t = r
    BY ReqAssumption DEF Pending, Responded
<1>8. SlotsInv'
  <2>. SUFFICES ASSUME NEW x \in Slot
                PROVE  (NumbersInv(x) /\ ServerInv(x) /\ ClientInv(x) /\ ActiveInv(x))'
      BY DEF SlotsInv
  <2>1. CASE x # s
    <3>1. NumbersInv(x) /\ ServerInv(x) /\ ClientInv(x) /\ ActiveInv(x)
        BY DEF IInv, SlotsInv
    <3>2. tx_msgbuf[x] \in Req \cup {NoReq}
        BY DEF IInv, TypeOK
    <3>3. NumbersInv(x)' /\ ServerInv(x)' /\ ClientInv(x)'
        BY <1>2, <2>1, <3>1, <3>2, SlotFrame
    <3>4. ActiveInv(x)'
        BY <1>1, <2>1, <3>1 DEF ActiveInv, Active, Received, Backlogged, SameServer
    <3>. QED
        BY <3>3, <3>4
  <2>2. CASE x = s
    <3>1. NumbersInv(s)'
        BY <1>1, <1>3, <1>5 DEF NumbersInv, Active
    <3>2. ServerInv(s)'
        BY <1>4 DEF ServerInv
    <3>3. ClientInv(s)'
      <4>1. Asking(s, r) => Asking(s, r)'
          BY <1>1 DEF Asking
      <4>2. Collecting(s, r) => Collecting(s, r)'
          BY <1>1, <1>3 DEF Collecting, wire_pkts
      <4>. QED
          BY <1>1, <1>3, <1>5, <4>1, <4>2 DEF ClientInv
    <3>4. ActiveInv(s)'
        BY <1>1, <1>3, <1>5 DEF ActiveInv, Active, Backlogged
    <3>. QED
        BY <2>2, <3>1, <3>2, <3>3, <3>4
  <2>. QED
      BY <2>1, <2>2
<1>9. RequestsInv'
    BY <1>1, RequestsFrame DEF IInv
<1>10. IsFiniteSet(Unanswered)' /\ CreditsAccounted' /\ WheelIsCurrent'
    BY ClientFrame DEF IInv
<1>11. PacketsInv'
  <2>1. ASSUME NEW p \in Sent
        PROVE  PacketInv(p)'
    <3>1. /\ p \in Packet /\ PacketInv(p) /\ SlotOf(p) \in Slot
          /\ p.req_num \in Nat /\ p.pkt_num \in Nat
        BY SlotOfType DEF IInv, TypeOK, PacketsInv, Sent, Packet
    <3>2. SlotOf(p)' = SlotOf(p)
        BY DEF SlotOf
    <3>3. CASE SlotOf(p) # s
        BY <1>2, <3>1, <3>3, PacketFrame
    <3>4. CASE SlotOf(p) = s
      <4>1. ASSUME p.type = "req" PROVE ReqPktInv(p)'
        <5>1. ReqPktInv(p)
            BY <3>1, <4>1 DEF PacketInv
        <5>2. p.req_num = s_cur_req_num'[s] => Serves(s, p.data[2])'
            BY <1>4, <1>6, <3>4, <5>1 DEF ReqPktInv
        <5>. QED
            BY <1>1, <1>3, <3>2, <3>4, <5>1, <5>2 DEF ReqPktInv
      <4>2. ASSUME p.type = "resp" PROVE RespPktInv(p)'
        <5>1. RespPktInv(p)
            BY <3>1, <4>2 DEF PacketInv
        <5>2. p.pkt_num < s_num_rx[s] => p.pkt_num < s_num_rx'[s]
          <6>1. s_num_rx[s] \in Nat /\ s_num_rx'[s] \in Nat
              BY DEF IInv, TypeOK
          <6>. QED
              BY SMTT(120), <3>1, <6>1
        <5>. QED
            BY <1>4, <1>7, <3>2, <3>4, <5>1, <5>2 DEF RespPktInv
      <4>3. ASSUME p.type = "cr" PROVE CrInv(p)'
          BY <1>1, <1>3, <3>1, <3>2, <3>4, <4>3 DEF PacketInv, CrInv
      <4>4. ASSUME p.type = "rfr" PROVE RfrInv(p)'
        <5>1. RfrInv(p)
            BY <3>1, <4>4 DEF PacketInv
        <5>2. s_tx_msgbuf[s] \in Req /\ Responded(s, s_tx_msgbuf[s]) =>
                 s_tx_msgbuf[s] = r /\ s_tx_msgbuf'[s] = r
            BY <1>7 DEF Responded
        <5>. QED
            BY <3>2, <3>4, <5>1, <5>2 DEF RfrInv, wire_pkts
      <4>. QED
          BY <4>1, <4>2, <4>3, <4>4 DEF PacketInv
    <3>. QED
        BY <3>3, <3>4
  <2>2. (\A p \in c_txq' : p.type = "req") /\ (\A p \in s_txq' : p.type = "resp")
      BY DEF IInv, PacketsInv
  <2>3. \A p \in Sent' : PacketInv(p)'
    <3>1. \A p \in Sent' : p \in Sent \/ p = q
        BY DEF Sent
    <3>. QED
        BY <2>1, <3>1
  <2>. QED
      BY <2>2, <2>3 DEF PacketsInv
<1>12. (\A p \in s_txq : ReleaseInv(p))'
  <2>. SUFFICES ASSUME NEW p \in s_txq, p # q PROVE ReleaseInv(p)'
      OBVIOUS
  <2>1. p \in Packet /\ SlotOf(p) \in Slot /\ ReleaseInv(p)
      BY SlotOfType DEF IInv, TypeOK, Packet
  <2>2. SlotOf(p)' = SlotOf(p)
      BY DEF SlotOf
  <2>3. s_cur_req_num'[SlotOf(p)] = s_cur_req_num[SlotOf(p)]
      BY <2>1 DEF SameServer
  <2>. QED
      BY <1>1, <2>1, <2>2, <2>3 DEF ReleaseInv, Received, Active
<1>. QED
    BY <1>8, <1>9, <1>10, <1>11, <1>12 DEF IInv

\* enqueue_response keeps the invariant.
LEMMA EnqueueResponseStep ==
    ASSUME IInv, NEW s \in Slot, enqueue_response(s)
    PROVE  IInv'
<1>1. PICK r \in Req : Pending(s, r) /\ Received(s) /\ tx_msgbuf[s] = r
    BY DEF enqueue_response, IInv, SlotsInv, ServerInv, Fresh, Serves, Assembling, Responded
<1>2. /\ ReqPkts[r] \in Nat \ {0} /\ RespPkts[r] \in Nat \ {0}
      /\ s_cur_req_num[s] \in Nat /\ num_rx[s] \in Nat /\ s_num_rx[s] = ReqPkts[r]
    BY <1>1, ReqAssumption DEF IInv, TypeOK, Pending
<1>3. /\ Content(s_req_msgbuf[s], ReqPkts) = r
      /\ NumPkts(s_req_msgbuf[s], ReqPkts) = ReqPkts[r]
    BY SMTT(120), <1>1, <1>2, ContentOfMessage, NumPktsOfMessage, ReqAssumption DEF Pending
<1>q. PICK q : q = RespPkt(r, s_cur_req_num[s], 0, ReqPkts[r])
    OBVIOUS
<1>4. /\ sav_num_req_pkts' = [sav_num_req_pkts EXCEPT ![s] = ReqPkts[r]]
      /\ s_req_msgbuf' = [s_req_msgbuf EXCEPT ![s] = Buried]
      /\ s_tx_msgbuf' = [s_tx_msgbuf EXCEPT ![s] = r]
      /\ s_req_type' = [s_req_type EXCEPT ![s] = FALSE]
      /\ s_txq' = s_txq \cup {q}
      /\ UNCHANGED <<s_cur_req_num, s_num_rx, client, net, history>>
    BY <1>3, <1>q DEF enqueue_response
<1>5. /\ q.type = "resp" /\ q.req_num = s_cur_req_num[s] /\ q.pkt_num = ReqPkts[r] - 1
      /\ q.data = <<0, r>> /\ q \in Packet
    BY SMTT(120), <1>2, <1>q DEF RespPkt, Pkt, Packet
<1>6. SlotOf(q) = s /\ SlotOf(q)' = s
  <2>1. s_cur_req_num[s] % kSessionReqWindow = s
      BY DEF IInv, SlotsInv, NumbersInv
  <2>. QED
      BY <1>5, <2>1 DEF SlotOf
<1>7. /\ UNCHANGED <<progress, pacing, queues, credits, c_txq, net, issued, executed, answer>>
      /\ UNCHANGED <<tx_msgbuf, cur_req_num, num_rx, s_cur_req_num, s_num_rx>>
    BY <1>4 DEF client, history, progress
<1>8. TypeOK'
  <2>1. /\ sav_num_req_pkts' \in [Slot -> Nat]
        /\ s_req_msgbuf' \in [Slot -> SUBSET (Nat \X Req)]
        /\ s_tx_msgbuf' \in [Slot -> Req \cup {NoReq}]
        /\ s_req_type' \in [Slot -> BOOLEAN]
      BY <1>2, <1>4 DEF IInv, TypeOK, Buried
  <2>. QED
      BY <1>4, <1>5, <1>7, <2>1 DEF IInv, TypeOK, progress, pacing, queues
<1>9. Responded(s, r)'
    BY SMTT(120), <1>1, <1>2, <1>4, <1>7 DEF Responded, Pending, IInv, TypeOK, wire_pkts
<1>10. \A x \in Slot \ {s} : SameServer(x)
    BY <1>4, <1>7 DEF SameServer, IInv, TypeOK
<1>11. Active(s)' /\ Received(s)' /\ num_rx[s] < ReqPkts[r]
  <2>1. ~ Responded(s, r)
      BY <1>1 DEF Pending, Responded
  <2>. QED
      BY <1>1, <1>7, <2>1, ReqAssumption
         DEF Active, Received, IInv, SlotsInv, ClientInv, Asking, Collecting
<1>12. PacketInv(q)'
  <2>1. Serves(s, r)'
      BY SMTT(120), <1>1, <1>2, <1>7, <1>9, <1>11 DEF Serves
  <2>2. RespPktInv(q)'
      BY SMTT(120), <1>2, <1>5, <1>6, <1>7, <1>9, <2>1 DEF RespPktInv
  <2>. QED
      BY <1>5, <2>2 DEF PacketInv
<1>13. ReleaseInv(q)'
  <2>1. q \notin net
    <3>. SUFFICES ASSUME q \in net PROVE FALSE
        OBVIOUS
    <3>1. RespPktInv(q)
        BY <1>5 DEF IInv, PacketsInv, PacketInv, Sent
    <3>. QED
        BY <1>1, <1>5, <1>6, <3>1 DEF RespPktInv, Pending, Responded
  <2>2. num_rx[s] <= q.pkt_num
    <3>. DEFINE n == num_rx[s]
                k == ReqPkts[r]
    <3>1. n \in Nat /\ k \in Nat /\ n < k /\ q.pkt_num = k - 1
        BY <1>2, <1>5, <1>11
    <3>. HIDE DEF n, k
    <3>2. n <= k - 1
        BY SMTT(120), <3>1
    <3>. QED
        BY <3>1, <3>2 DEF n
  <2>3. /\ q.req_num = s_cur_req_num'[s] /\ num_rx'[s] <= q.pkt_num /\ q \notin net'
        /\ Received(s)' /\ Active(s)' /\ SlotOf(q)' = s
      BY <1>5, <1>6, <1>7, <1>11, <2>1, <2>2
  <2>. QED
      BY <2>3 DEF ReleaseInv, Received, Active
<1>14. s_num_rx[s] <= s_num_rx'[s] /\ num_rx[s] <= s_num_rx'[s]
    BY SMTT(120), <1>2, <1>7, <1>11
<1>15. s_cur_req_num'[s] = s_cur_req_num[s]
    BY <1>7
<1>. QED
    BY <1>1, <1>4, <1>5, <1>7, <1>8, <1>9, <1>10, <1>12, <1>13, <1>14, <1>15, AnswerStep

\* process_rfr_st keeps the invariant.
LEMMA RfrStep ==
    ASSUME IInv, NEW p \in net, process_rfr_st(p)
    PROVE  IInv'
<1>. DEFINE s == SlotOf(p)
<1>1. /\ p \in Packet /\ RfrInv(p) /\ s \in Slot /\ p.type = "rfr" /\ p.pkt_num \in Nat
      /\ p.req_num = s_cur_req_num[s]
    BY SlotOfType DEF process_rfr_st, IInv, TypeOK, PacketsInv, PacketInv, Sent, Packet
<1>2. PICK r \in Req : /\ r = s_tx_msgbuf[s] /\ Responded(s, r)
                       /\ ReqPkts[r] <= p.pkt_num /\ p.pkt_num < wire_pkts(r)
    BY <1>1 DEF RfrInv
<1>3. /\ ReqPkts[r] \in Nat \ {0} /\ RespPkts[r] \in Nat \ {0}
      /\ s_num_rx[s] \in Nat /\ num_rx[s] \in Nat
      /\ s_cur_req_num[s] \in Nat /\ sav_num_req_pkts[s] = ReqPkts[r]
    BY <1>1, <1>2, ReqAssumption DEF IInv, TypeOK, Responded
<1>4. PICK i \in Nat : /\ i = p.pkt_num - (sav_num_req_pkts[s] - 1)
                       /\ i < RespPkts[r] /\ ReqPkts[r] - 1 + i = p.pkt_num
    BY SMTT(120), <1>1, <1>2, <1>3 DEF wire_pkts
<1>5. Serves(s, r)
  <2>1. ~ Fresh(s)
      BY <1>2, ReqAssumption DEF Fresh
  <2>2. PICK t \in Req : Serves(s, t)
      BY <1>1, <2>1 DEF IInv, SlotsInv, ServerInv
  <2>. QED
      BY <1>2, <2>2, ReqAssumption DEF Serves, Assembling, Pending, Responded
<1>. HIDE DEF s
<1>6. CASE p.pkt_num < s_num_rx[s] /\ Resend(s, i)
    BY <1>1, <1>2, <1>4, <1>5, <1>6, ResendStep
<1>7. CASE /\ p.pkt_num = s_num_rx[s]
           /\ s_num_rx' = [s_num_rx EXCEPT ![s] = @ + 1]
           /\ s_txq' = s_txq \cup {Response(s, i)}
           /\ UNCHANGED <<s_cur_req_num, s_req_msgbuf, s_req_type, s_tx_msgbuf,
                          sav_num_req_pkts, client, net, history>>
  <2>1. /\ Active(s) /\ Received(s) /\ tx_msgbuf[s] = r /\ num_rx[s] <= s_num_rx[s]
    <3>1. s_num_rx[s] # wire_pkts(r) /\ s_tx_msgbuf[s] # NoReq
        BY SMTT(120), <1>1, <1>2, <1>3, <1>7, ReqAssumption DEF wire_pkts
    <3>. QED
        BY <1>5, <3>1 DEF Serves, Assembling, Pending
  <2>2. PICK q : q = Response(s, i)
      OBVIOUS
  <2>a. q = Pkt("resp", s_cur_req_num[s], ReqPkts[r] - 1 + i, <<i, r>>)
      BY <1>2, <1>3, <2>2 DEF Response, RespPkt
  <2>3. /\ q.type = "resp" /\ q.req_num = s_cur_req_num[s] /\ q.pkt_num = p.pkt_num
        /\ q.data = <<i, r>> /\ q \in Packet
      BY <1>1, <1>2, <1>3, <1>4, <2>a DEF Pkt, Packet
  <2>4. SlotOf(q) = s /\ SlotOf(q)' = s
    <3>1. s_cur_req_num[s] % kSessionReqWindow = s
        BY <1>1 DEF IInv, SlotsInv, NumbersInv
    <3>. QED
        BY <2>3, <3>1 DEF SlotOf
  <2>5. /\ UNCHANGED <<progress, pacing, queues, credits, c_txq, net, issued, executed, answer>>
        /\ UNCHANGED <<tx_msgbuf, cur_req_num, num_rx, s_cur_req_num>>
      BY <1>7 DEF client, history, progress
  <2>6. s_num_rx'[s] = s_num_rx[s] + 1 /\ s_num_rx' \in [Slot -> Nat]
      BY SMTT(120), <1>1, <1>3, <1>7 DEF IInv, TypeOK
  <2>7. TypeOK'
      BY <1>7, <2>2, <2>3, <2>5, <2>6 DEF IInv, TypeOK, progress, pacing, queues
  <2>8. Responded(s, r)'
      BY SMTT(120), <1>2, <1>3, <1>7, <2>5, <2>6 DEF Responded, wire_pkts
  <2>9. \A x \in Slot \ {s} : SameServer(x)
      BY <1>7 DEF SameServer, IInv, TypeOK
  <2>10. Active(s)' /\ Received(s)'
      BY <2>1, <2>5 DEF Active, Received
  <2>11. PacketInv(q)'
    <3>a. tx_msgbuf'[s] = r /\ num_rx'[s] <= s_num_rx'[s]
        BY SMTT(120), <1>3, <2>1, <2>5, <2>6
    <3>1. Serves(s, r)'
        BY <2>8, <2>10, <3>a DEF Serves
    <3>b. q.data[1] = i /\ q.data[2] = r
        BY SMTT(120), <2>3
    <3>c. q.pkt_num < s_num_rx'[s] /\ q.req_num <= s_cur_req_num'[s]
        BY SMTT(120), <1>3, <1>7, <2>3, <2>6
    <3>2. RespPktInv(q)'
        BY <1>2, <1>4, <2>3, <2>4, <2>8, <3>1, <3>b, <3>c DEF RespPktInv
    <3>. QED
        BY <2>3, <3>2 DEF PacketInv
  <2>12. ReleaseInv(q)'
    <3>1. q \notin net
      <4>. SUFFICES ASSUME q \in net PROVE FALSE
          OBVIOUS
      <4>1. RespPktInv(q)
          BY <2>3 DEF IInv, PacketsInv, PacketInv, Sent
      <4>2. q.pkt_num < s_num_rx[s]
          BY <2>3, <2>4, <4>1 DEF RespPktInv
      <4>. QED
          BY SMTT(120), <1>3, <1>7, <2>3, <4>2
    <3>. QED
        BY <1>7, <2>1, <2>3, <2>4, <2>5, <2>10, <3>1 DEF ReleaseInv
  <2>13. s_num_rx[s] <= s_num_rx'[s] /\ num_rx[s] <= s_num_rx'[s]
      BY SMTT(120), <1>3, <2>1, <2>6
  <2>14. s_txq' = s_txq \cup {q} /\ s_cur_req_num'[s] = s_cur_req_num[s]
      BY <1>7, <2>2
  <2>. QED
      BY <1>1, <1>2, <2>1, <2>3, <2>5, <2>7, <2>8, <2>9, <2>11, <2>12, <2>13, <2>14, AnswerStep
<1>. QED
    BY <1>4, <1>6, <1>7 DEF process_rfr_st, s


-----------------------------------------------------------------------------
(* Credits and the wheel.                                                     *)

\* A step of slot s that takes a credit for every packet it adds to those not
\* answered and gives one back for every packet it removes.
LEMMA CreditStep ==
    ASSUME IInv, Counting, NEW s \in Slot,
           num_tx' \in [Slot -> Nat], num_rx' \in [Slot -> Nat], credits' \in Nat,
           \A x \in Slot \ {s} : num_tx'[x] = num_tx[x] /\ num_rx'[x] = num_rx[x],
           num_rx'[s] <= num_tx'[s],
           credits' = credits + (num_tx[s] - num_rx[s]) - (num_tx'[s] - num_rx'[s])
    PROVE  /\ IsFiniteSet(Unanswered)'
           /\ credits' + Cardinality(Unanswered') = kSessionCredits
           /\ credits' \in 0..kSessionCredits
           /\ credits' + (num_tx'[s] - num_rx'[s]) <= kSessionCredits
<1>1. /\ num_tx \in [Slot -> Nat] /\ num_rx \in [Slot -> Nat] /\ credits \in Nat
      /\ num_rx[s] <= num_tx[s]
    BY SMTT(120), SessionAssumption DEF IInv, TypeOK, SlotsInv, ClientInv
<1>2. /\ IsFiniteSet(Between(num_rx, num_tx))
      /\ credits + Cardinality(Between(num_rx, num_tx)) = kSessionCredits
    BY DEF IInv, CreditsAccounted, Unanswered
<1>3. /\ IsFiniteSet(Between(num_rx', num_tx'))
      /\ Cardinality(Between(num_rx, num_tx)) \in Nat
      /\ Cardinality(Between(num_rx', num_tx')) =
            Cardinality(Between(num_rx, num_tx)) - (num_tx[s] - num_rx[s])
                                                 + (num_tx'[s] - num_rx'[s])
  <2>1. \A x \in Slot \ {s} : num_rx'[x] = num_rx[x] /\ num_tx'[x] = num_tx[x]
      OBVIOUS
  <2>. QED
      BY SMTT(120), <1>1, <1>2, <2>1, Recount
<1>4. /\ Cardinality(Between(num_rx', num_tx')) \in Nat
      /\ num_tx'[s] - num_rx'[s] <= Cardinality(Between(num_rx', num_tx'))
    BY <1>3, Recount
<1>5. Unanswered' = Between(num_rx', num_tx')
    BY DEF Unanswered, Between
<1>6. /\ num_tx[s] \in Nat /\ num_rx[s] \in Nat /\ num_tx'[s] \in Nat /\ num_rx'[s] \in Nat
    BY <1>1
<1>. DEFINE U == Cardinality(Between(num_rx, num_tx))
            V == Cardinality(Between(num_rx', num_tx'))
<1>7. /\ U \in Nat /\ V \in Nat /\ credits + U = kSessionCredits
      /\ V = U - (num_tx[s] - num_rx[s]) + (num_tx'[s] - num_rx'[s])
      /\ num_tx'[s] - num_rx'[s] <= V
    BY <1>2, <1>3, <1>4
<1>. HIDE DEF U, V
<1>8. /\ credits' + V = kSessionCredits
      /\ credits' \in 0..kSessionCredits
      /\ credits' + (num_tx'[s] - num_rx'[s]) <= kSessionCredits
    BY SMTT(120), <1>1, <1>6, <1>7, SessionAssumption
<1>. QED
    BY <1>3, <1>5, <1>8 DEF V

\* The packets of slot s that the credits allow fit in in_wheel.
LEMMA WindowBound ==
    ASSUME IInv, Counting, NEW s \in Slot
    PROVE  /\ num_tx[s] - num_rx[s] + credits <= kSessionCredits
           /\ num_tx[s] \in Nat /\ num_rx[s] \in Nat /\ num_rx[s] <= num_tx[s]
           /\ credits \in Nat
<1>1. /\ num_tx \in [Slot -> Nat] /\ num_rx \in [Slot -> Nat] /\ credits \in Nat
      /\ num_rx[s] <= num_tx[s]
    BY SMTT(120), SessionAssumption DEF IInv, TypeOK, SlotsInv, ClientInv
<1>2. /\ IsFiniteSet(Between(num_rx, num_tx))
      /\ credits + Cardinality(Between(num_rx, num_tx)) = kSessionCredits
    BY DEF IInv, CreditsAccounted, Unanswered
<1>3. /\ Cardinality(Between(num_rx, num_tx)) \in Nat
      /\ num_tx[s] - num_rx[s] <= Cardinality(Between(num_rx, num_tx))
    BY <1>1, <1>2, Recount
<1>. QED
    BY SMTT(120), <1>1, <1>2, <1>3, SessionAssumption

\* kick_req_st and the retransmission: packets from..from + k - 1 of the slot's
\* request may enter the wheel.
LEMMA WheelGrows ==
    ASSUME IInv, NEW s \in Slot, NEW r \in Req, tx_msgbuf'[s] = r,
           NEW rx \in Nat, NEW from \in Nat, NEW k \in Nat,
           num_rx'[s] = rx, num_tx'[s] = from + k, rx <= from,
           from + k <= ReqPkts[r], from + k - rx <= kSessionCredits,
           \A i \in wheel[s] : rx <= i /\ i < from,
           \A x \in Slot \ {s} : SameClient(x),
           UNCHANGED pacing \/ enqueue_wheel_req_st(s, from, k)
    PROVE  /\ WheelIsCurrent'
           /\ wheel' \in [Slot -> SUBSET Nat]
           /\ in_wheel' \in [Slot -> SUBSET (0..(kSessionCredits - 1))]
<1>. DEFINE C == kSessionCredits
            New == from..(from + k - 1)
<1>1. /\ wheel \in [Slot -> SUBSET Nat] /\ in_wheel \in [Slot -> SUBSET (0..(C - 1))]
      /\ C \in Nat \ {0} /\ ReqPkts[r] \in Nat /\ r # NoReq
    BY SessionAssumption, ReqAssumption DEF IInv, TypeOK
<1>2. \A i \in Nat : i % C \in 0..(C - 1)
    BY <1>1, Division
<1>3. \A i \in New : i \in Nat /\ from <= i /\ i < from + k
    BY SMTT(120), <1>1
<1>4. CASE UNCHANGED pacing
  <2>1. wheel' = wheel /\ in_wheel' = in_wheel
      BY <1>4 DEF pacing
  <2>2. ASSUME NEW x \in Slot
        PROVE  /\ in_wheel'[x] = {i % C : i \in wheel'[x]}
               /\ \A i, j \in wheel'[x] : i % C = j % C => i = j
               /\ \A i \in wheel'[x] : /\ tx_msgbuf'[x] # NoReq
                                       /\ i < ReqPkts[tx_msgbuf'[x]]
                                       /\ num_rx'[x] <= i /\ i < num_tx'[x]
    <3>1. /\ in_wheel'[x] = {i % C : i \in wheel'[x]}
          /\ \A i, j \in wheel'[x] : i % C = j % C => i = j
        BY <2>1 DEF IInv, WheelIsCurrent
    <3>2. x # s => \A i \in wheel'[x] : /\ tx_msgbuf'[x] # NoReq
                                        /\ i < ReqPkts[tx_msgbuf'[x]]
                                        /\ num_rx'[x] <= i /\ i < num_tx'[x]
        BY <2>1 DEF IInv, WheelIsCurrent, SameClient
    <3>3. x = s => \A i \in wheel'[x] : /\ tx_msgbuf'[x] # NoReq
                                        /\ i < ReqPkts[tx_msgbuf'[x]]
                                        /\ num_rx'[x] <= i /\ i < num_tx'[x]
        BY SMTT(120), <1>1, <2>1
    <3>. QED
        BY <3>1, <3>2, <3>3
  <2>. QED
      BY <1>1, <2>1, <2>2 DEF WheelIsCurrent
<1>5. CASE enqueue_wheel_req_st(s, from, k)
  <2>1. /\ wheel' = [wheel EXCEPT ![s] = @ \cup New]
        /\ in_wheel' = [in_wheel EXCEPT ![s] = @ \cup {i % C : i \in New}]
      BY <1>5 DEF enqueue_wheel_req_st
  <2>. HIDE DEF New
  <2>2. /\ wheel'[s] = wheel[s] \cup New
        /\ in_wheel'[s] = in_wheel[s] \cup {i % C : i \in New}
        /\ wheel' \in [Slot -> SUBSET Nat]
    <3>1. New \subseteq Nat
        BY <1>3
    <3>. QED
        BY <1>1, <2>1, <3>1
  <2>3. in_wheel' \in [Slot -> SUBSET (0..(C - 1))]
    <3>1. {i % C : i \in New} \subseteq 0..(C - 1)
        BY <1>2, <1>3
    <3>. QED
        BY <1>1, <2>1, <3>1
  <2>4. \A x \in Slot \ {s} : wheel'[x] = wheel[x] /\ in_wheel'[x] = in_wheel[x]
      BY <1>1, <2>1
  <2>5. \A i \in wheel'[s] : i \in Nat /\ rx <= i /\ i < from + k
      BY SMTT(120), <1>1, <1>3, <2>2
  <2>6. \A i, j \in wheel'[s] : i % C = j % C => i = j
    <3>. SUFFICES ASSUME NEW i \in wheel'[s], NEW j \in wheel'[s], i % C = j % C
                  PROVE  i = j
        OBVIOUS
    <3>1. i \in Nat /\ j \in Nat /\ i < j + C /\ j < i + C
        BY SMTT(120), <1>1, <2>5
    <3>2. CASE i <= j
        BY <1>1, <3>1, <3>2, DistinctIndices
    <3>3. CASE j <= i
        BY <1>1, <3>1, <3>3, DistinctIndices
    <3>. QED
        BY SMTT(120), <3>1, <3>2, <3>3
  <2>7. in_wheel'[s] = {i % C : i \in wheel'[s]}
    <3>1. in_wheel[s] = {i % C : i \in wheel[s]}
        BY DEF IInv, WheelIsCurrent
    <3>. QED
        BY <2>2, <3>1
  <2>8. \A i \in wheel'[s] : /\ tx_msgbuf'[s] # NoReq
                             /\ i < ReqPkts[tx_msgbuf'[s]]
                             /\ num_rx'[s] <= i /\ i < num_tx'[s]
      BY SMTT(120), <1>1, <2>5
  <2>9. \A x \in Slot \ {s} :
            /\ in_wheel'[x] = {i % C : i \in wheel'[x]}
            /\ \A i, j \in wheel'[x] : i % C = j % C => i = j
            /\ \A i \in wheel'[x] : /\ tx_msgbuf'[x] # NoReq
                                    /\ i < ReqPkts[tx_msgbuf'[x]]
                                    /\ num_rx'[x] <= i /\ i < num_tx'[x]
    <3>. SUFFICES ASSUME NEW x \in Slot \ {s}
                  PROVE  /\ in_wheel[x] = {i % C : i \in wheel[x]}
                         /\ \A i, j \in wheel[x] : i % C = j % C => i = j
                         /\ \A i \in wheel[x] : /\ tx_msgbuf'[x] # NoReq
                                                /\ i < ReqPkts[tx_msgbuf'[x]]
                                                /\ num_rx'[x] <= i /\ i < num_tx'[x]
        BY <2>4
    <3>1. /\ in_wheel[x] = {i % C : i \in wheel[x]}
          /\ \A i, j \in wheel[x] : i % C = j % C => i = j
        BY DEF IInv, WheelIsCurrent
    <3>2. \A i \in wheel[x] : /\ tx_msgbuf'[x] # NoReq
                              /\ i < ReqPkts[tx_msgbuf'[x]]
                              /\ num_rx'[x] <= i /\ i < num_tx'[x]
        BY DEF IInv, WheelIsCurrent, SameClient
    <3>. QED
        BY <3>1, <3>2
  <2>10. WheelIsCurrent'
    <3>. SUFFICES ASSUME NEW x \in Slot
                  PROVE  /\ in_wheel'[x] = {i % C : i \in wheel'[x]}
                         /\ \A i, j \in wheel'[x] : i % C = j % C => i = j
                         /\ \A i \in wheel'[x] : /\ tx_msgbuf'[x] # NoReq
                                                 /\ i < ReqPkts[tx_msgbuf'[x]]
                                                 /\ num_rx'[x] <= i /\ i < num_tx'[x]
        BY DEF WheelIsCurrent
    <3>1. CASE x = s
        BY <2>6, <2>7, <2>8, <3>1
    <3>2. CASE x # s
        BY <2>9, <3>2
    <3>. QED
        BY <3>1, <3>2
  <2>. QED
      BY <2>2, <2>3, <2>10
<1>. QED
    BY <1>4, <1>5

-----------------------------------------------------------------------------
(* Steps of a slot that goes on with its request.                             *)

\* A slot that goes on with its request, with more packets sent or answered, keeps
\* the invariant if credits and wheel are right: the common part of sending,
\* collecting a response and retransmitting.
LEMMA ProgressStep ==
    ASSUME IInv, TypeOK', NEW s \in Slot, Active(s),
           UNCHANGED <<tx_msgbuf, cur_req_num, serverSlots, s_txq>>,
           UNCHANGED <<issued, executed, answer, enq_req_backlog>>,
           \A x \in Slot \ {s} : SameClient(x),
           ClientInv(s)',
           \A r \in Req : Received(s) /\ Responded(s, r) /\ num_rx[s] <= s_num_rx[s]
                             => num_rx'[s] <= s_num_rx[s],
           IsFiniteSet(Unanswered)', CreditsAccounted', WheelIsCurrent',
           \A p \in c_txq' : \/ p \in c_txq
                             \/ p \in Packet /\ PacketInv(p) /\ p.type = "req",
           \A p \in net' : \/ p \in c_txq \cup net
                           \/ p \in Packet /\ PacketInv(p) /\ p.type # "resp",
           \A p \in s_txq : SlotOf(p) = s => num_rx'[s] <= p.pkt_num
    PROVE  IInv'
<1>1. /\ UNCHANGED <<s_cur_req_num, s_num_rx, s_req_msgbuf, s_req_type, s_tx_msgbuf>>
      /\ UNCHANGED sav_num_req_pkts
    BY DEF serverSlots
<1>2. \A x \in Slot : SameServer(x) /\ Elsewhere(x, NoReq)
    BY SameSlots
<1>3. \A x \in Slot : (Active(x)' <=> Active(x)) /\ (Received(x)' <=> Received(x))
    BY <1>1 DEF Active, Received
<1>4. \A x \in Slot, r \in Req : Responded(x, r) => Responded(x, r)'
    BY <1>1 DEF Responded
<1>5. \A x \in Slot, r \in Req : Serves(x, r) => Serves(x, r)'
  <2>. SUFFICES ASSUME NEW x \in Slot, NEW r \in Req, Serves(x, r)
                PROVE  Serves(x, r)'
      OBVIOUS
  <2>1. CASE x # s
      BY <1>2, <2>1, ServesFrame
  <2>2. CASE x = s
    <3>1. Assembling(x, r) => Assembling(x, r)'
        BY <1>1 DEF Assembling
    <3>2. Pending(x, r) => Pending(x, r)'
        BY <1>1 DEF Pending
    <3>. QED
        BY <1>1, <1>3, <1>4, <2>2, <3>1, <3>2 DEF Serves, wire_pkts
  <2>. QED
      BY <2>1, <2>2
<1>6. SlotsInv'
  <2>. SUFFICES ASSUME NEW x \in Slot
                PROVE  (NumbersInv(x) /\ ServerInv(x) /\ ClientInv(x) /\ ActiveInv(x))'
      BY DEF SlotsInv
  <2>1. NumbersInv(x) /\ ServerInv(x) /\ ClientInv(x) /\ ActiveInv(x)
      BY DEF IInv, SlotsInv
  <2>2. NumbersInv(x)'
      BY <1>1, <1>3, <2>1 DEF NumbersInv
  <2>3. ServerInv(x)'
    <3>1. Fresh(x) => Fresh(x)'
        BY <1>1 DEF Fresh
    <3>. QED
        BY <1>5, <2>1, <3>1 DEF ServerInv
  <2>4. ActiveInv(x)'
      BY <1>1, <1>3, <2>1 DEF ActiveInv, Backlogged
  <2>5. ClientInv(x)'
    <3>1. CASE x # s
      <4>1. tx_msgbuf[x] \in Req \cup {NoReq}
          BY DEF IInv, TypeOK
      <4>. QED
          BY <1>2, <2>1, <3>1, <4>1, SlotFrame
    <3>. QED
        BY <3>1
  <2>. QED
      BY <2>2, <2>3, <2>4, <2>5
<1>7. RequestsInv'
    BY RequestsFrame DEF IInv
<1>8. \A p \in Sent' : p \in Packet /\ PacketInv(p)
    BY DEF IInv, PacketsInv, Sent, TypeOK
<1>9. PacketsInv'
  <2>1. \A p \in Sent' : PacketInv(p)'
    <3>. SUFFICES ASSUME NEW p \in Sent' PROVE PacketInv(p)'
        OBVIOUS
    <3>1. p \in Packet /\ PacketInv(p) /\ SlotOf(p) \in Slot
        BY <1>8, SlotOfType DEF Packet
    <3>2. SlotOf(p)' = SlotOf(p)
        BY DEF SlotOf
    <3>3. p.type = "req" => ReqPktInv(p)'
        BY <1>1, <1>3, <1>5, <3>1, <3>2 DEF PacketInv, ReqPktInv
    <3>4. p.type = "resp" => RespPktInv(p)'
        BY <1>1, <1>4, <1>5, <3>1, <3>2 DEF PacketInv, RespPktInv
    <3>5. p.type = "cr" => CrInv(p)'
        BY <1>1, <1>3, <3>1, <3>2 DEF PacketInv, CrInv
    <3>6. p.type = "rfr" => RfrInv(p)'
        BY <1>1, <1>4, <3>1, <3>2 DEF PacketInv, RfrInv, wire_pkts
    <3>. QED
        BY <3>3, <3>4, <3>5, <3>6 DEF PacketInv
  <2>2. (\A p \in c_txq' : p.type = "req") /\ (\A p \in s_txq' : p.type = "resp")
      BY DEF IInv, PacketsInv
  <2>. QED
      BY <2>1, <2>2 DEF PacketsInv
<1>10. (\A p \in s_txq : ReleaseInv(p))'
  <2>. SUFFICES ASSUME NEW p \in s_txq PROVE ReleaseInv(p)'
      OBVIOUS
  <2>1. /\ p \in Packet /\ SlotOf(p) \in Slot /\ ReleaseInv(p) /\ p.type = "resp"
        /\ \A q \in c_txq : q.type = "req"
      BY SlotOfType DEF IInv, TypeOK, Packet, PacketsInv
  <2>2. SlotOf(p)' = SlotOf(p)
      BY DEF SlotOf
  <2>3. p \notin net'
      BY <2>1 DEF ReleaseInv
  <2>4. num_rx'[SlotOf(p)] <= p.pkt_num
    <3>1. CASE SlotOf(p) = s
        BY <3>1
    <3>2. CASE SlotOf(p) # s
        BY <2>1, <3>2 DEF ReleaseInv, SameClient
    <3>. QED
        BY <3>1, <3>2
  <2>. QED
      BY <1>1, <1>3, <2>1, <2>2, <2>3, <2>4 DEF ReleaseInv
<1>. QED
    BY <1>6, <1>7, <1>9, <1>10 DEF IInv

\* Queues when the same slots are free and the same slots are stalled.
LEMMA QueuesFrame ==
    ASSUME CreditsAccounted,
           UNCHANGED <<tx_msgbuf, sslot_free_vec, stallq, enq_req_backlog>>,
           \A x \in Slot : num_tx'[x] = num_rx'[x] <=> num_tx[x] = num_rx[x],
           \A x \in Slot : num_rx'[x] <= num_tx'[x],
           credits' + Cardinality(Unanswered') = kSessionCredits
    PROVE  CreditsAccounted'
<1>. DEFINE Stalled == {x \in Slot : tx_msgbuf[x] # NoReq /\ num_tx[x] = num_rx[x]}
<1>1. Stalled' = Stalled
    OBVIOUS
<1>2. Queues(stallq, Stalled)'
    BY SMTT(120), <1>1 DEF CreditsAccounted, Queues
<1>3. Queues(sslot_free_vec, {x \in Slot : tx_msgbuf[x] = NoReq})'
    BY SMTT(120) DEF CreditsAccounted, Queues
<1>. QED
    BY <1>2, <1>3 DEF CreditsAccounted

\* process_wheel_st keeps the invariant.
LEMMA WheelStep ==
    ASSUME IInv, NEW s \in Slot, process_wheel_st(s)
    PROVE  IInv'
<1>1. PICK i \in wheel[s] :
          /\ c_txq' = c_txq \cup {ReqPkt(tx_msgbuf[s], cur_req_num[s], i)}
          /\ wheel' = [wheel EXCEPT ![s] = @ \ {i}]
          /\ in_wheel' = [in_wheel EXCEPT ![s] = @ \ {i % kSessionCredits}]
    BY DEF process_wheel_st
<1>2. /\ UNCHANGED <<progress, queues, credits, serverSlots, s_txq, net>>
      /\ UNCHANGED <<issued, executed, answer>>
    BY DEF process_wheel_st, server, serverSlots, history
<1>3. UNCHANGED <<tx_msgbuf, cur_req_num, num_tx, num_rx, resp_msgbuf, sslot_free_vec,
                  enq_req_backlog, stallq>>
    BY <1>2 DEF progress, queues
<1>4. Active(s) /\ i \in Nat /\ i < ReqPkts[tx_msgbuf[s]]
    BY DEF IInv, WheelIsCurrent, TypeOK, Active
<1>5. /\ ReqPkt(tx_msgbuf[s], cur_req_num[s], i) \in Packet
      /\ PacketInv(ReqPkt(tx_msgbuf[s], cur_req_num[s], i))
      /\ ReqPkt(tx_msgbuf[s], cur_req_num[s], i).type = "req"
    BY <1>4, ActivePacket DEF ReqPkt, Pkt
<1>6. /\ wheel' \in [Slot -> SUBSET Nat]
      /\ in_wheel' \in [Slot -> SUBSET (0..(kSessionCredits - 1))]
    BY <1>1 DEF IInv, TypeOK
<1>7. TypeOK'
    BY <1>1, <1>2, <1>3, <1>5, <1>6 DEF IInv, TypeOK, serverSlots
<1>8. Unanswered' = Unanswered
    BY <1>3 DEF Unanswered, Between
<1>9. IsFiniteSet(Unanswered)' /\ CreditsAccounted'
  <2>1. \A x \in Slot : num_rx[x] <= num_tx[x]
      BY DEF IInv, CreditsAccounted
  <2>2. credits' + Cardinality(Unanswered') = kSessionCredits
      BY <1>2, <1>8 DEF IInv, CreditsAccounted
  <2>. QED
      BY <1>3, <1>8, <2>1, <2>2, QueuesFrame DEF IInv
<1>10. WheelIsCurrent'
  <2>. SUFFICES ASSUME NEW x \in Slot
                PROVE  /\ in_wheel'[x] = {j % kSessionCredits : j \in wheel'[x]}
                       /\ \A j, k \in wheel'[x] :
                             j % kSessionCredits = k % kSessionCredits => j = k
                       /\ \A j \in wheel'[x] : /\ tx_msgbuf[x] # NoReq
                                               /\ j < ReqPkts[tx_msgbuf[x]]
                                               /\ num_rx[x] <= j /\ j < num_tx[x]
      BY <1>3 DEF WheelIsCurrent
  <2>1. /\ in_wheel[x] = {j % kSessionCredits : j \in wheel[x]}
        /\ \A j, k \in wheel[x] : j % kSessionCredits = k % kSessionCredits => j = k
        /\ \A j \in wheel[x] : /\ tx_msgbuf[x] # NoReq
                               /\ j < ReqPkts[tx_msgbuf[x]]
                               /\ num_rx[x] <= j /\ j < num_tx[x]
      BY DEF IInv, WheelIsCurrent
  <2>2. CASE x # s
    <3>1. wheel'[x] = wheel[x] /\ in_wheel'[x] = in_wheel[x]
        BY <1>1, <2>2 DEF IInv, TypeOK
    <3>. QED
        BY <2>1, <3>1
  <2>3. CASE x = s
    <3>1. wheel'[x] = wheel[x] \ {i} /\ in_wheel'[x] = in_wheel[x] \ {i % kSessionCredits}
        BY <1>1, <2>3 DEF IInv, TypeOK
    <3>2. i \in wheel[x]
        BY <2>3
    <3>3. in_wheel'[x] = {j % kSessionCredits : j \in wheel'[x]}
        BY <2>1, <3>1, <3>2
    <3>. QED
        BY <2>1, <3>1, <3>3
  <2>. QED
      BY <2>2, <2>3
<1>11. \A x \in Slot : SameClient(x) /\ SameServer(x) /\ Elsewhere(x, NoReq)
    BY <1>2, SameSlots
<1>12. ClientInv(s)'
  <2>1. ClientInv(s) /\ tx_msgbuf[s] \in Req \cup {NoReq}
      BY DEF IInv, SlotsInv, TypeOK
  <2>. QED
      BY <1>11, <2>1, SlotFrame
<1>13. \A p \in s_txq : SlotOf(p) = s => num_rx'[s] <= p.pkt_num
    BY <1>3 DEF IInv, ReleaseInv
<1>14. \A r \in Req : Received(s) /\ Responded(s, r) /\ num_rx[s] <= s_num_rx[s]
                          => num_rx'[s] <= s_num_rx[s]
    BY <1>3
<1>. QED
    BY <1>1, <1>2, <1>3, <1>4, <1>5, <1>7, <1>9, <1>10, <1>11, <1>12, <1>13, <1>14, ProgressStep

\* What kick_req_st does when it sends k packets.
Kicked(s, r, n, from, avail, k) ==
    /\ k <= avail /\ from + k <= ReqPkts[r]
    /\ num_tx' = [num_tx EXCEPT ![s] = from + k]
    /\ credits' = avail - k
    /\ \A p \in c_txq' : \/ p \in c_txq
                         \/ \E i \in Nat : i < ReqPkts[r] /\ p = ReqPkt(r, n, i)
    /\ UNCHANGED pacing \/ enqueue_wheel_req_st(s, from, k)

\* It sends at least one, as the slot has one to send and a credit.
LEMMA KickFacts ==
    ASSUME NEW s \in Slot, NEW r \in Req, NEW n, NEW from \in Nat,
           NEW avail \in Nat \ {0}, from < ReqPkts[r], kick_req_st(s, r, n, from, avail)
    PROVE  \E k \in Nat \ {0} : Kicked(s, r, n, from, avail, k)
<1>. DEFINE k == min(avail, ReqPkts[r] - from)
<1>1. k \in Nat \ {0} /\ k <= avail /\ from + k <= ReqPkts[r] /\ ReqPkts[r] \in Nat
    BY SMTT(120), ReqAssumption DEF min
<1>2. /\ num_tx' = [num_tx EXCEPT ![s] = from + k]
      /\ credits' = avail - k
      /\ UNCHANGED pacing \/ enqueue_wheel_req_st(s, from, k)
      /\ \/ c_txq' = c_txq \cup {ReqPkt(r, n, i) : i \in from..(from + k - 1)}
         \/ c_txq' = c_txq
    BY DEF kick_req_st
<1>. HIDE DEF k
<1>3. \A i \in from..(from + k - 1) : i \in Nat /\ i < ReqPkts[r]
    BY SMTT(120), <1>1
<1>4. \A p \in c_txq' : \/ p \in c_txq
                        \/ \E i \in Nat : i < ReqPkts[r] /\ p = ReqPkt(r, n, i)
    BY <1>2, <1>3
<1>. QED
    BY <1>1, <1>2, <1>4 DEF Kicked

\* The types that the client's steps need.
LEMMA ClientTypes ==
    ASSUME IInv
    PROVE  /\ num_tx \in [Slot -> Nat] /\ num_rx \in [Slot -> Nat] /\ credits \in Nat
           /\ stallq \in Seq(Slot)
           /\ c_txq \cup s_txq \cup net \subseteq Packet
           /\ \A s \in Slot : Active(s) =>
                 /\ tx_msgbuf[s] \in Req /\ tx_msgbuf[s] # NoReq
                 /\ ReqPkts[tx_msgbuf[s]] \in Nat \ {0}
                 /\ RespPkts[tx_msgbuf[s]] \in Nat \ {0}
BY SMTT(120), ReqAssumption, SessionAssumption DEF IInv, TypeOK, Active

\* The rest of a queue is a queue.
LEMMA TailType ==
    ASSUME NEW T, NEW q \in Seq(T), q # <<>>
    PROVE  Tail(q) \in Seq(T) /\ Head(q) \in T
BY SMTT(120)

\* Slot s, whose packets up to rx have been answered, sends k request packets
\* from `from` on, with credits it had or gets back.
Sends(s, rx, from, k) ==
    /\ num_rx' = [num_rx EXCEPT ![s] = rx] /\ num_tx' = [num_tx EXCEPT ![s] = from + k]
    /\ num_rx[s] <= rx /\ rx <= from /\ rx < from + k
    /\ rx < ReqPkts[tx_msgbuf[s]] /\ from + k <= ReqPkts[tx_msgbuf[s]]
    /\ credits' \in Nat
    /\ credits' = credits + (num_tx[s] - num_rx[s]) - (from + k - rx)
    /\ \A i \in wheel[s] : rx <= i /\ i < from
    /\ UNCHANGED pacing \/ enqueue_wheel_req_st(s, from, k)
    /\ UNCHANGED <<tx_msgbuf, cur_req_num, resp_msgbuf, sslot_free_vec, enq_req_backlog>>
    /\ UNCHANGED <<server, history>>
    /\ \/ UNCHANGED stallq /\ num_tx[s] # num_rx[s]
       \/ stallq # <<>> /\ s = Head(stallq) /\ stallq' = Tail(stallq)
    /\ \A p \in c_txq' : \/ p \in c_txq
                         \/ \E i \in Nat : /\ i < ReqPkts[tx_msgbuf[s]]
                                           /\ p = ReqPkt(tx_msgbuf[s], cur_req_num[s], i)
    /\ \A p \in net' : \/ p \in c_txq \cup net
                       \/ \E i \in Nat : /\ i < ReqPkts[tx_msgbuf[s]]
                                         /\ p = ReqPkt(tx_msgbuf[s], cur_req_num[s], i)

\* A slot that sends request packets of its request keeps the invariant: the
\* common part of kick_req_st and of a retransmission.
LEMMA SendStep ==
    ASSUME IInv, Counting, NEW s \in Slot, Active(s), NEW rx \in Nat, NEW from \in Nat, NEW k \in Nat,
           Sends(s, rx, from, k)
    PROVE  IInv'
<1>. DEFINE r == tx_msgbuf[s]
<1>1. /\ r \in Req /\ ReqPkts[r] \in Nat \ {0} /\ RespPkts[r] \in Nat \ {0} /\ r # NoReq
      /\ num_tx \in [Slot -> Nat] /\ num_rx \in [Slot -> Nat] /\ credits \in Nat
    BY ClientTypes
<1>nums. /\ num_rx' = [num_rx EXCEPT ![s] = rx] /\ num_tx' = [num_tx EXCEPT ![s] = from + k]
         /\ num_rx[s] <= rx /\ rx <= from /\ rx < from + k
         /\ rx < ReqPkts[r] /\ from + k <= ReqPkts[r]
    BY DEF Sends
<1>creds. credits' \in Nat /\ credits' = credits + (num_tx[s] - num_rx[s]) - (from + k - rx)
    BY DEF Sends
<1>frame. UNCHANGED <<tx_msgbuf, cur_req_num, resp_msgbuf, sslot_free_vec, enq_req_backlog>>
    BY DEF Sends
<1>2. /\ UNCHANGED <<serverSlots, s_txq, issued, executed, answer>>
    BY DEF Sends, server, history, serverSlots
<1>3. /\ num_rx'[s] = rx /\ num_tx'[s] = from + k
      /\ num_tx' \in [Slot -> Nat] /\ num_rx' \in [Slot -> Nat]
      /\ \A x \in Slot \ {s} : num_tx'[x] = num_tx[x] /\ num_rx'[x] = num_rx[x]
    BY SMTT(120), <1>1, <1>nums
<1>4. \A x \in Slot \ {s} : SameClient(x)
    BY <1>3, <1>frame DEF SameClient, Sends, enqueue_wheel_req_st, pacing
<1>5. /\ IsFiniteSet(Unanswered)'
      /\ credits' + Cardinality(Unanswered') = kSessionCredits
      /\ credits' \in 0..kSessionCredits
      /\ credits' + (from + k - rx) <= kSessionCredits
  <2>1. /\ num_rx'[s] <= num_tx'[s]
        /\ credits' = credits + (num_tx[s] - num_rx[s]) - (num_tx'[s] - num_rx'[s])
      BY SMTT(120), <1>3, <1>nums, <1>creds
  <2>2. /\ IsFiniteSet(Unanswered)'
        /\ credits' + Cardinality(Unanswered') = kSessionCredits
        /\ credits' \in 0..kSessionCredits
        /\ credits' + (num_tx'[s] - num_rx'[s]) <= kSessionCredits
      BY <1>3, <1>creds, <2>1, CreditStep
  <2>. QED
      BY SMTT(120), <1>3, <2>2
<1>6. /\ WheelIsCurrent'
      /\ wheel' \in [Slot -> SUBSET Nat]
      /\ in_wheel' \in [Slot -> SUBSET (0..(kSessionCredits - 1))]
  <2>1. from + k - rx <= kSessionCredits
      BY SMTT(120), <1>5, <1>creds, SessionAssumption
  <2>2. tx_msgbuf'[s] = r
      BY <1>frame
  <2>3. /\ \A i \in wheel[s] : rx <= i /\ i < from
        /\ UNCHANGED pacing \/ enqueue_wheel_req_st(s, from, k)
      BY DEF Sends
  <2>. HIDE DEF r
  <2>. QED
      BY <1>1, <1>3, <1>4, <1>nums, <2>1, <2>2, <2>3, WheelGrows DEF r
<1>7. \A i \in Nat : i < ReqPkts[r] =>
          /\ ReqPkt(r, cur_req_num[s], i) \in Packet
          /\ PacketInv(ReqPkt(r, cur_req_num[s], i))
          /\ ReqPkt(r, cur_req_num[s], i).type = "req"
    BY ActivePacket DEF ReqPkt, Pkt
<1>8. stallq \in Seq(Slot) /\ stallq' \in Seq(Slot)
  <2>1. stallq \in Seq(Slot)
      BY ClientTypes
  <2>2. UNCHANGED stallq \/ (stallq # <<>> /\ stallq' = Tail(stallq))
      BY DEF Sends
  <2>. QED
      BY <2>1, <2>2, TailType
<1>9. TypeOK'
  <2>1. c_txq' \cup s_txq' \cup net' \subseteq Packet
    <3>1. c_txq \cup s_txq \cup net \subseteq Packet
        BY ClientTypes
    <3>2. \A p \in c_txq' \cup net' : p \in Packet
        BY <1>7, <3>1 DEF Sends
    <3>. QED
        BY <1>2, <3>1, <3>2
  <2>. QED
      BY <1>2, <1>3, <1>5, <1>6, <1>8, <1>frame, <2>1 DEF IInv, TypeOK, serverSlots
<1>10. CreditsAccounted'
  <2>1. \A x \in Slot : num_rx[x] <= num_tx[x]
      BY DEF IInv, CreditsAccounted
  <2>2. \A x \in Slot : num_rx'[x] <= num_tx'[x]
      BY SMTT(120), <1>3, <1>nums, <2>1
  <2>3. CASE UNCHANGED stallq /\ num_tx[s] # num_rx[s]
    <3>1. \A x \in Slot : num_tx'[x] = num_rx'[x] <=> num_tx[x] = num_rx[x]
        BY SMTT(120), <1>3, <1>nums, <2>3
    <3>. QED
        BY <1>5, <1>frame, <2>2, <2>3, <3>1, QueuesFrame DEF IInv
  <2>4. CASE stallq # <<>> /\ s = Head(stallq) /\ stallq' = Tail(stallq)
    <3>. DEFINE Stalled == {x \in Slot : tx_msgbuf[x] # NoReq /\ num_tx[x] = num_rx[x]}
    <3>1. Queues(stallq, Stalled)
        BY DEF IInv, CreditsAccounted
    <3>. HIDE DEF Stalled
    <3>2. Queues(Tail(stallq), Stalled \ {s})
        BY <1>8, <2>4, <3>1, QueueTail
    <3>3. Stalled' = Stalled \ {s}
        BY SMTT(120), <1>3, <1>nums, <1>frame DEF Stalled
    <3>4. Queues(stallq, Stalled)'
        BY <2>4, <3>2, <3>3 DEF Queues
    <3>5. Queues(sslot_free_vec, {x \in Slot : tx_msgbuf[x] = NoReq})'
        BY SMTT(120), <1>frame DEF IInv, CreditsAccounted, Queues
    <3>6. (enq_req_backlog # <<>> => sslot_free_vec = <<>>)'
        BY <1>frame DEF IInv, CreditsAccounted
    <3>. QED
        BY <1>5, <2>2, <3>4, <3>5, <3>6 DEF CreditsAccounted, Stalled
  <2>. QED
      BY <2>3, <2>4 DEF Sends
<1>11. ClientInv(s) /\ Asking(s, r)
  <2>1. ClientInv(s)
      BY DEF IInv, SlotsInv
  <2>2. num_rx[s] < ReqPkts[r]
      BY SMTT(120), <1>1, <1>nums
  <2>. QED
      BY SMTT(120), <1>1, <2>1, <2>2 DEF ClientInv, Collecting
<1>12. ClientInv(s)'
  <2>1. Active(s)' /\ tx_msgbuf'[s] = r
      BY <1>frame DEF Active
  <2>2. Asking(s, r) => num_rx'[s] < ReqPkts[r] /\ num_tx'[s] <= ReqPkts[r] /\ resp_msgbuf'[s] = {}
      BY <1>3, <1>nums, <1>frame DEF Asking
  <2>3. num_rx'[s] <= num_tx'[s] /\ num_rx'[s] # num_tx'[s]
      BY SMTT(120), <1>3, <1>nums
  <2>. QED
      BY <1>11, <2>1, <2>2, <2>3 DEF ClientInv, Asking
<1>13. \A t \in Req : Received(s) /\ Responded(s, t) /\ num_rx[s] <= s_num_rx[s]
                          => num_rx'[s] <= s_num_rx[s]
  <2>. SUFFICES ASSUME NEW t \in Req, Received(s), Responded(s, t)
                PROVE  rx <= s_num_rx[s]
      BY <1>3
  <2>1. Serves(s, t)
    <3>1. ~ Fresh(s)
        BY ReqAssumption DEF Fresh, Responded
    <3>2. PICK u \in Req : Serves(s, u)
        BY <3>1 DEF IInv, SlotsInv, ServerInv
    <3>. QED
        BY <3>2, ReqAssumption DEF Serves, Assembling, Pending, Responded
  <2>2. t = r
      BY <2>1 DEF Serves
  <2>3. s_num_rx[s] \in Nat /\ ReqPkts[r] <= s_num_rx[s]
      BY <2>2 DEF Responded, IInv, TypeOK
  <2>. QED
      BY SMTT(120), <1>1, <1>nums, <2>3
<1>14. \A p \in s_txq : SlotOf(p) = s => num_rx'[s] <= p.pkt_num
  <2>. SUFFICES ASSUME NEW p \in s_txq, SlotOf(p) = s
                PROVE  rx <= p.pkt_num
      BY <1>3
  <2>1. p \in Packet /\ RespPktInv(p) /\ ReleaseInv(p)
      BY DEF IInv, TypeOK, PacketsInv, PacketInv, Sent
  <2>2. Serves(s, p.data[2]) /\ Received(s) /\ p.data[2] \in Req
      BY <2>1 DEF RespPktInv, ReleaseInv
  <2>3. p.data[2] = r
      BY <2>2 DEF Serves
  <2>4. p.pkt_num = ReqPkts[r] - 1 + p.data[1] /\ p.data[1] \in Nat
      BY <2>1, <2>3 DEF RespPktInv, Packet
  <2>. QED
      BY SMTT(120), <1>1, <1>nums, <2>4
<1>. HIDE DEF r
<1>15. \A p \in c_txq' : p \in c_txq \/ (p \in Packet /\ PacketInv(p) /\ p.type = "req")
    BY SMTT(120), <1>7 DEF r, Sends
<1>16. \A p \in net' : p \in c_txq \cup net \/ (p \in Packet /\ PacketInv(p) /\ p.type # "resp")
    BY <1>7 DEF r, Sends
<1>. QED
    BY <1>2, <1>frame, <1>4, <1>5, <1>6, <1>9, <1>10, <1>12, <1>13, <1>14, <1>15,
       <1>16, ProgressStep

\* process_credit_stall_queue_st keeps the invariant.
LEMMA StallQueueStep ==
    ASSUME IInv, Counting, process_credit_stall_queue_st
    PROVE  IInv'
<1>1. PICK s : s = Head(stallq)
    OBVIOUS
<1>2. /\ credits > 0 /\ stallq # <<>> /\ stallq' = Tail(stallq)
      /\ kick_req_st(s, tx_msgbuf[s], cur_req_num[s], num_tx[s], credits)
      /\ UNCHANGED <<tx_msgbuf, cur_req_num, num_rx, resp_msgbuf, sslot_free_vec,
                     enq_req_backlog, server, net, history>>
    BY <1>1 DEF process_credit_stall_queue_st
<1>3. s \in Slot /\ Active(s) /\ num_tx[s] = num_rx[s]
  <2>. DEFINE Stalled == {x \in Slot : tx_msgbuf[x] # NoReq /\ num_tx[x] = num_rx[x]}
  <2>1. stallq \in Seq(Slot) /\ Queues(stallq, Stalled)
      BY ClientTypes DEF IInv, CreditsAccounted
  <2>. HIDE DEF Stalled
  <2>2. s \in Stalled
      BY <1>1, <1>2, <2>1, QueueTail
  <2>. QED
      BY <2>2 DEF Stalled, Active
<1>4. num_tx[s] = 0 /\ num_rx[s] = 0
    BY <1>3 DEF IInv, SlotsInv, ClientInv
<1>. DEFINE r == tx_msgbuf[s]
<1>5. r \in Req /\ ReqPkts[r] \in Nat \ {0} /\ credits \in Nat \ {0} /\ num_rx \in [Slot -> Nat]
    BY SMTT(120), <1>2, <1>3, ClientTypes
<1>6. PICK k \in Nat \ {0} : Kicked(s, r, cur_req_num[s], num_tx[s], credits, k)
  <2>1. num_tx[s] \in Nat /\ num_tx[s] < ReqPkts[r]
      BY SMTT(120), <1>4, <1>5
  <2>. HIDE DEF r
  <2>. QED
      BY <1>2, <1>3, <1>5, <2>1, KickFacts DEF r
<1>7. num_rx' = [num_rx EXCEPT ![s] = num_rx[s]]
    BY <1>2, <1>3, <1>5
<1>8. wheel[s] = {}
    BY SMTT(120), <1>3, <1>4 DEF IInv, WheelIsCurrent, TypeOK
<1>9. /\ credits' \in Nat
      /\ credits' = credits + (num_tx[s] - num_rx[s]) - (num_tx[s] + k - num_rx[s])
      /\ num_rx[s] < num_tx[s] + k /\ num_rx[s] < ReqPkts[r]
      /\ num_tx[s] \in Nat /\ num_rx[s] \in Nat
      /\ num_rx[s] <= num_rx[s] /\ num_rx[s] <= num_tx[s]
    BY SMTT(120), <1>4, <1>5, <1>6 DEF Kicked
<1>10. /\ num_tx' = [num_tx EXCEPT ![s] = num_tx[s] + k]
       /\ num_tx[s] + k <= ReqPkts[r]
       /\ UNCHANGED pacing \/ enqueue_wheel_req_st(s, num_tx[s], k)
       /\ \A p \in c_txq' : \/ p \in c_txq
                            \/ \E i \in Nat : /\ i < ReqPkts[r]
                                              /\ p = ReqPkt(r, cur_req_num[s], i)
    BY <1>6 DEF Kicked
<1>11. Sends(s, num_rx[s], num_tx[s], k)
    BY <1>1, <1>2, <1>7, <1>8, <1>9, <1>10 DEF Sends
<1>. QED
    BY <1>3, <1>9, <1>11, SendStep

\* in_order_client: the packet the answer is for is not in the wheel.
LEMMA InOrderFacts ==
    ASSUME IInv, Counting, NEW p \in net, NEW s \in Slot, s = SlotOf(p), in_order_client(s, p),
           p.type \in {"cr", "resp"}
    PROVE  /\ Active(s) /\ Received(s) /\ p.req_num = cur_req_num[s]
           /\ p.pkt_num = num_rx[s] /\ num_rx[s] < num_tx[s]
           /\ \A i \in wheel[s] : num_rx[s] + 1 <= i /\ i < num_tx[s]
<1>1. p \in Packet /\ PacketInv(p) /\ p.req_num \in Nat
    BY DEF IInv, TypeOK, PacketsInv, Sent, Packet
<1>2. p.req_num <= s_cur_req_num[s]
    BY <1>1 DEF PacketInv, CrInv, RespPktInv
<1>3. p.req_num = cur_req_num[s] /\ p.pkt_num = num_rx[s] /\ num_rx[s] < num_tx[s]
    BY DEF in_order_client
<1>4. Received(s)
    BY SMTT(120), <1>1, <1>2, <1>3, NumbersOrder DEF Received
<1>5. num_rx[s] \in Nat /\ num_tx[s] \in Nat
    BY WindowBound
<1>6. Active(s)
  <2>1. num_tx[s] # num_rx[s]
      BY SMTT(120), <1>3, <1>5
  <2>. QED
      BY <2>1 DEF IInv, SlotsInv, ClientInv
<1>7. \A i \in wheel[s] : i \in Nat /\ num_rx[s] <= i /\ i < num_tx[s]
    BY DEF IInv, WheelIsCurrent, TypeOK
<1>8. num_rx[s] \notin wheel[s]
  <2>1. num_rx[s] % kSessionCredits \notin {i % kSessionCredits : i \in wheel[s]}
      BY <1>3 DEF in_order_client, IInv, WheelIsCurrent
  <2>. QED
      BY <2>1
<1>9. \A i \in wheel[s] : num_rx[s] + 1 <= i /\ i < num_tx[s]
    BY SMTT(120), <1>5, <1>7, <1>8
<1>. QED
    BY <1>3, <1>4, <1>6, <1>9

\* process_expl_cr_st keeps the invariant.
LEMMA CrStep ==
    ASSUME IInv, Counting, NEW p \in net, process_expl_cr_st(p)
    PROVE  IInv'
<1>1. p \in Packet /\ SlotOf(p) \in Slot
    BY SlotOfType DEF IInv, TypeOK, Packet
<1>2. PICK s \in Slot : s = SlotOf(p)
    BY <1>1
<1>. DEFINE r == tx_msgbuf[s]
<1>3. /\ p.type = "cr" /\ in_order_client(s, p)
      /\ num_rx' = [num_rx EXCEPT ![s] = num_rx[s] + 1]
      /\ IF num_tx[s] < ReqPkts[r]
            THEN kick_req_st(s, r, cur_req_num[s], num_tx[s], credits + 1)
            ELSE credits' = credits + 1 /\ UNCHANGED <<num_tx, pacing, c_txq>>
      /\ UNCHANGED <<tx_msgbuf, cur_req_num, resp_msgbuf, queues, server, net, history>>
    BY <1>2 DEF process_expl_cr_st
<1>4. /\ Active(s) /\ Received(s) /\ p.req_num = cur_req_num[s] /\ p.pkt_num = num_rx[s]
      /\ num_rx[s] < num_tx[s]
      /\ \A i \in wheel[s] : num_rx[s] + 1 <= i /\ i < num_tx[s]
    BY <1>2, <1>3, InOrderFacts
<1>5. num_rx[s] + 1 < ReqPkts[r]
  <2>1. CrInv(p)
      BY <1>3 DEF IInv, PacketsInv, PacketInv, Sent
  <2>. QED
      BY <1>2, <1>4, <2>1 DEF CrInv
<1>6. /\ r \in Req /\ ReqPkts[r] \in Nat \ {0} /\ credits \in Nat
      /\ num_rx[s] \in Nat /\ num_tx[s] \in Nat /\ num_tx \in [Slot -> Nat]
    BY <1>4, ClientTypes
<1>7. num_tx[s] <= ReqPkts[r]
  <2>1. ClientInv(s)
      BY DEF IInv, SlotsInv
  <2>2. Asking(s, r)
      BY SMTT(120), <1>4, <1>5, <1>6, <2>1 DEF ClientInv, Collecting
  <2>. QED
      BY <2>2 DEF Asking
<1>8. /\ num_rx[s] + 1 \in Nat /\ num_rx[s] <= num_rx[s] + 1 /\ num_rx[s] + 1 <= num_tx[s]
      /\ num_tx[s] # num_rx[s] /\ credits + 1 \in Nat \ {0}
    BY SMTT(120), <1>4, <1>6
<1>9. CASE num_tx[s] < ReqPkts[r]
  <2>1. PICK avail \in Nat \ {0} : avail = credits + 1
      BY <1>8
  <2>2. PICK k \in Nat \ {0} : Kicked(s, r, cur_req_num[s], num_tx[s], avail, k)
    <3>1. kick_req_st(s, r, cur_req_num[s], num_tx[s], avail)
        BY <1>3, <1>9, <2>1
    <3>. HIDE DEF r
    <3>. QED
        BY <1>6, <1>9, <3>1, KickFacts
  <2>3. /\ k <= avail /\ num_tx[s] + k <= ReqPkts[r]
        /\ num_tx' = [num_tx EXCEPT ![s] = num_tx[s] + k]
        /\ credits' = avail - k
        /\ UNCHANGED pacing \/ enqueue_wheel_req_st(s, num_tx[s], k)
        /\ \A q \in c_txq' : \/ q \in c_txq
                             \/ \E i \in Nat : /\ i < ReqPkts[r]
                                               /\ q = ReqPkt(r, cur_req_num[s], i)
      BY <2>2 DEF Kicked
  <2>4. /\ credits' \in Nat
        /\ credits' = credits + (num_tx[s] - num_rx[s]) - (num_tx[s] + k - (num_rx[s] + 1))
        /\ num_rx[s] + 1 < num_tx[s] + k
      BY SMTT(120), <1>6, <1>8, <2>1, <2>3
  <2>5. UNCHANGED <<stallq, sslot_free_vec, enq_req_backlog>>
      BY <1>3 DEF queues
  <2>6. Sends(s, num_rx[s] + 1, num_tx[s], k)
      BY <1>3, <1>4, <1>5, <1>6, <1>8, <2>3, <2>4, <2>5 DEF Sends
  <2>. QED
      BY <1>4, <1>6, <1>8, <2>6, SendStep
<1>10. CASE ~ (num_tx[s] < ReqPkts[r])
  <2>1. credits' = credits + 1 /\ UNCHANGED <<num_tx, pacing, c_txq>>
      BY <1>3, <1>10
  <2>2. /\ credits' \in Nat
        /\ credits' = credits + (num_tx[s] - num_rx[s]) - (num_tx[s] + 0 - (num_rx[s] + 1))
        /\ num_rx[s] + 1 < num_tx[s] + 0
        /\ num_tx[s] + 0 <= ReqPkts[r]
      BY SMTT(120), <1>5, <1>6, <1>7, <1>10, <2>1
  <2>3. num_tx' = [num_tx EXCEPT ![s] = num_tx[s] + 0]
      BY SMTT(120), <1>6, <2>1
  <2>4. UNCHANGED <<stallq, sslot_free_vec, enq_req_backlog>>
      BY <1>3 DEF queues
  <2>5. Sends(s, num_rx[s] + 1, num_tx[s], 0)
      BY <1>3, <1>4, <1>5, <1>6, <1>8, <2>1, <2>2, <2>3, <2>4 DEF Sends
  <2>. QED
      BY <1>4, <1>6, <1>8, <2>5, SendStep
<1>. QED
    BY <1>9, <1>10

-----------------------------------------------------------------------------
(* A slot that asks for the rest of its response.                             *)

\* What the server has a response to is what it serves.
LEMMA RespondedServes ==
    ASSUME IInv, NEW s \in Slot, NEW r \in Req, Responded(s, r)
    PROVE  Serves(s, r)
<1>1. ~ Fresh(s)
    BY ReqAssumption DEF Fresh, Responded
<1>2. PICK u \in Req : Serves(s, u)
    BY <1>1 DEF IInv, SlotsInv, ServerInv
<1>. QED
    BY <1>2, ReqAssumption DEF Serves, Assembling, Pending, Responded

\* An RFR of an active slot, as Rfrs makes it.
LEMMA RfrPacket ==
    ASSUME IInv, NEW s \in Slot, NEW r \in Req, Received(s), Responded(s, r),
           NEW i \in Nat, ReqPkts[r] <= i, i < wire_pkts(r),
           NEW p, p = Pkt("rfr", cur_req_num[s], i, Control)
    PROVE  p \in Packet /\ PacketInv(p) /\ p.type = "rfr"
<1>1. NumbersInv(s) /\ cur_req_num[s] \in Nat /\ s_cur_req_num[s] = cur_req_num[s]
    BY NumbersOrder DEF IInv, SlotsInv, Received
<1>2. /\ p.type = "rfr" /\ p.req_num = cur_req_num[s] /\ p.pkt_num = i
      /\ p \in Packet
    BY <1>1 DEF Pkt, Control, Packet
<1>3. SlotOf(p) = s
    BY <1>1, <1>2 DEF SlotOf, NumbersInv
<1>4. s_tx_msgbuf[s] = r
    BY DEF Responded
<1>5. RfrInv(p)
    BY SMTT(120), <1>1, <1>2, <1>3, <1>4 DEF RfrInv
<1>. QED
    BY <1>2, <1>5 DEF PacketInv

\* Slot s has got the packets up to rx and sends RFRs from..from + k - 1.
Collects(s, r, rx, from, k) ==
    /\ Active(s) /\ tx_msgbuf[s] = r /\ Received(s) /\ Responded(s, r)
    /\ num_tx[s] # num_rx[s] /\ wheel[s] = {}
    /\ ReqPkts[r] <= rx /\ num_rx[s] <= rx /\ rx <= from /\ rx < from + k
    /\ from + k <= wire_pkts(r) /\ rx <= s_num_rx[s]
    /\ num_rx' = [num_rx EXCEPT ![s] = rx]
    /\ num_tx' = [num_tx EXCEPT ![s] = from + k]
    /\ resp_msgbuf' = [resp_msgbuf EXCEPT ![s] = Message(r, rx - ReqPkts[r] + 1)]
    /\ credits' \in Nat
    /\ credits' = credits + (num_tx[s] - num_rx[s]) - (from + k - rx)
    /\ UNCHANGED <<tx_msgbuf, cur_req_num, queues, pacing, server, history>>
    /\ c_txq' \subseteq c_txq
    /\ \A p \in net' : \/ p \in c_txq \cup net
                       \/ \E i \in Nat : /\ from <= i /\ i < from + k
                                         /\ p = Pkt("rfr", cur_req_num[s], i, Control)
    /\ \A p \in s_txq : SlotOf(p) = s => rx <= p.pkt_num

\* A slot that collects its response keeps the invariant: the common part of
\* kick_rfr_st and of a retransmission of RFRs.
LEMMA CollectStep ==
    ASSUME IInv, Counting, NEW s \in Slot, NEW r \in Req, NEW rx \in Nat, NEW from \in Nat,
           NEW k \in Nat, Collects(s, r, rx, from, k)
    PROVE  IInv'
<1>0. /\ ReqPkts[r] <= rx /\ num_rx[s] <= rx /\ rx <= from /\ rx < from + k
      /\ from + k <= wire_pkts(r) /\ num_tx[s] # num_rx[s]
    BY DEF Collects
<1>1. /\ ReqPkts[r] \in Nat \ {0} /\ RespPkts[r] \in Nat \ {0} /\ r # NoReq
      /\ num_tx \in [Slot -> Nat] /\ num_rx \in [Slot -> Nat] /\ credits \in Nat
      /\ resp_msgbuf \in [Slot -> SUBSET (Nat \X Req)]
    BY ClientTypes, ReqAssumption DEF IInv, TypeOK
<1>2. /\ UNCHANGED <<serverSlots, s_txq, issued, executed, answer>>
      /\ UNCHANGED <<stallq, sslot_free_vec, enq_req_backlog, wheel, in_wheel>>
    BY DEF Collects, server, history, serverSlots, queues, pacing
<1>3. /\ num_rx'[s] = rx /\ num_tx'[s] = from + k
      /\ num_tx' \in [Slot -> Nat] /\ num_rx' \in [Slot -> Nat]
      /\ \A x \in Slot \ {s} : num_tx'[x] = num_tx[x] /\ num_rx'[x] = num_rx[x]
      /\ num_rx'[s] <= num_tx'[s] /\ num_tx'[s] # num_rx'[s]
  <2>1. rx <= from + k /\ from + k # rx
      BY SMTT(120), <1>0
  <2>. QED
      BY <1>1, <2>1, Sums DEF Collects
<1>4. /\ \A x \in Slot \ {s} : SameClient(x)
      /\ resp_msgbuf' \in [Slot -> SUBSET (Nat \X Req)]
      /\ resp_msgbuf'[s] = Message(r, rx - ReqPkts[r] + 1)
  <2>1. PICK m \in Nat : m = rx - ReqPkts[r] + 1
      BY SMTT(120), <1>0, <1>1
  <2>2. Message(r, m) \in SUBSET (Nat \X Req)
      BY MessageType
  <2>. QED
      BY <1>1, <1>3, <2>1, <2>2 DEF Collects, SameClient
<1>5. /\ IsFiniteSet(Unanswered)'
      /\ credits' + Cardinality(Unanswered') = kSessionCredits
      /\ credits' \in 0..kSessionCredits
  <2>1. /\ credits' \in Nat
        /\ credits' = credits + (num_tx[s] - num_rx[s]) - (from + k - rx)
      BY DEF Collects
  <2>2. from + k - rx = num_tx'[s] - num_rx'[s]
    <3>1. num_rx'[s] = rx /\ num_tx'[s] = from + k
        BY <1>3
    <3>. QED
        BY ONLY <3>1
  <2>3. credits' = credits + (num_tx[s] - num_rx[s]) - (num_tx'[s] - num_rx'[s])
      BY <2>1, <2>2
  <2>. QED
      BY <1>3, <2>1, <2>3, CreditStep
<1>6. CreditsAccounted'
  <2>1. \A x \in Slot : num_rx[x] <= num_tx[x]
      BY DEF IInv, CreditsAccounted
  <2>2. \A x \in Slot : num_rx'[x] <= num_tx'[x]
      BY <1>3, <2>1
  <2>3. \A x \in Slot : num_tx'[x] = num_rx'[x] <=> num_tx[x] = num_rx[x]
      BY <1>0, <1>3
  <2>. QED
      BY <1>2, <1>5, <2>2, <2>3, QueuesFrame DEF Collects, IInv
<1>7. WheelIsCurrent'
  <2>. SUFFICES ASSUME NEW x \in Slot
                PROVE  /\ in_wheel[x] = {i % kSessionCredits : i \in wheel[x]}
                       /\ \A i, j \in wheel[x] :
                             i % kSessionCredits = j % kSessionCredits => i = j
                       /\ \A i \in wheel[x] : /\ tx_msgbuf[x] # NoReq
                                              /\ i < ReqPkts[tx_msgbuf[x]]
                                              /\ num_rx'[x] <= i /\ i < num_tx'[x]
      BY <1>2 DEF Collects, WheelIsCurrent
  <2>1. /\ in_wheel[x] = {i % kSessionCredits : i \in wheel[x]}
        /\ \A i, j \in wheel[x] : i % kSessionCredits = j % kSessionCredits => i = j
        /\ \A i \in wheel[x] : /\ tx_msgbuf[x] # NoReq
                               /\ i < ReqPkts[tx_msgbuf[x]]
                               /\ num_rx[x] <= i /\ i < num_tx[x]
      BY DEF IInv, WheelIsCurrent
  <2>2. \A i \in wheel[x] : num_rx'[x] <= i /\ i < num_tx'[x]
      BY <1>3, <2>1 DEF Collects
  <2>. QED
      BY <2>1, <2>2
<1>8. \A p \in net' : \/ p \in c_txq \cup net
                      \/ p \in Packet /\ PacketInv(p) /\ p.type # "resp"
  <2>1. ASSUME NEW i \in Nat, NEW p, from <= i, i < from + k,
               p = Pkt("rfr", cur_req_num[s], i, Control)
        PROVE  p \in Packet /\ PacketInv(p) /\ p.type = "rfr"
    <3>1. wire_pkts(r) \in Nat
        BY SMTT(120), <1>1 DEF wire_pkts
    <3>2. ReqPkts[r] <= i /\ i < wire_pkts(r)
        BY SMTT(120), <1>0, <1>1, <2>1, <3>1
    <3>. QED
        BY <2>1, <3>2, RfrPacket DEF Collects
  <2>. QED
      BY <2>1 DEF Collects
<1>9. TypeOK'
  <2>1. c_txq' \cup s_txq' \cup net' \subseteq Packet
    <3>1. c_txq \cup s_txq \cup net \subseteq Packet
        BY ClientTypes
    <3>. QED
        BY <1>2, <1>8, <3>1 DEF Collects
  <2>. QED
      BY <1>2, <1>3, <1>4, <1>5, <2>1 DEF Collects, IInv, TypeOK, serverSlots, history
<1>10. ClientInv(s)'
  <2>1. Active(s)' /\ tx_msgbuf'[s] = r /\ Received(s)' /\ Responded(s, r)'
      BY <1>2 DEF Collects, Active, Received, Responded, serverSlots
  <2>2. rx < wire_pkts(r) /\ num_rx'[s] # num_tx'[s] /\ num_rx'[s] <= num_tx'[s]
    <3>1. wire_pkts(r) \in Nat
        BY SMTT(120), <1>1 DEF wire_pkts
    <3>2. rx < wire_pkts(r)
        BY SMTT(120), <1>0, <3>1
    <3>. QED
        BY <1>3, <3>2
  <2>3. /\ ReqPkts[r] <= num_rx'[s] /\ num_rx'[s] < wire_pkts(r) /\ num_tx'[s] <= wire_pkts(r)
        /\ resp_msgbuf'[s] = Message(r, num_rx'[s] - ReqPkts[r] + 1)
      BY <1>0, <1>3, <1>4, <2>2
  <2>. QED
      BY <2>1, <2>2, <2>3 DEF ClientInv, Collecting, wire_pkts
<1>11. \A t \in Req : Received(s) /\ Responded(s, t) /\ num_rx[s] <= s_num_rx[s]
                          => num_rx'[s] <= s_num_rx[s]
    BY <1>3 DEF Collects
<1>12. \A p \in s_txq : SlotOf(p) = s => num_rx'[s] <= p.pkt_num
    BY <1>3 DEF Collects
<1>13. \A p \in c_txq' : p \in c_txq \/ (p \in Packet /\ PacketInv(p) /\ p.type = "req")
    BY DEF Collects
<1>. QED
    BY <1>2, <1>4, <1>5, <1>6, <1>7, <1>8, <1>9, <1>10, <1>11, <1>12, <1>13, ProgressStep DEF Collects

\* pkt_loss_retransmit_st keeps the invariant.
LEMMA RetransmitStep ==
    ASSUME IInv, Counting, NEW s \in Slot, pkt_loss_retransmit_st(s)
    PROVE  IInv'
<1>1. Active(s) /\ num_tx[s] # num_rx[s] /\ wheel[s] = {} /\ c_txq' = {}
    BY DEF pkt_loss_retransmit_st, Active
<1>2. PICK r \in Req : r = tx_msgbuf[s]
    BY <1>1, ClientTypes
<1>3. PICK from \in Nat : from = num_rx[s]
    BY WindowBound
<1>4. PICK avail \in Nat : avail = credits + (num_tx[s] - num_rx[s])
    BY SMTT(120), WindowBound
<1>5. /\ avail \in Nat \ {0} /\ num_tx[s] \in Nat /\ num_rx[s] \in Nat
      /\ ReqPkts[r] \in Nat \ {0} /\ RespPkts[r] \in Nat \ {0} /\ credits \in Nat
      /\ num_rx \in [Slot -> Nat]
    BY SMTT(120), <1>1, <1>2, <1>4, WindowBound, ClientTypes
<1>6. /\ num_rx' = [num_rx EXCEPT ![s] = from]
      /\ UNCHANGED <<tx_msgbuf, cur_req_num, resp_msgbuf, queues, server, history>>
    BY <1>3, <1>5 DEF pkt_loss_retransmit_st
<1>7. UNCHANGED <<stallq, sslot_free_vec, enq_req_backlog>>
    BY <1>6 DEF queues
<1>8. CASE from < ReqPkts[r]
  <2>1. PICK k \in Nat \ {0} : k = min(avail, ReqPkts[r] - from)
      BY SMTT(120), <1>5, <1>8 DEF min
  <2>2. k <= avail /\ from + k <= ReqPkts[r]
      BY SMTT(120), <1>5, <1>8, <2>1 DEF min
  <2>3. /\ num_tx' = [num_tx EXCEPT ![s] = from + k]
        /\ credits' = avail - k
        /\ \/ /\ net' = net \cup c_txq \cup
                     {ReqPkt(r, cur_req_num[s], i) : i \in from..(from + k - 1)}
              /\ UNCHANGED pacing
           \/ enqueue_wheel_req_st(s, from, k) /\ net' = net \cup c_txq
      BY <1>2, <1>3, <1>4, <1>8, <2>1 DEF pkt_loss_retransmit_st
  <2>4. \A i \in from..(from + k - 1) : i \in Nat /\ i < ReqPkts[r]
      BY SMTT(120), <1>5, <2>2
  <2>5. \A p \in net' : \/ p \in c_txq \cup net
                        \/ \E i \in Nat : /\ i < ReqPkts[tx_msgbuf[s]]
                                          /\ p = ReqPkt(tx_msgbuf[s], cur_req_num[s], i)
      BY <1>2, <2>3, <2>4
  <2>6. UNCHANGED pacing \/ enqueue_wheel_req_st(s, from, k)
      BY <2>3
  <2>7. /\ credits' \in Nat
        /\ credits' = credits + (num_tx[s] - num_rx[s]) - (from + k - from)
        /\ num_rx[s] <= from /\ from <= from /\ from < from + k
      BY SMTT(120), <1>3, <1>4, <1>5, <2>2, <2>3
  <2>8. from < ReqPkts[tx_msgbuf[s]] /\ from + k <= ReqPkts[tx_msgbuf[s]]
      BY <1>2, <1>8, <2>2
  <2>9. Sends(s, from, from, k)
      BY <1>1, <1>6, <1>7, <2>3, <2>5, <2>6, <2>7, <2>8 DEF Sends
  <2>. QED
      BY <1>1, <1>5, <2>9, SendStep
<1>9. CASE ~ (from < ReqPkts[r])
  <2>1. Collecting(s, r)
      BY <1>1, <1>2, <1>3, <1>5, <1>9 DEF IInv, SlotsInv, ClientInv, Asking
  <2>2. /\ Received(s) /\ Responded(s, r) /\ ReqPkts[r] <= from /\ from < wire_pkts(r)
        /\ resp_msgbuf[s] = Message(r, from - ReqPkts[r] + 1)
      BY <1>3, <2>1 DEF Collecting
  <2>3. NumPkts(resp_msgbuf[s], RespPkts) = RespPkts[r]
    <3>1. PICK m \in Nat \ {0} : m = from - ReqPkts[r] + 1
        BY SMTT(120), <1>5, <2>2
    <3>. QED
        BY SMTT(120), <2>2, <3>1, NumPktsOfMessage, ReqAssumption
  <2>4. PICK w \in Nat : w = wire_pkts(r)
      BY SMTT(120), <1>5 DEF wire_pkts
  <2>5. PICK k \in Nat \ {0} : k = min(avail, w - from)
      BY SMTT(120), <1>5, <2>2, <2>4 DEF min
  <2>6. k <= avail /\ from + k <= wire_pkts(r)
      BY SMTT(120), <1>5, <2>2, <2>4, <2>5 DEF min
  <2>7. /\ num_tx' = [num_tx EXCEPT ![s] = from + k]
        /\ credits' = avail - k
        /\ net' = net \cup c_txq \cup Rfrs(cur_req_num[s], from, k)
        /\ UNCHANGED pacing
      BY <1>2, <1>3, <1>4, <1>9, <2>3, <2>4, <2>5 DEF pkt_loss_retransmit_st, RfrsToSend, wire_pkts
  <2>8. \A p \in net' : \/ p \in c_txq \cup net
                        \/ \E i \in Nat : /\ from <= i /\ i < from + k
                                          /\ p = Pkt("rfr", cur_req_num[s], i, Control)
    <3>1. \A i \in from..(from + k - 1) : i \in Nat /\ from <= i /\ i < from + k
        BY SMTT(120)
    <3>. QED
        BY <2>7, <3>1 DEF Rfrs
  <2>9. from <= s_num_rx[s]
    <3>1. Serves(s, r)
        BY <2>2, RespondedServes
    <3>. QED
        BY <1>1, <1>3, <1>5, <2>2, <3>1, ReqAssumption
           DEF Serves, Assembling, Pending, Responded
  <2>10. resp_msgbuf' = [resp_msgbuf EXCEPT ![s] = Message(r, from - ReqPkts[r] + 1)]
      BY <1>6, <2>2 DEF IInv, TypeOK
  <2>11. \A p \in s_txq : SlotOf(p) = s => from <= p.pkt_num
      BY <1>3 DEF IInv, ReleaseInv
  <2>12. /\ credits' \in Nat
         /\ credits' = credits + (num_tx[s] - num_rx[s]) - (from + k - from)
         /\ num_rx[s] <= from /\ from <= from /\ from < from + k
      BY SMTT(120), <1>3, <1>4, <1>5, <2>6, <2>7
  <2>13. c_txq' \subseteq c_txq /\ tx_msgbuf[s] = r
      BY <1>1, <1>2
  <2>14. Collects(s, r, from, from, k)
      BY <1>1, <1>6, <2>2, <2>6, <2>7, <2>8, <2>9, <2>10, <2>11, <2>12, <2>13 DEF Collects
  <2>. QED
      BY <2>14, CollectStep
<1>. QED
    BY <1>8, <1>9


-----------------------------------------------------------------------------
(* A response arrives.                                                        *)

\* The response packet p that process_resp_one_st accepts is number i of the
\* response to r, the request of slot s; the pieces before it are there, and no
\* packet of the slot that the client has not got yet is lost with it.
Arrived(p, s, r, i) ==
    /\ s = SlotOf(p) /\ Active(s) /\ tx_msgbuf[s] = r
    /\ Received(s) /\ Responded(s, r) /\ wheel[s] = {}
    /\ i < RespPkts[r] /\ p.data = <<i, r>> /\ num_rx[s] = ReqPkts[r] - 1 + i
    /\ num_rx[s] < num_tx[s] /\ num_tx[s] <= wire_pkts(r)
    /\ num_rx[s] + 1 <= s_num_rx[s]
    /\ copy_data_to_msgbuf(resp_msgbuf[s], p.data) = Message(r, i + 1)
    /\ \A q \in s_txq : SlotOf(q) = s => num_rx[s] + 1 <= q.pkt_num

\* What in_order_client lets through: the next packet of the response to the
\* active request of its slot, and of no earlier request of the slot.
LEMMA RespFacts ==
    ASSUME IInv, Counting, NEW p \in net, p.type = "resp", in_order_client(SlotOf(p), p)
    PROVE  \E s \in Slot, r \in Req, i \in Nat : Arrived(p, s, r, i)
<1>1. p \in Packet /\ SlotOf(p) \in Slot /\ p.req_num \in Nat /\ p.pkt_num \in Nat
    BY SlotOfType DEF IInv, TypeOK, Packet
<1>2. PICK s \in Slot : s = SlotOf(p)
    BY <1>1
<1>3. /\ Active(s) /\ Received(s) /\ p.req_num = cur_req_num[s]
      /\ p.pkt_num = num_rx[s] /\ num_rx[s] < num_tx[s]
      /\ \A i \in wheel[s] : num_rx[s] + 1 <= i /\ i < num_tx[s]
    BY <1>2, InOrderFacts
<1>4. RespPktInv(p)
    BY DEF IInv, PacketsInv, PacketInv, Sent
<1>5. PICK r \in Req : r = p.data[2]
    BY <1>4 DEF RespPktInv
<1>6. PICK i \in Nat : i = p.data[1]
    BY <1>1 DEF Packet
<1>7. /\ Responded(s, r) /\ Serves(s, r) /\ num_rx[s] < s_num_rx[s]
      /\ i < RespPkts[r] /\ num_rx[s] = ReqPkts[r] - 1 + i
    BY <1>2, <1>3, <1>4, <1>5, <1>6 DEF RespPktInv, Received
<1>8. p.data = <<i, r>>
    BY SMTT(120), <1>1, <1>5, <1>6 DEF Packet
<1>9. tx_msgbuf[s] = r
    BY <1>3, <1>7 DEF Serves
<1>10. /\ ReqPkts[r] \in Nat \ {0} /\ RespPkts[r] \in Nat \ {0} /\ s_num_rx[s] \in Nat
       /\ num_rx[s] \in Nat /\ num_tx[s] \in Nat
    BY ReqAssumption, WindowBound DEF IInv, TypeOK
<1>11. wheel[s] = {}
  <2>1. \A j \in wheel[s] : j \in Nat /\ j < ReqPkts[r]
      BY <1>9 DEF IInv, WheelIsCurrent, TypeOK
  <2>. QED
      BY SMTT(120), <1>3, <1>7, <1>10, <2>1
<1>12. resp_msgbuf[s] = Message(r, i) /\ num_tx[s] <= wire_pkts(r)
  <2>1. Asking(s, r) \/ Collecting(s, r)
      BY <1>3, <1>9 DEF IInv, SlotsInv, ClientInv
  <2>2. CASE Asking(s, r)
    <3>1. i = 0 /\ num_tx[s] <= wire_pkts(r) /\ resp_msgbuf[s] = {}
        BY SMTT(120), <1>7, <1>10, <2>2 DEF Asking, wire_pkts
    <3>2. Message(r, 0) = {}
        BY SMTT(120) DEF Message
    <3>. QED
        BY <3>1, <3>2
  <2>3. CASE Collecting(s, r)
    <3>1. num_rx[s] - ReqPkts[r] + 1 = i
        BY SMTT(120), <1>7, <1>10
    <3>. QED
        BY <2>3, <3>1 DEF Collecting
  <2>. QED
      BY <2>1, <2>2, <2>3
<1>13. copy_data_to_msgbuf(resp_msgbuf[s], p.data) = Message(r, i + 1)
    BY <1>8, <1>12, CopyNext
<1>14. \A q \in s_txq : SlotOf(q) = s => num_rx[s] + 1 <= q.pkt_num
  <2>. SUFFICES ASSUME NEW q \in s_txq, SlotOf(q) = s
                PROVE  num_rx[s] + 1 <= q.pkt_num
      OBVIOUS
  <2>1. q \in Packet /\ RespPktInv(q) /\ ReleaseInv(q) /\ q.type = "resp"
      BY DEF IInv, TypeOK, PacketsInv, PacketInv, Sent
  <2>2. /\ q.req_num = s_cur_req_num[s] /\ num_rx[s] <= q.pkt_num /\ q \notin net
        /\ q.data[2] \in Req /\ Serves(s, q.data[2])
        /\ q.pkt_num = ReqPkts[q.data[2]] - 1 + q.data[1]
      BY <2>1 DEF RespPktInv, ReleaseInv
  <2>3. q.data[2] = r
      BY <1>3, <1>9, <2>2 DEF Serves
  <2>4. q.data[1] \in Nat /\ q.data = <<q.data[1], r>> /\ q.pkt_num \in Nat
      BY SMTT(120), <2>1, <2>3 DEF Packet
  <2>5. q.pkt_num # num_rx[s]
    <3>. SUFFICES ASSUME q.pkt_num = num_rx[s] PROVE FALSE
        OBVIOUS
    <3>1. q.data[1] = i
        BY SMTT(120), <1>7, <1>10, <2>2, <2>3, <2>4
    <3>2. q.data = p.data /\ q.type = p.type /\ q.pkt_num = p.pkt_num
        BY <1>3, <1>8, <2>1, <2>4, <3>1
    <3>3. q.req_num = p.req_num
        BY <1>3, <2>2 DEF Received
    <3>4. q = p
        BY SMTT(120), <1>1, <2>1, <3>2, <3>3 DEF Packet
    <3>. QED
        BY <2>2, <3>4
  <2>. QED
      BY SMTT(120), <1>10, <2>2, <2>4, <2>5
<1>15. num_rx[s] + 1 <= s_num_rx[s]
    BY SMTT(120), <1>7, <1>10
<1>16. Arrived(p, s, r, i)
    BY <1>2, <1>3, <1>7, <1>8, <1>9, <1>11, <1>12, <1>13, <1>14, <1>15 DEF Arrived
<1>. QED
    BY <1>16

\* process_resp_one_st keeps the invariant when more packets of the response are
\* to come.
LEMMA NextPieceStep ==
    ASSUME IInv, Counting, NEW p \in net, NEW s \in Slot, NEW r \in Req, NEW i \in Nat,
           Arrived(p, s, r, i), i + 1 # RespPkts[r],
           NextPiece(s, Message(r, i + 1), wire_pkts(r))
    PROVE  IInv'
<1>1. /\ ReqPkts[r] \in Nat \ {0} /\ RespPkts[r] \in Nat \ {0} /\ credits \in Nat
      /\ num_rx[s] \in Nat /\ num_tx[s] \in Nat
    BY ReqAssumption, WindowBound DEF IInv, TypeOK
<1>2. PICK rx \in Nat : rx = num_rx[s] + 1
    BY SMTT(120), <1>1
<1>3. PICK w \in Nat : w = wire_pkts(r)
    BY SMTT(120), <1>1 DEF wire_pkts
<1>4. /\ w = ReqPkts[r] + RespPkts[r] - 1 /\ num_rx[s] = ReqPkts[r] - 1 + i
      /\ num_rx[s] < num_tx[s] /\ num_tx[s] <= w /\ i < RespPkts[r]
    BY <1>3 DEF Arrived, wire_pkts
<1>5. PICK k \in Nat : k = RfrsToSend(num_tx[s], credits + 1, w)
    BY SMTT(120), <1>1, <1>4 DEF RfrsToSend, min
<1>6. k <= credits + 1 /\ num_tx[s] + k <= w /\ rx < num_tx[s] + k
  <2>1. k = IF credits + 1 < w - num_tx[s] THEN credits + 1 ELSE w - num_tx[s]
      BY <1>5 DEF RfrsToSend, min
  <2>2. rx < w /\ rx <= num_tx[s]
      BY SMTT(120), <1>1, <1>2, <1>4
  <2>3. k <= credits + 1 /\ num_tx[s] + k <= w
      BY SMTT(120), <1>1, <1>4, <2>1
  <2>4. rx < num_tx[s] + k
      BY SMTT(120), <1>1, <1>4, <2>1, <2>2
  <2>. QED
      BY <2>3, <2>4
<1>7. /\ num_rx' = [num_rx EXCEPT ![s] = rx]
      /\ num_tx' = [num_tx EXCEPT ![s] = num_tx[s] + k]
      /\ credits' = credits + 1 - k
      /\ net' = net \cup Rfrs(cur_req_num[s], num_tx[s], k)
      /\ resp_msgbuf' = [resp_msgbuf EXCEPT ![s] = Message(r, i + 1)]
      /\ UNCHANGED <<tx_msgbuf, cur_req_num, pacing, queues, c_txq, server, history>>
    BY <1>2, <1>3, <1>5 DEF NextPiece
<1>8. rx - ReqPkts[r] + 1 = i + 1 /\ ReqPkts[r] <= rx
    BY SMTT(120), <1>1, <1>2, <1>4
<1>9. \A q \in net' : \/ q \in c_txq \cup net
                      \/ \E j \in Nat : /\ num_tx[s] <= j /\ j < num_tx[s] + k
                                        /\ q = Pkt("rfr", cur_req_num[s], j, Control)
  <2>1. \A j \in num_tx[s]..(num_tx[s] + k - 1) :
            j \in Nat /\ num_tx[s] <= j /\ j < num_tx[s] + k
      BY SMTT(120), <1>1
  <2>. QED
      BY <1>7, <2>1 DEF Rfrs
<1>10. /\ credits' \in Nat
       /\ credits' = credits + (num_tx[s] - num_rx[s]) - (num_tx[s] + k - rx)
       /\ num_rx[s] <= rx /\ rx <= num_tx[s] /\ num_tx[s] # num_rx[s]
  <2>1. CreditsMoved(credits, num_tx[s], num_rx[s], rx, k)
      BY <1>1, <1>2, <1>4, <1>6, CreditsMove
  <2>. QED
      BY <1>7, <2>1 DEF CreditsMoved
<1>11. /\ Active(s) /\ tx_msgbuf[s] = r /\ Received(s) /\ Responded(s, r) /\ wheel[s] = {}
       /\ rx <= s_num_rx[s]
       /\ \A q \in s_txq : SlotOf(q) = s => rx <= q.pkt_num
    BY <1>2 DEF Arrived
<1>12. Collects(s, r, rx, num_tx[s], k)
    BY <1>3, <1>6, <1>7, <1>8, <1>9, <1>10, <1>11 DEF Collects
<1>. QED
    BY <1>1, <1>12, CollectStep

-----------------------------------------------------------------------------
(* A slot that goes on to another request, or to none.                        *)

\* The server has no request in the slot, or has given all of its response.
Settled(s) ==
    Fresh(s) \/ \E r \in Req : Responded(s, r) /\ s_num_rx[s] = wire_pkts(r)

\* Slot s, done with its request, has request q from now on, or no request.
Switches(s, q) ==
    /\ Received(s) /\ Settled(s)
    /\ tx_msgbuf' = [tx_msgbuf EXCEPT ![s] = q]
    /\ \A x \in Slot \ {s} : SameClient(x)
    /\ cur_req_num'[s] = IF q = NoReq THEN cur_req_num[s]
                                      ELSE cur_req_num[s] + kSessionReqWindow
    /\ UNCHANGED <<server, net, executed>>
    /\ \A p \in c_txq' : \/ p \in c_txq
                         \/ \E i \in Nat : /\ q \in Req /\ i < ReqPkts[q]
                                           /\ p = ReqPkt(q, cur_req_num'[s], i)
    /\ \A p \in s_txq : SlotOf(p) # s

\* A slot that leaves its request, answered or never there, for another or none
\* keeps the invariant if credits and wheel are right.
LEMMA SwitchStep ==
    ASSUME IInv, TypeOK', NEW s \in Slot, NEW q \in Req \cup {NoReq}, Switches(s, q),
           ClientInv(s)', RequestsInv', \A x \in Slot : ActiveInv(x)',
           IsFiniteSet(Unanswered)', CreditsAccounted', WheelIsCurrent'
    PROVE  IInv'
<1>1. /\ UNCHANGED <<s_cur_req_num, s_num_rx, s_req_msgbuf, s_req_type, s_tx_msgbuf>>
      /\ UNCHANGED <<sav_num_req_pkts, serverSlots, s_txq, net, executed>>
    BY DEF Switches, server, serverSlots
<1>2. \A x \in Slot : SameServer(x) /\ Elsewhere(x, NoReq)
    BY <1>1, SameSlots
<1>3. \A x \in Slot \ {s} : SameClient(x)
    BY DEF Switches
<1>4. /\ s_cur_req_num[s] \in Nat /\ s_cur_req_num[s] = cur_req_num[s]
      /\ cur_req_num[s] % kSessionReqWindow = s
      /\ cur_req_num'[s] = IF q = NoReq THEN cur_req_num[s]
                                        ELSE cur_req_num[s] + kSessionReqWindow
      /\ kSessionReqWindow \in Nat \ {0}
      /\ tx_msgbuf'[s] = q
    BY NumbersOrder, SessionAssumption
       DEF Switches, Received, IInv, SlotsInv, NumbersInv, TypeOK
<1>5. (Active(s)' <=> q # NoReq) /\ (Received(s)' <=> q = NoReq)
    BY SMTT(120), <1>1, <1>4 DEF Active, Received
<1>6. \A r \in Req, x \in Slot : Responded(x, r) => Responded(x, r)'
    BY <1>1 DEF Responded, wire_pkts
<1>7. \A r \in Req : Responded(s, r) => s_num_rx[s] = wire_pkts(r)
    BY ReqAssumption DEF Switches, Settled, Fresh, Responded
<1>8. \A r \in Req : Responded(s, r) => Serves(s, r)'
    BY <1>1, <1>5, <1>6, <1>7 DEF Serves, wire_pkts
<1>9. \A r \in Req : Serves(s, r) => Responded(s, r)
  <2>. SUFFICES ASSUME NEW r \in Req, Assembling(s, r) \/ Pending(s, r)
                PROVE  FALSE
      BY DEF Serves
  <2>1. ~ Fresh(s)
      BY SMTT(120), ReqAssumption DEF Fresh, Assembling, Pending
  <2>2. PICK t \in Req : Responded(s, t)
      BY <2>1 DEF Switches, Settled
  <2>. QED
      BY <2>2, ReqAssumption DEF Responded, Assembling, Pending
<1>10. SlotsInv'
  <2>. SUFFICES ASSUME NEW x \in Slot
                PROVE  (NumbersInv(x) /\ ServerInv(x) /\ ClientInv(x) /\ ActiveInv(x))'
      BY DEF SlotsInv
  <2>1. CASE x # s
    <3>1. NumbersInv(x) /\ ServerInv(x) /\ ClientInv(x)
        BY DEF IInv, SlotsInv
    <3>2. tx_msgbuf[x] \in Req \cup {NoReq}
        BY DEF IInv, TypeOK
    <3>. QED
        BY <1>2, <1>3, <2>1, <3>1, <3>2, SlotFrame
  <2>2. CASE x = s
    <3>1. ServerInv(s)'
      <4>1. Fresh(s) => Fresh(s)'
          BY <1>1 DEF Fresh
      <4>. QED
          BY <1>8, <4>1 DEF Switches, Settled, ServerInv
    <3>2. NumbersInv(s)'
      <4>1. cur_req_num'[s] % kSessionReqWindow = s
          BY <1>4, NextNumber
      <4>2. s_cur_req_num'[s] % kSessionReqWindow = s
          BY <1>1, <1>4
      <4>3. /\ Received(s)' \/ cur_req_num'[s] = s_cur_req_num'[s] + kSessionReqWindow
            /\ Active(s)' => cur_req_num'[s] >= kSessionReqWindow
          BY SMTT(120), <1>1, <1>4, <1>5
      <4>. QED
          BY <1>5, <4>1, <4>2, <4>3 DEF NumbersInv
    <3>. QED
        BY <2>2, <3>1, <3>2
  <2>. QED
      BY <2>1, <2>2
<1>11. ASSUME NEW p \in Sent PROVE PacketInv(p)'
  <2>1. p \in Packet /\ PacketInv(p) /\ SlotOf(p) \in Slot /\ p.req_num \in Nat
      BY SlotOfType DEF IInv, TypeOK, PacketsInv, Sent, Packet
  <2>2. CASE SlotOf(p) # s
      BY <1>2, <1>3, <2>1, <2>2, PacketFrame
  <2>3. CASE SlotOf(p) = s
    <3>1. SlotOf(p)' = s
        BY <2>3 DEF SlotOf
    <3>2. p.req_num <= s_cur_req_num[s] => ~ (Active(s)' /\ p.req_num = cur_req_num'[s])
        BY SMTT(120), <1>4, <1>5, <2>1
    <3>3. p.type = "req" => ReqPktInv(p)'
      <4>1. p.type = "req" => p.req_num <= s_cur_req_num[s]
          BY SMTT(120), <1>4, <2>1, <2>3 DEF PacketInv, ReqPktInv
      <4>. QED
          BY <1>1, <1>8, <1>9, <2>1, <2>3, <3>1, <3>2, <4>1 DEF PacketInv, ReqPktInv
    <3>4. p.type = "resp" => RespPktInv(p)'
        BY <1>1, <1>6, <1>8, <2>1, <2>3, <3>1 DEF PacketInv, RespPktInv
    <3>5. p.type = "cr" => CrInv(p)'
        BY <1>1, <2>1, <2>3, <3>1, <3>2 DEF PacketInv, CrInv
    <3>6. p.type = "rfr" => RfrInv(p)'
        BY <1>1, <1>6, <2>1, <2>3, <3>1 DEF PacketInv, RfrInv, wire_pkts
    <3>. QED
        BY <3>3, <3>4, <3>5, <3>6 DEF PacketInv
  <2>. QED
      BY <2>2, <2>3
<1>12. ASSUME NEW i \in Nat, q \in Req, i < ReqPkts[q],
              NEW p, p = ReqPkt(q, cur_req_num'[s], i)
       PROVE  PacketInv(p)' /\ p.type = "req"
  <2>1. p.type = "req" /\ p.req_num = cur_req_num'[s] /\ p.pkt_num = i /\ p.data = <<i, q>>
      BY <1>12 DEF ReqPkt, Pkt
  <2>2. q # NoReq
      BY <1>12, ReqAssumption
  <2>3. cur_req_num'[s] = cur_req_num[s] + kSessionReqWindow
      BY <1>4, <2>2
  <2>4. SlotOf(p)' = s
    <3>1. (cur_req_num[s] + kSessionReqWindow) % kSessionReqWindow = s
        BY <1>4, NextNumber
    <3>. QED
        BY <2>1, <2>3, <3>1 DEF SlotOf
  <2>5. p.req_num # s_cur_req_num'[s] /\ kSessionReqWindow <= p.req_num
    <3>1. cur_req_num[s] \in Nat /\ kSessionReqWindow \in Nat /\ kSessionReqWindow # 0
        BY <1>4
    <3>2. /\ cur_req_num[s] # cur_req_num[s] + kSessionReqWindow
          /\ kSessionReqWindow <= cur_req_num[s] + kSessionReqWindow
        BY <3>1, Sums
    <3>. QED
        BY <1>1, <1>4, <2>1, <2>3, <3>2
  <2>6. ReqPktInv(p)'
    <3>1. p.data[1] = i /\ p.data[2] = q
        BY ONLY SMTT(120), <2>1
    <3>. QED
        BY <1>4, <1>12, <2>1, <2>4, <2>5, <3>1 DEF ReqPktInv
  <2>. QED
      BY <2>1, <2>6 DEF PacketInv
<1>13. PacketsInv'
  <2>1. \A p \in c_txq' : PacketInv(p)' /\ p.type = "req"
    <3>1. \A p \in c_txq : PacketInv(p)' /\ p.type = "req"
        BY <1>11 DEF IInv, PacketsInv, Sent
    <3>. QED
        BY <1>12, <3>1 DEF Switches
  <2>2. \A p \in s_txq' \cup net' : PacketInv(p)'
      BY <1>1, <1>11 DEF Sent
  <2>3. \A p \in s_txq' : p.type = "resp"
      BY <1>1 DEF IInv, PacketsInv
  <2>. QED
      BY <2>1, <2>2, <2>3 DEF PacketsInv, Sent
<1>14. (\A p \in s_txq : ReleaseInv(p))'
  <2>. SUFFICES ASSUME NEW p \in s_txq PROVE ReleaseInv(p)'
      BY <1>1
  <2>1. p \in Packet /\ SlotOf(p) \in Slot /\ ReleaseInv(p) /\ SlotOf(p) # s
      BY SlotOfType DEF IInv, TypeOK, Packet, Switches
  <2>2. SlotOf(p)' = SlotOf(p)
      BY DEF SlotOf
  <2>. QED
      BY <1>1, <1>3, <2>1, <2>2 DEF ReleaseInv, SameClient, Received, Active
<1>. QED
    BY <1>10, <1>13, <1>14 DEF IInv

\* The last piece of the response to r: the server is done with it, its last
\* packet is out, and the continuation gets the response to r.
Done(s, r, i) ==
    /\ Received(s) /\ Settled(s) /\ num_tx[s] = num_rx[s] + 1
    /\ \A q \in s_txq : SlotOf(q) # s
    /\ executed[r] = 1 /\ answer[r] = NoReq /\ r \in issued \ Backlogged
    /\ Content(Message(r, i + 1), RespPkts) = r

\* The last packet of the response to r arrives when all of that holds.
LEMMA DoneFacts ==
    ASSUME IInv, Counting, NEW p \in net, NEW s \in Slot, NEW r \in Req, NEW i \in Nat,
           Arrived(p, s, r, i), i + 1 = RespPkts[r]
    PROVE  Done(s, r, i)
<1>1. /\ ReqPkts[r] \in Nat \ {0} /\ RespPkts[r] \in Nat \ {0}
      /\ num_rx[s] \in Nat /\ num_tx[s] \in Nat /\ s_num_rx[s] \in Nat
    BY ReqAssumption, WindowBound DEF IInv, TypeOK
<1>2. /\ Received(s) /\ Responded(s, r) /\ Active(s) /\ tx_msgbuf[s] = r
      /\ num_rx[s] = ReqPkts[r] - 1 + i /\ num_rx[s] < num_tx[s]
      /\ num_tx[s] <= wire_pkts(r) /\ num_rx[s] + 1 <= s_num_rx[s]
    BY DEF Arrived
<1>3. wire_pkts(r) = num_rx[s] + 1 /\ wire_pkts(r) \in Nat
    BY <1>1, <1>2, LastPacket DEF wire_pkts
<1>4. num_tx[s] = num_rx[s] + 1
    BY <1>1, <1>2, <1>3, Squeezed
<1>5. s_num_rx[s] = wire_pkts(r)
    BY <1>1, <1>2, <1>3, Squeezed DEF Responded
<1>6. Settled(s)
    BY <1>2, <1>5 DEF Settled
<1>7. \A q \in s_txq : SlotOf(q) # s
  <2>. SUFFICES ASSUME NEW q \in s_txq, SlotOf(q) = s PROVE FALSE
      OBVIOUS
  <2>1. num_rx[s] + 1 <= q.pkt_num
      BY DEF Arrived
  <2>2. q \in Packet /\ RespPktInv(q) /\ ReleaseInv(q)
      BY DEF IInv, TypeOK, PacketsInv, PacketInv, Sent
  <2>3. q.pkt_num \in Nat /\ q.pkt_num < s_num_rx[s]
      BY <2>2 DEF Packet, RespPktInv, ReleaseInv
  <2>. QED
      BY SMTT(120), <1>1, <1>3, <1>5, <2>1, <2>3
<1>8. executed[r] = 1
    BY <1>2 DEF Responded
<1>9. answer[r] = NoReq /\ r \in issued \ Backlogged
    BY <1>2 DEF IInv, SlotsInv, ActiveInv
<1>10. Content(Message(r, i + 1), RespPkts) = r
  <2>1. RespPkts \in [Req -> Nat \ {0}]
      BY ReqAssumption
  <2>. QED
      BY <2>1, ContentOfMessage
<1>. QED
    BY <1>2, <1>4, <1>6, <1>7, <1>8, <1>9, <1>10 DEF Done

\* The continuation of r runs: a step of the service.
LEMMA AnswerGiven ==
    ASSUME NEW r \in Req, executed[r] = 1, answer[r] = NoReq,
           answer' = [answer EXCEPT ![r] = r], UNCHANGED <<issued, executed>>
    PROVE  ServiceStep
BY DEF ServiceStep, Service!Next, Service!Answer

\* The client's types when only the parts of a slot and the queues change.
LEMMA SwitchTypes ==
    ASSUME IInv, NEW s \in Slot, NEW q \in Req \cup {NoReq}, Switches(s, q),
           cur_req_num' \in [Slot -> Nat],
           num_tx' \in [Slot -> Nat], num_rx' \in [Slot -> Nat],
           wheel' \in [Slot -> SUBSET Nat],
           in_wheel' \in [Slot -> SUBSET (0..(kSessionCredits - 1))],
           resp_msgbuf' = [resp_msgbuf EXCEPT ![s] = {}],
           sslot_free_vec' \in Seq(Slot), credits' \in 0..kSessionCredits,
           enq_req_backlog' \in Seq(Req), stallq' \in Seq(Slot),
           issued' \subseteq Req, answer' \in [Req -> Req \cup {NoReq}]
    PROVE  TypeOK'
<1>1. tx_msgbuf' \in [Slot -> Req \cup {NoReq}]
    BY DEF Switches, IInv, TypeOK
<1>2. resp_msgbuf' \in [Slot -> SUBSET (Nat \X Req)]
  <2>1. resp_msgbuf \in [Slot -> SUBSET (Nat \X Req)]
      BY DEF IInv, TypeOK
  <2>2. {} \in SUBSET (Nat \X Req)
      OBVIOUS
  <2>. QED
      BY <2>1, <2>2
<1>3. /\ UNCHANGED <<s_cur_req_num, s_num_rx, s_req_msgbuf, s_req_type, s_tx_msgbuf>>
      /\ UNCHANGED <<sav_num_req_pkts, s_txq, net, executed>>
    BY DEF Switches, server
<1>4. c_txq' \cup s_txq' \cup net' \subseteq Packet
  <2>1. c_txq \cup s_txq \cup net \subseteq Packet
      BY ClientTypes
  <2>2. \A i \in Nat : q \in Req => ReqPkt(q, cur_req_num'[s], i) \in Packet
      BY DEF ReqPkt, Pkt, Packet
  <2>3. \A p \in c_txq' : p \in Packet
      BY <2>1, <2>2 DEF Switches
  <2>. QED
      BY <1>3, <2>1, <2>3
<1>. QED
    BY <1>1, <1>2, <1>3, <1>4 DEF IInv, TypeOK

\* process_resp_one_st keeps the invariant and answers the request when its slot
\* becomes free.
LEMMA FinishStep ==
    ASSUME IInv, Counting, NEW p \in net, NEW s \in Slot, NEW r \in Req, NEW i \in Nat,
           Arrived(p, s, r, i), i + 1 = RespPkts[r],
           Complete(s, Message(r, i + 1)), enq_req_backlog = <<>>
    PROVE  IInv' /\ ServiceStep
<1>0. Done(s, r, i)
    BY DoneFacts
<1>1. /\ Received(s) /\ Settled(s) /\ num_tx[s] = num_rx[s] + 1
      /\ \A q \in s_txq : SlotOf(q) # s
      /\ executed[r] = 1 /\ answer[r] = NoReq /\ r \in issued \ Backlogged
      /\ Content(Message(r, i + 1), RespPkts) = r
    BY <1>0 DEF Done
<1>2. Active(s) /\ tx_msgbuf[s] = r /\ wheel[s] = {}
    BY DEF Arrived
<1>3. /\ answer' = [answer EXCEPT ![r] = r]
      /\ tx_msgbuf' = [tx_msgbuf EXCEPT ![s] = NoReq]
      /\ num_rx' = [num_rx EXCEPT ![s] = num_rx[s] + 1]
      /\ resp_msgbuf' = [resp_msgbuf EXCEPT ![s] = {}]
      /\ sslot_free_vec' = Append(sslot_free_vec, s)
      /\ credits' = credits + 1
      /\ UNCHANGED <<cur_req_num, num_tx, pacing, enq_req_backlog, stallq, c_txq>>
      /\ UNCHANGED <<server, net, issued, executed>>
    BY <1>1, <1>2 DEF Complete
<1>4. /\ num_tx \in [Slot -> Nat] /\ num_rx \in [Slot -> Nat] /\ credits \in Nat
      /\ tx_msgbuf \in [Slot -> Req \cup {NoReq}] /\ sslot_free_vec \in Seq(Slot)
      /\ resp_msgbuf \in [Slot -> SUBSET (Nat \X Req)]
      /\ answer \in [Req -> Req \cup {NoReq}]
    BY ClientTypes DEF IInv, TypeOK
<1>5. /\ num_tx' \in [Slot -> Nat] /\ num_rx' \in [Slot -> Nat] /\ credits' \in Nat
      /\ num_tx'[s] = num_tx[s] /\ num_rx'[s] = num_tx[s] /\ tx_msgbuf'[s] = NoReq
      /\ \A x \in Slot \ {s} : num_tx'[x] = num_tx[x] /\ num_rx'[x] = num_rx[x]
      /\ \A x \in Slot \ {s} : tx_msgbuf'[x] = tx_msgbuf[x]
    BY SMTT(120), <1>1, <1>3, <1>4
<1>6. \A x \in Slot \ {s} : SameClient(x)
    BY <1>3, <1>4, <1>5 DEF SameClient
<1>7. Switches(s, NoReq)
    BY <1>1, <1>3, <1>6 DEF Switches
<1>8. /\ IsFiniteSet(Unanswered)'
      /\ credits' + Cardinality(Unanswered') = kSessionCredits
      /\ credits' \in 0..kSessionCredits
  <2>1. /\ num_rx'[s] <= num_tx'[s]
        /\ credits' = credits + (num_tx[s] - num_rx[s]) - (num_tx'[s] - num_rx'[s])
      BY SMTT(120), <1>1, <1>3, <1>4, <1>5
  <2>. QED
      BY <1>5, <2>1, CreditStep
<1>9. sslot_free_vec' \in Seq(Slot)
    BY SMTT(120), <1>3, <1>4
<1>10. TypeOK'
  <2>1. /\ cur_req_num' \in [Slot -> Nat] /\ wheel' \in [Slot -> SUBSET Nat]
        /\ in_wheel' \in [Slot -> SUBSET (0..(kSessionCredits - 1))]
        /\ enq_req_backlog' \in Seq(Req) /\ stallq' \in Seq(Slot) /\ issued' \subseteq Req
      BY <1>3 DEF IInv, TypeOK, pacing
  <2>2. answer' \in [Req -> Req \cup {NoReq}]
      BY <1>3, <1>4
  <2>. QED
      BY <1>3, <1>5, <1>7, <1>8, <1>9, <2>1, <2>2, SwitchTypes
<1>11. ClientInv(s)'
  <2>1. num_tx[s] \in Nat
      BY <1>4
  <2>2. num_rx'[s] <= num_tx'[s] /\ num_tx'[s] = num_rx'[s] /\ ~ Active(s)'
      BY <1>5, <2>1, Sums DEF Active
  <2>. QED
      BY <2>2 DEF ClientInv
<1>12. Backlogged' = Backlogged
    BY <1>3 DEF Backlogged
<1>13. RequestsInv'
  <2>1. Queues(enq_req_backlog, Backlogged)'
      BY <1>3, <1>12 DEF IInv, RequestsInv
  <2>2. \A t \in Req : t \in Backlogged \/ t \notin issued => executed[t] = 0 /\ answer[t] = NoReq
      BY DEF IInv, RequestsInv
  <2>3. \A t \in Req : t \in Backlogged \/ t \notin issued => executed'[t] = 0 /\ answer'[t] = NoReq
      BY <1>1, <1>3, <1>4, <2>2
  <2>. QED
      BY <1>3, <1>12, <2>1, <2>3 DEF IInv, RequestsInv
<1>14. \A x \in Slot : ActiveInv(x)'
  <2>. SUFFICES ASSUME NEW x \in Slot, x # s PROVE ActiveInv(x)'
      BY <1>5 DEF ActiveInv, Active
  <2>1. ActiveInv(x) /\ ActiveInv(s)
      BY DEF IInv, SlotsInv
  <2>2. tx_msgbuf'[x] = tx_msgbuf[x] /\ (Active(x)' <=> Active(x)) /\ (Received(x)' <=> Received(x))
      BY <1>3, <1>5 DEF Active, Received, server
  <2>3. tx_msgbuf[x] # r
      BY <1>2, <2>1 DEF ActiveInv
  <2>4. Active(x) => answer'[tx_msgbuf[x]] = answer[tx_msgbuf[x]]
      BY <1>3, <1>4, <2>3 DEF Active
  <2>5. Active(x) => \A y \in Slot : tx_msgbuf'[y] = tx_msgbuf'[x] => y = x
      BY <1>5, <2>1, <2>2 DEF ActiveInv, Active
  <2>. QED
      BY <1>3, <1>12, <2>1, <2>2, <2>4, <2>5 DEF ActiveInv
<1>15. CreditsAccounted'
  <2>. DEFINE Free == {x \in Slot : tx_msgbuf[x] = NoReq}
              Stalled == {x \in Slot : tx_msgbuf[x] # NoReq /\ num_tx[x] = num_rx[x]}
  <2>1. Queues(sslot_free_vec, Free) /\ Queues(stallq, Stalled)
      BY DEF IInv, CreditsAccounted
  <2>2. Free' = Free \cup {s} /\ s \notin Free /\ Stalled' = Stalled
    <3>1. tx_msgbuf[s] # NoReq /\ num_tx[s] # num_rx[s]
        BY SMTT(120), <1>1, <1>2, <1>4 DEF Active
    <3>. QED
        BY <1>5, <3>1
  <2>3. \A x \in Slot : num_rx'[x] <= num_tx'[x]
    <3>1. \A x \in Slot : num_rx[x] <= num_tx[x]
        BY DEF IInv, CreditsAccounted
    <3>2. num_tx[s] <= num_tx[s]
        BY SMTT(120), <1>4
    <3>. QED
        BY <1>5, <3>1, <3>2
  <2>. HIDE DEF Free, Stalled
  <2>4. Queues(Append(sslot_free_vec, s), Free \cup {s})
      BY <1>4, <2>1, <2>2, QueueAppend
  <2>5. Queues(sslot_free_vec, Free)'
      BY <1>3, <2>2, <2>4 DEF Queues
  <2>6. Queues(stallq, Stalled)'
      BY <1>3, <2>1, <2>2 DEF Queues
  <2>. QED
      BY <1>3, <1>8, <2>3, <2>5, <2>6 DEF CreditsAccounted, Free, Stalled
<1>16. WheelIsCurrent'
  <2>. SUFFICES ASSUME NEW x \in Slot
                PROVE  /\ in_wheel[x] = {j % kSessionCredits : j \in wheel[x]}
                       /\ \A j, k \in wheel[x] :
                             j % kSessionCredits = k % kSessionCredits => j = k
                       /\ \A j \in wheel[x] : /\ tx_msgbuf'[x] # NoReq
                                              /\ j < ReqPkts[tx_msgbuf'[x]]
                                              /\ num_rx'[x] <= j /\ j < num_tx'[x]
      BY <1>3 DEF WheelIsCurrent, pacing
  <2>1. /\ in_wheel[x] = {j % kSessionCredits : j \in wheel[x]}
        /\ \A j, k \in wheel[x] : j % kSessionCredits = k % kSessionCredits => j = k
        /\ \A j \in wheel[x] : /\ tx_msgbuf[x] # NoReq
                               /\ j < ReqPkts[tx_msgbuf[x]]
                               /\ num_rx[x] <= j /\ j < num_tx[x]
      BY DEF IInv, WheelIsCurrent
  <2>. QED
      BY <1>2, <1>5, <2>1
<1>17. IInv'
    BY <1>7, <1>8, <1>10, <1>11, <1>13, <1>14, <1>15, <1>16, SwitchStep
<1>18. ServiceStep
    BY <1>1, <1>3, AnswerGiven
<1>. QED
    BY <1>17, <1>18

\* Slot s can be filled in, with avail credits.
Ready(s, avail) ==
    /\ Received(s) /\ Settled(s) /\ wheel[s] = {}
    /\ \A p \in s_txq : SlotOf(p) # s
    /\ avail = credits + (num_tx[s] - num_rx[s])
    /\ Active(s) => num_tx[s] # num_rx[s]

\* The queues and the history around Activate.
Around ==
    /\ sslot_free_vec' \in Seq(Slot) /\ enq_req_backlog' \in Seq(Req)
    /\ Queues(sslot_free_vec', {x \in Slot : tx_msgbuf'[x] = NoReq})
    /\ enq_req_backlog' # <<>> => sslot_free_vec' = <<>>
    /\ issued' \subseteq Req /\ answer' \in [Req -> Req \cup {NoReq}]
    /\ UNCHANGED <<server, net, executed>>

\* What Activate does when k packets of request q go out.
Activated(s, q, avail, k) ==
    /\ k <= avail /\ k <= ReqPkts[q]
    /\ tx_msgbuf' = [tx_msgbuf EXCEPT ![s] = q]
    /\ cur_req_num' = [cur_req_num EXCEPT ![s] = cur_req_num[s] + kSessionReqWindow]
    /\ num_rx' = [num_rx EXCEPT ![s] = 0]
    /\ num_tx' = [num_tx EXCEPT ![s] = k]
    /\ resp_msgbuf' = [resp_msgbuf EXCEPT ![s] = {}]
    /\ credits' = avail - k
    /\ stallq' = IF k = 0 THEN Append(stallq, s) ELSE stallq
    /\ UNCHANGED pacing \/ enqueue_wheel_req_st(s, 0, k)
    /\ \A p \in c_txq' :
          \/ p \in c_txq
          \/ \E i \in Nat : /\ i < ReqPkts[q]
                            /\ p = ReqPkt(q, cur_req_num[s] + kSessionReqWindow, i)

\* What enqueue_request does with a slot: it sends what the credits allow, or
\* waits in the stall queue.
LEMMA ActivateFacts ==
    ASSUME IInv, Counting, NEW s \in Slot, NEW q \in Req, NEW avail \in Nat, Ready(s, avail),
           Activate(s, q, avail)
    PROVE  \E k \in Nat : Activated(s, q, avail, k)
<1>1. ReqPkts[q] \in Nat \ {0}
    BY ReqAssumption
<1>2. PICK n : n = cur_req_num[s] + kSessionReqWindow
    OBVIOUS
<1>3. /\ tx_msgbuf' = [tx_msgbuf EXCEPT ![s] = q]
      /\ cur_req_num' = [cur_req_num EXCEPT ![s] = n]
      /\ num_rx' = [num_rx EXCEPT ![s] = 0]
      /\ resp_msgbuf' = [resp_msgbuf EXCEPT ![s] = {}]
    BY <1>2 DEF Activate
<1>4. CASE avail > 0
  <2>1. kick_req_st(s, q, n, 0, avail) /\ UNCHANGED stallq
      BY <1>2, <1>4 DEF Activate
  <2>2. PICK k \in Nat \ {0} : Kicked(s, q, n, 0, avail, k)
    <3>1. avail \in Nat \ {0} /\ 0 \in Nat /\ 0 < ReqPkts[q]
        BY SMTT(120), <1>1, <1>4
    <3>. QED
        BY <2>1, <3>1, KickFacts
  <2>3. 0 + k = k
      BY SMTT(120)
  <2>4. Activated(s, q, avail, k)
      BY <1>2, <1>3, <2>1, <2>2, <2>3 DEF Kicked, Activated
  <2>. QED
      BY <2>4
<1>5. CASE ~ (avail > 0)
  <2>1. /\ num_tx' = [num_tx EXCEPT ![s] = 0] /\ stallq' = Append(stallq, s)
        /\ UNCHANGED <<credits, pacing, c_txq>>
      BY <1>5 DEF Activate
  <2>2. avail = 0 /\ credits = 0
      BY SMTT(120), <1>5, WindowBound DEF Ready
  <2>3. Activated(s, q, avail, 0)
      BY SMTT(120), <1>1, <1>2, <1>3, <2>1, <2>2 DEF Activated
  <2>. QED
      BY <2>3
<1>. QED
    BY <1>4, <1>5

\* A slot that is filled in keeps the invariant.
LEMMA ActivateStep ==
    ASSUME IInv, Counting, NEW s \in Slot, NEW q \in Req, NEW avail \in Nat, Ready(s, avail),
           Activate(s, q, avail), Around, RequestsInv', \A x \in Slot : ActiveInv(x)'
    PROVE  IInv'
<1>1. PICK k \in Nat : Activated(s, q, avail, k)
    BY ActivateFacts
<1>2. /\ num_tx \in [Slot -> Nat] /\ num_rx \in [Slot -> Nat] /\ credits \in Nat
      /\ tx_msgbuf \in [Slot -> Req \cup {NoReq}] /\ cur_req_num \in [Slot -> Nat]
      /\ resp_msgbuf \in [Slot -> SUBSET (Nat \X Req)] /\ stallq \in Seq(Slot)
      /\ ReqPkts[q] \in Nat \ {0} /\ q # NoReq /\ kSessionReqWindow \in Nat \ {0}
    BY ClientTypes, ReqAssumption, SessionAssumption DEF IInv, TypeOK
<1>3. /\ tx_msgbuf'[s] = q /\ num_rx'[s] = 0 /\ num_tx'[s] = k /\ resp_msgbuf'[s] = {}
      /\ num_tx' \in [Slot -> Nat] /\ num_rx' \in [Slot -> Nat]
      /\ cur_req_num' \in [Slot -> Nat]
      /\ \A x \in Slot \ {s} : num_tx'[x] = num_tx[x] /\ num_rx'[x] = num_rx[x]
      /\ \A x \in Slot \ {s} : tx_msgbuf'[x] = tx_msgbuf[x]
    BY SMTT(120), <1>1, <1>2 DEF Activated
<1>4. cur_req_num'[s] = cur_req_num[s] + kSessionReqWindow
    BY <1>1, <1>2 DEF Activated
<1>5. \A x \in Slot \ {s} : SameClient(x)
    BY <1>1, <1>2, <1>3 DEF SameClient, Activated
<1>6. Switches(s, q)
  <2>1. /\ Received(s) /\ Settled(s) /\ \A p \in s_txq : SlotOf(p) # s
      BY DEF Ready
  <2>2. UNCHANGED <<server, net, executed>>
      BY DEF Around
  <2>3. \A p \in c_txq' : \/ p \in c_txq
                          \/ \E i \in Nat : /\ q \in Req /\ i < ReqPkts[q]
                                            /\ p = ReqPkt(q, cur_req_num'[s], i)
      BY <1>1, <1>4 DEF Activated
  <2>4. tx_msgbuf' = [tx_msgbuf EXCEPT ![s] = q]
      BY <1>1 DEF Activated
  <2>. QED
      BY <1>2, <1>4, <1>5, <2>1, <2>2, <2>3, <2>4 DEF Switches
<1>7. /\ IsFiniteSet(Unanswered)'
      /\ credits' + Cardinality(Unanswered') = kSessionCredits
      /\ credits' \in 0..kSessionCredits
      /\ k <= kSessionCredits
  <2>1. /\ k <= avail /\ credits' = avail - k /\ avail = credits + (num_tx[s] - num_rx[s])
      BY <1>1 DEF Activated, Ready
  <2>2. /\ num_rx'[s] <= num_tx'[s] /\ credits' \in Nat
        /\ credits' = credits + (num_tx[s] - num_rx[s]) - (num_tx'[s] - num_rx'[s])
      BY SMTT(120), <1>2, <1>3, <2>1
  <2>3. /\ IsFiniteSet(Unanswered)'
        /\ credits' + Cardinality(Unanswered') = kSessionCredits
        /\ credits' \in 0..kSessionCredits
        /\ credits' + (num_tx'[s] - num_rx'[s]) <= kSessionCredits
      BY <1>3, <2>2, CreditStep
  <2>4. credits' + (num_tx'[s] - num_rx'[s]) <= kSessionCredits
      BY <2>3
  <2>5. k <= kSessionCredits
      BY SMTT(120), <1>3, <2>2, <2>4, SessionAssumption
  <2>. QED
      BY <2>3, <2>5
<1>8. /\ WheelIsCurrent'
      /\ wheel' \in [Slot -> SUBSET Nat]
      /\ in_wheel' \in [Slot -> SUBSET (0..(kSessionCredits - 1))]
  <2>1. /\ UNCHANGED pacing \/ enqueue_wheel_req_st(s, 0, k)
        /\ wheel[s] = {} /\ k <= ReqPkts[q]
      BY <1>1 DEF Activated, Ready
  <2>a. 0 + k = k /\ 0 + k - 0 = k /\ 0 <= 0 /\ 0 \in Nat
      BY SMTT(120)
  <2>2. /\ num_tx'[s] = 0 + k /\ 0 + k <= ReqPkts[q] /\ 0 + k - 0 <= kSessionCredits
        /\ 0 <= 0 /\ 0 \in Nat
      BY <1>3, <1>7, <2>1, <2>a
  <2>. QED
      BY <1>3, <1>5, <2>1, <2>2, WheelGrows
<1>9. stallq' \in Seq(Slot)
    BY SMTT(120), <1>1, <1>2 DEF Activated
<1>10. TypeOK'
  <2>1. resp_msgbuf' = [resp_msgbuf EXCEPT ![s] = {}]
      BY <1>1 DEF Activated
  <2>2. /\ sslot_free_vec' \in Seq(Slot) /\ enq_req_backlog' \in Seq(Req)
        /\ issued' \subseteq Req /\ answer' \in [Req -> Req \cup {NoReq}]
      BY DEF Around
  <2>. QED
      BY <1>3, <1>6, <1>7, <1>8, <1>9, <2>1, <2>2, SwitchTypes
<1>11. ClientInv(s)'
  <2>1. k <= ReqPkts[q]
      BY <1>1 DEF Activated
  <2>2. 0 < ReqPkts[q] /\ 0 <= k
      BY SMTT(120), <1>2
  <2>3. Asking(s, tx_msgbuf[s])'
      BY <1>3, <2>1, <2>2 DEF Asking
  <2>. QED
      BY <1>2, <1>3, <2>2, <2>3 DEF ClientInv, Active
<1>12. CreditsAccounted'
  <2>. DEFINE Free == {x \in Slot : tx_msgbuf[x] = NoReq}
              Stalled == {x \in Slot : tx_msgbuf[x] # NoReq /\ num_tx[x] = num_rx[x]}
  <2>1. Queues(stallq, Stalled) /\ s \notin Stalled
      BY DEF IInv, CreditsAccounted, Ready, Active
  <2>2. Stalled' = IF k = 0 THEN Stalled \cup {s} ELSE Stalled
      BY <1>2, <1>3, <2>1
  <2>3. \A x \in Slot : num_rx'[x] <= num_tx'[x]
    <3>1. \A x \in Slot : num_rx[x] <= num_tx[x]
        BY DEF IInv, CreditsAccounted
    <3>2. 0 <= k
        BY SMTT(120)
    <3>. QED
        BY <1>3, <3>1, <3>2
  <2>4. Queues(sslot_free_vec, Free)' /\ (enq_req_backlog # <<>> => sslot_free_vec = <<>>)'
      BY DEF Around, Queues
  <2>5. stallq' = IF k = 0 THEN Append(stallq, s) ELSE stallq
      BY <1>1 DEF Activated
  <2>. HIDE DEF Free, Stalled
  <2>6. Queues(Append(stallq, s), Stalled \cup {s})
      BY <1>2, <2>1, QueueAppend
  <2>7. Queues(stallq, Stalled)'
      BY <2>1, <2>2, <2>5, <2>6 DEF Queues
  <2>. QED
      BY <1>7, <2>3, <2>4, <2>7 DEF CreditsAccounted, Free, Stalled
<1>. QED
    BY <1>6, <1>7, <1>8, <1>10, <1>11, <1>12, SwitchStep

\* process_resp_one_st keeps the invariant and answers the request when its slot
\* goes on with the first request of the backlog.
LEMMA GoOnStep ==
    ASSUME IInv, Counting, NEW p \in net, NEW s \in Slot, NEW r \in Req, NEW i \in Nat,
           Arrived(p, s, r, i), i + 1 = RespPkts[r],
           Complete(s, Message(r, i + 1)), enq_req_backlog # <<>>
    PROVE  IInv' /\ ServiceStep
<1>0. Done(s, r, i)
    BY DoneFacts
<1>1. /\ Received(s) /\ Settled(s) /\ num_tx[s] = num_rx[s] + 1
      /\ \A q \in s_txq : SlotOf(q) # s
      /\ executed[r] = 1 /\ answer[r] = NoReq /\ r \in issued \ Backlogged
      /\ Content(Message(r, i + 1), RespPkts) = r
    BY <1>0 DEF Done
<1>2. Active(s) /\ tx_msgbuf[s] = r /\ wheel[s] = {}
    BY DEF Arrived
<1>3. /\ num_tx[s] \in Nat /\ num_rx[s] \in Nat /\ credits \in Nat
      /\ tx_msgbuf \in [Slot -> Req \cup {NoReq}] /\ sslot_free_vec \in Seq(Slot)
      /\ enq_req_backlog \in Seq(Req) /\ answer \in [Req -> Req \cup {NoReq}]
      /\ issued \subseteq Req
    BY WindowBound DEF IInv, TypeOK
<1>4. PICK avail \in Nat : avail = credits + 1
    BY SMTT(120), <1>3
<1>5. PICK q \in Req : q = Head(enq_req_backlog)
    BY SMTT(120), <1>3
<1>6. /\ answer' = [answer EXCEPT ![r] = r]
      /\ Activate(s, q, avail)
      /\ enq_req_backlog' = Tail(enq_req_backlog)
      /\ UNCHANGED sslot_free_vec
      /\ UNCHANGED <<server, net, issued, executed>>
    BY <1>1, <1>2, <1>4, <1>5 DEF Complete
<1>7. Ready(s, avail)
  <2>1. avail = credits + (num_tx[s] - num_rx[s]) /\ num_tx[s] # num_rx[s]
      BY SMTT(120), <1>1, <1>3, <1>4
  <2>. QED
      BY <1>1, <1>2, <2>1 DEF Ready
<1>8. /\ tx_msgbuf' = [tx_msgbuf EXCEPT ![s] = q]
      /\ cur_req_num' = [cur_req_num EXCEPT ![s] = cur_req_num[s] + kSessionReqWindow]
    BY <1>6 DEF Activate
<1>9. tx_msgbuf'[s] = q /\ q # NoReq /\ \A x \in Slot \ {s} : tx_msgbuf'[x] = tx_msgbuf[x]
    BY <1>3, <1>8, ReqAssumption
<1>10. /\ q \in Backlogged /\ Queues(enq_req_backlog', Backlogged \ {q})
       /\ enq_req_backlog' \in Seq(Req)
  <2>1. Queues(enq_req_backlog, Backlogged)
      BY DEF IInv, RequestsInv
  <2>2. Head(enq_req_backlog) \in Backlogged
      BY <1>3, <2>1, QueueTail
  <2>3. Queues(Tail(enq_req_backlog), Backlogged \ {Head(enq_req_backlog)})
      BY <1>3, <2>1, QueueTail
  <2>4. Tail(enq_req_backlog) \in Seq(Req)
      BY <1>3, TailType
  <2>. QED
      BY <1>5, <1>6, <2>2, <2>3, <2>4
<1>11. Backlogged' = Backlogged \ {q}
    BY <1>10 DEF Queues, Backlogged
<1>12. Around
  <2>1. {x \in Slot : tx_msgbuf'[x] = NoReq} = {x \in Slot : tx_msgbuf[x] = NoReq}
      BY <1>2, <1>9 DEF Active
  <2>2. Queues(sslot_free_vec', {x \in Slot : tx_msgbuf'[x] = NoReq})
      BY <1>6, <2>1 DEF IInv, CreditsAccounted
  <2>3. sslot_free_vec' = <<>>
      BY <1>6 DEF IInv, CreditsAccounted
  <2>4. answer' \in [Req -> Req \cup {NoReq}]
      BY <1>3, <1>6
  <2>. QED
      BY <1>3, <1>6, <1>10, <2>2, <2>3, <2>4 DEF Around
<1>13. /\ executed[q] = 0 /\ answer[q] = NoReq /\ q \in issued /\ q # r
       /\ \A x \in Slot : tx_msgbuf[x] # q
  <2>1. executed[q] = 0 /\ answer[q] = NoReq /\ q \in issued /\ q # r
      BY <1>1, <1>10 DEF IInv, RequestsInv
  <2>2. \A x \in Slot : tx_msgbuf[x] # q
      BY <1>9, <1>10 DEF IInv, SlotsInv, ActiveInv, Active
  <2>. QED
      BY <2>1, <2>2
<1>14. RequestsInv'
  <2>1. Queues(enq_req_backlog, Backlogged)'
      BY <1>10, <1>11 DEF Queues
  <2>2. executed[NoReq] = 0 /\ Backlogged \subseteq issued
      BY DEF IInv, RequestsInv
  <2>3. \A t \in Req : t \in Backlogged \/ t \notin issued => executed[t] = 0 /\ answer[t] = NoReq
      BY DEF IInv, RequestsInv
  <2>4. \A t \in Req : t \in Backlogged \/ t \notin issued => answer'[t] = NoReq
      BY <1>1, <1>3, <1>6, <2>3
  <2>. QED
      BY <1>6, <1>11, <2>1, <2>2, <2>3, <2>4 DEF RequestsInv
<1>15. ASSUME NEW x \in Slot PROVE ActiveInv(x)'
  <2>1. CASE x = s
    <3>1. answer'[q] = NoReq
        BY <1>3, <1>6, <1>13
    <3>2. \A y \in Slot : tx_msgbuf'[y] = q => y = s
        BY <1>9, <1>13
    <3>3. q \in issued' \ Backlogged' /\ executed'[q] = 0
        BY <1>6, <1>11, <1>13
    <3>. QED
        BY <1>9, <2>1, <3>1, <3>2, <3>3 DEF ActiveInv
  <2>2. CASE x # s
    <3>1. ActiveInv(x) /\ ActiveInv(s)
        BY DEF IInv, SlotsInv
    <3>2. tx_msgbuf'[x] = tx_msgbuf[x] /\ (Active(x)' <=> Active(x))
        BY <1>9, <2>2 DEF Active
    <3>3. Received(x)' <=> Received(x)
      <4>1. cur_req_num'[x] = cur_req_num[x]
          BY <1>8, <2>2 DEF IInv, TypeOK
      <4>. QED
          BY <1>6, <4>1 DEF Received, server
    <3>4. tx_msgbuf[x] # r /\ tx_msgbuf[x] # q
        BY <1>2, <1>13, <2>2, <3>1 DEF ActiveInv
    <3>5. Active(x) => answer'[tx_msgbuf[x]] = answer[tx_msgbuf[x]]
        BY <1>3, <1>6, <3>4 DEF Active
    <3>6. Active(x) => \A y \in Slot : tx_msgbuf'[y] = tx_msgbuf'[x] => y = x
        BY <1>9, <3>1, <3>2, <3>4 DEF ActiveInv
    <3>. QED
        BY <1>6, <1>11, <3>1, <3>2, <3>3, <3>5, <3>6 DEF ActiveInv
  <2>. QED
      BY <2>1, <2>2
<1>16. IInv'
    BY <1>6, <1>7, <1>12, <1>14, <1>15, ActivateStep
<1>17. ServiceStep
    BY <1>1, <1>6, AnswerGiven
<1>. QED
    BY <1>16, <1>17

\* process_resp_one_st keeps the invariant, and runs the continuation as the
\* service allows.
LEMMA RespStep ==
    ASSUME IInv, Counting, NEW p \in net, process_resp_one_st(p)
    PROVE  IInv' /\ ServiceStep
<1>1. p.type = "resp" /\ in_order_client(SlotOf(p), p)
    BY DEF process_resp_one_st
<1>2. PICK s \in Slot, r \in Req, i \in Nat : Arrived(p, s, r, i)
    BY <1>1, RespFacts
<1>3. /\ s = SlotOf(p) /\ tx_msgbuf[s] = r /\ p.data = <<i, r>> /\ i < RespPkts[r]
      /\ num_rx[s] = ReqPkts[r] - 1 + i
      /\ copy_data_to_msgbuf(resp_msgbuf[s], p.data) = Message(r, i + 1)
    BY <1>2 DEF Arrived
<1>4. ReqPkts[r] \in Nat \ {0} /\ RespPkts[r] \in Nat \ {0}
    BY ReqAssumption
<1>5. NumPkts(Message(r, i + 1), RespPkts) = RespPkts[r]
  <2>1. i + 1 \in Nat \ {0} /\ RespPkts \in [Req -> Nat \ {0}]
      BY SMTT(120), ReqAssumption
  <2>. QED
      BY <2>1, NumPktsOfMessage
<1>6. IF RespPkts[r] = 1 \/ num_rx[s] + 1 = wire_pkts(r)
         THEN Complete(s, Message(r, i + 1))
         ELSE NextPiece(s, Message(r, i + 1), wire_pkts(r))
  <2>1. p.data[2] = r
      BY ONLY SMTT(120), <1>3
  <2>. QED
      BY <1>3, <1>5, <2>1 DEF process_resp_one_st, wire_pkts
<1>7. (RespPkts[r] = 1 \/ num_rx[s] + 1 = wire_pkts(r)) <=> (i + 1 = RespPkts[r])
  <2>1. num_rx[s] + 1 = ReqPkts[r] + i
      BY SMTT(120), <1>3, <1>4
  <2>2. num_rx[s] + 1 = wire_pkts(r) <=> i + 1 = RespPkts[r]
      BY SMTT(120), <1>4, <2>1 DEF wire_pkts
  <2>3. RespPkts[r] = 1 => i + 1 = RespPkts[r]
      BY SMTT(120), <1>3, <1>4
  <2>. QED
      BY <2>2, <2>3
<1>8. CASE i + 1 = RespPkts[r]
    BY <1>2, <1>6, <1>7, <1>8, FinishStep, GoOnStep
<1>9. CASE i + 1 # RespPkts[r]
  <2>1. NextPiece(s, Message(r, i + 1), wire_pkts(r))
      BY <1>6, <1>7, <1>9
  <2>2. IInv'
      BY <1>2, <1>9, <2>1, NextPieceStep
  <2>3. ServiceStep
      BY <2>1 DEF NextPiece, history, ServiceStep
  <2>. QED
      BY <2>2, <2>3
<1>. QED
    BY <1>8, <1>9

-----------------------------------------------------------------------------
(* enqueue_request.                                                           *)

\* A slot without a request is one the server is done with.
LEMMA FreeSlot ==
    ASSUME IInv, Counting, NEW s \in Slot, ~ Active(s)
    PROVE  Ready(s, credits) /\ credits \in Nat
<1>1. NumbersInv(s) /\ ServerInv(s) /\ ClientInv(s)
    BY DEF IInv, SlotsInv
<1>2. Received(s)
    BY <1>1 DEF NumbersInv
<1>3. Settled(s)
  <2>1. \A r \in Req : Serves(s, r) => Responded(s, r) /\ s_num_rx[s] = wire_pkts(r)
      BY ReqAssumption DEF Serves, Active
  <2>. QED
      BY <1>1, <2>1 DEF ServerInv, Settled
<1>4. wheel[s] = {}
    BY DEF IInv, WheelIsCurrent, Active
<1>5. \A p \in s_txq : SlotOf(p) # s
    BY DEF IInv, ReleaseInv
<1>6. credits = credits + (num_tx[s] - num_rx[s]) /\ credits \in Nat
    BY SMTT(120), <1>1, WindowBound DEF ClientInv
<1>. QED
    BY <1>2, <1>3, <1>4, <1>5, <1>6 DEF Ready

\* A request that no one has seen yet.
LEMMA NewToAll ==
    ASSUME IInv, NEW r \in Req, r \notin issued
    PROVE  /\ executed[r] = 0 /\ answer[r] = NoReq /\ r \notin Backlogged
           /\ \A x \in Slot : tx_msgbuf[x] # r
<1>1. \A x \in Slot : tx_msgbuf[x] # r
    BY ReqAssumption DEF IInv, SlotsInv, ActiveInv, Active
<1>. QED
    BY <1>1 DEF IInv, RequestsInv

\* enqueue_request keeps the invariant when a slot is free.
LEMMA FillStep ==
    ASSUME IInv, Counting, NEW r \in Req, enqueue_request(r), sslot_free_vec # <<>>
    PROVE  IInv'
<1>1. /\ tx_msgbuf \in [Slot -> Req \cup {NoReq}] /\ sslot_free_vec \in Seq(Slot)
      /\ enq_req_backlog \in Seq(Req) /\ answer \in [Req -> Req \cup {NoReq}]
      /\ issued \subseteq Req /\ r # NoReq
    BY ReqAssumption DEF IInv, TypeOK
<1>2. PICK s : s = sslot_free_vec[Len(sslot_free_vec)]
    OBVIOUS
<1>3. PICK rest : rest = SubSeq(sslot_free_vec, 1, Len(sslot_free_vec) - 1)
    OBVIOUS
<1>4. /\ r \notin issued /\ issued' = issued \cup {r}
      /\ Activate(s, r, credits) /\ sslot_free_vec' = rest
      /\ UNCHANGED <<enq_req_backlog, server, net, executed, answer>>
    BY <1>2, <1>3 DEF enqueue_request
<1>. DEFINE Free == {x \in Slot : tx_msgbuf[x] = NoReq}
<1>5. s \in Free /\ Queues(rest, Free \ {s}) /\ rest \in Seq(Slot)
  <2>1. Queues(sslot_free_vec, Free)
      BY DEF IInv, CreditsAccounted
  <2>. HIDE DEF Free
  <2>. QED
      BY <1>1, <1>2, <1>3, <2>1, QueueFront
<1>6. s \in Slot /\ ~ Active(s)
    BY <1>5 DEF Active
<1>7. Ready(s, credits) /\ credits \in Nat
    BY <1>6, FreeSlot
<1>8. /\ tx_msgbuf' = [tx_msgbuf EXCEPT ![s] = r]
      /\ cur_req_num' = [cur_req_num EXCEPT ![s] = cur_req_num[s] + kSessionReqWindow]
    BY <1>4 DEF Activate
<1>9. tx_msgbuf'[s] = r /\ \A x \in Slot \ {s} : tx_msgbuf'[x] = tx_msgbuf[x]
    BY <1>1, <1>6, <1>8
<1>10. Around
  <2>1. {x \in Slot : tx_msgbuf'[x] = NoReq} = Free \ {s}
      BY <1>1, <1>6, <1>9
  <2>2. enq_req_backlog = <<>>
      BY DEF IInv, CreditsAccounted
  <2>. QED
      BY <1>1, <1>4, <1>5, <2>1, <2>2 DEF Around
<1>11. /\ executed[r] = 0 /\ answer[r] = NoReq /\ r \notin Backlogged
       /\ \A x \in Slot : tx_msgbuf[x] # r
    BY <1>4, NewToAll
<1>12. Backlogged' = Backlogged
    BY <1>4 DEF Backlogged
<1>13. RequestsInv'
  <2>1. Queues(enq_req_backlog, Backlogged)'
      BY SMTT(120), <1>4, <1>12 DEF IInv, RequestsInv, Queues
  <2>. QED
      BY <1>4, <1>12, <2>1 DEF IInv, RequestsInv
<1>14. ASSUME NEW x \in Slot PROVE ActiveInv(x)'
  <2>1. CASE x = s
    <3>1. \A y \in Slot : tx_msgbuf'[y] = r => y = s
        BY <1>9, <1>11
    <3>2. r \in issued' \ Backlogged' /\ executed'[r] = 0 /\ answer'[r] = NoReq
        BY <1>4, <1>11, <1>12
    <3>. QED
        BY <1>9, <2>1, <3>1, <3>2 DEF ActiveInv
  <2>2. CASE x # s
    <3>1. ActiveInv(x)
        BY DEF IInv, SlotsInv
    <3>2. tx_msgbuf'[x] = tx_msgbuf[x] /\ (Active(x)' <=> Active(x))
        BY <1>9, <2>2 DEF Active
    <3>3. Received(x)' <=> Received(x)
      <4>1. cur_req_num'[x] = cur_req_num[x]
          BY <1>8, <2>2 DEF IInv, TypeOK
      <4>. QED
          BY <1>4, <4>1 DEF Received, server
    <3>4. Active(x) => \A y \in Slot : tx_msgbuf'[y] = tx_msgbuf'[x] => y = x
        BY <1>9, <1>11, <3>1, <3>2 DEF ActiveInv
    <3>. QED
        BY <1>4, <1>12, <3>1, <3>2, <3>3, <3>4 DEF ActiveInv
  <2>. QED
      BY <2>1, <2>2
<1>. QED
    BY <1>4, <1>6, <1>7, <1>10, <1>13, <1>14, ActivateStep

\* enqueue_request keeps the invariant when no slot is free.
LEMMA BacklogStep ==
    ASSUME IInv, NEW r \in Req, enqueue_request(r), sslot_free_vec = <<>>
    PROVE  IInv'
<1>1. /\ r \notin issued /\ issued' = issued \cup {r}
      /\ enq_req_backlog' = Append(enq_req_backlog, r)
      /\ UNCHANGED <<progress, pacing, sslot_free_vec, stallq, credits, c_txq>>
      /\ UNCHANGED <<server, net, executed, answer>>
    BY DEF enqueue_request
<1>2. /\ UNCHANGED <<tx_msgbuf, cur_req_num, num_tx, num_rx, resp_msgbuf>>
      /\ UNCHANGED <<wheel, in_wheel, serverSlots, s_txq>>
    BY <1>1 DEF progress, pacing, server, serverSlots
<1>3. /\ executed[r] = 0 /\ answer[r] = NoReq /\ r \notin Backlogged
      /\ \A x \in Slot : tx_msgbuf[x] # r
    BY <1>1, NewToAll
<1>4. TypeOK'
  <2>1. enq_req_backlog \in Seq(Req) /\ issued \subseteq Req
      BY DEF IInv, TypeOK
  <2>2. enq_req_backlog' \in Seq(Req) /\ issued' \subseteq Req
      BY SMTT(120), <1>1, <2>1
  <2>. QED
      BY <1>1, <1>2, <2>2 DEF IInv, TypeOK, serverSlots
<1>5. Queues(enq_req_backlog', Backlogged \cup {r})
  <2>1. enq_req_backlog \in Seq(Req) /\ Queues(enq_req_backlog, Backlogged)
      BY DEF IInv, RequestsInv, TypeOK
  <2>. QED
      BY <1>1, <1>3, <2>1, QueueAppend
<1>6. Backlogged' = Backlogged \cup {r}
    BY <1>5 DEF Queues, Backlogged
<1>7. RequestsInv'
  <2>1. Queues(enq_req_backlog, Backlogged)'
      BY <1>5, <1>6 DEF Queues
  <2>. QED
      BY <1>1, <1>3, <1>6, <2>1 DEF IInv, RequestsInv
<1>8. \A x \in Slot : SameClient(x) /\ SameServer(x) /\ Elsewhere(x, NoReq)
    BY <1>1, <1>2, SameSlots
<1>9. SlotsInv'
  <2>. SUFFICES ASSUME NEW x \in Slot
                PROVE  (NumbersInv(x) /\ ServerInv(x) /\ ClientInv(x) /\ ActiveInv(x))'
      BY DEF SlotsInv
  <2>1. NumbersInv(x) /\ ServerInv(x) /\ ClientInv(x) /\ ActiveInv(x)
      BY DEF IInv, SlotsInv
  <2>2. tx_msgbuf[x] \in Req \cup {NoReq}
      BY DEF IInv, TypeOK
  <2>3. ActiveInv(x)'
      BY <1>1, <1>2, <1>3, <1>6, <2>1 DEF ActiveInv, Active, Received, serverSlots
  <2>. QED
      BY <1>8, <2>1, <2>2, <2>3, SlotFrame
<1>10. IsFiniteSet(Unanswered)' /\ CreditsAccounted' /\ WheelIsCurrent'
  <2>1. Unanswered' = Unanswered
      BY <1>2 DEF Unanswered, Between
  <2>2. CreditsAccounted'
    <3>1. /\ Queues(sslot_free_vec, {x \in Slot : tx_msgbuf[x] = NoReq})'
          /\ Queues(stallq, {x \in Slot : tx_msgbuf[x] # NoReq /\ num_tx[x] = num_rx[x]})'
          /\ \A x \in Slot : num_rx'[x] <= num_tx'[x]
        BY <1>1, <1>2 DEF IInv, CreditsAccounted
    <3>2. credits' + Cardinality(Unanswered') = kSessionCredits
        BY <1>1, <2>1 DEF IInv, CreditsAccounted
    <3>3. sslot_free_vec' = <<>>
        BY <1>1
    <3>. QED
        BY <3>1, <3>2, <3>3 DEF CreditsAccounted
  <2>. QED
      BY <1>2, <2>1, <2>2 DEF IInv, WheelIsCurrent
<1>11. PacketsInv'
  <2>1. Sent' = Sent
      BY <1>1, <1>2 DEF Sent
  <2>2. \A p \in Sent : PacketInv(p)'
    <3>. SUFFICES ASSUME NEW p \in Sent PROVE PacketInv(p)'
        OBVIOUS
    <3>1. p \in Packet /\ PacketInv(p) /\ SlotOf(p) \in Slot
        BY SlotOfType DEF IInv, TypeOK, PacketsInv, Sent, Packet
    <3>. QED
        BY <1>8, <3>1, PacketFrame
  <2>. QED
      BY <1>1, <1>2, <2>1, <2>2 DEF IInv, PacketsInv
<1>12. (\A p \in s_txq : ReleaseInv(p))'
    BY <1>1, <1>2 DEF IInv, ReleaseInv, Received, Active, serverSlots, SlotOf
<1>. QED
    BY <1>4, <1>7, <1>9, <1>10, <1>11, <1>12 DEF IInv

\* enqueue_request keeps the invariant and issues the request.
LEMMA EnqueueRequestStep ==
    ASSUME IInv, Counting, NEW r \in Req, enqueue_request(r)
    PROVE  IInv' /\ ServiceStep
<1>1. IInv'
    BY FillStep, BacklogStep
<1>2. Service!Issue(r)
    BY DEF enqueue_request, Service!Issue
<1>. QED
    BY <1>1, <1>2 DEF ServiceStep, Service!Next

-----------------------------------------------------------------------------
(* All the steps.                                                             *)

\* Every step of the session preserves the invariant and is a step of the
\* service, or none.
LEMMA NextStep ==
    ASSUME IInv, Counting, [Next]_vars
    PROVE  IInv' /\ ServiceStep
<1>1. ASSUME NEW r \in Req, enqueue_request(r) PROVE IInv' /\ ServiceStep
    BY <1>1, EnqueueRequestStep
<1>2. CASE process_credit_stall_queue_st
  <2>1. ServiceStep
      BY <1>2 DEF process_credit_stall_queue_st, history, ServiceStep
  <2>. QED
      BY <1>2, <2>1, StallQueueStep
<1>3. ASSUME NEW s \in Slot, process_wheel_st(s) PROVE IInv' /\ ServiceStep
  <2>1. ServiceStep
      BY <1>3 DEF process_wheel_st, history, ServiceStep
  <2>. QED
      BY <1>3, <2>1, WheelStep
<1>4. ASSUME NEW s \in Slot, pkt_loss_retransmit_st(s) PROVE IInv' /\ ServiceStep
  <2>1. ServiceStep
      BY <1>4 DEF pkt_loss_retransmit_st, history, ServiceStep
  <2>. QED
      BY <1>4, <2>1, RetransmitStep
<1>5. ASSUME NEW p \in c_txq, ClientNic(p) PROVE IInv' /\ ServiceStep
  <2>1. ServiceStep
      BY <1>5 DEF ClientNic, history, ServiceStep
  <2>. QED
      BY <1>5, <2>1, ClientNicStep
<1>6. ASSUME NEW s \in Slot, enqueue_response(s) PROVE IInv' /\ ServiceStep
  <2>1. ServiceStep
      BY <1>6 DEF enqueue_response, history, ServiceStep
  <2>. QED
      BY <1>6, <2>1, EnqueueResponseStep
<1>7. ASSUME NEW p \in s_txq, ServerNic(p) PROVE IInv' /\ ServiceStep
  <2>1. ServiceStep
      BY <1>7 DEF ServerNic, history, ServiceStep
  <2>. QED
      BY <1>7, <2>1, ServerNicStep
<1>8. ASSUME NEW p \in net, ClientReceive(p) PROVE IInv' /\ ServiceStep
  <2>1. CASE process_expl_cr_st(p)
    <3>1. ServiceStep
        BY <2>1 DEF process_expl_cr_st, history, ServiceStep
    <3>. QED
        BY <2>1, <3>1, CrStep
  <2>2. CASE process_resp_one_st(p)
      BY <2>2, RespStep
  <2>. QED
      BY <1>8, <2>1, <2>2 DEF ClientReceive
<1>9. ASSUME NEW p \in net, ServerReceive(p) PROVE IInv' /\ ServiceStep
  <2>1. CASE process_small_req_st(p)
      BY <2>1, SmallReqStep
  <2>2. CASE process_large_req_one_st(p)
      BY <2>2, LargeReqStep
  <2>3. CASE process_rfr_st(p)
    <3>1. ServiceStep
        BY <2>3 DEF process_rfr_st, Resend, history, ServiceStep
    <3>. QED
        BY <2>3, <3>1, RfrStep
  <2>. QED
      BY <1>9, <2>1, <2>2, <2>3 DEF ServerReceive
<1>10. ASSUME NEW p \in net, Lose(p) PROVE IInv' /\ ServiceStep
  <2>1. ServiceStep
      BY <1>10 DEF Lose, ServiceStep
  <2>. QED
      BY <1>10, <2>1, LoseStep
<1>11. CASE UNCHANGED vars
  <2>1. /\ UNCHANGED <<progress, pacing, queues, credits, serverSlots>>
        /\ UNCHANGED <<issued, executed, answer, c_txq, s_txq, net>>
      BY <1>11 DEF vars, client, server, serverSlots, history
  <2>2. \A p \in s_txq : p \notin net
      BY DEF IInv, ReleaseInv
  <2>3. IInv'
      BY <2>1, <2>2, MovesPackets DEF Sent
  <2>. QED
      BY <2>1, <2>3 DEF ServiceStep
<1>. QED
    BY <1>1, <1>2, <1>3, <1>4, <1>5, <1>6, <1>7, <1>8, <1>9, <1>10, <1>11
       DEF Next, ClientStep, ServerStep

\* What the assertions of the handlers test follows from the invariant.
LEMMA AssertsFollow ==
    ASSUME IInv, Counting
    PROVE  AssertsHold
<1>1. ASSUME NEW p \in net, p.type \in {"cr", "resp"} PROVE ClientAsserts(p)
  <2>1. p \in Packet /\ PacketInv(p) /\ SlotOf(p) \in Slot /\ p.req_num \in Nat
      BY SlotOfType DEF IInv, TypeOK, PacketsInv, Sent, Packet
  <2>2. PICK s \in Slot : s = SlotOf(p)
      BY <2>1
  <2>3. p.req_num <= s_cur_req_num[s]
      BY <1>1, <2>1, <2>2 DEF PacketInv, CrInv, RespPktInv
  <2>4. p.req_num <= cur_req_num[s]
      BY SMTT(120), <2>1, <2>3, NumbersOrder
  <2>5. in_order_client(s, p) =>
            /\ tx_msgbuf[s] # NoReq
            /\ credits < kSessionCredits
            /\ p.type = "resp" => /\ wheel[s] = {}
                                  /\ p.pkt_num >= ReqPkts[tx_msgbuf[s]] - 1
    <3>. SUFFICES ASSUME in_order_client(s, p)
                  PROVE  /\ tx_msgbuf[s] # NoReq
                         /\ credits < kSessionCredits
                         /\ p.type = "resp" => /\ wheel[s] = {}
                                               /\ p.pkt_num >= ReqPkts[tx_msgbuf[s]] - 1
        OBVIOUS
    <3>1. Active(s) /\ num_rx[s] < num_tx[s] /\ p.pkt_num = num_rx[s]
        BY <1>1, <2>2, InOrderFacts
    <3>2. credits < kSessionCredits
        BY SMTT(120), <3>1, WindowBound, SessionAssumption
    <3>3. ASSUME p.type = "resp"
          PROVE  wheel[s] = {} /\ p.pkt_num >= ReqPkts[tx_msgbuf[s]] - 1
      <4>1. PICK x \in Slot, r \in Req, i \in Nat : Arrived(p, x, r, i)
          BY <2>2, <3>3, RespFacts
      <4>2. x = s /\ wheel[s] = {} /\ tx_msgbuf[s] = r /\ num_rx[s] = ReqPkts[r] - 1 + i
          BY <2>2, <4>1 DEF Arrived
      <4>3. ReqPkts[r] \in Nat
          BY ReqAssumption
      <4>. QED
          BY SMTT(120), <3>1, <4>2, <4>3
    <3>. QED
        BY <3>1, <3>2, <3>3 DEF Active
  <2>. QED
      BY <2>2, <2>4, <2>5 DEF ClientAsserts
<1>2. ASSUME NEW p \in net, p.type \notin {"cr", "resp"} PROVE ServerAsserts(p)
  <2>1. /\ p \in Packet /\ PacketInv(p) /\ SlotOf(p) \in Slot /\ p.req_num \in Nat
      BY SlotOfType DEF IInv, TypeOK, PacketsInv, Sent, Packet
  <2>2. PICK s \in Slot : s = SlotOf(p)
      BY <2>1
  <2>3. p.type = "rfr" => /\ p.req_num <= s_cur_req_num[s]
                          /\ p.req_num = s_cur_req_num[s] => s_tx_msgbuf[s] # NoReq
      BY <2>1, <2>2, ReqAssumption DEF PacketInv, RfrInv
  <2>4. ASSUME p.type = "req", p.req_num > s_cur_req_num[s]
        PROVE  /\ p.req_num = s_cur_req_num[s] + kSessionReqWindow
               /\ s_req_msgbuf[s] = Buried
               /\ ~ s_req_type[s]
    <3>1. NumbersInv(s) /\ ServerInv(s) /\ s_cur_req_num[s] \in Nat
        BY NumbersOrder DEF IInv, SlotsInv
    <3>2. p.req_num = cur_req_num[s] /\ ~ Received(s)
      <4>1. p.req_num = cur_req_num[s] \/ p.req_num <= s_cur_req_num[s]
          BY <2>1, <2>2, <2>4 DEF PacketInv, ReqPktInv
      <4>2. ~ (p.req_num <= s_cur_req_num[s]) /\ p.req_num # s_cur_req_num[s]
          BY SMTT(120), <2>1, <2>4, <3>1
      <4>. QED
          BY <4>1, <4>2 DEF Received
    <3>3. p.req_num = s_cur_req_num[s] + kSessionReqWindow
        BY <3>1, <3>2 DEF NumbersInv
    <3>4. s_req_msgbuf[s] = Buried /\ ~ s_req_type[s]
        BY <3>1, <3>2 DEF ServerInv, Serves, Fresh, Responded
    <3>. QED
        BY <3>3, <3>4
  <2>. QED
      BY <2>2, <2>3, <2>4 DEF ServerAsserts
<1>3. ASSUME NEW s \in Slot, s_req_type[s] PROVE s_tx_msgbuf[s] = NoReq
    BY <1>3 DEF IInv, SlotsInv, ServerInv, Serves, Fresh, Responded, Assembling, Pending
<1>. QED
    BY <1>1, <1>2, <1>3 DEF AssertsHold

-----------------------------------------------------------------------------
(* The theorems, and the fact about cardinalities that they need.             *)

INSTANCE FiniteSetTheorems

\* The packets of one slot from a to b.
LEMMA SizeOfPart ==
    ASSUME NEW s, NEW a \in Nat, NEW b \in Nat, a <= b
    PROVE  /\ IsFiniteSet({s} \X (a..(b - 1)))
           /\ Cardinality({s} \X (a..(b - 1))) = b - a
<1>. DEFINE c == b - 1
            I == a..c
<1>1. a \in Int /\ c \in Int /\ (IF a > c THEN 0 ELSE c - a + 1) = b - a
    BY SMTT(120)
<1>2. IsFiniteSet(I) /\ Cardinality(I) = b - a
  <2>. HIDE DEF c
  <2>1. IsFiniteSet(a..c) /\ Cardinality(a..c) = IF a > c THEN 0 ELSE c - a + 1
      BY <1>1, FS_Interval
  <2>. QED
      BY SMTT(120), <1>1, <2>1
<1>3. IsFiniteSet({s}) /\ Cardinality({s}) = 1
    BY FS_Singleton
<1>. HIDE DEF c, I
<1>4. IsFiniteSet({s} \X I) /\ Cardinality({s} \X I) = Cardinality({s}) * Cardinality(I)
    BY <1>2, <1>3, FS_Product
<1>5. Cardinality({s} \X I) = b - a
    BY SMTT(120), <1>2, <1>3, <1>4
<1>. QED
    BY <1>4, <1>5 DEF I, c

\* What Counting says, from the cardinalities of intervals and products.
LEMMA RecountProved ==
    ASSUME NEW rx \in [Slot -> Nat], NEW tx \in [Slot -> Nat],
           NEW rx2 \in [Slot -> Nat], NEW tx2 \in [Slot -> Nat],
           NEW s \in Slot, rx[s] <= tx[s], rx2[s] <= tx2[s],
           \A x \in Slot \ {s} : rx2[x] = rx[x] /\ tx2[x] = tx[x],
           IsFiniteSet(Between(rx, tx))
    PROVE  /\ IsFiniteSet(Between(rx2, tx2))
           /\ Cardinality(Between(rx, tx)) \in Nat
           /\ tx[s] - rx[s] <= Cardinality(Between(rx, tx))
           /\ Cardinality(Between(rx2, tx2)) =
                 Cardinality(Between(rx, tx)) - (tx[s] - rx[s]) + (tx2[s] - rx2[s])
<1>. DEFINE Part == {s} \X (rx[s]..(tx[s] - 1))
            Part2 == {s} \X (rx2[s]..(tx2[s] - 1))
            All == Between(rx, tx)
            Rest == All \ Part
<1>1. Part \subseteq All
    BY DEF Between
<1>2. Between(rx2, tx2) = Rest \cup Part2
    BY SMTT(120) DEF Between
<1>3. Rest \cap Part2 = {}
    BY SMTT(120) DEF Between
<1>4. /\ IsFiniteSet(Part) /\ Cardinality(Part) = tx[s] - rx[s]
      /\ IsFiniteSet(Part2) /\ Cardinality(Part2) = tx2[s] - rx2[s]
  <2>1. rx[s] \in Nat /\ tx[s] \in Nat /\ rx2[s] \in Nat /\ tx2[s] \in Nat
      OBVIOUS
  <2>. QED
      BY <2>1, SizeOfPart
<1>5. IsFiniteSet(All) /\ All \cap Part = Part
    BY <1>1
<1>. HIDE DEF Part, Part2, All
<1>6. /\ IsFiniteSet(Rest)
      /\ Cardinality(Rest) = Cardinality(All) - Cardinality(Part)
    BY <1>5, FS_Difference
<1>7. Cardinality(All) \in Nat /\ Cardinality(Rest) \in Nat
    BY <1>5, <1>6, FS_CardinalityType
<1>. HIDE DEF Rest
<1>8. /\ IsFiniteSet(Rest \cup Part2)
      /\ Cardinality(Rest \cup Part2) =
            Cardinality(Rest) + Cardinality(Part2) - Cardinality(Rest \cap Part2)
    BY <1>4, <1>6, FS_Union
<1>9. Cardinality(Rest \cap Part2) = 0
    BY <1>3, FS_EmptySet
<1>10. /\ tx[s] - rx[s] <= Cardinality(All)
       /\ Cardinality(Rest \cup Part2) = Cardinality(All) - (tx[s] - rx[s]) + (tx2[s] - rx2[s])
    BY SMTT(120), <1>4, <1>6, <1>7, <1>8, <1>9
<1>. QED
    BY <1>2, <1>7, <1>8, <1>10 DEF All

\* Counting holds, for every set of slots.
LEMMA CountingHolds == Counting
BY SMTT(120), RecountProved DEF Counting

\* The session as its constructors leave it.
LEMMA InitInv == Init => IInv
<1>. SUFFICES ASSUME Init PROVE IInv
    OBVIOUS
<1>1. kSessionReqWindow \in Nat \ {0} /\ kSessionCredits \in Nat \ {0} /\ NoReq \notin Req
    BY SessionAssumption, ReqAssumption
<1>2. \A s \in Slot : s \in Nat /\ s < kSessionReqWindow /\ s % kSessionReqWindow = s
  <2>. SUFFICES ASSUME NEW s \in Slot
                PROVE  s \in Nat /\ s < kSessionReqWindow /\ s % kSessionReqWindow = s
      OBVIOUS
  <2>1. s \in Nat /\ s < kSessionReqWindow /\ s \in 0..(kSessionReqWindow - 1)
      BY SMTT(120), <1>1 DEF Slot
  <2>2. /\ s \div kSessionReqWindow \in Int
        /\ s = kSessionReqWindow * (s \div kSessionReqWindow) + (s % kSessionReqWindow)
        /\ s % kSessionReqWindow \in 0..(kSessionReqWindow - 1)
      BY <1>1, <2>1, Division
  <2>3. s = kSessionReqWindow * 0 + s
      BY SMTT(120), <1>1, <2>1
  <2>4. s \div kSessionReqWindow = 0
    <3>. DEFINE a == s \div kSessionReqWindow
                m == s % kSessionReqWindow
    <3>1. /\ a \in Int /\ m \in 0..(kSessionReqWindow - 1)
          /\ kSessionReqWindow * a + m = kSessionReqWindow * 0 + s
        BY <2>2, <2>3
    <3>. HIDE DEF a, m
    <3>2. a = 0
        BY SMTT(120), <1>1, <2>1, <3>1, UniqueQuotient
    <3>. QED
        BY <3>2 DEF a
  <2>. QED
      BY SMTT(120), <1>1, <2>1, <2>2, <2>4
<1>3. sslot_free_vec \in Seq(Slot) /\ Queues(sslot_free_vec, Slot)
  <2>1. /\ sslot_free_vec = [i \in 1..kSessionReqWindow |-> kSessionReqWindow - i]
        /\ \A i \in 1..kSessionReqWindow : kSessionReqWindow - i \in Slot
      BY SMTT(120), <1>1 DEF Init, Slot
  <2>2. sslot_free_vec \in Seq(Slot)
      BY SMTT(120), <1>1, <2>1
  <2>3. \A s \in Slot : /\ kSessionReqWindow - s \in 1..kSessionReqWindow
                        /\ s = kSessionReqWindow - (kSessionReqWindow - s)
      BY SMTT(120), <1>1 DEF Slot
  <2>4. {sslot_free_vec[i] : i \in DOMAIN sslot_free_vec} = Slot
      BY <2>1, <2>3
  <2>5. \A i, j \in DOMAIN sslot_free_vec : sslot_free_vec[i] = sslot_free_vec[j] => i = j
      BY SMTT(120), <1>1, <2>1
  <2>. QED
      BY <2>2, <2>4, <2>5 DEF Queues
<1>4. TypeOK
  <2>1. /\ cur_req_num \in [Slot -> Nat] /\ s_cur_req_num \in [Slot -> Nat]
      BY <1>2 DEF Init
  <2>2. /\ enq_req_backlog \in Seq(Req) /\ stallq \in Seq(Slot)
        /\ credits \in 0..kSessionCredits
      BY SMTT(120), <1>1 DEF Init
  <2>. QED
      BY <1>1, <1>3, <2>1, <2>2 DEF Init, TypeOK
<1>5. Unanswered = {}
  <2>1. \A s \in Slot : {s} \X (num_rx[s]..(num_tx[s] - 1)) = {}
      BY SMTT(120) DEF Init
  <2>. QED
      BY <2>1 DEF Unanswered, Between
<1>6. IsFiniteSet(Unanswered) /\ Cardinality(Unanswered) = 0
    BY <1>5, FS_EmptySet
<1>7. CreditsAccounted
  <2>1. {s \in Slot : tx_msgbuf[s] = NoReq} = Slot
      BY DEF Init
  <2>2. Queues(stallq, {s \in Slot : tx_msgbuf[s] # NoReq /\ num_tx[s] = num_rx[s]})
      BY SMTT(120) DEF Init, Queues
  <2>3. credits + Cardinality(Unanswered) = kSessionCredits
      BY SMTT(120), <1>1, <1>6 DEF Init
  <2>4. (\A s \in Slot : num_rx[s] <= num_tx[s]) /\ enq_req_backlog = <<>>
      BY SMTT(120) DEF Init
  <2>. QED
      BY <1>3, <2>1, <2>2, <2>3, <2>4 DEF CreditsAccounted
<1>8. WheelIsCurrent
    BY DEF Init, WheelIsCurrent
<1>9. SlotsInv
  <2>. SUFFICES ASSUME NEW s \in Slot
                PROVE  NumbersInv(s) /\ ServerInv(s) /\ ClientInv(s) /\ ActiveInv(s)
      BY DEF SlotsInv
  <2>1. ~ Active(s) /\ Received(s)
      BY DEF Init, Active, Received
  <2>2. NumbersInv(s)
      BY <1>2, <2>1 DEF Init, NumbersInv
  <2>3. ServerInv(s)
      BY <1>2 DEF Init, ServerInv, Fresh, Buried
  <2>4. ClientInv(s)
      BY SMTT(120), <2>1 DEF Init, ClientInv
  <2>. QED
      BY <2>1, <2>2, <2>3, <2>4 DEF ActiveInv
<1>10. RequestsInv
  <2>1. Backlogged = {}
      BY SMTT(120) DEF Init, Backlogged
  <2>. QED
      BY SMTT(120), <2>1 DEF Init, RequestsInv, Queues
<1>11. PacketsInv /\ \A p \in s_txq : ReleaseInv(p)
    BY DEF Init, PacketsInv, Sent
<1>. QED
    BY <1>4, <1>6, <1>7, <1>8, <1>9, <1>10, <1>11 DEF IInv

(* IInv is an inductive invariant of the session, for every number of slots,  *)
(* credits, requests and packets: what the ends of a slot, the wheel and the  *)
(* packets say of each other stays true whatever the network does.            *)
THEOREM Inductive == Spec => []IInv
<1>1. IInv /\ [Next]_vars => IInv'
    BY NextStep, CountingHolds
<1>. QED
    BY <1>1, InitInv, PTL DEF Spec

(* No credit is lost or made up and no request is forgotten, whatever packets *)
(* are lost, sent again or answered twice: bump_credits, pkt_loss_retransmit_st *)
(* and the queues of the session.                                             *)
THEOREM CreditsSafe == Spec => []CreditsAccounted
<1>1. IInv => CreditsAccounted
    BY DEF IInv
<1>. QED
    BY <1>1, Inductive, PTL

(* in_wheel never confuses two packets, and the wheel holds only packets of   *)
(* the active request: enqueue_wheel_req_st, in_order_client.                 *)
THEOREM WheelSafe == Spec => []WheelIsCurrent
<1>1. IInv => WheelIsCurrent
    BY DEF IInv
<1>. QED
    BY <1>1, Inductive, PTL

(* The server reuses a response buffer only when the NIC has read every       *)
(* packet queued from it: bury_resp_msgbuf_server_st.                         *)
THEOREM ResponsesSafe == Spec => []ResponsesReleased
<1>1. ASSUME IInv PROVE ResponsesReleased
  <2>. SUFFICES ASSUME NEW p \in s_txq
                PROVE  /\ s_cur_req_num[SlotOf(p)] = p.req_num
                       /\ s_tx_msgbuf[SlotOf(p)] = p.data[2]
      BY DEF ResponsesReleased
  <2>1. RespPktInv(p) /\ ReleaseInv(p)
      BY <1>1 DEF IInv, PacketsInv, PacketInv, Sent
  <2>2. s_cur_req_num[SlotOf(p)] = p.req_num
      BY <2>1 DEF ReleaseInv
  <2>3. Responded(SlotOf(p), p.data[2])
      BY <2>1, <2>2 DEF RespPktInv
  <2>. QED
      BY <2>2, <2>3 DEF Responded
<1>. QED
    BY <1>1, Inductive, PTL

(* The assertions of the packet handlers hold for every packet that can       *)
(* arrive, however late: process_comps_st and the handlers it calls.          *)
THEOREM AssertsSafe == Spec => []AssertsHold
<1>1. IInv => AssertsHold
    BY AssertsFollow, CountingHolds
<1>. QED
    BY <1>1, Inductive, PTL

(* The session implements its service, for every number of slots, credits and *)
(* packets: a handler runs at most once for a request, with its payload, and  *)
(* a continuation at most once, with the response to its request.             *)
THEOREM Implementation == Spec => ImplementsService
<1>1. Init => Service!Init
    BY DEF Init, Service!Init
<1>2. IInv /\ [Next]_vars => [Service!Next]_Service!vars
    BY NextStep, CountingHolds DEF ServiceStep, Service!vars
<1>. QED
    BY <1>1, <1>2, Inductive, PTL DEF Spec, ImplementsService, Service!Spec

=============================================================================
