----------------------------- MODULE ErpcSession ----------------------------
(***************************************************************************)
(* One connected eRPC session, the transport under the client and worker   *)
(* loops: a client endpoint that sends requests of one or more packets, a  *)
(* server endpoint that runs the request handler and sends responses, and  *)
(* a network that loses, delays, reorders and repeats packets.             *)
(*                                                                         *)
(* Both endpoints have kSessionReqWindow slots; request numbers are        *)
(* assigned so that req_num % kSessionReqWindow is the slot.  Every packet *)
(* of the client (a request packet, or an RFR, a request for one more      *)
(* response packet) uses a credit and is answered by one packet of the     *)
(* server (a CR, an explicit credit return, or a response packet) with the *)
(* same packet number.  Request packets of a congested session wait in the *)
(* timing wheel.  A client that sees no progress for the retransmission    *)
(* timeout rolls back to the last packet answered and sends again.         *)
(*                                                                         *)
(* An endpoint runs on one thread.  An iteration of its event loop handles *)
(* a burst of packets, perhaps none, then the credit stall queue, then the *)
(* wheel, then looks for lost packets; new requests are enqueued between   *)
(* iterations.  As a burst may be empty, the only constraint this puts on  *)
(* the order of the steps below is that the stall queue is served before   *)
(* anything but the reception of packets (StallsServed).                   *)
(*                                                                         *)
(* The payload of a message is the request it belongs to.  A message       *)
(* buffer is the set of the pieces copied to it: <<packet index, request>>.*)
(***************************************************************************)
EXTENDS Integers, Sequences, FiniteSets

CONSTANTS
    Req,                \* requests: the calls of enqueue_request
    NoReq,              \* null: no request, or a null buffer
    ReqPkts, RespPkts,  \* packets of each request and of its response
    kSessionReqWindow,  \* slots, and so requests in progress, of a session
    kSessionCredits,    \* client packets that may be unanswered
    MaxLosses           \* bound on the number of packets lost

ASSUME ReqAssumption ==
    /\ NoReq \notin Req
    /\ ReqPkts \in [Req -> Nat \ {0}]
    /\ RespPkts \in [Req -> Nat \ {0}]

ASSUME SessionAssumption ==
    /\ kSessionReqWindow \in Nat \ {0}
    /\ kSessionCredits \in Nat \ {0}
    /\ MaxLosses \in Nat

Slot == 0..(kSessionReqWindow - 1)

VARIABLES
    \* client slots: the active request, its number, packets sent and answered,
    \* its packets in the wheel and their in_wheel indices, response buffer
    tx_msgbuf, cur_req_num, num_tx, num_rx, wheel, in_wheel, resp_msgbuf,
    \* client session: free slots, credits, requests that wait for a slot, slots
    \* that wait for a credit
    sslot_free_vec, credits, enq_req_backlog, stallq,
    \* server slots: the last request's number, packets received, request
    \* buffer, whether a response is due, response, packets of the request
    s_cur_req_num, s_num_rx, s_req_msgbuf, s_req_type, s_tx_msgbuf,
    sav_num_req_pkts,
    \* data packets of each side that the NIC has not read yet; the network
    c_txq, s_txq, net,
    \* history: requests enqueued, executions of each, what each continuation
    \* found in its response buffer, and the number of packets lost
    issued, executed, answer, losses

progress == <<tx_msgbuf, cur_req_num, num_tx, num_rx, resp_msgbuf>>
pacing == <<wheel, in_wheel>>
queues == <<sslot_free_vec, enq_req_backlog, stallq>>
client == <<progress, pacing, queues, credits, c_txq>>
server == <<s_cur_req_num, s_num_rx, s_req_msgbuf, s_req_type, s_tx_msgbuf,
            sav_num_req_pkts, s_txq>>
history == <<issued, executed, answer, losses>>

vars == <<client, server, net, history>>

Init ==
    /\ tx_msgbuf = [s \in Slot |-> NoReq]
    /\ cur_req_num = [s \in Slot |-> s]
    /\ num_tx = [s \in Slot |-> 0]
    /\ num_rx = [s \in Slot |-> 0]
    /\ wheel = [s \in Slot |-> {}]
    /\ in_wheel = [s \in Slot |-> {}]
    /\ resp_msgbuf = [s \in Slot |-> {}]
    /\ sslot_free_vec = [i \in 1..kSessionReqWindow |-> kSessionReqWindow - i]
    /\ credits = kSessionCredits
    /\ enq_req_backlog = <<>>
    /\ stallq = <<>>
    /\ s_cur_req_num = [s \in Slot |-> s]
    /\ s_num_rx = [s \in Slot |-> 0]
    /\ s_req_msgbuf = [s \in Slot |-> {}]
    /\ s_req_type = [s \in Slot |-> FALSE]
    /\ s_tx_msgbuf = [s \in Slot |-> NoReq]
    /\ sav_num_req_pkts = [s \in Slot |-> 0]
    /\ c_txq = {}
    /\ s_txq = {}
    /\ net = {}
    /\ losses = 0
    /\ issued = {}
    /\ executed = [r \in Req \cup {NoReq} |-> 0]
    /\ answer = [r \in Req |-> NoReq]

-----------------------------------------------------------------------------
(* Packets and message buffers.                                            *)

Pkt(type, n, i, data) ==
    [type |-> type, req_num |-> n, pkt_num |-> i, data |-> data]

Control == <<0, NoReq>>     \* CRs and RFRs are headers only

Packet ==
    [type : {"req", "resp", "cr", "rfr"}, req_num : Nat, pkt_num : Nat,
     data : Nat \X (Req \cup {NoReq})]

ReqPkt(r, n, i) == Pkt("req", n, i, <<i, r>>)

\* Response packets are numbered from the last packet of the request on.
RespPkt(r, n, i, req_pkts) == Pkt("resp", n, req_pkts - 1 + i, <<i, r>>)

SlotOf(p) == p.req_num % kSessionReqWindow

\* The buffer that holds all of a message of k packets, and null.
Message(r, k) == {<<i, r>> : i \in 0..(k - 1)}

Buried == {}

copy_data_to_msgbuf(buf, piece) == {x \in buf : x[1] # piece[1]} \cup {piece}

\* The request whose message fills the buffer, NoReq if it is of no request.
Content(buf, Size) ==
    IF \E r \in Req : buf = Message(r, Size[r])
       THEN CHOOSE r \in Req : buf = Message(r, Size[r])
       ELSE NoReq

\* num_pkts of a buffer, set when the first piece arrives from its msg_size.
NumPkts(buf, Size) == Size[(CHOOSE x \in buf : x[1] = 0)[2]]

min(a, b) == IF a < b THEN a ELSE b

-----------------------------------------------------------------------------
(* The client: sending.                                                    *)

\* The stall queue is empty or waits for a credit.
StallsServed == credits = 0 \/ stallq = <<>>

\* A congested session sends through the wheel.  An uncongested one bypasses it,
\* unless the slot has packets there (wheel_count).
can_bypass_wheel(s) == wheel[s] = {}

enqueue_wheel_req_st(s, from, k) ==
    /\ wheel' = [wheel EXCEPT ![s] = @ \cup (from..(from + k - 1))]
    /\ in_wheel' = [in_wheel EXCEPT ![s] =
          @ \cup {i % kSessionCredits : i \in from..(from + k - 1)}]

\* kick_req_st: slot s, active with request r numbered n, sends request packets
\* from `from` on, as many as there are and as avail credits allow.
kick_req_st(s, r, n, from, avail) ==
    LET sending == min(avail, ReqPkts[r] - from)
    IN  /\ num_tx' = [num_tx EXCEPT ![s] = from + sending]
        /\ credits' = avail - sending
        /\ \/ /\ can_bypass_wheel(s)
              /\ c_txq' = c_txq \cup
                    {ReqPkt(r, n, i) : i \in from..(from + sending - 1)}
              /\ UNCHANGED pacing
           \/ /\ enqueue_wheel_req_st(s, from, sending)
              /\ UNCHANGED c_txq

\* The RFRs kick_rfr_st sends for slot s: their number and the packets.
RfrsToSend(from, avail, wire_pkts) == min(avail, wire_pkts - from)

Rfrs(n, from, k) == {Pkt("rfr", n, i, Control) : i \in from..(from + k - 1)}

\* The part of enqueue_request that fills in a slot: r becomes the slot's next
\* request and takes avail credits or, without one, a place in the stall queue.
Activate(s, r, avail) ==
    /\ tx_msgbuf' = [tx_msgbuf EXCEPT ![s] = r]
    /\ cur_req_num' = [cur_req_num EXCEPT ![s] = @ + kSessionReqWindow]
    /\ num_rx' = [num_rx EXCEPT ![s] = 0]
    /\ resp_msgbuf' = [resp_msgbuf EXCEPT ![s] = {}]
    /\ IF avail > 0
          THEN /\ kick_req_st(s, r, cur_req_num[s] + kSessionReqWindow, 0, avail)
               /\ UNCHANGED stallq
          ELSE /\ num_tx' = [num_tx EXCEPT ![s] = 0]
               /\ stallq' = Append(stallq, s)
               /\ UNCHANGED <<credits, pacing, c_txq>>

enqueue_request(r) ==
    /\ StallsServed
    /\ r \notin issued
    /\ issued' = issued \cup {r}
    /\ IF sslot_free_vec = <<>>
          THEN /\ enq_req_backlog' = Append(enq_req_backlog, r)
               /\ UNCHANGED <<progress, pacing, sslot_free_vec, stallq, credits,
                              c_txq>>
          ELSE LET last == Len(sslot_free_vec)
               IN  /\ Activate(sslot_free_vec[last], r, credits)
                   /\ sslot_free_vec' = SubSeq(sslot_free_vec, 1, last - 1)
                   /\ UNCHANGED enq_req_backlog
    /\ UNCHANGED <<server, net, executed, answer, losses>>

\* One slot of the stall queue gets credits.  Its request has sent nothing: a
\* slot is stalled only when it is filled in, and sends as soon as it leaves.
process_credit_stall_queue_st ==
    /\ credits > 0
    /\ stallq # <<>>
    /\ LET s == Head(stallq)
       IN  kick_req_st(s, tx_msgbuf[s], cur_req_num[s], num_tx[s], credits)
    /\ stallq' = Tail(stallq)
    /\ UNCHANGED <<tx_msgbuf, cur_req_num, num_rx, resp_msgbuf, sslot_free_vec,
                   enq_req_backlog, server, net, history>>

\* A packet of slot s is due.  The packets of a slot leave the wheel in the
\* order they entered it, as their desired times never decrease.
process_wheel_st(s) ==
    /\ StallsServed
    /\ \E i \in wheel[s] :
        /\ \A j \in wheel[s] : i <= j
        /\ c_txq' = c_txq \cup {ReqPkt(tx_msgbuf[s], cur_req_num[s], i)}
        /\ wheel' = [wheel EXCEPT ![s] = @ \ {i}]
        /\ in_wheel' = [in_wheel EXCEPT ![s] = @ \ {i % kSessionCredits}]
    /\ UNCHANGED <<progress, queues, credits, server, net, history>>

\* A retransmission that keeps the credits of the packets it sends again.
RollBackWithoutCredits(s) ==
    /\ StallsServed
    /\ tx_msgbuf[s] # NoReq
    /\ num_tx[s] # num_rx[s]
    /\ wheel[s] = {}
    /\ credits > 0
    /\ num_rx[s] < ReqPkts[tx_msgbuf[s]]
    /\ LET r == tx_msgbuf[s]
           k == min(credits, ReqPkts[r] - num_rx[s])
       IN  /\ num_tx' = [num_tx EXCEPT ![s] = num_rx[s] + k]
           /\ credits' = credits - k
           /\ net' = net \cup c_txq \cup {ReqPkt(r, cur_req_num[s], i) :
                                           i \in num_rx[s]..(num_rx[s] + k - 1)}
           /\ c_txq' = {}
    /\ UNCHANGED <<tx_msgbuf, cur_req_num, num_rx, resp_msgbuf, pacing, queues,
                   server, history>>

\* pkt_loss_scan_st finds slot s without progress for the retransmission
\* timeout, pkt_loss_retransmit_st rolls it back and sends again, and the TX
\* batch and the DMA queue are drained.
pkt_loss_retransmit_st(s) ==
    /\ StallsServed
    /\ tx_msgbuf[s] # NoReq
    /\ num_tx[s] # num_rx[s]
    /\ wheel[s] = {}
    /\ LET r == tx_msgbuf[s]
           n == cur_req_num[s]
           from == num_rx[s]
           avail == credits + (num_tx[s] - num_rx[s])
       IN  IF from < ReqPkts[r]
              THEN LET k == min(avail, ReqPkts[r] - from)
                   IN  /\ num_tx' = [num_tx EXCEPT ![s] = from + k]
                       /\ credits' = avail - k
                       /\ \/ /\ net' = net \cup c_txq \cup
                                 {ReqPkt(r, n, i) : i \in from..(from + k - 1)}
                             /\ UNCHANGED pacing
                          \/ /\ enqueue_wheel_req_st(s, from, k)
                             /\ net' = net \cup c_txq
              ELSE LET wire_pkts == ReqPkts[r]
                                      + NumPkts(resp_msgbuf[s], RespPkts) - 1
                       k == RfrsToSend(from, avail, wire_pkts)
                   IN  /\ num_tx' = [num_tx EXCEPT ![s] = from + k]
                       /\ credits' = avail - k
                       /\ net' = net \cup c_txq \cup Rfrs(n, from, k)
                       /\ UNCHANGED pacing
    /\ c_txq' = {}
    /\ UNCHANGED <<tx_msgbuf, cur_req_num, num_rx, resp_msgbuf, queues, server,
                   history>>

-----------------------------------------------------------------------------
(* The client: receiving.                                                  *)

\* A check that lets answers to packets still in the wheel pass.
InOrderIgnoringWheel(s, p) ==
    /\ tx_msgbuf[s] # NoReq
    /\ p.req_num = cur_req_num[s]
    /\ p.pkt_num = num_rx[s]
    /\ p.pkt_num < num_tx[s]

\* A check that looks only at packet numbers.
InOrderAnyRequest(s, p) ==
    /\ tx_msgbuf[s] # NoReq
    /\ p.pkt_num = num_rx[s]
    /\ p.pkt_num < num_tx[s]
    /\ p.pkt_num % kSessionCredits \notin in_wheel[s]

\* The packet is the answer to the first unanswered packet of the slot's
\* request, sent since the last rollback and no longer in the wheel.
in_order_client(s, p) ==
    /\ p.req_num = cur_req_num[s]
    /\ p.pkt_num = num_rx[s]
    /\ p.pkt_num < num_tx[s]
    /\ p.pkt_num % kSessionCredits \notin in_wheel[s]

process_expl_cr_st(p) ==
    LET s == SlotOf(p)
        r == tx_msgbuf[s]
    IN  /\ p.type = "cr"
        /\ in_order_client(s, p)
        /\ num_rx' = [num_rx EXCEPT ![s] = @ + 1]
        /\ IF num_tx[s] < ReqPkts[r]
              THEN kick_req_st(s, r, cur_req_num[s], num_tx[s], credits + 1)
              ELSE /\ credits' = credits + 1
                   /\ UNCHANGED <<num_tx, pacing, c_txq>>
        /\ UNCHANGED <<tx_msgbuf, cur_req_num, resp_msgbuf, queues, server, net,
                       history>>

\* The whole response is there: the slot is free, or goes on with the first
\* request of the backlog, and the continuation runs.
Complete(s, buf) ==
    /\ answer' = [answer EXCEPT ![tx_msgbuf[s]] = Content(buf, RespPkts)]
    /\ IF enq_req_backlog = <<>>
          THEN /\ tx_msgbuf' = [tx_msgbuf EXCEPT ![s] = NoReq]
               /\ num_rx' = [num_rx EXCEPT ![s] = @ + 1]
               /\ resp_msgbuf' = [resp_msgbuf EXCEPT ![s] = {}]
               /\ sslot_free_vec' = Append(sslot_free_vec, s)
               /\ credits' = credits + 1
               /\ UNCHANGED <<cur_req_num, num_tx, pacing, enq_req_backlog,
                              stallq, c_txq>>
          ELSE /\ Activate(s, Head(enq_req_backlog), credits + 1)
               /\ enq_req_backlog' = Tail(enq_req_backlog)
               /\ UNCHANGED sslot_free_vec
    /\ UNCHANGED <<server, net, issued, executed, losses>>

\* A further piece of a response of several packets: RFRs for the packets not
\* asked for yet go out, as far as the credits allow.
NextPiece(s, buf, wire_pkts) ==
    LET k == RfrsToSend(num_tx[s], credits + 1, wire_pkts)
    IN  /\ num_rx' = [num_rx EXCEPT ![s] = @ + 1]
        /\ num_tx' = [num_tx EXCEPT ![s] = @ + k]
        /\ credits' = credits + 1 - k
        /\ net' = net \cup Rfrs(cur_req_num[s], num_tx[s], k)
        /\ resp_msgbuf' = [resp_msgbuf EXCEPT ![s] = buf]
        /\ UNCHANGED <<tx_msgbuf, cur_req_num, pacing, queues, c_txq, server,
                       history>>

process_resp_one_st(p) ==
    LET s == SlotOf(p)
        buf == copy_data_to_msgbuf(resp_msgbuf[s], p.data)
        wire_pkts == ReqPkts[tx_msgbuf[s]] + NumPkts(buf, RespPkts) - 1
    IN  /\ p.type = "resp"
        /\ in_order_client(s, p)
        /\ IF RespPkts[p.data[2]] = 1 \/ num_rx[s] + 1 = wire_pkts
              THEN Complete(s, buf)
              ELSE NextPiece(s, buf, wire_pkts)

-----------------------------------------------------------------------------
(* The server.                                                             *)

\* Packet i of the slot's response.
Response(s, i) ==
    RespPkt(s_tx_msgbuf[s], s_cur_req_num[s], i, sav_num_req_pkts[s])

\* A response sent again without draining the TX batch and the DMA queue.
ResendWithoutDrain(s, i) ==
    /\ s_txq' = s_txq \cup {Response(s, i)}
    /\ UNCHANGED <<s_cur_req_num, s_num_rx, s_req_msgbuf, s_req_type,
                   s_tx_msgbuf, sav_num_req_pkts, net>>
    /\ UNCHANGED <<client, history>>

\* The response packet is sent again, and TX batch and DMA queue are drained.
Resend(s, i) ==
    /\ net' = net \cup s_txq \cup {Response(s, i)}
    /\ s_txq' = {}
    /\ UNCHANGED <<s_cur_req_num, s_num_rx, s_req_msgbuf, s_req_type,
                   s_tx_msgbuf, sav_num_req_pkts>>
    /\ UNCHANGED <<client, history>>

\* The handler is called with the request in buf; its response is due.
RunHandler(s, buf) ==
    LET r == Content(buf, ReqPkts)
    IN  /\ executed' = [executed EXCEPT ![r] = @ + 1]
        /\ s_req_type' = [s_req_type EXCEPT ![s] = TRUE]

\* A server that takes a retransmission of the current request for a new one.
SmallReqAgain(p) ==
    LET s == SlotOf(p)
    IN  /\ p.type = "req"
        /\ ReqPkts[p.data[2]] = 1
        /\ ~ s_req_type[s]
        /\ p.req_num >= s_cur_req_num[s]
        /\ s_tx_msgbuf' = [s_tx_msgbuf EXCEPT ![s] = NoReq]
        /\ s_cur_req_num' = [s_cur_req_num EXCEPT ![s] = p.req_num]
        /\ s_num_rx' = [s_num_rx EXCEPT ![s] = 1]
        /\ s_req_msgbuf' = [s_req_msgbuf EXCEPT ![s] = {p.data}]
        /\ RunHandler(s, {p.data})
        /\ UNCHANGED <<sav_num_req_pkts, s_txq, net, client, issued, answer,
                       losses>>

\* A server that drops every retransmission, whether or not it has the response.
SmallReqOnce(p) ==
    LET s == SlotOf(p)
    IN  /\ p.type = "req"
        /\ ReqPkts[p.data[2]] = 1
        /\ p.req_num > s_cur_req_num[s]
        /\ s_tx_msgbuf' = [s_tx_msgbuf EXCEPT ![s] = NoReq]
        /\ s_cur_req_num' = [s_cur_req_num EXCEPT ![s] = p.req_num]
        /\ s_num_rx' = [s_num_rx EXCEPT ![s] = 1]
        /\ s_req_msgbuf' = [s_req_msgbuf EXCEPT ![s] = {p.data}]
        /\ RunHandler(s, {p.data})
        /\ UNCHANGED <<sav_num_req_pkts, s_txq, net, client, issued, answer,
                       losses>>

\* The only packet of a request: of a new one, or a retransmission.
process_small_req_st(p) ==
    LET s == SlotOf(p)
    IN  /\ p.type = "req"
        /\ ReqPkts[p.data[2]] = 1
        /\ \/ /\ p.req_num = s_cur_req_num[s]
              /\ s_tx_msgbuf[s] # NoReq
              /\ Resend(s, 0)
           \/ /\ p.req_num > s_cur_req_num[s]
              /\ s_tx_msgbuf' = [s_tx_msgbuf EXCEPT ![s] = NoReq]
              /\ s_cur_req_num' = [s_cur_req_num EXCEPT ![s] = p.req_num]
              /\ s_num_rx' = [s_num_rx EXCEPT ![s] = 1]
              /\ s_req_msgbuf' = [s_req_msgbuf EXCEPT ![s] = {p.data}]
              /\ RunHandler(s, {p.data})
              /\ UNCHANGED <<sav_num_req_pkts, s_txq, net, client, issued,
                             answer, losses>>

\* The credit return for a request packet.
Cr(p) == Pkt("cr", p.req_num, p.pkt_num, Control)

\* An in-order packet of a request of several packets, copied to a buffer that
\* holds old.  The handler runs when it completes the request.
TakeReqPkt(s, p, old) ==
    LET buf == copy_data_to_msgbuf(old, p.data)
        n == p.pkt_num + 1
        num_pkts == NumPkts(buf, ReqPkts)
    IN  /\ s_cur_req_num' = [s_cur_req_num EXCEPT ![s] = p.req_num]
        /\ s_num_rx' = [s_num_rx EXCEPT ![s] = n]
        /\ s_req_msgbuf' = [s_req_msgbuf EXCEPT ![s] = buf]
        /\ net' = IF n # num_pkts THEN net \cup {Cr(p)} ELSE net
        /\ IF n = num_pkts THEN RunHandler(s, buf)
                           ELSE UNCHANGED <<executed, s_req_type>>
        /\ UNCHANGED <<sav_num_req_pkts, s_txq, client, issued, answer, losses>>

process_large_req_one_st(p) ==
    LET s == SlotOf(p)
        size == ReqPkts[p.data[2]]
    IN  /\ p.type = "req"
        /\ size > 1
        /\ \/ /\ p.req_num = s_cur_req_num[s]           \* next packet
              /\ p.pkt_num = s_num_rx[s]
              /\ TakeReqPkt(s, p, s_req_msgbuf[s])
              /\ UNCHANGED s_tx_msgbuf
           \/ /\ p.req_num = s_cur_req_num[s] + kSessionReqWindow
              /\ p.pkt_num = 0                          \* next request
              /\ TakeReqPkt(s, p, Buried)
              /\ s_tx_msgbuf' = [s_tx_msgbuf EXCEPT ![s] = NoReq]
           \/ /\ p.req_num = s_cur_req_num[s]           \* past packet
              /\ p.pkt_num < s_num_rx[s]
              /\ \/ /\ p.pkt_num # size - 1
                    /\ net' = net \cup {Cr(p)}
                    /\ UNCHANGED <<server, client, history>>
                 \/ /\ p.pkt_num = size - 1
                    /\ s_tx_msgbuf[s] # NoReq
                    /\ Resend(s, 0)

\* The request handler, or drain_batch for requests collected by a worker,
\* gives the response.
enqueue_response(s) ==
    LET r == Content(s_req_msgbuf[s], ReqPkts)
        n == NumPkts(s_req_msgbuf[s], ReqPkts)
    IN  /\ s_req_type[s]
        /\ sav_num_req_pkts' = [sav_num_req_pkts EXCEPT ![s] = n]
        /\ s_req_msgbuf' = [s_req_msgbuf EXCEPT ![s] = Buried]
        /\ s_tx_msgbuf' = [s_tx_msgbuf EXCEPT ![s] = r]
        /\ s_req_type' = [s_req_type EXCEPT ![s] = FALSE]
        /\ s_txq' = s_txq \cup {RespPkt(r, s_cur_req_num[s], 0, n)}
        /\ UNCHANGED <<s_cur_req_num, s_num_rx, client, net, history>>

\* An RFR: the next one, or one answered before.
process_rfr_st(p) ==
    LET s == SlotOf(p)
        i == p.pkt_num - (sav_num_req_pkts[s] - 1)
    IN  /\ p.type = "rfr"
        /\ p.req_num = s_cur_req_num[s]
        /\ \/ /\ p.pkt_num = s_num_rx[s]
              /\ s_num_rx' = [s_num_rx EXCEPT ![s] = @ + 1]
              /\ s_txq' = s_txq \cup {Response(s, i)}
              /\ UNCHANGED <<s_cur_req_num, s_req_msgbuf, s_req_type, s_tx_msgbuf,
                             sav_num_req_pkts, client, net, history>>
           \/ /\ p.pkt_num < s_num_rx[s]
              /\ Resend(s, i)

-----------------------------------------------------------------------------
(* NIC and network.                                                        *)

\* The request buffer the packet is in is still that of its request.
BufferHeld(p) ==
    LET s == SlotOf(p)
    IN  tx_msgbuf[s] # NoReq /\ cur_req_num[s] = p.req_num

\* What the NIC finds in the packet's buffer.  A buffer that its owner has
\* taken back still holds the packet, or one of a request that is active now.
InBuffer(p) ==
    IF BufferHeld(p) THEN {p}
    ELSE {p} \cup {ReqPkt(tx_msgbuf[s], cur_req_num[s], p.pkt_num) :
                     s \in {x \in Slot : /\ tx_msgbuf[x] # NoReq
                                         /\ p.pkt_num < ReqPkts[tx_msgbuf[x]]}}

\* The client's NIC reads a packet and sends it.
ClientNic(p) ==
    /\ c_txq' = c_txq \ {p}
    /\ \E q \in InBuffer(p) : net' = net \cup {q}
    /\ UNCHANGED <<progress, pacing, queues, credits, server, history>>

ServerNic(p) ==
    /\ s_txq' = s_txq \ {p}
    /\ net' = net \cup {p}
    /\ UNCHANGED <<client, s_cur_req_num, s_num_rx, s_req_msgbuf, s_req_type,
                   s_tx_msgbuf, sav_num_req_pkts, history>>

\* A packet is handled by its receiver.  It stays in the network and may arrive
\* again at any time: a packet that arrives twice, late or out of order.
ClientReceive(p) == process_expl_cr_st(p) \/ process_resp_one_st(p)

ServerReceive(p) ==
    \/ process_small_req_st(p)
    \/ process_large_req_one_st(p)
    \/ process_rfr_st(p)

\* A packet is lost, with all its copies.
Lose(p) ==
    /\ losses < MaxLosses
    /\ losses' = losses + 1
    /\ net' = net \ {p}
    /\ UNCHANGED <<client, server, issued, executed, answer>>

-----------------------------------------------------------------------------

ClientStep ==
    \/ \E r \in Req : enqueue_request(r)
    \/ process_credit_stall_queue_st
    \/ \E s \in Slot : process_wheel_st(s) \/ pkt_loss_retransmit_st(s)
    \/ \E p \in c_txq : ClientNic(p)

ServerStep ==
    \/ \E s \in Slot : enqueue_response(s)
    \/ \E p \in s_txq : ServerNic(p)

Next ==
    \/ ClientStep
    \/ ServerStep
    \/ \E p \in net : ClientReceive(p) \/ ServerReceive(p) \/ Lose(p)

Spec == Init /\ [][Next]_vars

(* An endpoint's thread runs its event loop again and again: it serves the    *)
(* stall queue and the wheel, finds requests that make no progress, and sends *)
(* what is queued.  A request handler answers.  Packets in the network        *)
(* arrive; the client ignores an answer to a packet that it is about to send  *)
(* again, so there fairness is strong: a slot that can accept an answer again *)
(* and again gets one.                                                        *)
Fairness ==
    /\ WF_vars(process_credit_stall_queue_st)
    /\ WF_vars(\E p \in c_txq : ClientNic(p))
    /\ WF_vars(\E p \in s_txq : ServerNic(p))
    /\ \A s \in Slot :
        /\ WF_vars(process_wheel_st(s))
        /\ WF_vars(pkt_loss_retransmit_st(s))
        /\ WF_vars(enqueue_response(s))
        /\ SF_vars(\E p \in net : SlotOf(p) = s /\ ClientReceive(p))
        /\ WF_vars(\E p \in net : SlotOf(p) = s /\ ServerReceive(p))

FairSpec == Spec /\ Fairness

-----------------------------------------------------------------------------

(* Every variable keeps its type.                                             *)
TypeOK ==
    /\ tx_msgbuf \in [Slot -> Req \cup {NoReq}]
    /\ cur_req_num \in [Slot -> Nat]
    /\ num_tx \in [Slot -> Nat]
    /\ num_rx \in [Slot -> Nat]
    /\ wheel \in [Slot -> SUBSET Nat]
    /\ in_wheel \in [Slot -> SUBSET (0..(kSessionCredits - 1))]
    /\ resp_msgbuf \in [Slot -> SUBSET (Nat \X Req)]
    /\ sslot_free_vec \in Seq(Slot)
    /\ credits \in 0..kSessionCredits
    /\ enq_req_backlog \in Seq(Req)
    /\ stallq \in Seq(Slot)
    /\ s_cur_req_num \in [Slot -> Nat]
    /\ s_num_rx \in [Slot -> Nat]
    /\ s_req_msgbuf \in [Slot -> SUBSET (Nat \X Req)]
    /\ s_req_type \in [Slot -> BOOLEAN]
    /\ s_tx_msgbuf \in [Slot -> Req \cup {NoReq}]
    /\ sav_num_req_pkts \in [Slot -> Nat]
    /\ c_txq \cup s_txq \cup net \subseteq Packet
    /\ issued \subseteq Req
    /\ executed \in [Req \cup {NoReq} -> Nat]
    /\ answer \in [Req -> Req \cup {NoReq}]

\* The packets of each slot between one count and another.
Between(rx, tx) == UNION {{s} \X (rx[s]..(tx[s] - 1)) : s \in Slot}

Unanswered == Between(num_rx, num_tx)

\* The queue holds each member of S once, and nothing else.
Queues(q, S) ==
    /\ {q[i] : i \in DOMAIN q} = S
    /\ \A i, j \in DOMAIN q : q[i] = q[j] => i = j

(* Credits are neither lost nor made up by retransmissions, late answers and  *)
(* the reuse of slots: a credit is available or is that of a packet sent and  *)
(* not answered.  No request is forgotten: a slot is free, or waits for an    *)
(* answer, or waits in the stall queue for its first credit, and requests     *)
(* wait in the backlog only while no slot is free.                            *)
CreditsAccounted ==
    /\ credits + Cardinality(Unanswered) = kSessionCredits
    /\ \A s \in Slot : num_rx[s] <= num_tx[s]
    /\ Queues(sslot_free_vec, {s \in Slot : tx_msgbuf[s] = NoReq})
    /\ Queues(stallq, {s \in Slot : tx_msgbuf[s] # NoReq /\ num_tx[s] = num_rx[s]})
    /\ enq_req_backlog # <<>> => sslot_free_vec = <<>>

(* in_wheel[n % kSessionCredits] says that packet n is in the wheel, and      *)
(* never confuses two packets; what is in the wheel belongs to the request    *)
(* that is active, so process_wheel_st never reads a slot whose request is    *)
(* complete, and the slot is drained from the wheel when it completes.        *)
WheelIsCurrent ==
    \A s \in Slot :
        /\ in_wheel[s] = {i % kSessionCredits : i \in wheel[s]}
        /\ \A i, j \in wheel[s] :
              i % kSessionCredits = j % kSessionCredits => i = j
        /\ \A i \in wheel[s] :
              /\ tx_msgbuf[s] # NoReq
              /\ i < ReqPkts[tx_msgbuf[s]]
              /\ num_rx[s] <= i /\ i < num_tx[s]

\* The assertions of the handlers a packet of the network would run.
ClientAsserts(p) ==
    LET s == SlotOf(p)
    IN  /\ p.req_num <= cur_req_num[s]
        /\ in_order_client(s, p) =>
              /\ tx_msgbuf[s] # NoReq
              /\ credits < kSessionCredits
              /\ p.type = "resp" =>
                    /\ wheel[s] = {}
                    /\ p.pkt_num >= ReqPkts[tx_msgbuf[s]] - 1

ServerAsserts(p) ==
    LET s == SlotOf(p)
    IN  /\ p.type = "rfr" =>
              /\ p.req_num <= s_cur_req_num[s]
              /\ p.req_num = s_cur_req_num[s] => s_tx_msgbuf[s] # NoReq
        /\ p.type = "req" /\ p.req_num > s_cur_req_num[s] =>
              /\ p.req_num = s_cur_req_num[s] + kSessionReqWindow
              /\ s_req_msgbuf[s] = Buried
              /\ ~ s_req_type[s]

(* The handlers' assertions hold whatever packet arrives next, however late:  *)
(* a new request finds its predecessor answered and its buffer buried, an     *)
(* answer that completes a request finds no packet of it in the wheel, an RFR *)
(* finds the response it asks for, a credit is returned only when one is out, *)
(* and enqueue_response never overwrites a response.                          *)
AssertsHold ==
    /\ \A p \in net :
        IF p.type \in {"cr", "resp"} THEN ClientAsserts(p) ELSE ServerAsserts(p)
    /\ \A s \in Slot : s_req_type[s] => s_tx_msgbuf[s] = NoReq

(* When the server reuses a response buffer, because the next request of the  *)
(* slot has arrived, the NIC has read every packet queued from it.            *)
ResponsesReleased ==
    \A p \in s_txq :
        /\ s_cur_req_num[SlotOf(p)] = p.req_num
        /\ s_tx_msgbuf[SlotOf(p)] = p.data[2]

Service == INSTANCE RpcService

(* The session implements its service: whatever is lost, repeated, late or    *)
(* out of order, no handler runs twice for a request or with another          *)
(* request's payload, and a continuation runs once, with the whole response   *)
(* to its own request.                                                        *)
ImplementsService == Service!Spec

(* Every request is answered, although packets are lost, slots and credits    *)
(* run out and requests wait for each other: again and again, all that have   *)
(* been issued so far are.                                                    *)
EveryRequestAnswered ==
    []<>(\A r \in issued : answer[r] # NoReq)

=============================================================================
