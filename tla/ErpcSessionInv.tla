--------------------------- MODULE ErpcSessionInv ---------------------------
(***************************************************************************)
(* The inductive invariant of ErpcSession: what the two ends of a slot and *)
(* the packets between them know of each other.                            *)
(***************************************************************************)
EXTENDS ErpcSession

Sent == c_txq \cup s_txq \cup net

Active(s) == tx_msgbuf[s] # NoReq

\* The server has seen the slot's current request.
Received(s) == s_cur_req_num[s] = cur_req_num[s]

wire_pkts(r) == ReqPkts[r] + RespPkts[r] - 1

-----------------------------------------------------------------------------
(* The server's side of a slot: no request yet, part of request r, all of r   *)
(* but no response, or the response to r.                                     *)

Fresh(s) ==
    /\ s_cur_req_num[s] < kSessionReqWindow
    /\ s_num_rx[s] = 0
    /\ s_req_msgbuf[s] = Buried
    /\ ~ s_req_type[s]
    /\ s_tx_msgbuf[s] = NoReq

Assembling(s, r) ==
    /\ 0 < s_num_rx[s]
    /\ s_num_rx[s] < ReqPkts[r]
    /\ s_req_msgbuf[s] = Message(r, s_num_rx[s])
    /\ ~ s_req_type[s]
    /\ s_tx_msgbuf[s] = NoReq
    /\ executed[r] = 0

Pending(s, r) ==
    /\ s_num_rx[s] = ReqPkts[r]
    /\ s_req_msgbuf[s] = Message(r, ReqPkts[r])
    /\ s_req_type[s]
    /\ s_tx_msgbuf[s] = NoReq
    /\ executed[r] = 1

Responded(s, r) ==
    /\ ReqPkts[r] <= s_num_rx[s]
    /\ s_num_rx[s] <= wire_pkts(r)
    /\ s_req_msgbuf[s] = Buried
    /\ ~ s_req_type[s]
    /\ s_tx_msgbuf[s] = r
    /\ sav_num_req_pkts[s] = ReqPkts[r]
    /\ executed[r] = 1

\* The server is done with every request but the one the client waits for, and
\* that is the one it has.
Serves(s, r) ==
    \/ /\ Assembling(s, r) \/ Pending(s, r)
       /\ Received(s)
       /\ tx_msgbuf[s] = r
    \/ /\ Responded(s, r)
       /\ IF Active(s) /\ Received(s)
             THEN tx_msgbuf[s] = r /\ num_rx[s] <= s_num_rx[s]
             ELSE s_num_rx[s] = wire_pkts(r)

ServerInv(s) == Fresh(s) \/ \E r \in Req : Serves(s, r)

-----------------------------------------------------------------------------

\* A slot's request numbers: the server is at most one request behind.
NumbersInv(s) ==
    /\ cur_req_num[s] % kSessionReqWindow = s
    /\ s_cur_req_num[s] % kSessionReqWindow = s
    /\ Received(s) \/ cur_req_num[s] = s_cur_req_num[s] + kSessionReqWindow
    /\ ~ Active(s) => Received(s)
    /\ Active(s) => cur_req_num[s] >= kSessionReqWindow

\* A slot of the client: how far it is and what it has of the response.
Asking(s, r) ==
    /\ num_rx[s] < ReqPkts[r]
    /\ num_tx[s] <= ReqPkts[r]
    /\ resp_msgbuf[s] = {}

Collecting(s, r) ==
    /\ ReqPkts[r] <= num_rx[s]
    /\ num_rx[s] < wire_pkts(r)
    /\ num_tx[s] <= wire_pkts(r)
    /\ resp_msgbuf[s] = Message(r, num_rx[s] - ReqPkts[r] + 1)
    /\ Received(s)
    /\ Responded(s, r)

ClientInv(s) ==
    /\ num_rx[s] <= num_tx[s]
    /\ ~ Active(s) => num_tx[s] = num_rx[s]
    /\ Active(s) =>
          /\ num_tx[s] = num_rx[s] => num_rx[s] = 0
          /\ Asking(s, tx_msgbuf[s]) \/ Collecting(s, tx_msgbuf[s])

\* A request waits in the backlog or has at most one slot; a request the server
\* has not seen is not executed, and one that is not complete is not answered.
Backlogged == {enq_req_backlog[i] : i \in DOMAIN enq_req_backlog}

ActiveInv(s) ==
    Active(s) =>
       /\ tx_msgbuf[s] \in issued \ Backlogged
       /\ answer[tx_msgbuf[s]] = NoReq
       /\ ~ Received(s) => executed[tx_msgbuf[s]] = 0
       /\ \A x \in Slot : tx_msgbuf[x] = tx_msgbuf[s] => x = s

RequestsInv ==
    /\ executed[NoReq] = 0
    /\ Queues(enq_req_backlog, Backlogged)
    /\ Backlogged \subseteq issued
    /\ \A r \in Req : r \in Backlogged \/ r \notin issued =>
          executed[r] = 0 /\ answer[r] = NoReq

SlotsInv ==
    \A s \in Slot : NumbersInv(s) /\ ServerInv(s) /\ ClientInv(s) /\ ActiveInv(s)

-----------------------------------------------------------------------------
(* What a packet says of the two ends of its slot.                            *)

ReqPktInv(p) ==
    LET s == SlotOf(p)
        r == p.data[2]
    IN  /\ r \in Req
        /\ p.data[1] = p.pkt_num
        /\ p.pkt_num < ReqPkts[r]
        /\ kSessionReqWindow <= p.req_num
        /\ p.req_num = cur_req_num[s] \/ p.req_num <= s_cur_req_num[s]
        /\ Active(s) /\ p.req_num = cur_req_num[s] => r = tx_msgbuf[s]
        /\ p.req_num = s_cur_req_num[s] => Serves(s, r)

RespPktInv(p) ==
    LET s == SlotOf(p)
        r == p.data[2]
    IN  /\ r \in Req
        /\ p.data[1] < RespPkts[r]
        /\ p.pkt_num = ReqPkts[r] - 1 + p.data[1]
        /\ p.req_num <= s_cur_req_num[s]
        /\ p.req_num = s_cur_req_num[s] =>
              Responded(s, r) /\ Serves(s, r) /\ p.pkt_num < s_num_rx[s]

CrInv(p) ==
    LET s == SlotOf(p)
        r == tx_msgbuf[s]
    IN  /\ p.req_num <= s_cur_req_num[s]
        /\ Active(s) /\ p.req_num = cur_req_num[s] => p.pkt_num + 1 < ReqPkts[r]

RfrInv(p) ==
    LET s == SlotOf(p)
        r == s_tx_msgbuf[s]
    IN  /\ p.req_num <= s_cur_req_num[s]
        /\ p.req_num = s_cur_req_num[s] =>
              /\ r \in Req
              /\ Responded(s, r)
              /\ ReqPkts[r] <= p.pkt_num
              /\ p.pkt_num < wire_pkts(r)

PacketInv(p) ==
    /\ p.type = "req" => ReqPktInv(p)
    /\ p.type = "resp" => RespPktInv(p)
    /\ p.type = "cr" => CrInv(p)
    /\ p.type = "rfr" => RfrInv(p)

PacketsInv ==
    /\ \A p \in c_txq : p.type = "req"
    /\ \A p \in s_txq : p.type = "resp"
    /\ \A p \in Sent : PacketInv(p)

\* A response packet that waits for the NIC is not answered and was never sent.
ReleaseInv(p) ==
    /\ p.req_num = s_cur_req_num[SlotOf(p)]
    /\ Received(SlotOf(p)) /\ Active(SlotOf(p))
    /\ num_rx[SlotOf(p)] <= p.pkt_num
    /\ p \notin net

IInv ==
    /\ TypeOK
    /\ SlotsInv
    /\ RequestsInv
    /\ IsFiniteSet(Unanswered)
    /\ CreditsAccounted
    /\ WheelIsCurrent
    /\ PacketsInv
    /\ \A p \in s_txq : ReleaseInv(p)

=============================================================================
