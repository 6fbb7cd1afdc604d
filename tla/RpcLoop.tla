------------------------------ MODULE RpcLoop -------------------------------
(***************************************************************************)
(* The client threads and worker threads of the SC build, and the requests *)
(* they exchange over eRPC.  Client i of a machine talks to worker i and   *)
(* to client i of every other machine and to no other thread, so the model *)
(* has one client and one worker per machine.  A client iterates: it       *)
(* prepares a batch (hot writes to broadcast, cold requests by home        *)
(* machine), waits for the answers to earlier requests if its previous     *)
(* batch had cold requests, sends, and polls its transport once.  Request  *)
(* handlers and continuations run inside run_event_loop_once, on the       *)
(* thread that owns the transport, so they interleave with the other       *)
(* threads and never with their own.  The transport delivers every request *)
(* and every response once, as ErpcSession shows of eRPC.  A failed assert *)
(* aborts the process: client and worker of that machine stop.             *)
(***************************************************************************)
EXTENDS Naturals, Sequences, FiniteSets, Functions

CONSTANTS
    Machine,        \* the machines
    KVS_BATCH,      \* cold requests a client sends to one machine at a time
    HotWrites,      \* numbers of hot writes a batch may hold
    Home            \* machines that are home to the cold keys of the traces

ASSUME MachineAssumption == IsFiniteSet(Machine) /\ Cardinality(Machine) >= 2

ASSUME BatchAssumption == KVS_BATCH \in Nat \ {0} /\ HotWrites \subseteq Nat

ASSUME HomeAssumption == Home \subseteq Machine

MACHINE_NUM == Cardinality(Machine)

WORKER_MAX_BATCH == KVS_BATCH * MACHINE_NUM

VARIABLES
    \* where the client thread of each machine is in its loop
    pc,
    \* ClientContext: the batch being prepared, the message buffers in use, the
    \* answers eresp has room for, and the number of requests not answered yet
    cidx, idx, bufferused, cache_bufferused, eresp, reqs_in_transit,
    \* locals of run_client: cold requests of this batch and of the one before
    wr_i, previous_wr_i,
    \* WorkerContext: the requests collected since the last drain, and their ops
    handle, op_ptr_arr,
    \* transport: requests and responses in flight, by client and peer
    cache_reqs, cache_resps, data_reqs, data_resps

batch == <<cidx, idx, wr_i, previous_wr_i>>
buffers == <<bufferused, cache_bufferused, eresp, reqs_in_transit>>
worker == <<handle, op_ptr_arr>>
cache_net == <<cache_reqs, cache_resps>>
data_net == <<data_reqs, data_resps>>

vars == <<pc, batch, buffers, worker, cache_net, data_net>>

Others(m) == Machine \ {m}

\* A table indexed by client and peer, all entries equal to x.
Table(x) == [m \in Machine |-> [r \in Others(m) |-> x]]

\* The ClientContext is on the stack and cidx and idx are not assigned before
\* they are counted up: the loop works only if they start at zero, and the model
\* assumes it.
Init ==
    /\ pc = [m \in Machine |-> "prepare"]
    /\ cidx = [m \in Machine |-> 0]
    /\ idx = Table(0)
    /\ wr_i = [m \in Machine |-> 0]
    /\ previous_wr_i = [m \in Machine |-> 0]
    /\ bufferused = Table(0)
    /\ cache_bufferused = Table(0)
    /\ eresp = Table(0)
    /\ reqs_in_transit = [m \in Machine |-> 0]
    /\ handle = [w \in Machine |-> <<>>]
    /\ op_ptr_arr = [w \in Machine |-> <<>>]
    /\ cache_reqs = Table(<<>>)
    /\ cache_resps = Table(0)
    /\ data_reqs = Table(<<>>)
    /\ data_resps = Table(<<>>)

-----------------------------------------------------------------------------
(* The client's loop.                                                      *)

\* The wait that is skipped when only this batch, not the last one, is looked at.
LooksAtThisBatch(m, colds) == IF colds > 0 THEN "wait" ELSE "send"

\* Where the client goes once its batch, with this many cold requests, is ready.
AfterPrepare(m, colds) == IF wr_i[m] > 0 THEN "wait" ELSE "send"

\* The next batch: every hot write becomes a cache op, every cold request that
\* fits is added to the request for its home machine.
Prepare(m) ==
    /\ pc[m] = "prepare"
    /\ \E writes \in HotWrites, colds \in [Others(m) -> 0..KVS_BATCH] :
        /\ \A r \in Others(m) \ Home : colds[r] = 0
        /\ cidx' = [cidx EXCEPT ![m] = @ + writes]
        /\ idx' = [idx EXCEPT ![m] = [r \in Others(m) |-> @[r] + colds[r]]]
        /\ previous_wr_i' = [previous_wr_i EXCEPT ![m] = wr_i[m]]
        /\ wr_i' = [wr_i EXCEPT ![m] = SumFunction(colds)]
        /\ pc' = [pc EXCEPT ![m] = AfterPrepare(m, SumFunction(colds))]
    /\ UNCHANGED <<buffers, worker, cache_net, data_net>>

\* Every request sent so far has been answered.
EndWait(m) ==
    /\ pc[m] = "wait"
    /\ reqs_in_transit[m] = 0
    /\ pc' = [pc EXCEPT ![m] = "send"]
    /\ UNCHANGED <<batch, buffers, worker, cache_net, data_net>>

\* The assertions of broadcast_cache_ops and of send_requests.
CacheBuffersFree(m) ==
    cidx[m] > 0 => \A r \in Others(m) : cache_bufferused[m][r] = 0

DataBuffersFree(m) ==
    \A r \in Others(m) : idx[m][r] > 0 => bufferused[m][r] = 0

\* broadcast_cache_ops and send_requests: one request with all the updates to
\* every other client, and one request with its cold operations to every worker
\* that has some.  An operation is represented by the client that issued it.
Send(m) ==
    /\ pc[m] = "send"
    /\ CacheBuffersFree(m)
    /\ DataBuffersFree(m)
    /\ LET updates == {r \in Others(m) : cidx[m] > 0}
           colds == {r \in Others(m) : idx[m][r] > 0}
       IN  /\ cache_bufferused' = [cache_bufferused EXCEPT ![m] =
                  [r \in Others(m) |-> IF r \in updates THEN 1 ELSE @[r]]]
           /\ cache_reqs' = [cache_reqs EXCEPT ![m] = [r \in Others(m) |->
                  IF r \in updates THEN Append(@[r], cidx[m]) ELSE @[r]]]
           /\ bufferused' = [bufferused EXCEPT ![m] =
                  [r \in Others(m) |-> IF r \in colds THEN 1 ELSE @[r]]]
           /\ eresp' = [eresp EXCEPT ![m] =
                  [r \in Others(m) |-> IF r \in colds THEN idx[m][r] ELSE @[r]]]
           /\ data_reqs' = [data_reqs EXCEPT ![m] = [r \in Others(m) |->
                  IF r \in colds THEN Append(@[r], [i \in 1..idx[m][r] |-> m])
                                 ELSE @[r]]]
           /\ reqs_in_transit' = [reqs_in_transit EXCEPT ![m] =
                  @ + Cardinality(updates) + Cardinality(colds)]
    /\ cidx' = [cidx EXCEPT ![m] = 0]
    /\ idx' = [idx EXCEPT ![m] = [r \in Others(m) |-> 0]]
    /\ pc' = [pc EXCEPT ![m] = "poll"]
    /\ UNCHANGED <<wr_i, previous_wr_i, worker, cache_resps, data_resps>>

\* One of the two assertions fails.
Abort(m) ==
    /\ pc[m] = "send"
    /\ ~ (CacheBuffersFree(m) /\ DataBuffersFree(m))
    /\ pc' = [pc EXCEPT ![m] = "aborted"]
    /\ UNCHANGED <<batch, buffers, worker, cache_net, data_net>>

\* The single event-loop pass that ends an iteration is over.
EndPoll(m) ==
    /\ pc[m] = "poll"
    /\ pc' = [pc EXCEPT ![m] = "prepare"]
    /\ UNCHANGED <<batch, buffers, worker, cache_net, data_net>>

-----------------------------------------------------------------------------
(* What a client does inside run_event_loop_once.                          *)

InEventLoop(m) == pc[m] \in {"wait", "poll"}

\* A client that serves no update while it waits for its own answers.
ReqCacheOnlyWhenPolling(m, r) ==
    /\ pc[m] = "poll"
    /\ cache_reqs[r][m] # <<>>
    /\ cache_reqs' = [cache_reqs EXCEPT ![r][m] = Tail(@)]
    /\ cache_resps' = [cache_resps EXCEPT ![r][m] = @ + 1]
    /\ UNCHANGED <<pc, batch, buffers, worker, data_net>>

\* The updates of client r are applied and acknowledged.
ReqCache(m, r) ==
    /\ InEventLoop(m)
    /\ cache_reqs[r][m] # <<>>
    /\ cache_reqs' = [cache_reqs EXCEPT ![r][m] = Tail(@)]
    /\ cache_resps' = [cache_resps EXCEPT ![r][m] = @ + 1]
    /\ UNCHANGED <<pc, batch, buffers, worker, data_net>>

CacheResponse(m, r) ==
    /\ InEventLoop(m)
    /\ cache_resps[m][r] > 0
    /\ cache_resps' = [cache_resps EXCEPT ![m][r] = @ - 1]
    /\ cache_bufferused' = [cache_bufferused EXCEPT ![m][r] = 0]
    /\ reqs_in_transit' = [reqs_in_transit EXCEPT ![m] = @ - 1]
    /\ UNCHANGED <<pc, batch, bufferused, eresp, worker, cache_reqs, data_net>>

\* A continuation that frees the buffer and does not count the answer.
ForgetsAnswer(m, r) ==
    /\ InEventLoop(m)
    /\ data_resps[m][r] # <<>>
    /\ data_resps' = [data_resps EXCEPT ![m][r] = Tail(@)]
    /\ bufferused' = [bufferused EXCEPT ![m][r] = 0]
    /\ UNCHANGED <<pc, batch, cache_bufferused, eresp, reqs_in_transit, worker,
                   cache_net, data_reqs>>

ReceiveResponse(m, r) ==
    /\ InEventLoop(m)
    /\ data_resps[m][r] # <<>>
    /\ data_resps' = [data_resps EXCEPT ![m][r] = Tail(@)]
    /\ bufferused' = [bufferused EXCEPT ![m][r] = 0]
    /\ reqs_in_transit' = [reqs_in_transit EXCEPT ![m] = @ - 1]
    /\ UNCHANGED <<pc, batch, cache_bufferused, eresp, worker, cache_net,
                   data_reqs>>

-----------------------------------------------------------------------------
(* The worker's loop.                                                      *)

\* A request is collected: its operations join the batch, and nothing is
\* answered yet.  The handler's assertion bounds the batch.
ReqHandler(w, m) ==
    /\ pc[w] # "aborted"
    /\ data_reqs[m][w] # <<>>
    /\ LET ops == Head(data_reqs[m][w])
           total_ops == Len(op_ptr_arr[w]) + Len(ops)
       IN  /\ handle' = [handle EXCEPT ![w] =
                  Append(@, [client |-> m, ops_in_req |-> Len(ops)])]
           /\ op_ptr_arr' = [op_ptr_arr EXCEPT ![w] = @ \o ops]
           /\ pc' = IF total_ops <= WORKER_MAX_BATCH
                       THEN pc ELSE [pc EXCEPT ![w] = "aborted"]
    /\ data_reqs' = [data_reqs EXCEPT ![m][w] = Tail(@)]
    /\ UNCHANGED <<batch, buffers, cache_net, data_resps>>

\* Offsets that do not move past the requests answered before.
NoOffset(w, i) == 0

\* Where the results of the i-th collected request start in mica_resp_arr.
Offset(w, i) ==
    SumFunctionOnSet([j \in DOMAIN handle[w] |-> handle[w][j].ops_in_req],
                     1..(i - 1))

\* The answer to the i-th collected request: its slice of mica_resp_arr, where
\* KVS_BATCH_OP has put the result of every operation at the operation's index.
Answer(w, i) ==
    SubSeq(op_ptr_arr[w], Offset(w, i) + 1,
           Offset(w, i) + handle[w][i].ops_in_req)

\* The requests of client m among those collected, by their place in handle.
Collected(w, m) == {i \in DOMAIN handle[w] : handle[w][i].client = m}

\* The answers the drain sends to client m, in the order it sends them: handle is
\* walked in order, and k - 1 requests of the client come before the k-th.
AnswersTo(w, m) ==
    [k \in 1..Cardinality(Collected(w, m)) |->
        Answer(w, CHOOSE i \in Collected(w, m) :
                     Cardinality({j \in Collected(w, m) : j < i}) = k - 1)]

\* A drain after which the worker goes on collecting into the same arrays.
DrainWithoutReset(w) ==
    /\ pc[w] # "aborted"
    /\ handle[w] # <<>>
    /\ data_resps' = [m \in Machine |-> [r \in Others(m) |->
          IF r = w THEN data_resps[m][w] \o AnswersTo(w, m)
                   ELSE data_resps[m][r]]]
    /\ UNCHANGED <<pc, batch, buffers, worker, cache_net, data_reqs>>

\* An event-loop pass has found no further request: the whole batch goes to
\* the store, every request is answered, and the next pass starts empty.
DrainBatch(w) ==
    /\ pc[w] # "aborted"
    /\ handle[w] # <<>>
    /\ data_resps' = [m \in Machine |-> [r \in Others(m) |->
          IF r = w THEN data_resps[m][w] \o AnswersTo(w, m)
                   ELSE data_resps[m][r]]]
    /\ handle' = [handle EXCEPT ![w] = <<>>]
    /\ op_ptr_arr' = [op_ptr_arr EXCEPT ![w] = <<>>]
    /\ UNCHANGED <<pc, batch, buffers, cache_net, data_reqs>>

-----------------------------------------------------------------------------

Loop(m) == Prepare(m) \/ EndWait(m) \/ Send(m) \/ Abort(m) \/ EndPoll(m)

Next ==
    \E m \in Machine :
        \/ Loop(m)
        \/ DrainBatch(m)
        \/ \E r \in Others(m) :
              ReqCache(m, r) \/ CacheResponse(m, r) \/ ReceiveResponse(m, r)
              \/ ReqHandler(m, r)

Spec == Init /\ [][Next]_vars

(* Threads never block: a client goes through its loop, a worker drains what *)
(* it has collected.  A request or response that has arrived is handled by   *)
(* the receiver's event loop, which polls the whole receive queue in every   *)
(* pass: strong fairness, since a client is in its event loop only now and   *)
(* then.                                                                     *)
Fairness ==
    \A m \in Machine :
        /\ WF_vars(Loop(m))
        /\ WF_vars(DrainBatch(m))
        /\ \A r \in Others(m) :
              /\ SF_vars(ReqCache(m, r))
              /\ SF_vars(CacheResponse(m, r))
              /\ SF_vars(ReceiveResponse(m, r))
              /\ WF_vars(ReqHandler(m, r))

FairSpec == Spec /\ Fairness

-----------------------------------------------------------------------------

(* Every variable keeps its type and stays within the bounds of the arrays    *)
(* and counters of ClientContext and WorkerContext.                           *)
TypeOK ==
    /\ pc \in [Machine -> {"prepare", "wait", "send", "poll", "aborted"}]
    /\ \A m \in Machine :
        /\ cidx[m] \in HotWrites \cup {0}
        /\ wr_i[m] \in 0..WORKER_MAX_BATCH
        /\ previous_wr_i[m] \in 0..WORKER_MAX_BATCH
        /\ reqs_in_transit[m] \in 0..(2 * (MACHINE_NUM - 1))
        /\ op_ptr_arr[m] \in Seq(Machine)
        /\ handle[m] \in Seq([client : Machine, ops_in_req : 1..KVS_BATCH])
        /\ \A r \in Others(m) :
            /\ idx[m][r] \in 0..KVS_BATCH
            /\ bufferused[m][r] \in 0..1
            /\ cache_bufferused[m][r] \in 0..1
            /\ eresp[m][r] \in 0..KVS_BATCH
            /\ cache_reqs[m][r] \in Seq(HotWrites \ {0})
            /\ cache_resps[m][r] \in 0..1
            /\ data_reqs[m][r] \in Seq(Seq(Machine))
            /\ data_resps[m][r] \in Seq(Seq(Machine))

\* Requests of client m to worker r that are in flight, collected or answered.
Outstanding(m, r) ==
    Len(data_reqs[m][r])
    + Cardinality(Collected(r, m))
    + Len(data_resps[m][r])

(* A buffer marked used belongs to exactly one request that is in flight, is  *)
(* collected by a worker or is answered, a free one to none, and              *)
(* reqs_in_transit counts the used ones: the client's wait ends exactly when  *)
(* every request has been answered, whatever order the answers come in.       *)
RequestsAccounted ==
    \A m \in Machine :
        /\ \A r \in Others(m) :
            /\ Outstanding(m, r) = bufferused[m][r]
            /\ Len(cache_reqs[m][r]) + cache_resps[m][r] = cache_bufferused[m][r]
        /\ reqs_in_transit[m] =
              SumFunction(bufferused[m]) + SumFunction(cache_bufferused[m])

(* A worker that collects requests of several clients into one batch gives    *)
(* each client the results of its own operations, one per operation, and so   *)
(* as many as the response buffer the client has allocated holds.             *)
AnswersMatchRequests ==
    \A m \in Machine : \A r \in Others(m) : \A k \in DOMAIN data_resps[m][r] :
        data_resps[m][r][k] = [i \in 1..eresp[m][r] |-> m]

(* However long a worker keeps finding new requests before it drains, it      *)
(* holds at most one per remote machine: handle and ops_in_req have room, and *)
(* op_ptr_arr and mica_resp_arr are never written past WORKER_MAX_BATCH.      *)
WorkerArraysSuffice ==
    \A w \in Machine :
        /\ Len(handle[w]) < MACHINE_NUM
        /\ Len(op_ptr_arr[w]) < WORKER_MAX_BATCH

(* A process aborts only after a batch without cold requests, and only on its *)
(* broadcast buffers: a client whose previous batch had a cold request has    *)
(* waited for all its broadcasts as well, and the assertion of send_requests, *)
(* that the buffer of every request it sends is free, never fails although    *)
(* the client waits for answers only when its previous batch had some to wait *)
(* for.                                                                       *)
AbortNeedsColdFreeBatch ==
    \A m \in Machine :
        /\ pc[m] \in {"send", "aborted"} => DataBuffersFree(m)
        /\ pc[m] = "aborted" => previous_wr_i[m] = 0

(* The assertion of broadcast_cache_ops: when updates are broadcast, the      *)
(* buffers of the previous broadcast are free.                                *)
BroadcastAssertHolds ==
    \A m \in Machine : pc[m] = "send" => CacheBuffersFree(m)

(* A client waiting for answers gets them all, unless some process aborted:   *)
(* clients that wait for each other answer each other's updates from inside   *)
(* the wait, so they never block each other.                                  *)
WaitEnds ==
    \A m \in Machine :
        pc[m] = "wait" ~> (pc[m] = "send" \/ \E x \in Machine : pc[x] = "aborted")

=============================================================================
