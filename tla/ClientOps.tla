----------------------------- MODULE ClientOps ------------------------------
(***************************************************************************)
(* The operation buffers of one client thread.  An iteration of the loop   *)
(* fills the buffer with operations of the trace, probes the cache with    *)
(* all of them, broadcasts the hot writes, and then walks the buffer once: *)
(* it drops what has been served, adds the misses to the requests for      *)
(* their home machines, and copies what could not be served to next_ops,   *)
(* which is the front of the next buffer.  Reads of the hottest keys are   *)
(* coalesced: such a read only increments val_len of a read of the same    *)
(* key that waits in the buffer.                                           *)
(*                                                                         *)
(* protocol tells which of the two client programs runs; they differ in    *)
(* two functions of this loop.  Under SC a hit always succeeds; under LIN  *)
(* the state of the key may stall it, and a hot write without broadcast    *)
(* credits stays in the buffer.  What the cache answers there is a choice  *)
(* of the model: CacheLin is the model of the cache itself.                *)
(***************************************************************************)
EXTENDS Naturals, Sequences, FiniteSets

CONSTANTS
    BATCH_SIZES,        \* operations in a buffer, of each program
    KVS_BATCH,          \* requests for one machine in an iteration
    WINDOW_SIZE,        \* remote requests in an iteration
    MAX_VAL_LEN,        \* largest val_len: reads coalesced into one
    Tracked,            \* the hottest keys, in the cache and tracked
    Untracked,          \* the other keys in the cache
    Home,               \* remote machines; a cold key stands for its home
    TRACE_LENGTHS,      \* commands in the trace of each program
    FETCH_BOUNDS        \* bound: commands each program takes from its trace

Program == {"SC", "LIN"}

ASSUME SizeAssumption ==
    /\ BATCH_SIZES \in [Program -> Nat \ {0}]
    /\ KVS_BATCH \in Nat \ {0}
    /\ WINDOW_SIZE \in Nat \ {0}
    /\ MAX_VAL_LEN \in Nat
    /\ TRACE_LENGTHS \in [Program -> Nat \ {0}]
    /\ FETCH_BOUNDS \in [Program -> Nat]

Hot == Tracked \cup Untracked

\* A key is in the cache of every machine, or only at its home.
ASSUME KeyAssumption == Hot \cap Home = {}

Key == Hot \cup Home

VARIABLES
    pc,
    protocol,       \* the client program that runs
    trace, trace_iter,
    fetched,        \* commands taken so far; the n-th one is command n
    ops, next_ops,  \* operations with the commands they stand for
    hottest_keys_pointers,
    op_i,           \* index of the loop that runs: probe, broadcasts or walk
    wr_i, per_worker_outstanding,
    served,         \* commands in the order they were executed or issued
    failed,         \* hot writes refused because a newer one is in progress
    broadcast       \* hot writes in the order they were broadcast

history == <<served, failed, broadcast>>
input == <<protocol, trace>>
walk == <<next_ops, op_i, wr_i, per_worker_outstanding>>
vars == <<pc, input, trace_iter, fetched, ops, walk, hottest_keys_pointers,
          history>>

CACHE_BATCH_SIZE == BATCH_SIZES[protocol]
TRACE_LENGTH == TRACE_LENGTHS[protocol]
MAX_FETCHED == FETCH_BOUNDS[protocol]

Command == [opcode : {"GET", "PUT"}, key : Key]

\* The n-th command taken: the client starts over at the end of the trace.
CommandAt(n) == trace[((n - 1) % TRACE_LENGTH) + 1]

Opcode == {"GET", "PUT", "BRC", "UPD", "INV"}

Type == {"EMPTY", "CACHE_GET_SUCCESS", "CACHE_GET_STALL", "CACHE_PUT_SUCCESS",
         "CACHE_PUT_FAIL", "CACHE_PUT_STALL", "CACHE_MISS",
         "UNSERVED_CACHE_MISS"}

Op == [opcode : Opcode, key : Key, type : Type, commands : Seq(Nat)]

\* A read stands for its own command and the val_len ones coalesced into it.
ValLen(op) == Len(op.commands) - 1

Init ==
    /\ pc = "fill"
    /\ protocol \in Program
    /\ trace \in [1..TRACE_LENGTH -> Command]
    /\ trace_iter = 1
    /\ fetched = 0
    /\ ops = <<>>
    /\ next_ops = <<>>
    /\ hottest_keys_pointers = [k \in Tracked |-> 0]
    /\ op_i = 1
    /\ wr_i = 0
    /\ per_worker_outstanding = [h \in Home |-> 0]
    /\ served = <<>>
    /\ failed = <<>>
    /\ broadcast = <<>>

-----------------------------------------------------------------------------
(* batch_from_trace_to_cache: fill the buffer.                             *)

command == trace[trace_iter]

Filling ==
    /\ pc = "fill"
    /\ Len(ops) < CACHE_BATCH_SIZE
    /\ fetched < MAX_FETCHED

\* The command is a read that joins a read of its key already in the buffer.
Joins ==
    /\ command.key \in Tracked
    /\ command.opcode = "GET"
    /\ hottest_keys_pointers[command.key] # 0

NextCommand ==
    /\ fetched' = fetched + 1
    /\ trace_iter' = IF trace_iter = TRACE_LENGTH THEN 1 ELSE trace_iter + 1

Coalesce ==
    /\ Filling
    /\ Joins
    /\ LET i == hottest_keys_pointers[command.key]
       IN  /\ ValLen(ops[i]) < MAX_VAL_LEN
           /\ ops' = [ops EXCEPT ![i].commands = Append(@, fetched + 1)]
    /\ NextCommand
    /\ UNCHANGED <<pc, input, walk, hottest_keys_pointers, history>>

\* The assertion on val_len fails: the operation can take no further read.
CoalesceAborts ==
    /\ Filling
    /\ Joins
    /\ ValLen(ops[hottest_keys_pointers[command.key]]) >= MAX_VAL_LEN
    /\ pc' = "aborted"
    /\ UNCHANGED <<input, trace_iter, fetched, ops, walk, hottest_keys_pointers,
                   history>>

\* Pointers that a write of the key leaves alone.
PointersIgnoreWrites ==
    IF command.key \in Tracked /\ command.opcode = "GET"
    THEN [hottest_keys_pointers EXCEPT ![command.key] = Len(ops) + 1]
    ELSE hottest_keys_pointers

\* A tracked read points to its operation; a write makes later reads start anew.
PointersAfterFetch ==
    IF command.key \in Tracked
    THEN [hottest_keys_pointers EXCEPT ![command.key] =
            IF command.opcode = "GET" THEN Len(ops) + 1 ELSE 0]
    ELSE hottest_keys_pointers

Fetch ==
    /\ Filling
    /\ ~ Joins
    /\ hottest_keys_pointers' = PointersAfterFetch
    /\ ops' = Append(ops, [opcode |-> command.opcode, key |-> command.key,
                           type |-> "EMPTY", commands |-> <<fetched + 1>>])
    /\ NextCommand
    /\ UNCHANGED <<pc, input, walk, history>>

-----------------------------------------------------------------------------
(* The batch goes to the cache, and the hot writes are broadcast.          *)

\* What the cache may answer to an operation.
Answers(op) ==
    IF op.type = "UNSERVED_CACHE_MISS" \/ op.opcode = "BRC" THEN {op.type}
    ELSE IF op.key \in Home THEN {"CACHE_MISS"}
    ELSE IF op.opcode = "GET"
         THEN {"CACHE_GET_SUCCESS"} \cup
              (IF protocol = "LIN" THEN {"CACHE_GET_STALL"} ELSE {})
         ELSE {"CACHE_PUT_SUCCESS"} \cup
              (IF protocol = "LIN" THEN {"CACHE_PUT_FAIL", "CACHE_PUT_STALL"}
                                   ELSE {})

\* A write whose success is not turned into a broadcast.
AnsweredKeepsOpcode(op, type) == [op EXCEPT !.type = type]

\* The operation with its answer: a successful write is to be broadcast.
Answered(op, type) ==
    [op EXCEPT !.type = type,
               !.opcode = IF type = "CACHE_PUT_SUCCESS" THEN "BRC" ELSE @]

\* The commands of the operation, if it is executed now with one of these
\* answers; a write that awaits its broadcast was executed in an earlier batch.
Executed(op, type, S) ==
    IF op.opcode # "BRC" /\ type \in S THEN op.commands ELSE <<>>

\* cache_batch_op_sc and cache_batch_op_lin, once the batch is full: the next
\* operation of the buffer is executed unless it is an unserved miss.
Probe ==
    /\ pc = "probe" \/ (pc = "fill" /\ Len(ops) = CACHE_BATCH_SIZE)
    /\ \E type \in Answers(ops[op_i]) :
        /\ ops' = [ops EXCEPT ![op_i] = Answered(@, type)]
        /\ served' = served \o Executed(ops[op_i], type,
                                {"CACHE_GET_SUCCESS", "CACHE_PUT_SUCCESS"})
        /\ failed' = failed \o Executed(ops[op_i], type, {"CACHE_PUT_FAIL"})
    /\ IF op_i < CACHE_BATCH_SIZE THEN pc' = "probe" /\ op_i' = op_i + 1
                                  ELSE pc' = "broadcast" /\ op_i' = 1
    /\ UNCHANGED <<input, trace_iter, fetched, next_ops, wr_i,
                   per_worker_outstanding, hottest_keys_pointers, broadcast>>

\* perform_broadcasts_SC and perform_broadcasts_LIN: the next operation of the
\* buffer is skipped, or broadcast if it is a hot write that awaits it.
Broadcast ==
    /\ pc = "broadcast"
    /\ op_i <= CACHE_BATCH_SIZE
    /\ IF ops[op_i].opcode = "BRC"
       THEN /\ ops' = [ops EXCEPT ![op_i].opcode =
                          IF protocol = "SC" THEN "UPD" ELSE "INV"]
            /\ broadcast' = broadcast \o ops[op_i].commands
       ELSE UNCHANGED <<ops, broadcast>>
    /\ op_i' = op_i + 1
    /\ UNCHANGED <<pc, input, trace_iter, fetched, next_ops, wr_i,
                   per_worker_outstanding, hottest_keys_pointers, served, failed>>

\* The counts of the last iteration, not cleared.
StaleCounts == per_worker_outstanding

NoneOutstanding == [h \in Home |-> 0]

\* All are broadcast, or under LIN the next one finds no credits, and the
\* iteration goes on to the cold requests.
StartWalk ==
    /\ pc = "broadcast"
    /\ op_i <= CACHE_BATCH_SIZE => protocol = "LIN" /\ ops[op_i].opcode = "BRC"
    /\ pc' = "walk"
    /\ next_ops' = <<>>
    /\ op_i' = 1
    /\ wr_i' = 0
    /\ per_worker_outstanding' = NoneOutstanding
    /\ UNCHANGED <<input, trace_iter, fetched, ops, hottest_keys_pointers, history>>

-----------------------------------------------------------------------------
(* handle_cold_requests: one pass over the buffer.                         *)

\* Served in full: reads and failed writes, and writes once they are broadcast.
Finished(op) ==
    \/ op.type = "CACHE_GET_SUCCESS"
    \/ op.opcode \in {"UPD", "INV"}
    \/ op.type = "CACHE_PUT_FAIL"

\* Pointers that do not follow a stalled read into the next buffer.
PointersStay(op) ==
    IF protocol = "LIN" /\ op.type = "CACHE_GET_SUCCESS" /\ op.key \in Tracked
       /\ hottest_keys_pointers[op.key] = op_i
    THEN [hottest_keys_pointers EXCEPT ![op.key] = 0]
    ELSE hottest_keys_pointers

\* Under LIN a pointer to this read follows it into the next buffer, or is
\* dropped with it; under SC the pointers are cleared with every batch.
PointersAfterWalk(op) ==
    IF protocol = "LIN" /\ op.key \in Tracked
       /\ hottest_keys_pointers[op.key] = op_i
    THEN CASE op.type = "CACHE_GET_STALL" ->
                [hottest_keys_pointers EXCEPT ![op.key] = Len(next_ops) + 1]
           [] op.type = "CACHE_GET_SUCCESS" ->
                [hottest_keys_pointers EXCEPT ![op.key] = 0]
           [] OTHER -> hottest_keys_pointers
    ELSE hottest_keys_pointers

\* cache_hit_bookkeeping, and the body of run_through_rest_of_ops: the
\* operation is finished, or copied to the next buffer.
Bookkeep(op) ==
    /\ next_ops' = IF Finished(op) THEN next_ops ELSE Append(next_ops, op)
    /\ hottest_keys_pointers' = PointersAfterWalk(op)
    /\ op_i' = op_i + 1

Miss(op) == op.type \in {"CACHE_MISS", "UNSERVED_CACHE_MISS"}

Walking == pc = "walk" /\ wr_i < WINDOW_SIZE /\ op_i <= CACHE_BATCH_SIZE

Hit ==
    /\ Walking
    /\ ~ Miss(ops[op_i])
    /\ Bookkeep(ops[op_i])
    /\ UNCHANGED <<pc, input, trace_iter, fetched, ops, wr_i,
                   per_worker_outstanding, history>>

\* Room for one request too many.
RoomForOneMore(h) == per_worker_outstanding[h] <= KVS_BATCH

\* There is room for another request to this home machine.
HasRoom(h) == per_worker_outstanding[h] < KVS_BATCH

\* add_erpc_request: the miss becomes part of the request for its home.
Issue ==
    /\ Walking
    /\ Miss(ops[op_i])
    /\ LET h == ops[op_i].key
       IN  /\ HasRoom(h)
           /\ per_worker_outstanding' = [per_worker_outstanding EXCEPT ![h] = @ + 1]
    /\ served' = served \o ops[op_i].commands
    /\ wr_i' = wr_i + 1
    /\ op_i' = op_i + 1
    /\ UNCHANGED <<pc, input, trace_iter, fetched, ops, next_ops,
                   hottest_keys_pointers, failed, broadcast>>

Unserved(op) == [op EXCEPT !.type = "UNSERVED_CACHE_MISS"]

\* The count is decremented although it was not incremented, or the miss is
\* skipped without being copied.
LackGivesSlotBack ==
    /\ Walking
    /\ Miss(ops[op_i])
    /\ ~ HasRoom(ops[op_i].key)
    /\ next_ops' = Append(next_ops, Unserved(ops[op_i]))
    /\ op_i' = op_i + 1
    /\ per_worker_outstanding' =
          [per_worker_outstanding EXCEPT ![ops[op_i].key] = @ - 1]
    /\ UNCHANGED <<pc, input, trace_iter, fetched, ops, wr_i,
                   hottest_keys_pointers, history>>

LackLosesMiss ==
    /\ Walking
    /\ Miss(ops[op_i])
    /\ ~ HasRoom(ops[op_i].key)
    /\ op_i' = op_i + 1
    /\ UNCHANGED <<pc, input, trace_iter, fetched, ops, next_ops, wr_i,
                   per_worker_outstanding, hottest_keys_pointers, history>>

\* handle_lack_of_credits_for_remotes: the miss is left for the next batch, and
\* the pass goes on unless the requests for all machines are full.
LackOfCredits ==
    /\ Walking
    /\ Miss(ops[op_i])
    /\ ~ HasRoom(ops[op_i].key)
    /\ next_ops' = Append(next_ops, Unserved(ops[op_i]))
    /\ op_i' = op_i + 1
    /\ pc' = IF wr_i >= KVS_BATCH * (Cardinality(Home) + 1) THEN "rest" ELSE pc
    /\ UNCHANGED <<input, trace_iter, fetched, ops, wr_i,
                   per_worker_outstanding, hottest_keys_pointers, history>>

\* The window is full: what is left is finished or kept for the next batch.
RunThroughRest ==
    /\ pc = "rest" \/ (pc = "walk" /\ wr_i >= WINDOW_SIZE)
    /\ op_i <= CACHE_BATCH_SIZE
    /\ Bookkeep(IF Miss(ops[op_i]) THEN Unserved(ops[op_i]) ELSE ops[op_i])
    /\ UNCHANGED <<pc, input, trace_iter, fetched, ops, wr_i,
                   per_worker_outstanding, history>>

\* swap_ops, and the start of the next batch_from_trace_to_cache.
SwapOps ==
    /\ pc \in {"walk", "rest"}
    /\ op_i > CACHE_BATCH_SIZE
    /\ pc' = "fill"
    /\ ops' = next_ops
    /\ next_ops' = <<>>
    /\ op_i' = 1
    /\ hottest_keys_pointers' =
          IF protocol = "SC" THEN [k \in Tracked |-> 0] ELSE hottest_keys_pointers
    /\ UNCHANGED <<input, trace_iter, fetched, wr_i, per_worker_outstanding,
                   history>>

Next ==
    \/ Coalesce \/ CoalesceAborts \/ Fetch
    \/ Probe \/ Broadcast \/ StartWalk
    \/ Hit \/ Issue \/ LackOfCredits \/ RunThroughRest \/ SwapOps

Spec == Init /\ [][Next]_vars

-----------------------------------------------------------------------------

(* The variables keep their types, the buffers of operations their size, and   *)
(* the walk of handle_cold_requests never issues more than WINDOW_SIZE         *)
(* requests, nor more than KVS_BATCH to one machine.                           *)
TypeOK ==
    /\ pc \in {"fill", "probe", "broadcast", "walk", "rest", "aborted"}
    /\ protocol \in Program
    /\ trace \in [1..TRACE_LENGTH -> Command]
    /\ trace_iter \in 1..TRACE_LENGTH
    /\ fetched \in 0..MAX_FETCHED
    /\ ops \in Seq(Op) /\ Len(ops) <= CACHE_BATCH_SIZE
    /\ next_ops \in Seq(Op) /\ Len(next_ops) < op_i
    /\ hottest_keys_pointers \in [Tracked -> 0..CACHE_BATCH_SIZE]
    /\ op_i \in 1..(CACHE_BATCH_SIZE + 1)
    /\ wr_i \in 0..WINDOW_SIZE
    /\ per_worker_outstanding \in [Home -> 0..KVS_BATCH]
    /\ {served, failed, broadcast} \subseteq Seq(1..fetched)

\* Where the operations are that the client has to look at, or keeps for later.
InBuffer ==
    ({"ops"} \X {i \in DOMAIN ops : pc \in {"walk", "rest"} => i >= op_i})
        \cup ({"next_ops"} \X DOMAIN next_ops)

OpAt(b) == IF b[1] = "ops" THEN ops[b[2]] ELSE next_ops[b[2]]

\* Not executed yet, nor refused.
Unexecuted(op) ==
    /\ op.opcode \in {"GET", "PUT"}
    /\ op.type \notin {"CACHE_GET_SUCCESS", "CACHE_PUT_FAIL"}

Pending == {b \in InBuffer : Unexecuted(OpAt(b))}

AwaitingBroadcast == {b \in InBuffer : OpAt(b).opcode = "BRC"}

\* The commands of a place: one of the histories, or an operation in a buffer.
CommandsAt(b) ==
    CASE b[1] = "served" -> served
      [] b[1] = "failed" -> failed
      [] b[1] = "broadcast" -> broadcast
      [] OTHER -> OpAt(b).commands

\* Every member of S occurs exactly once in the sequences lists[b], and nothing
\* else does.
ListsOnce(lists, S) ==
    /\ \A b \in DOMAIN lists : \A i \in DOMAIN lists[b] : lists[b][i] \in S
    /\ \A n \in S : \E b \in DOMAIN lists : \E i \in DOMAIN lists[b] : lists[b][i] = n
    /\ \A b, c \in DOMAIN lists : \A i \in DOMAIN lists[b] : \A j \in DOMAIN lists[c] :
          lists[b][i] = lists[c][j] => b = c /\ i = j

(* Every command taken from the trace is served once, refused once or still   *)
(* in the buffer once: moving operations between ops and next_ops, skipping   *)
(* misses for a full machine and coalescing reads lose none and repeat none.  *)
ServedOnce ==
    ListsOnce([b \in {<<"served", 0>>, <<"failed", 0>>} \cup Pending |-> CommandsAt(b)],
              1..fetched)

\* The hot writes that the cache has accepted.
HotWrites == {n \in 1..fetched : /\ \E i \in DOMAIN served : served[i] = n
                                 /\ CommandAt(n).opcode = "PUT"
                                 /\ CommandAt(n).key \in Hot}

(* Every hot write the cache has accepted is broadcast once, or waits for     *)
(* credits in the buffer, whatever else the buffer carries over.              *)
WritesBroadcastOnce ==
    ListsOnce([b \in {<<"broadcast", 0>>} \cup AwaitingBroadcast |-> CommandsAt(b)],
              HotWrites)

(* Cold requests reach their home machine in the order of the trace, although *)
(* requests that find their machine full are overtaken by requests for other  *)
(* machines and by later batches: reads and writes of one key keep their      *)
(* order.                                                                     *)
HomeOrder ==
    \A i, j \in DOMAIN served :
        /\ i < j
        /\ CommandAt(served[i]).key \in Home
        /\ CommandAt(served[i]).key = CommandAt(served[j]).key
        => served[i] < served[j]

(* Under SC a read of a hot key, coalesced or not, is executed after every    *)
(* earlier write of that key in the trace and before every later one.         *)
ReadsFollowWrites ==
    protocol = "SC" => \A i, j \in DOMAIN served :
        /\ i < j
        /\ CommandAt(served[i]).key \in Hot
        /\ CommandAt(served[i]).key = CommandAt(served[j]).key
        /\ "PUT" \in {CommandAt(served[i]).opcode, CommandAt(served[j]).opcode}
        => served[i] < served[j]

(* Under SC the oldest operation of a buffer is never carried over: every     *)
(* iteration serves it, so no request is postponed for ever by later ones.    *)
OldestIsServed ==
    [][protocol = "SC" /\ pc' = "fill" /\ pc # "fill" /\ ops' # <<>>
        => Head(ops'[1].commands) > Head(ops[1].commands)]_vars

(* While the buffer is filled, a pointer of hottest_keys_pointers leads to a  *)
(* read of its own key that has not been executed: no read is coalesced into  *)
(* an operation of another key, a write, or a read whose value has already    *)
(* been taken, even after operations moved between buffers.                   *)
PointersSound ==
    pc = "fill" =>
        \A k \in Tracked : hottest_keys_pointers[k] # 0 =>
            LET i == hottest_keys_pointers[k]
            IN  /\ i <= Len(ops)
                /\ ops[i].opcode = "GET"
                /\ ops[i].key = k
                /\ ops[i].type \in {"EMPTY", "CACHE_GET_STALL"}

=============================================================================
