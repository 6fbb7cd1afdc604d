--------------------------- MODULE RpcLoopProofs ----------------------------
(***************************************************************************)
(* The safety of the client and worker loops, for every number of machines *)
(* and every batch size.  RpcLoop's properties are not inductive: that     *)
(* a drain answers each client with its own results needs the layout of    *)
(* the worker's arrays, that layout needs at most one request per client   *)
(* with a worker, and that a client sends only into free buffers needs     *)
(* what each place in its loop says about the two last batches.  IInv puts *)
(* these together; one lemma per action shows that it is kept.             *)
(***************************************************************************)
EXTENDS RpcLoop, ArithmeticTheorems, SequenceTheorems, TLAPS

\* Zenon is tried first; SMT is named where a leaf needs arithmetic.
USE ZenonT(120)

\* A table indexed by client and peer, with entries in S.
IsTable(f, S) == DOMAIN f = Machine /\ \A m \in Machine : f[m] \in [Others(m) -> S]

Request == [client : Machine, ops_in_req : 1..KVS_BATCH]

\* The types of the variables, and that a wrong index was never assigned to.
StateOK ==
    /\ pc \in [Machine -> {"prepare", "wait", "send", "poll", "aborted"}]
    /\ cidx \in [Machine -> HotWrites \cup {0}]
    /\ wr_i \in [Machine -> 0..WORKER_MAX_BATCH]
    /\ previous_wr_i \in [Machine -> 0..WORKER_MAX_BATCH]
    /\ reqs_in_transit \in [Machine -> Nat]
    /\ handle \in [Machine -> Seq(Request)]
    /\ op_ptr_arr \in [Machine -> Seq(Machine)]
    /\ IsTable(idx, 0..KVS_BATCH)
    /\ IsTable(bufferused, 0..1)
    /\ IsTable(cache_bufferused, 0..1)
    /\ IsTable(eresp, 0..KVS_BATCH)
    /\ IsTable(cache_reqs, Seq(HotWrites \ {0}))
    /\ IsTable(cache_resps, Nat)
    /\ IsTable(data_reqs, Seq(Seq(Machine)))
    /\ IsTable(data_resps, Seq(Seq(Machine)))

\* A broadcast buffer is used by exactly one broadcast.
BroadcastsOK ==
    \A m \in Machine : \A r \in Others(m) :
        Len(cache_reqs[m][r]) + cache_resps[m][r] = cache_bufferused[m][r]

\* n operations of client m.
Ops(m, n) == [i \in 1..n |-> m]

\* The request that uses a buffer, wherever it is: it has operations, as many as
\* the client has made room for answers to, and its answer is theirs.
RequestsOK ==
    \A m \in Machine : \A r \in Others(m) :
        /\ Outstanding(m, r) = bufferused[m][r]
        /\ bufferused[m][r] = 1 => eresp[m][r] # 0
        /\ \A k \in DOMAIN data_reqs[m][r] : data_reqs[m][r][k] = Ops(m, eresp[m][r])
        /\ \A k \in DOMAIN data_resps[m][r] : data_resps[m][r][k] = Ops(m, eresp[m][r])

\* A worker's requests come from other machines and have the size the client knows.
HandlesOK ==
    \A w \in Machine : \A i \in DOMAIN handle[w] :
        /\ handle[w][i].client \in Others(w)
        /\ handle[w][i].ops_in_req = eresp[handle[w][i].client][w]

\* The operations a worker has collected lie one request after the other.
ArraysOK ==
    \A w \in Machine :
        /\ Len(op_ptr_arr[w]) = Offset(w, Len(handle[w]) + 1)
        /\ \A i \in DOMAIN handle[w] : \A k \in 1..handle[w][i].ops_in_req :
              op_ptr_arr[w][Offset(w, i) + k] = handle[w][i].client

\* reqs_in_transit counts the used buffers.
CountsOK ==
    \A m \in Machine :
        reqs_in_transit[m] = SumFunction(bufferused[m]) + SumFunction(cache_bufferused[m])

NoDataInTransit(m) == \A r \in Others(m) : bufferused[m][r] = 0

\* Where a client is in its loop tells what it has prepared, and that its data
\* buffers are free once a batch without cold requests has been sent.
PhasesOK ==
    \A m \in Machine :
        /\ pc[m] \in {"prepare", "poll"} =>
              /\ cidx[m] = 0
              /\ \A r \in Others(m) : idx[m][r] = 0
              /\ wr_i[m] = 0 => NoDataInTransit(m)
        /\ pc[m] \in {"wait", "send", "aborted"} =>
              /\ wr_i[m] = SumFunction(idx[m])
              /\ previous_wr_i[m] = 0 => NoDataInTransit(m)
        /\ pc[m] \in {"send", "aborted"} /\ previous_wr_i[m] # 0 => reqs_in_transit[m] = 0

\* The inductive invariant.
IInv ==
    /\ StateOK
    /\ BroadcastsOK
    /\ RequestsOK
    /\ HandlesOK
    /\ ArraysOK
    /\ CountsOK
    /\ PhasesOK

-----------------------------------------------------------------------------
(* Sets of machines, tables and sums.                                        *)

\* The other machines are finitely many, all but one.
LEMMA OthersFinite ==
    ASSUME NEW m \in Machine
    PROVE  /\ IsFiniteSet(Others(m))
           /\ Cardinality(Others(m)) = MACHINE_NUM - 1
           /\ MACHINE_NUM \in Nat
           /\ MACHINE_NUM >= 2
<1>1. /\ IsFiniteSet(Machine \ {m})
      /\ Cardinality(Machine \ {m}) = Cardinality(Machine) - 1
    BY MachineAssumption, FS_RemoveElement
<1>2. Cardinality(Machine) \in Nat /\ Cardinality(Machine) >= 2
    BY MachineAssumption, FS_CardinalityType
<1>. QED
    BY <1>1, <1>2 DEF Others, MACHINE_NUM

\* Table g is f except for its entry at m and r, which is e; or for its row at m.
EntrySet(g, f, m, r, e, S) ==
    /\ IsTable(g, S)
    /\ g[m][r] = e
    /\ \A x \in Machine : \A y \in Others(x) : ~ (x = m /\ y = r) => g[x][y] = f[x][y]
    /\ \A x \in Machine \ {m} : g[x] = f[x]

RowSet(g, f, m, row, S) ==
    /\ IsTable(g, S)
    /\ g[m] = row
    /\ \A x \in Machine \ {m} : g[x] = f[x]

\* One that moves from one count to the other.
LEMMA MoveOne == ASSUME NEW a \in Nat, NEW b \in Nat PROVE (a - 1) + (b + 1) = a + b
BY SMTT(120)

\* A count that makes up a number of at most one with another.
LEMMA OnlyOne ==
    ASSUME NEW a \in Nat, NEW b \in Nat, NEW u \in 0..1, a + b = u, b > 0
    PROVE  a = 0 /\ b = 1 /\ u = 1
BY SMTT(120)

\* What is left of a sequence of one message.
LEMMA TailOfOne ==
    ASSUME NEW T, NEW s \in Seq(T), Len(s) = 1
    PROVE  Tail(s) \in Seq(T) /\ Tail(s) = <<>>
<1>1. 1 - 1 = 0 /\ 0 # 1 /\ Len(<<>>) = 0
    BY SMTT(120), EmptySeq
<1>2. Tail(s) \in Seq(T) /\ Len(Tail(s)) = Len(s) - 1
    BY <1>1, HeadTailProperties
<1>. QED
    BY <1>1, <1>2, EmptySeq

\* An interval that starts at 1.
LEMMA UpTo ==
    ASSUME NEW n \in Nat
    PROVE  IsFiniteSet(1..n) /\ Cardinality(1..n) = n
<1>. DEFINE S == 1..n
            c == IF 1 > n THEN 0 ELSE n - 1 + 1
<1>1. 1 \in Int /\ n \in Int /\ c = n
    BY SMTT(120)
<1>2. IsFiniteSet(S) /\ Cardinality(S) = c
    BY <1>1, FS_Interval
<1>. HIDE DEF S, c
<1>3. IsFiniteSet(S) /\ Cardinality(S) = n
    BY <1>1, <1>2
<1>. QED
    BY <1>3 DEF S

\* To change one entry of a table.
LEMMA TableEntry ==
    ASSUME NEW S, NEW f, IsTable(f, S), NEW m \in Machine, NEW r \in Others(m), NEW e \in S,
           NEW g, g = [f EXCEPT ![m][r] = e]
    PROVE  EntrySet(g, f, m, r, e, S)
BY SMTT(120) DEF IsTable, EntrySet

\* To change one row of a table.
LEMMA TableRow ==
    ASSUME NEW S, NEW f, IsTable(f, S), NEW m \in Machine, NEW row \in [Others(m) -> S],
           NEW g, g = [f EXCEPT ![m] = row]
    PROVE  RowSet(g, f, m, row, S)
BY SMTT(120) DEF IsTable, RowSet

\* The sum of a row: its bound, and when it is 0.
LEMMA RowSum ==
    ASSUME NEW m \in Machine, NEW c \in Nat, NEW f \in [Others(m) -> 0..c]
    PROVE  /\ SumFunction(f) = SumFunctionOnSet(f, Others(m))
           /\ SumFunction(f) \in Nat
           /\ SumFunction(f) <= c * (MACHINE_NUM - 1)
           /\ SumFunction(f) = 0 <=> \A r \in Others(m) : f[r] = 0
           /\ \A r \in Others(m) : f[r] <= SumFunction(f)
<1>1. IsFiniteSet(Others(m)) /\ Cardinality(Others(m)) = MACHINE_NUM - 1
    BY OthersFinite
<1>2. SumFunction(f) = SumFunctionOnSet(f, Others(m))
    BY DEF SumFunction
<1>3. \A r \in Others(m) : f[r] \in Nat /\ f[r] <= c
    BY SMTT(120)
<1>4. SumFunctionOnSet(f, Others(m)) \in Nat
    BY <1>1, <1>3, SumSplit
<1>5. SumFunctionOnSet(f, Others(m)) <= c * (MACHINE_NUM - 1)
  <2>. DEFINE all == [r \in Others(m) |-> c]
  <2>1. \A r \in Others(m) : all[r] = c
      OBVIOUS
  <2>. HIDE DEF all
  <2>2. SumFunctionOnSet(all, Others(m)) = c * Cardinality(Others(m))
      BY <1>1, <2>1, SumConstant
  <2>3. SumFunctionOnSet(f, Others(m)) <= SumFunctionOnSet(all, Others(m))
      BY <1>1, <1>3, <2>1, SumMonotone
  <2>. QED
      BY <1>1, <2>2, <2>3
<1>6. /\ SumFunctionOnSet(f, Others(m)) = 0 <=> \A r \in Others(m) : f[r] = 0
      /\ \A r \in Others(m) : f[r] <= SumFunctionOnSet(f, Others(m))
    BY <1>1, <1>3, SumZero
<1>. QED
    BY <1>2, <1>4, <1>5, <1>6

\* The cold requests of a batch fit the arrays of WORKER_MAX_BATCH entries.
LEMMA BatchFits ==
    ASSUME NEW m \in Machine, NEW f \in [Others(m) -> 0..KVS_BATCH]
    PROVE  SumFunction(f) \in 0..WORKER_MAX_BATCH
<1>1. KVS_BATCH \in Nat
    BY BatchAssumption
<1>2. SumFunction(f) \in Nat /\ SumFunction(f) <= KVS_BATCH * (MACHINE_NUM - 1)
    BY <1>1, RowSum
<1>3. MACHINE_NUM \in Nat /\ MACHINE_NUM >= 2
    BY OthersFinite
<1>4. KVS_BATCH * (MACHINE_NUM - 1) <= KVS_BATCH * MACHINE_NUM
    BY SMTT(120), <1>1, <1>3
<1>. QED
    BY SMTT(120), <1>1, <1>2, <1>3, <1>4 DEF WORKER_MAX_BATCH

\* The requests of client m in an array of handles.
Mine(h, m) == {i \in DOMAIN h : h[i].client = m}

\* They are finitely many.
LEMMA MineFinite ==
    ASSUME NEW h \in Seq(Request), NEW m
    PROVE  /\ IsFiniteSet(Mine(h, m))
           /\ Cardinality(Mine(h, m)) \in Nat
           /\ Cardinality(Mine(h, m)) = 0 <=> Mine(h, m) = {}
<1>1. DOMAIN h = 1..Len(h) /\ Len(h) \in Nat
    BY SMTT(120)
<1>2. IsFiniteSet(1..Len(h))
    BY SMTT(120), <1>1, FS_Interval
<1>3. IsFiniteSet(Mine(h, m))
    BY <1>1, <1>2, FS_Subset DEF Mine
<1>. QED
    BY <1>3, FS_CardinalityType, FS_EmptySet

\* A request that is collected is one more of its client's.
LEMMA MineAppend ==
    ASSUME NEW h \in Seq(Request), NEW e \in Request, NEW m
    PROVE  /\ Append(h, e) \in Seq(Request)
           /\ e.client # m => Mine(Append(h, e), m) = Mine(h, m)
           /\ e.client = m => Cardinality(Mine(Append(h, e), m)) = Cardinality(Mine(h, m)) + 1
<1>1. /\ Append(h, e) \in Seq(Request) /\ DOMAIN h = 1..Len(h) /\ Len(h) \in Nat
      /\ DOMAIN Append(h, e) = 1..(Len(h) + 1)
      /\ Append(h, e)[Len(h) + 1] = e
      /\ \A i \in 1..Len(h) : Append(h, e)[i] = h[i]
    BY SMTT(120)
<1>2. 1..(Len(h) + 1) = 1..Len(h) \cup {Len(h) + 1} /\ Len(h) + 1 \notin 1..Len(h)
    BY SMTT(120), <1>1
<1>3. e.client # m => Mine(Append(h, e), m) = Mine(h, m)
    BY <1>1, <1>2 DEF Mine
<1>4. ASSUME e.client = m
      PROVE  Cardinality(Mine(Append(h, e), m)) = Cardinality(Mine(h, m)) + 1
  <2>1. Mine(Append(h, e), m) = Mine(h, m) \cup {Len(h) + 1} /\ Len(h) + 1 \notin Mine(h, m)
      BY <1>1, <1>2, <1>4 DEF Mine
  <2>. QED
      BY <2>1, MineFinite, FS_AddElement
<1>. QED
    BY <1>1, <1>3, <1>4

\* The parts of Outstanding are numbers.
LEMMA OutstandingParts ==
    ASSUME StateOK, NEW m \in Machine, NEW r \in Others(m)
    PROVE  /\ r \in Machine
           /\ m \in Others(r)
           /\ Collected(r, m) = Mine(handle[r], m)
           /\ IsFiniteSet(Collected(r, m))
           /\ Cardinality(Collected(r, m)) \in Nat
           /\ Cardinality(Collected(r, m)) = 0 <=> Collected(r, m) = {}
           /\ Len(data_reqs[m][r]) \in Nat
           /\ Len(data_resps[m][r]) \in Nat
           /\ bufferused[m][r] \in 0..1
<1>1. r \in Machine /\ m \in Others(r)
    BY DEF Others
<1>2. /\ handle[r] \in Seq(Request)
      /\ data_reqs[m][r] \in Seq(Seq(Machine))
      /\ data_resps[m][r] \in Seq(Seq(Machine))
      /\ bufferused[m][r] \in 0..1
    BY <1>1 DEF StateOK, IsTable
<1>3. Collected(r, m) = Mine(handle[r], m)
    BY DEF Collected, Mine
<1>4. Len(data_reqs[m][r]) \in Nat /\ Len(data_resps[m][r]) \in Nat
    BY SMTT(120), <1>2
<1>. QED
    BY <1>1, <1>2, <1>3, <1>4, MineFinite

-----------------------------------------------------------------------------
(* What a step that leaves variables alone keeps.                            *)

\* A step that touches no update, acknowledgement or broadcast buffer.
LEMMA KeepBroadcasts ==
    ASSUME BroadcastsOK, cache_reqs' = cache_reqs, cache_resps' = cache_resps,
           cache_bufferused' = cache_bufferused
    PROVE  BroadcastsOK'
BY DEF BroadcastsOK

\* A step that moves no request or answer and marks no data buffer.
LEMMA KeepRequests ==
    ASSUME RequestsOK, bufferused' = bufferused, eresp' = eresp, handle' = handle,
           data_reqs' = data_reqs, data_resps' = data_resps
    PROVE  RequestsOK'
BY DEF RequestsOK, Outstanding, Collected

\* A step that collects and sends no request.
LEMMA KeepHandles ==
    ASSUME HandlesOK, eresp' = eresp, handle' = handle
    PROVE  HandlesOK'
BY DEF HandlesOK

\* A step that leaves the arrays of the workers alone.
LEMMA KeepArrays ==
    ASSUME ArraysOK, handle' = handle, op_ptr_arr' = op_ptr_arr
    PROVE  ArraysOK'
BY DEF ArraysOK, Offset

\* A step that marks and counts no buffer.
LEMMA KeepCounts ==
    ASSUME CountsOK, bufferused' = bufferused, cache_bufferused' = cache_bufferused,
           reqs_in_transit' = reqs_in_transit
    PROVE  CountsOK'
BY DEF CountsOK

-----------------------------------------------------------------------------
(* The initial state, and the steps of the client's loop that send nothing.  *)

\* The invariant holds before the first step.
LEMMA InitInv == Init => IInv
<1>. SUFFICES ASSUME Init PROVE IInv
    OBVIOUS
<1>1. KVS_BATCH \in Nat /\ 0 \in 0..KVS_BATCH /\ 0 \in 0..1 /\ 0 \in 0..WORKER_MAX_BATCH
  <2>1. KVS_BATCH \in Nat /\ 0 \in 0..KVS_BATCH /\ 0 \in 0..1
      BY SMTT(120), BatchAssumption
  <2>2. Machine # {}
      BY SMTT(120), MachineAssumption, FS_EmptySet
  <2>3. PICK m \in Machine : TRUE
      BY <2>2
  <2>4. WORKER_MAX_BATCH \in Nat
      BY SMTT(120), <2>1, OthersFinite, <2>3 DEF WORKER_MAX_BATCH
  <2>. QED
      BY SMTT(120), <2>1, <2>4
<1>2. StateOK
    BY SMTT(120), <1>1 DEF Init, StateOK, IsTable, Table
<1>3. \A m \in Machine : \A r \in Others(m) :
          /\ cache_reqs[m][r] = <<>> /\ cache_resps[m][r] = 0 /\ cache_bufferused[m][r] = 0
          /\ data_reqs[m][r] = <<>> /\ data_resps[m][r] = <<>> /\ bufferused[m][r] = 0
          /\ idx[m][r] = 0
    BY DEF Init, Table
<1>4. \A m \in Machine : handle[m] = <<>> /\ op_ptr_arr[m] = <<>>
    BY DEF Init
<1>5. BroadcastsOK
  <2>1. \A m \in Machine : \A r \in Others(m) : Len(cache_reqs[m][r]) = 0
      BY SMTT(120), <1>3
  <2>2. 0 + 0 = 0
      BY SMTT(120)
  <2>. QED
      BY <1>3, <2>1, <2>2 DEF BroadcastsOK
<1>6. RequestsOK
  <2>. SUFFICES ASSUME NEW m \in Machine, NEW r \in Others(m)
                PROVE  Outstanding(m, r) = bufferused[m][r]
      BY SMTT(120), <1>3 DEF RequestsOK
  <2>1. Collected(r, m) = {}
      BY SMTT(120), <1>4 DEF Collected, Others
  <2>2. Cardinality(Collected(r, m)) = 0
      BY <2>1, FS_EmptySet
  <2>3. Len(data_reqs[m][r]) = 0 /\ Len(data_resps[m][r]) = 0 /\ bufferused[m][r] = 0
      BY SMTT(120), <1>3
  <2>4. 0 + 0 + 0 = 0
      BY SMTT(120)
  <2>. QED
      BY <2>2, <2>3, <2>4 DEF Outstanding
<1>7. HandlesOK
    BY SMTT(120), <1>4 DEF HandlesOK
<1>8. ArraysOK
  <2>. SUFFICES ASSUME NEW w \in Machine
                PROVE  Len(op_ptr_arr[w]) = Offset(w, Len(handle[w]) + 1)
      BY SMTT(120), <1>4 DEF ArraysOK
  <2>1. 1..((Len(handle[w]) + 1) - 1) = {} /\ Len(op_ptr_arr[w]) = 0
      BY SMTT(120), <1>4
  <2>2. Offset(w, Len(handle[w]) + 1) = 0
      BY <2>1, SumUnfolds, FS_EmptySet DEF Offset
  <2>. QED
      BY <2>1, <2>2
<1>9. \A m \in Machine : /\ SumFunction(bufferused[m]) = 0
                         /\ SumFunction(cache_bufferused[m]) = 0
  <2>. SUFFICES ASSUME NEW m \in Machine
                PROVE  SumFunction(bufferused[m]) = 0 /\ SumFunction(cache_bufferused[m]) = 0
      OBVIOUS
  <2>1. bufferused[m] \in [Others(m) -> 0..1] /\ cache_bufferused[m] \in [Others(m) -> 0..1]
      BY <1>2 DEF StateOK, IsTable
  <2>2. 1 \in Nat
      BY SMTT(120)
  <2>. QED
      BY <1>3, <2>1, <2>2, RowSum
<1>10. CountsOK
    BY SMTT(120), <1>9 DEF CountsOK, Init
<1>11. PhasesOK
    BY SMTT(120), <1>3 DEF PhasesOK, NoDataInTransit, Init
<1>. QED
    BY <1>2, <1>5, <1>6, <1>7, <1>8, <1>10, <1>11 DEF IInv

\* A batch is prepared.
LEMMA PrepareStep ==
    ASSUME IInv, NEW m \in Machine, Prepare(m)
    PROVE  IInv'
<1>1. PICK writes \in HotWrites, colds \in [Others(m) -> 0..KVS_BATCH] :
          /\ cidx' = [cidx EXCEPT ![m] = @ + writes]
          /\ idx' = [idx EXCEPT ![m] = [r \in Others(m) |-> @[r] + colds[r]]]
          /\ previous_wr_i' = [previous_wr_i EXCEPT ![m] = wr_i[m]]
          /\ wr_i' = [wr_i EXCEPT ![m] = SumFunction(colds)]
          /\ pc' = [pc EXCEPT ![m] = AfterPrepare(m, SumFunction(colds))]
    BY DEF Prepare
<1>2. /\ pc[m] = "prepare"
      /\ bufferused' = bufferused /\ cache_bufferused' = cache_bufferused /\ eresp' = eresp
      /\ reqs_in_transit' = reqs_in_transit /\ handle' = handle /\ op_ptr_arr' = op_ptr_arr
      /\ cache_reqs' = cache_reqs /\ cache_resps' = cache_resps
      /\ data_reqs' = data_reqs /\ data_resps' = data_resps
    BY SMTT(120) DEF Prepare, buffers, worker, cache_net, data_net
<1>3. /\ cidx[m] = 0 /\ \A r \in Others(m) : idx[m][r] = 0
      /\ wr_i[m] = 0 => NoDataInTransit(m)
    BY <1>2 DEF IInv, PhasesOK
<1>4. SumFunction(colds) \in 0..WORKER_MAX_BATCH
    BY BatchFits
<1>5. [r \in Others(m) |-> idx[m][r] + colds[r]] = colds
    BY SMTT(120), <1>3
<1>6. /\ cidx'[m] = writes /\ cidx' \in [Machine -> HotWrites \cup {0}]
      /\ \A x \in Machine \ {m} : cidx'[x] = cidx[x]
    BY SMTT(120), <1>1, <1>3, BatchAssumption DEF IInv, StateOK
<1>7. RowSet(idx', idx, m, colds, 0..KVS_BATCH)
  <2>1. idx' = [idx EXCEPT ![m] = colds] /\ IsTable(idx, 0..KVS_BATCH)
      BY <1>1, <1>5 DEF IInv, StateOK
  <2>. QED
      BY <2>1, TableRow
<1>8. /\ previous_wr_i'[m] = wr_i[m] /\ wr_i'[m] = SumFunction(colds)
      /\ \A x \in Machine \ {m} : previous_wr_i'[x] = previous_wr_i[x] /\ wr_i'[x] = wr_i[x]
      /\ previous_wr_i' \in [Machine -> 0..WORKER_MAX_BATCH]
      /\ wr_i' \in [Machine -> 0..WORKER_MAX_BATCH]
    BY SMTT(120), <1>1, <1>4 DEF IInv, StateOK
<1>9. /\ \/ pc'[m] = "wait" /\ wr_i[m] # 0
         \/ pc'[m] = "send" /\ wr_i[m] = 0
      /\ \A x \in Machine \ {m} : pc'[x] = pc[x]
      /\ pc' \in [Machine -> {"prepare", "wait", "send", "poll", "aborted"}]
  <2>1. wr_i[m] \in Nat /\ pc \in [Machine -> {"prepare", "wait", "send", "poll", "aborted"}]
      BY SMTT(120) DEF IInv, StateOK
  <2>. QED
      BY SMTT(120), <1>1, <2>1 DEF AfterPrepare
<1>10. StateOK'
    BY <1>2, <1>6, <1>7, <1>8, <1>9 DEF IInv, StateOK, IsTable, RowSet
<1>11. PhasesOK'
  <2>. SUFFICES ASSUME NEW x \in Machine
                PROVE  /\ pc'[x] \in {"prepare", "poll"} =>
                              /\ cidx'[x] = 0
                              /\ \A r \in Others(x) : idx'[x][r] = 0
                              /\ wr_i'[x] = 0 => NoDataInTransit(x)'
                       /\ pc'[x] \in {"wait", "send", "aborted"} =>
                              /\ wr_i'[x] = SumFunction(idx'[x])
                              /\ previous_wr_i'[x] = 0 => NoDataInTransit(x)'
                       /\ pc'[x] \in {"send", "aborted"} /\ previous_wr_i'[x] # 0 =>
                              reqs_in_transit'[x] = 0
      BY DEF PhasesOK
  <2>1. NoDataInTransit(x)' <=> NoDataInTransit(x)
      BY <1>2 DEF NoDataInTransit
  <2>2. CASE x = m
    <3>1. wr_i[m] = 0 => NoDataInTransit(x)
        BY <1>3, <2>2
    <3>. QED
        BY SMTT(120), <1>7, <1>8, <1>9, <2>1, <2>2, <3>1 DEF RowSet
  <2>3. CASE x # m
    <3>1. /\ pc'[x] = pc[x] /\ cidx'[x] = cidx[x] /\ idx'[x] = idx[x] /\ wr_i'[x] = wr_i[x]
          /\ previous_wr_i'[x] = previous_wr_i[x] /\ reqs_in_transit'[x] = reqs_in_transit[x]
        BY <1>2, <1>6, <1>7, <1>8, <1>9, <2>3 DEF RowSet
    <3>. QED
        BY <2>1, <3>1 DEF IInv, PhasesOK
  <2>. QED
      BY <2>2, <2>3
<1>. QED
    BY <1>2, <1>10, <1>11, KeepBroadcasts, KeepRequests, KeepHandles, KeepArrays, KeepCounts
       DEF IInv

\* The client only moves on in its loop: its wait is over, an assertion fails, or
\* the iteration ends.
LEMMA MoveStep ==
    ASSUME IInv, NEW m \in Machine, EndWait(m) \/ Abort(m) \/ EndPoll(m)
    PROVE  IInv'
<1>1. PICK new \in {"prepare", "send", "aborted"} :
          /\ pc' = [pc EXCEPT ![m] = new]
          /\ \/ pc[m] = "wait" /\ new = "send" /\ reqs_in_transit[m] = 0
             \/ pc[m] = "send" /\ new = "aborted"
             \/ pc[m] = "poll" /\ new = "prepare"
    BY DEF EndWait, Abort, EndPoll
<1>2. /\ cidx' = cidx /\ idx' = idx /\ wr_i' = wr_i /\ previous_wr_i' = previous_wr_i
      /\ bufferused' = bufferused /\ cache_bufferused' = cache_bufferused /\ eresp' = eresp
      /\ reqs_in_transit' = reqs_in_transit /\ handle' = handle /\ op_ptr_arr' = op_ptr_arr
      /\ cache_reqs' = cache_reqs /\ cache_resps' = cache_resps
      /\ data_reqs' = data_reqs /\ data_resps' = data_resps
    BY SMTT(120) DEF EndWait, Abort, EndPoll, batch, buffers, worker, cache_net, data_net
<1>3. /\ pc' \in [Machine -> {"prepare", "wait", "send", "poll", "aborted"}]
      /\ pc'[m] = new /\ \A x \in Machine \ {m} : pc'[x] = pc[x]
    BY SMTT(120), <1>1 DEF IInv, StateOK
<1>4. StateOK'
    BY <1>2, <1>3 DEF IInv, StateOK, IsTable
<1>5. PhasesOK'
  <2>. SUFFICES ASSUME NEW x \in Machine
                PROVE  /\ pc'[x] \in {"prepare", "poll"} =>
                              /\ cidx[x] = 0
                              /\ \A r \in Others(x) : idx[x][r] = 0
                              /\ wr_i[x] = 0 => NoDataInTransit(x)
                       /\ pc'[x] \in {"wait", "send", "aborted"} =>
                              /\ wr_i[x] = SumFunction(idx[x])
                              /\ previous_wr_i[x] = 0 => NoDataInTransit(x)
                       /\ pc'[x] \in {"send", "aborted"} /\ previous_wr_i[x] # 0 =>
                              reqs_in_transit[x] = 0
      BY <1>2 DEF PhasesOK, NoDataInTransit
  <2>1. /\ pc[x] \in {"prepare", "poll"} =>
              /\ cidx[x] = 0
              /\ \A r \in Others(x) : idx[x][r] = 0
              /\ wr_i[x] = 0 => NoDataInTransit(x)
        /\ pc[x] \in {"wait", "send", "aborted"} =>
              /\ wr_i[x] = SumFunction(idx[x])
              /\ previous_wr_i[x] = 0 => NoDataInTransit(x)
        /\ pc[x] \in {"send", "aborted"} /\ previous_wr_i[x] # 0 => reqs_in_transit[x] = 0
      BY DEF IInv, PhasesOK
  <2>. QED
      BY SMTT(120), <1>1, <1>3, <2>1
<1>. QED
    BY <1>2, <1>4, <1>5, KeepBroadcasts, KeepRequests, KeepHandles, KeepArrays, KeepCounts
       DEF IInv

-----------------------------------------------------------------------------
(* The client's event loop.                                                  *)

\* A step that changes neither the client's place in the loop nor its batch, marks
\* no data buffer, and counts answers only inside the event loop.
LEMMA KeepPhases ==
    ASSUME PhasesOK, pc' = pc, cidx' = cidx, idx' = idx, wr_i' = wr_i,
           previous_wr_i' = previous_wr_i,
           \A x \in Machine : NoDataInTransit(x) => NoDataInTransit(x)',
           \A x \in Machine : InEventLoop(x) \/ reqs_in_transit'[x] = reqs_in_transit[x]
    PROVE  PhasesOK'
<1>. SUFFICES ASSUME NEW x \in Machine
              PROVE  /\ pc[x] \in {"prepare", "poll"} =>
                            /\ cidx[x] = 0
                            /\ \A r \in Others(x) : idx[x][r] = 0
                            /\ wr_i[x] = 0 => NoDataInTransit(x)'
                     /\ pc[x] \in {"wait", "send", "aborted"} =>
                            /\ wr_i[x] = SumFunction(idx[x])
                            /\ previous_wr_i[x] = 0 => NoDataInTransit(x)'
                     /\ pc[x] \in {"send", "aborted"} /\ previous_wr_i[x] # 0 =>
                            reqs_in_transit'[x] = 0
    BY DEF PhasesOK
<1>. QED
    BY DEF PhasesOK, InEventLoop

\* The updates of another client are applied and acknowledged.
LEMMA ReqCacheStep ==
    ASSUME IInv, NEW m \in Machine, NEW r \in Others(m), ReqCache(m, r)
    PROVE  IInv'
<1>1. r \in Machine /\ m \in Others(r)
    BY DEF Others
<1>2. /\ pc' = pc /\ cidx' = cidx /\ idx' = idx /\ wr_i' = wr_i
      /\ previous_wr_i' = previous_wr_i
      /\ bufferused' = bufferused /\ cache_bufferused' = cache_bufferused /\ eresp' = eresp
      /\ reqs_in_transit' = reqs_in_transit /\ handle' = handle /\ op_ptr_arr' = op_ptr_arr
      /\ data_reqs' = data_reqs /\ data_resps' = data_resps
    BY SMTT(120) DEF ReqCache, batch, buffers, worker, data_net
<1>3. /\ cache_reqs[r][m] \in Seq(HotWrites \ {0}) /\ cache_reqs[r][m] # <<>>
      /\ cache_resps[r][m] \in Nat
    BY <1>1 DEF IInv, StateOK, IsTable, ReqCache
<1>4. /\ Tail(cache_reqs[r][m]) \in Seq(HotWrites \ {0})
      /\ Len(Tail(cache_reqs[r][m])) = Len(cache_reqs[r][m]) - 1
      /\ Len(cache_reqs[r][m]) \in Nat
    BY SMTT(120), <1>3
<1>5. EntrySet(cache_reqs', cache_reqs, r, m, Tail(cache_reqs[r][m]), Seq(HotWrites \ {0}))
  <2>1. /\ cache_reqs' = [cache_reqs EXCEPT ![r][m] = Tail(cache_reqs[r][m])]
        /\ IsTable(cache_reqs, Seq(HotWrites \ {0}))
      BY DEF ReqCache, IInv, StateOK
  <2>. QED
      BY <1>1, <1>4, <2>1, TableEntry
<1>6. EntrySet(cache_resps', cache_resps, r, m, cache_resps[r][m] + 1, Nat)
  <2>1. /\ cache_resps' = [cache_resps EXCEPT ![r][m] = cache_resps[r][m] + 1]
        /\ IsTable(cache_resps, Nat)
      BY DEF ReqCache, IInv, StateOK
  <2>2. cache_resps[r][m] + 1 \in Nat
      BY SMTT(120), <1>3
  <2>. QED
      BY <1>1, <2>1, <2>2, TableEntry
<1>8. StateOK'
    BY <1>2, <1>5, <1>6 DEF IInv, StateOK, IsTable, EntrySet
<1>9. BroadcastsOK'
  <2>1. Len(cache_reqs'[r][m]) + cache_resps'[r][m] = Len(cache_reqs[r][m]) + cache_resps[r][m]
    <3>1. /\ Len(cache_reqs'[r][m]) = Len(cache_reqs[r][m]) - 1
          /\ cache_resps'[r][m] = cache_resps[r][m] + 1
        BY <1>4, <1>5, <1>6 DEF EntrySet
    <3>. QED
        BY <1>3, <1>4, <3>1, MoveOne
  <2>. SUFFICES ASSUME NEW x \in Machine, NEW y \in Others(x)
                PROVE  Len(cache_reqs'[x][y]) + cache_resps'[x][y] = cache_bufferused[x][y]
      BY <1>2 DEF BroadcastsOK
  <2>2. Len(cache_reqs[x][y]) + cache_resps[x][y] = cache_bufferused[x][y]
      BY DEF IInv, BroadcastsOK
  <2>. QED
      BY <1>5, <1>6, <2>1, <2>2 DEF EntrySet
<1>10. PhasesOK'
    BY <1>2, KeepPhases DEF IInv, NoDataInTransit
<1>. QED
    BY <1>2, <1>8, <1>9, <1>10, KeepRequests, KeepHandles, KeepArrays, KeepCounts DEF IInv

\* A buffer that is set free takes one off the sum of its row.
LEMMA BufferFreed ==
    ASSUME NEW f, NEW g, NEW m \in Machine, NEW r \in Others(m), IsTable(f, 0..1),
           f[m][r] = 1, EntrySet(g, f, m, r, 0, 0..1)
    PROVE  /\ SumFunction(f[m]) \in Nat /\ SumFunction(g[m]) \in Nat
           /\ SumFunction(f[m]) = SumFunction(g[m]) + 1
<1>1. IsFiniteSet(Others(m))
    BY OthersFinite
<1>2. f[m] \in [Others(m) -> 0..1] /\ g[m] \in [Others(m) -> 0..1] /\ 1 \in Nat
    BY SMTT(120) DEF IsTable, EntrySet
<1>3. /\ SumFunction(f[m]) = SumFunctionOnSet(f[m], Others(m)) /\ SumFunction(f[m]) \in Nat
      /\ SumFunction(g[m]) = SumFunctionOnSet(g[m], Others(m)) /\ SumFunction(g[m]) \in Nat
    BY <1>2, RowSum
<1>4. \A y \in Others(m) : f[m][y] \in Nat /\ g[m][y] \in Nat
    BY SMTT(120), <1>2
<1>5. g[m][r] = 0 /\ \A y \in Others(m) \ {r} : f[m][y] = g[m][y]
    BY DEF EntrySet
<1>6. SumFunctionOnSet(g[m], Others(m)) + f[m][r] = SumFunctionOnSet(f[m], Others(m)) + g[m][r]
  <2>. DEFINE a == f[m]
              b == g[m]
  <2>1. /\ \A y \in Others(m) : a[y] \in Nat /\ b[y] \in Nat
        /\ \A y \in Others(m) \ {r} : a[y] = b[y]
      BY <1>4, <1>5
  <2>. HIDE DEF a, b
  <2>2. SumFunctionOnSet(b, Others(m)) + a[r] = SumFunctionOnSet(a, Others(m)) + b[r]
      BY SMTT(120), <1>1, <2>1, SumChange
  <2>. QED
      BY <2>2 DEF a, b
<1>7. SumFunction(g[m]) + 1 = SumFunction(f[m]) + 0
    BY <1>3, <1>5, <1>6
<1>. QED
    BY SMTT(120), <1>3, <1>7

\* An acknowledgement of a broadcast arrives.
LEMMA CacheResponseStep ==
    ASSUME IInv, NEW m \in Machine, NEW r \in Others(m), CacheResponse(m, r)
    PROVE  IInv'
<1>1. /\ pc' = pc /\ cidx' = cidx /\ idx' = idx /\ wr_i' = wr_i
      /\ previous_wr_i' = previous_wr_i /\ bufferused' = bufferused /\ eresp' = eresp
      /\ handle' = handle /\ op_ptr_arr' = op_ptr_arr /\ cache_reqs' = cache_reqs
      /\ data_reqs' = data_reqs /\ data_resps' = data_resps
      /\ InEventLoop(m) /\ cache_resps[m][r] > 0
    BY SMTT(120) DEF CacheResponse, batch, worker, data_net
<1>2. /\ Len(cache_reqs[m][r]) \in Nat /\ cache_resps[m][r] \in Nat
      /\ cache_bufferused[m][r] \in 0..1
      /\ Len(cache_reqs[m][r]) + cache_resps[m][r] = cache_bufferused[m][r]
  <2>1. /\ cache_reqs[m][r] \in Seq(HotWrites \ {0}) /\ cache_resps[m][r] \in Nat
        /\ cache_bufferused[m][r] \in 0..1
        /\ Len(cache_reqs[m][r]) + cache_resps[m][r] = cache_bufferused[m][r]
      BY DEF IInv, StateOK, IsTable, BroadcastsOK
  <2>. QED
      BY SMTT(120), <2>1
<1>3. Len(cache_reqs[m][r]) = 0 /\ cache_resps[m][r] = 1 /\ cache_bufferused[m][r] = 1
    BY <1>1, <1>2, OnlyOne
<1>4. 1 - 1 = 0 /\ 0 + 0 = 0 /\ 0 \in Nat /\ 0 \in 0..1
    BY SMTT(120)
<1>5. EntrySet(cache_resps', cache_resps, m, r, 0, Nat)
  <2>1. cache_resps' = [cache_resps EXCEPT ![m][r] = 0] /\ IsTable(cache_resps, Nat)
      BY <1>3, <1>4 DEF CacheResponse, IInv, StateOK
  <2>. QED
      BY <1>4, <2>1, TableEntry
<1>6. EntrySet(cache_bufferused', cache_bufferused, m, r, 0, 0..1)
  <2>1. /\ cache_bufferused' = [cache_bufferused EXCEPT ![m][r] = 0]
        /\ IsTable(cache_bufferused, 0..1)
      BY DEF CacheResponse, IInv, StateOK
  <2>. QED
      BY <1>4, <2>1, TableEntry
<1>7. /\ SumFunction(cache_bufferused[m]) \in Nat /\ SumFunction(cache_bufferused'[m]) \in Nat
      /\ SumFunction(cache_bufferused[m]) = SumFunction(cache_bufferused'[m]) + 1
  <2>1. IsTable(cache_bufferused, 0..1)
      BY DEF IInv, StateOK
  <2>. QED
      BY <1>3, <1>6, <2>1, BufferFreed
<1>8. /\ SumFunction(bufferused[m]) \in Nat
      /\ reqs_in_transit[m] = SumFunction(bufferused[m]) + SumFunction(cache_bufferused[m])
  <2>1. bufferused[m] \in [Others(m) -> 0..1] /\ 1 \in Nat
      BY SMTT(120) DEF IInv, StateOK, IsTable
  <2>. QED
      BY <2>1, RowSum DEF IInv, CountsOK
<1>9. /\ reqs_in_transit' \in [Machine -> Nat]
      /\ reqs_in_transit'[m] = SumFunction(bufferused[m]) + SumFunction(cache_bufferused'[m])
      /\ \A x \in Machine \ {m} : reqs_in_transit'[x] = reqs_in_transit[x]
  <2>1. /\ reqs_in_transit \in [Machine -> Nat]
        /\ reqs_in_transit' = [reqs_in_transit EXCEPT ![m] = reqs_in_transit[m] - 1]
      BY DEF IInv, StateOK, CacheResponse
  <2>2. /\ reqs_in_transit[m] - 1 \in Nat
        /\ reqs_in_transit[m] - 1 = SumFunction(bufferused[m]) + SumFunction(cache_bufferused'[m])
      BY SMTT(120), <1>7, <1>8
  <2>. QED
      BY <2>1, <2>2
<1>10. StateOK'
    BY <1>1, <1>5, <1>6, <1>9 DEF IInv, StateOK, IsTable, EntrySet
<1>11. BroadcastsOK'
  <2>. SUFFICES ASSUME NEW x \in Machine, NEW y \in Others(x)
                PROVE  Len(cache_reqs[x][y]) + cache_resps'[x][y] = cache_bufferused'[x][y]
      BY <1>1 DEF BroadcastsOK
  <2>1. Len(cache_reqs[x][y]) + cache_resps[x][y] = cache_bufferused[x][y]
      BY DEF IInv, BroadcastsOK
  <2>2. CASE x = m /\ y = r
      BY <1>3, <1>4, <1>5, <1>6, <2>2 DEF EntrySet
  <2>3. CASE ~ (x = m /\ y = r)
      BY <1>5, <1>6, <2>1, <2>3 DEF EntrySet
  <2>. QED
      BY <2>2, <2>3
<1>12. CountsOK'
    BY <1>1, <1>6, <1>9 DEF IInv, CountsOK, EntrySet
<1>13. PhasesOK'
    BY <1>1, <1>9, KeepPhases DEF IInv, NoDataInTransit
<1>. QED
    BY <1>1, <1>10, <1>11, <1>12, <1>13, KeepRequests, KeepHandles, KeepArrays DEF IInv

\* The answer to a cold request arrives.
LEMMA ReceiveResponseStep ==
    ASSUME IInv, NEW m \in Machine, NEW r \in Others(m), ReceiveResponse(m, r)
    PROVE  IInv'
<1>1. /\ pc' = pc /\ cidx' = cidx /\ idx' = idx /\ wr_i' = wr_i
      /\ previous_wr_i' = previous_wr_i /\ cache_bufferused' = cache_bufferused
      /\ eresp' = eresp /\ handle' = handle /\ op_ptr_arr' = op_ptr_arr
      /\ cache_reqs' = cache_reqs /\ cache_resps' = cache_resps
      /\ data_reqs' = data_reqs /\ InEventLoop(m) /\ data_resps[m][r] # <<>>
    BY SMTT(120) DEF ReceiveResponse, batch, worker, cache_net
<1>2. StateOK /\ RequestsOK
    BY DEF IInv
<1>3. /\ data_resps[m][r] \in Seq(Seq(Machine)) /\ IsTable(data_resps, Seq(Seq(Machine)))
      /\ IsTable(bufferused, 0..1)
    BY <1>2 DEF StateOK, IsTable
<1>4. Len(data_resps[m][r]) > 0
    BY SMTT(120), <1>1, <1>3
<1>5. /\ Len(data_reqs[m][r]) = 0 /\ Cardinality(Collected(r, m)) = 0
      /\ Len(data_resps[m][r]) = 1 /\ bufferused[m][r] = 1
  <2>. DEFINE a == Len(data_reqs[m][r])
              b == Cardinality(Collected(r, m))
              c == Len(data_resps[m][r])
  <2>1. a \in Nat /\ b \in Nat /\ c \in Nat /\ c > 0 /\ bufferused[m][r] \in 0..1
      BY <1>2, <1>4, OutstandingParts
  <2>2. a + b + c = bufferused[m][r]
      BY <1>2 DEF RequestsOK, Outstanding
  <2>. HIDE DEF a, b, c
  <2>3. a = 0 /\ b = 0 /\ c = 1 /\ bufferused[m][r] = 1
      BY SMTT(120), <2>1, <2>2
  <2>. QED
      BY <2>3 DEF a, b, c
<1>6. Tail(data_resps[m][r]) \in Seq(Seq(Machine)) /\ Tail(data_resps[m][r]) = <<>>
    BY <1>3, <1>5, TailOfOne
<1>7. EntrySet(data_resps', data_resps, m, r, <<>>, Seq(Seq(Machine)))
  <2>1. data_resps' = [data_resps EXCEPT ![m][r] = <<>>] /\ <<>> \in Seq(Seq(Machine))
      BY <1>6 DEF ReceiveResponse
  <2>. QED
      BY <1>3, <2>1, TableEntry
<1>8. EntrySet(bufferused', bufferused, m, r, 0, 0..1)
  <2>1. bufferused' = [bufferused EXCEPT ![m][r] = 0] /\ 0 \in 0..1
      BY SMTT(120) DEF ReceiveResponse
  <2>. QED
      BY <1>3, <2>1, TableEntry
<1>9. /\ SumFunction(bufferused[m]) \in Nat /\ SumFunction(bufferused'[m]) \in Nat
      /\ SumFunction(bufferused[m]) = SumFunction(bufferused'[m]) + 1
    BY <1>3, <1>5, <1>8, BufferFreed
<1>10. /\ SumFunction(cache_bufferused[m]) \in Nat
       /\ reqs_in_transit[m] = SumFunction(bufferused[m]) + SumFunction(cache_bufferused[m])
  <2>1. cache_bufferused[m] \in [Others(m) -> 0..1] /\ 1 \in Nat
      BY SMTT(120), <1>2 DEF StateOK, IsTable
  <2>. QED
      BY <2>1, RowSum DEF IInv, CountsOK
<1>11. /\ reqs_in_transit' \in [Machine -> Nat]
       /\ reqs_in_transit'[m] = SumFunction(bufferused'[m]) + SumFunction(cache_bufferused[m])
       /\ \A x \in Machine \ {m} : reqs_in_transit'[x] = reqs_in_transit[x]
  <2>1. /\ reqs_in_transit \in [Machine -> Nat]
        /\ reqs_in_transit' = [reqs_in_transit EXCEPT ![m] = reqs_in_transit[m] - 1]
      BY <1>2 DEF StateOK, ReceiveResponse
  <2>2. /\ reqs_in_transit[m] - 1 \in Nat
        /\ reqs_in_transit[m] - 1 = SumFunction(bufferused'[m]) + SumFunction(cache_bufferused[m])
      BY SMTT(120), <1>9, <1>10
  <2>. QED
      BY <2>1, <2>2
<1>12. StateOK'
    BY <1>1, <1>2, <1>7, <1>8, <1>11 DEF StateOK, IsTable, EntrySet
<1>13. RequestsOK'
  <2>. SUFFICES ASSUME NEW x \in Machine, NEW y \in Others(x)
                PROVE  /\ Outstanding(x, y)' = bufferused'[x][y]
                       /\ bufferused'[x][y] = 1 => eresp[x][y] # 0
                       /\ \A k \in DOMAIN data_reqs[x][y] :
                              data_reqs[x][y][k] = Ops(x, eresp[x][y])
                       /\ \A k \in DOMAIN data_resps'[x][y] :
                              data_resps'[x][y][k] = Ops(x, eresp[x][y])
      BY <1>1 DEF RequestsOK
  <2>1. /\ Outstanding(x, y) = bufferused[x][y]
        /\ bufferused[x][y] = 1 => eresp[x][y] # 0
        /\ \A k \in DOMAIN data_reqs[x][y] : data_reqs[x][y][k] = Ops(x, eresp[x][y])
        /\ \A k \in DOMAIN data_resps[x][y] : data_resps[x][y][k] = Ops(x, eresp[x][y])
      BY <1>2 DEF RequestsOK
  <2>2. Outstanding(x, y)' = Len(data_reqs[x][y]) + Cardinality(Collected(y, x))
                                 + Len(data_resps'[x][y])
      BY <1>1 DEF Outstanding, Collected
  <2>3. CASE x = m /\ y = r
    <3>1. Outstanding(x, y)' = 0 + 0 + Len(<<>>)
        BY <1>5, <1>7, <2>2, <2>3 DEF EntrySet
    <3>2. 0 + 0 + Len(<<>>) = 0 /\ DOMAIN <<>> = {} /\ 0 # 1
        BY SMTT(120)
    <3>3. bufferused'[x][y] = 0 /\ data_resps'[x][y] = <<>>
        BY <1>7, <1>8, <2>3 DEF EntrySet
    <3>. QED
        BY <2>1, <3>1, <3>2, <3>3
  <2>4. CASE ~ (x = m /\ y = r)
    <3>1. bufferused'[x][y] = bufferused[x][y] /\ data_resps'[x][y] = data_resps[x][y]
        BY <1>7, <1>8, <2>4 DEF EntrySet
    <3>. QED
        BY <2>1, <2>2, <3>1 DEF Outstanding
  <2>. QED
      BY <2>3, <2>4
<1>14. CountsOK'
    BY <1>1, <1>8, <1>11 DEF IInv, CountsOK, EntrySet
<1>15. PhasesOK'
  <2>1. \A x \in Machine : NoDataInTransit(x) => NoDataInTransit(x)'
    <3>. SUFFICES ASSUME NEW x \in Machine, NoDataInTransit(x), NEW y \in Others(x)
                  PROVE  bufferused'[x][y] = 0
        BY DEF NoDataInTransit
    <3>1. CASE x = m /\ y = r
        BY <1>8, <3>1 DEF EntrySet
    <3>2. CASE ~ (x = m /\ y = r)
        BY <1>8, <3>2 DEF EntrySet, NoDataInTransit
    <3>. QED
        BY <3>1, <3>2
  <2>. QED
      BY <1>1, <1>11, <2>1, KeepPhases DEF IInv
<1>. QED
    BY <1>1, <1>12, <1>13, <1>14, <1>15, KeepBroadcasts, KeepHandles, KeepArrays DEF IInv

-----------------------------------------------------------------------------
(* The worker's arrays.                                                      *)

Sizes(h) == [j \in DOMAIN h |-> h[j].ops_in_req]

\* Where the operations of the i-th request of h start.
Start(h, i) == SumFunctionOnSet(Sizes(h), 1..(i - 1))

\* The operations of a request lie between its start and the start of the next, and
\* before the end of the last.
LEMMA StartFacts ==
    ASSUME NEW h \in Seq(Request)
    PROVE  /\ Len(h) \in Nat /\ DOMAIN h = 1..Len(h)
           /\ Start(h, Len(h) + 1) \in Nat
           /\ Start(h, Len(h) + 1) <= KVS_BATCH * Len(h)
           /\ \A i \in DOMAIN h : /\ h[i].ops_in_req \in 1..KVS_BATCH
                                  /\ Start(h, i) \in Nat
                                  /\ Start(h, i) + h[i].ops_in_req = Start(h, i + 1)
                                  /\ Start(h, i + 1) <= Start(h, Len(h) + 1)
<1>1. Len(h) \in Nat /\ DOMAIN h = 1..Len(h) /\ \A i \in 1..Len(h) : h[i] \in Request
    BY SMTT(120)
<1>2. \A i \in 1..Len(h) : h[i].ops_in_req \in 1..KVS_BATCH
    BY <1>1 DEF Request
<1>3. KVS_BATCH \in Nat
    BY BatchAssumption
<1>. DEFINE f == Sizes(h)
<1>4. \A i \in 1..Len(h) : f[i] = h[i].ops_in_req
    BY <1>1 DEF Sizes
<1>5. \A i \in 1..Len(h) : f[i] \in Nat /\ f[i] <= KVS_BATCH
    BY SMTT(120), <1>2, <1>3, <1>4
<1>. HIDE DEF f
<1>6. ASSUME NEW i \in 1..(Len(h) + 1)
      PROVE  /\ i - 1 \in Nat /\ 1..(i - 1) \subseteq 1..Len(h)
             /\ IsFiniteSet(1..(i - 1)) /\ Cardinality(1..(i - 1)) = i - 1
             /\ SumFunctionOnSet(f, 1..(i - 1)) \in Nat
  <2>1. i - 1 \in Nat /\ 1..(i - 1) \subseteq 1..Len(h)
      BY SMTT(120), <1>1
  <2>2. IsFiniteSet(1..(i - 1)) /\ Cardinality(1..(i - 1)) = i - 1
      BY <2>1, UpTo
  <2>. QED
      BY <1>5, <2>1, <2>2, SumSplit
<1>7. Len(h) + 1 \in 1..(Len(h) + 1) /\ (Len(h) + 1) - 1 = Len(h)
    BY SMTT(120), <1>1
<1>8. IsFiniteSet(1..Len(h)) /\ Cardinality(1..Len(h)) = Len(h)
    BY <1>6, <1>7
<1>9. SumFunctionOnSet(f, 1..Len(h)) \in Nat
    BY <1>6, <1>7
<1>10. SumFunctionOnSet(f, 1..Len(h)) <= KVS_BATCH * Len(h)
  <2>. DEFINE all == [j \in 1..Len(h) |-> KVS_BATCH]
  <2>1. \A j \in 1..Len(h) : all[j] = KVS_BATCH
      OBVIOUS
  <2>. HIDE DEF all
  <2>2. SumFunctionOnSet(all, 1..Len(h)) = KVS_BATCH * Cardinality(1..Len(h))
      BY <1>3, <1>8, <2>1, SumConstant
  <2>3. SumFunctionOnSet(f, 1..Len(h)) <= SumFunctionOnSet(all, 1..Len(h))
      BY <1>3, <1>5, <1>8, <2>1, SumMonotone
  <2>. QED
      BY <1>8, <2>2, <2>3
<1>11. ASSUME NEW i \in 1..Len(h)
       PROVE  /\ SumFunctionOnSet(f, 1..(i - 1)) \in Nat
              /\ SumFunctionOnSet(f, 1..(i - 1)) + f[i] = SumFunctionOnSet(f, 1..i)
              /\ SumFunctionOnSet(f, 1..i) <= SumFunctionOnSet(f, 1..Len(h))
  <2>1. /\ i \in 1..(Len(h) + 1) /\ i + 1 \in 1..(Len(h) + 1) /\ (i + 1) - 1 = i
        /\ i \in 1..i /\ (1..i) \ {i} = 1..(i - 1)
      BY SMTT(120), <1>1
  <2>2. /\ IsFiniteSet(1..i) /\ 1..i \subseteq 1..Len(h)
        /\ SumFunctionOnSet(f, 1..i) \in Nat /\ SumFunctionOnSet(f, 1..(i - 1)) \in Nat
      BY <1>6, <2>1
  <2>3. SumFunctionOnSet(f, 1..i) = f[i] + SumFunctionOnSet(f, 1..(i - 1))
    <3>1. \A x \in 1..i : f[x] \in Nat
        BY <1>5, <2>2
    <3>. DEFINE I == 1..i
    <3>2. i \in I /\ IsFiniteSet(I) /\ I \ {i} = 1..(i - 1) /\ \A x \in I : f[x] \in Nat
        BY <2>1, <2>2, <3>1
    <3>. HIDE DEF I
    <3>3. SumFunctionOnSet(f, I) = f[i] + SumFunctionOnSet(f, I \ {i})
        BY SMTT(120), <3>2, SumSplit
    <3>. QED
        BY <3>2, <3>3 DEF I
  <2>4. SumFunctionOnSet(f, 1..Len(h))
            = SumFunctionOnSet(f, 1..i) + SumFunctionOnSet(f, (1..Len(h)) \ (1..i))
    <3>1. 1..i \in SUBSET (1..Len(h)) /\ \A x \in 1..Len(h) : f[x] \in Nat
        BY <1>5, <2>2
    <3>. QED
        BY SMTT(120), <1>8, <3>1, SumUnion
  <2>5. SumFunctionOnSet(f, (1..Len(h)) \ (1..i)) \in Nat
    <3>1. IsFiniteSet((1..Len(h)) \ (1..i))
        BY <1>8, FS_Difference
    <3>. QED
        BY <1>5, <3>1, SumSplit
  <2>6. f[i] \in Nat
      BY <1>5
  <2>. QED
      BY SMTT(120), <2>2, <2>3, <2>4, <2>5, <2>6
<1>12. \A i \in 1..Len(h) : (i + 1) - 1 = i
    BY SMTT(120), <1>1
<1>. QED
    BY <1>1, <1>2, <1>4, <1>7, <1>9, <1>10, <1>11, <1>12 DEF Start, f

\* A request that is collected moves no other.
LEMMA StartAppend ==
    ASSUME NEW h \in Seq(Request), NEW e \in Request
    PROVE  \A i \in 1..(Len(h) + 1) : Start(Append(h, e), i) = Start(h, i)
<1>. SUFFICES ASSUME NEW i \in 1..(Len(h) + 1)
              PROVE  Start(Append(h, e), i) = Start(h, i)
    OBVIOUS
<1>1. /\ Len(h) \in Nat /\ DOMAIN h = 1..Len(h)
      /\ DOMAIN Append(h, e) = 1..(Len(h) + 1)
      /\ \A j \in 1..Len(h) : Append(h, e)[j] = h[j]
    BY SMTT(120)
<1>2. /\ 1..(i - 1) \subseteq 1..Len(h) /\ 1..Len(h) \subseteq 1..(Len(h) + 1)
      /\ i - 1 \in Nat
    BY SMTT(120), <1>1
<1>3. IsFiniteSet(1..(i - 1))
    BY SMTT(120), <1>2, FS_Interval
<1>4. \A j \in 1..(i - 1) : Sizes(Append(h, e))[j] = Sizes(h)[j]
    BY <1>1, <1>2 DEF Sizes
<1>. QED
    BY <1>3, <1>4, SumEqual DEF Start

\* A set of at most one element.
LEMMA AtMostOne ==
    ASSUME NEW S, IsFiniteSet(S), Cardinality(S) <= 1, NEW a \in S, NEW b \in S
    PROVE  a = b /\ S = {a} /\ Cardinality(S) = 1
<1>1. Cardinality(S) \in Nat /\ Cardinality(S) # 0
    BY FS_CardinalityType, FS_EmptySet
<1>2. Cardinality(S) = 1
    BY SMTT(120), <1>1
<1>3. PICK x : S = {x}
    BY <1>2, FS_Singleton
<1>. QED
    BY <1>2, <1>3

\* A worker with at most one request of every client has room for them all, and for
\* their operations.
LEMMA FewRequests ==
    ASSUME NEW w \in Machine, NEW h \in Seq(Request),
           \A i \in DOMAIN h : h[i].client \in Others(w),
           \A m \in Others(w) : Cardinality(Mine(h, m)) <= 1
    PROVE  /\ Len(h) <= MACHINE_NUM - 1
           /\ Start(h, Len(h) + 1) < WORKER_MAX_BATCH
<1>1. /\ Len(h) \in Nat /\ DOMAIN h = 1..Len(h) /\ Start(h, Len(h) + 1) \in Nat
      /\ Start(h, Len(h) + 1) <= KVS_BATCH * Len(h)
    BY StartFacts
<1>2. /\ IsFiniteSet(Others(w)) /\ Cardinality(Others(w)) = MACHINE_NUM - 1
      /\ MACHINE_NUM \in Nat /\ MACHINE_NUM >= 2
    BY OthersFinite
<1>3. Len(h) <= MACHINE_NUM - 1
  <2>. DEFINE f == [i \in 1..Len(h) |-> h[i].client]
  <2>1. ASSUME NEW a \in 1..Len(h), NEW b \in 1..Len(h), h[a].client = h[b].client
        PROVE  a = b
    <3>. DEFINE m == h[a].client
    <3>1. m \in Others(w) /\ a \in Mine(h, m) /\ b \in Mine(h, m)
        BY <1>1, <2>1 DEF Mine
    <3>2. IsFiniteSet(Mine(h, m)) /\ Cardinality(Mine(h, m)) <= 1
        BY <3>1, MineFinite
    <3>. QED
        BY <3>1, <3>2, AtMostOne
  <2>2. f \in [1..Len(h) -> Others(w)] /\ \A i \in 1..Len(h) : f[i] = h[i].client
      BY <1>1
  <2>3. f \in Injection(1..Len(h), Others(w))
      BY <2>1, <2>2 DEF Injection, IsInjective
  <2>. HIDE DEF f
  <2>4. Cardinality(1..Len(h)) <= Cardinality(Others(w))
      BY <1>2, <2>3, FS_Injection
  <2>. QED
      BY <1>1, <1>2, <2>4, UpTo
<1>4. KVS_BATCH \in Nat /\ KVS_BATCH >= 1
    BY SMTT(120), BatchAssumption
<1>5. /\ KVS_BATCH * Len(h) <= KVS_BATCH * (MACHINE_NUM - 1)
      /\ KVS_BATCH * (MACHINE_NUM - 1) + KVS_BATCH = KVS_BATCH * MACHINE_NUM
      /\ KVS_BATCH * Len(h) \in Nat /\ KVS_BATCH * (MACHINE_NUM - 1) \in Nat
      /\ KVS_BATCH * MACHINE_NUM \in Nat
  <2>. DEFINE l == Len(h)
              n == MACHINE_NUM
  <2>1. l \in Nat /\ n \in Nat /\ n >= 2 /\ l <= n - 1
      BY <1>1, <1>2, <1>3
  <2>. HIDE DEF l, n
  <2>2. /\ KVS_BATCH * l <= KVS_BATCH * (n - 1)
        /\ KVS_BATCH * (n - 1) + KVS_BATCH = KVS_BATCH * n
        /\ KVS_BATCH * l \in Nat /\ KVS_BATCH * (n - 1) \in Nat /\ KVS_BATCH * n \in Nat
      BY SMTT(120), <1>4, <2>1
  <2>. QED
      BY <2>2 DEF l, n
<1>6. Start(h, Len(h) + 1) < KVS_BATCH * MACHINE_NUM
  <2>. DEFINE a == KVS_BATCH * Len(h)
              b == KVS_BATCH * (MACHINE_NUM - 1)
              c == KVS_BATCH * MACHINE_NUM
              t == Start(h, Len(h) + 1)
  <2>1. /\ t \in Nat /\ t <= a /\ a \in Nat /\ b \in Nat /\ c \in Nat
        /\ a <= b /\ b + KVS_BATCH = c
      BY <1>1, <1>5
  <2>. HIDE DEF a, b, c, t
  <2>2. t < c
      BY SMTT(120), <1>4, <2>1
  <2>. QED
      BY <2>2 DEF t, c
<1>. QED
    BY <1>3, <1>6 DEF WORKER_MAX_BATCH

\* At most one request of a client is with a worker.
LEMMA CollectedOnce ==
    ASSUME IInv, NEW w \in Machine, NEW m \in Others(w)
    PROVE  /\ Collected(w, m) = Mine(handle[w], m)
           /\ Cardinality(Mine(handle[w], m)) \in Nat
           /\ Cardinality(Mine(handle[w], m)) <= 1
<1>1. StateOK /\ m \in Machine /\ w \in Others(m)
    BY DEF IInv, Others
<1>. DEFINE a == Len(data_reqs[m][w])
            b == Cardinality(Collected(w, m))
            c == Len(data_resps[m][w])
<1>2. /\ a \in Nat /\ b \in Nat /\ c \in Nat /\ bufferused[m][w] \in 0..1
      /\ Collected(w, m) = Mine(handle[w], m)
    BY <1>1, OutstandingParts
<1>3. a + b + c = bufferused[m][w]
    BY <1>1 DEF IInv, RequestsOK, Outstanding
<1>. HIDE DEF a, b, c
<1>4. b <= 1
    BY SMTT(120), <1>2, <1>3
<1>. QED
    BY <1>2, <1>4 DEF b

\* The operations of one client, as a sequence.
LEMMA OpsSeq ==
    ASSUME NEW m \in Machine, NEW n \in Nat
    PROVE  /\ Ops(m, n) \in Seq(Machine)
           /\ Len(Ops(m, n)) = n
           /\ \A k \in 1..n : Ops(m, n)[k] = m
BY SMTT(120) DEF Ops

\* Array a holds the operations of the requests h, one request after the other.
Laid(h, a) ==
    /\ Len(a) = Start(h, Len(h) + 1)
    /\ \A i \in DOMAIN h : \A k \in 1..h[i].ops_in_req : a[Start(h, i) + k] = h[i].client

\* What ArraysOK says of a worker.
LEMMA ArraysLaid ==
    ArraysOK <=> \A w \in Machine : Laid(handle[w], op_ptr_arr[w])
BY DEF ArraysOK, Laid, Offset, Start, Sizes

\* req_handler puts the operations of a request behind those collected before.
LEMMA LaidAppend ==
    ASSUME NEW h \in Seq(Request), NEW a \in Seq(Machine), Laid(h, a),
           NEW m \in Machine, NEW n \in 1..KVS_BATCH,
           NEW e \in Request, e.client = m, e.ops_in_req = n
    PROVE  /\ a \o Ops(m, n) \in Seq(Machine)
           /\ Len(a \o Ops(m, n)) = Len(a) + n
           /\ Laid(Append(h, e), a \o Ops(m, n))
<1>1. n \in Nat /\ n \in Int
    BY SMTT(120), BatchAssumption
<1>2. /\ Ops(m, n) \in Seq(Machine) /\ Len(Ops(m, n)) = n
      /\ \A k \in 1..n : Ops(m, n)[k] = m
    BY <1>1, OpsSeq
<1>3. /\ a \o Ops(m, n) \in Seq(Machine)
      /\ Len(a \o Ops(m, n)) = Len(a) + n
      /\ \A k \in 1..(Len(a) + n) : (a \o Ops(m, n))[k] =
                IF k <= Len(a) THEN a[k] ELSE Ops(m, n)[k - Len(a)]
  <2>. DEFINE p == Ops(m, n)
  <2>1. p \in Seq(Machine)
      BY <1>2
  <2>. HIDE DEF p
  <2>2. /\ a \o p \in Seq(Machine)
        /\ Len(a \o p) = Len(a) + Len(p)
        /\ \A k \in 1..(Len(a) + Len(p)) : (a \o p)[k] =
                  IF k <= Len(a) THEN a[k] ELSE p[k - Len(a)]
      BY <2>1, ConcatProperties
  <2>. QED
      BY <1>2, <2>2 DEF p
<1>. DEFINE g == Append(h, e)
            b == a \o Ops(m, n)
            l == Len(h)
<1>4. /\ g \in Seq(Request) /\ Len(g) = l + 1
      /\ \A i \in 1..l : g[i] = h[i]
      /\ g[l + 1] = e
    BY SMTT(120), AppendProperties
<1>5. /\ l \in Nat /\ DOMAIN h = 1..l /\ Start(h, l + 1) \in Nat
      /\ \A i \in 1..l : /\ h[i].ops_in_req \in 1..KVS_BATCH
                         /\ Start(h, i) \in Nat
                         /\ Start(h, i) + h[i].ops_in_req = Start(h, i + 1)
                         /\ Start(h, i + 1) <= Start(h, l + 1)
    BY StartFacts
<1>6. Len(a) = Start(h, l + 1)
    BY DEF Laid
<1>7. /\ DOMAIN g = 1..(l + 1)
      /\ Start(g, l + 1) + n = Start(g, (l + 1) + 1)
  <2>1. DOMAIN g = 1..(l + 1) /\ l + 1 \in 1..(l + 1)
      BY SMTT(120), <1>4, <1>5
  <2>2. Start(g, l + 1) + g[l + 1].ops_in_req = Start(g, (l + 1) + 1)
      BY <1>4, <2>1, StartFacts
  <2>. QED
      BY <1>4, <2>1, <2>2
<1>8. \A i \in 1..(l + 1) : Start(g, i) = Start(h, i)
    BY StartAppend
<1>9. Len(b) = Start(g, Len(g) + 1)
  <2>1. l + 1 \in 1..(l + 1)
      BY SMTT(120), <1>5
  <2>. QED
      BY <1>3, <1>4, <1>6, <1>7, <1>8, <2>1
<1>10. ASSUME NEW i \in DOMAIN g, NEW k \in 1..g[i].ops_in_req
       PROVE  b[Start(g, i) + k] = g[i].client
  <2>1. CASE i \in 1..l
    <3>1. g[i] = h[i] /\ Start(g, i) = Start(h, i)
        BY <1>4, <1>7, <1>8, <2>1
    <3>2. /\ h[i].ops_in_req \in 1..KVS_BATCH /\ Start(h, i) \in Nat
          /\ Start(h, i) + h[i].ops_in_req <= Len(a)
        BY <1>5, <1>6, <2>1
    <3>3. k \in 1..h[i].ops_in_req
        BY <3>1
    <3>4. /\ Start(h, i) + k \in 1..(Len(a) + n)
          /\ Start(h, i) + k <= Len(a)
      <4>. DEFINE t == Start(h, i)
                  o == h[i].ops_in_req
                  z == Len(a)
      <4>1. t \in Nat /\ o \in Nat /\ z \in Nat /\ t + o <= z /\ k \in 1..o
          BY SMTT(120), <1>5, <1>6, <3>2, <3>3, BatchAssumption
      <4>. HIDE DEF t, o, z
      <4>2. t + k \in 1..(z + n) /\ t + k <= z
          BY SMTT(120), <1>1, <4>1
      <4>. QED
          BY <4>2 DEF t, z
    <3>5. b[Start(h, i) + k] = a[Start(h, i) + k]
        BY <1>3, <3>4
    <3>6. a[Start(h, i) + k] = h[i].client
        BY <1>5, <2>1, <3>3 DEF Laid
    <3>. QED
        BY <3>1, <3>5, <3>6
  <2>2. CASE i = l + 1
    <3>1. /\ g[i] = e /\ k \in 1..n
        BY <1>4, <2>2
    <3>2. Start(g, i) = Len(a) /\ Len(a) \in Nat
      <4>1. l + 1 \in 1..(l + 1)
          BY SMTT(120), <1>5
      <4>. QED
          BY <1>5, <1>6, <1>8, <2>2, <4>1
    <3>3. /\ Len(a) + k \in 1..(Len(a) + n) /\ ~ (Len(a) + k <= Len(a))
          /\ (Len(a) + k) - Len(a) = k
      <4>. DEFINE z == Len(a)
      <4>1. z \in Nat
          BY <3>2
      <4>. HIDE DEF z
      <4>2. z + k \in 1..(z + n) /\ ~ (z + k <= z) /\ (z + k) - z = k
          BY SMTT(120), <1>1, <3>1, <4>1
      <4>. QED
          BY <4>2 DEF z
    <3>4. b[Len(a) + k] = Ops(m, n)[k]
        BY <1>3, <3>3
    <3>. QED
        BY <1>2, <3>1, <3>2, <3>4
  <2>3. i \in 1..l \/ i = l + 1
      BY SMTT(120), <1>5, <1>7
  <2>. QED
      BY <2>1, <2>2, <2>3
<1>. QED
    BY <1>3, <1>9, <1>10 DEF Laid

\* The slice that drain_batch gives a request holds the results of its operations.
LEMMA LaidAnswer ==
    ASSUME NEW h \in Seq(Request), NEW a \in Seq(Machine), Laid(h, a), NEW i \in DOMAIN h
    PROVE  SubSeq(a, Start(h, i) + 1, Start(h, i) + h[i].ops_in_req)
               = Ops(h[i].client, h[i].ops_in_req)
<1>. DEFINE t == Start(h, i)
            n == h[i].ops_in_req
            m == h[i].client
            u == SubSeq(a, t + 1, t + n)
<1>1. /\ n \in 1..KVS_BATCH /\ t \in Nat /\ m \in Machine
  <2>1. i \in 1..Len(h) /\ n \in 1..KVS_BATCH /\ t \in Nat
      BY StartFacts
  <2>2. h[i] \in Request
      BY <2>1, ElementOfSeq
  <2>. QED
      BY <2>1, <2>2 DEF Request
<1>2. /\ \A k \in 1..n : a[t + k] = m
    BY DEF Laid
<1>. HIDE DEF t, n, m
<1>3. /\ n \in Nat /\ n \in Int /\ t + 1 \in Int /\ t + n \in Int
      /\ (t + n) - (t + 1) + 1 = n /\ t + 1 <= t + n
      /\ \A k \in (t + 1)..(t + n) : k - t \in 1..n /\ t + (k - t) = k
      /\ \A k \in 1..n : (t + 1) + k - 1 = t + k
    BY SMTT(120), <1>1, BatchAssumption
<1>4. \A k \in (t + 1)..(t + n) : a[k] \in Machine
    BY <1>1, <1>2, <1>3
<1>5. /\ u \in Seq(Machine) /\ Len(u) = n /\ \A k \in 1..n : u[k] = m
  <2>1. /\ u \in Seq(Machine)
        /\ Len(u) = IF t + 1 <= t + n THEN (t + n) - (t + 1) + 1 ELSE 0
        /\ \A k \in 1..((t + n) - (t + 1) + 1) : u[k] = a[(t + 1) + k - 1]
      BY SMTT(120), <1>3, <1>4, SubSeqProperties
  <2>2. Len(u) = n
      BY <1>3, <2>1
  <2>3. ASSUME NEW k \in 1..n PROVE u[k] = m
    <3>1. k \in 1..((t + n) - (t + 1) + 1) /\ (t + 1) + k - 1 = t + k
        BY SMTT(120), <1>1, <1>3
    <3>2. u[k] = a[(t + 1) + k - 1]
        BY <2>1, <3>1
    <3>. QED
        BY <1>2, <3>1, <3>2
  <2>. QED
      BY <2>1, <2>2, <2>3
<1>6. /\ Ops(m, n) \in Seq(Machine) /\ Len(Ops(m, n)) = n
      /\ \A k \in 1..n : Ops(m, n)[k] = m
    BY <1>1, <1>3, OpsSeq
<1>. HIDE DEF u
<1>7. u = Ops(m, n)
    BY <1>5, <1>6, SeqEqual
<1>. QED
    BY <1>7 DEF u, t, n, m

\* A request that has arrived is the only one of its client: none of it is with the
\* worker and no answer under way.
LEMMA ArrivedAlone ==
    ASSUME IInv, NEW m \in Machine, NEW w \in Others(m), data_reqs[m][w] # <<>>
    PROVE  /\ Len(data_reqs[m][w]) = 1 /\ Head(data_reqs[m][w]) = Ops(m, eresp[m][w])
           /\ Cardinality(Mine(handle[w], m)) = 0 /\ Len(data_resps[m][w]) = 0
           /\ bufferused[m][w] = 1 /\ eresp[m][w] \in 1..KVS_BATCH
<1>. DEFINE a == Len(data_reqs[m][w])
            b == Cardinality(Collected(w, m))
            c == Len(data_resps[m][w])
<1>1. StateOK /\ RequestsOK
    BY DEF IInv
<1>2. data_reqs[m][w] \in Seq(Seq(Machine)) /\ eresp[m][w] \in 0..KVS_BATCH
    BY <1>1 DEF StateOK, IsTable
<1>3. a \in Nat \ {0}
    BY <1>2, EmptySeq
<1>4. b \in Nat /\ c \in Nat /\ bufferused[m][w] \in 0..1 /\ Collected(w, m) = Mine(handle[w], m)
    BY <1>1, OutstandingParts
<1>5. a + b + c = bufferused[m][w]
    BY <1>1 DEF RequestsOK, Outstanding
<1>. HIDE DEF a, b, c
<1>6. a = 1 /\ b = 0 /\ c = 0 /\ bufferused[m][w] = 1
    BY SMTT(120), <1>3, <1>4, <1>5
<1>7. eresp[m][w] # 0
    BY <1>1, <1>6 DEF RequestsOK
<1>8. eresp[m][w] \in 1..KVS_BATCH
    BY SMTT(120), <1>2, <1>7, BatchAssumption
<1>9. Head(data_reqs[m][w]) = data_reqs[m][w][1] /\ 1 \in 1..1
    BY SMTT(120), <1>2
<1>10. DOMAIN data_reqs[m][w] = 1..1
    BY <1>2, <1>6, LenProperties DEF a
<1>11. data_reqs[m][w][1] = Ops(m, eresp[m][w])
    BY <1>1, <1>9, <1>10 DEF RequestsOK
<1>. QED
    BY <1>4, <1>6, <1>8, <1>9, <1>11 DEF a, b, c

\* A worker collects a request; its arrays never run over, so it does not abort.
LEMMA ReqHandlerStep ==
    ASSUME IInv, NEW w \in Machine, NEW m \in Others(w), ReqHandler(w, m)
    PROVE  IInv' /\ pc' = pc
<1>. DEFINE n == eresp[m][w]
            h == handle[w]
            a == op_ptr_arr[w]
            e == [client |-> m, ops_in_req |-> n]
<1>1. m \in Machine /\ w \in Others(m) /\ StateOK /\ RequestsOK /\ HandlesOK
    BY DEF Others, IInv
<1>2. /\ cidx' = cidx /\ idx' = idx /\ wr_i' = wr_i /\ previous_wr_i' = previous_wr_i
      /\ bufferused' = bufferused /\ cache_bufferused' = cache_bufferused /\ eresp' = eresp
      /\ reqs_in_transit' = reqs_in_transit
      /\ cache_reqs' = cache_reqs /\ cache_resps' = cache_resps /\ data_resps' = data_resps
      /\ data_reqs[m][w] # <<>>
    BY SMTT(120) DEF ReqHandler, batch, buffers, cache_net
<1>3. /\ Len(data_reqs[m][w]) = 1 /\ Head(data_reqs[m][w]) = Ops(m, n)
      /\ Cardinality(Mine(h, m)) = 0 /\ Len(data_resps[m][w]) = 0
      /\ bufferused[m][w] = 1 /\ n \in 1..KVS_BATCH
    BY <1>1, <1>2, ArrivedAlone
<1>4. n \in Nat /\ Len(Ops(m, n)) = n
  <2>1. n \in Nat
      BY SMTT(120), <1>3, BatchAssumption
  <2>. QED
      BY <1>1, <2>1, OpsSeq
<1>5. h \in Seq(Request) /\ a \in Seq(Machine) /\ e \in Request /\ Laid(h, a)
  <2>1. e \in Request
      BY <1>1, <1>3 DEF Request
  <2>. QED
      BY <1>1, <2>1, ArraysLaid DEF StateOK, IInv
<1>6. /\ a \o Ops(m, n) \in Seq(Machine) /\ Len(a \o Ops(m, n)) = Len(a) + n
      /\ Laid(Append(h, e), a \o Ops(m, n))
  <2>1. e.client = m /\ e.ops_in_req = n
      OBVIOUS
  <2>. HIDE DEF n, h, a, e
  <2>. QED
      BY <1>1, <1>3, <1>5, <2>1, LaidAppend
<1>7. /\ handle' = [handle EXCEPT ![w] = Append(h, e)]
      /\ op_ptr_arr' = [op_ptr_arr EXCEPT ![w] = a \o Ops(m, n)]
      /\ data_reqs' = [data_reqs EXCEPT ![m][w] = Tail(data_reqs[m][w])]
      /\ pc' = IF Len(a) + n <= WORKER_MAX_BATCH THEN pc ELSE [pc EXCEPT ![w] = "aborted"]
    BY <1>3, <1>4 DEF ReqHandler
<1>8. EntrySet(data_reqs', data_reqs, m, w, <<>>, Seq(Seq(Machine)))
  <2>1. IsTable(data_reqs, Seq(Seq(Machine))) /\ data_reqs[m][w] \in Seq(Seq(Machine))
      BY <1>1 DEF StateOK, IsTable
  <2>2. Tail(data_reqs[m][w]) = <<>> /\ <<>> \in Seq(Seq(Machine))
      BY <1>3, <2>1, TailOfOne, EmptySeq
  <2>3. data_reqs' = [data_reqs EXCEPT ![m][w] = <<>>]
      BY <1>7, <2>2
  <2>. QED
      BY <1>1, <2>1, <2>2, <2>3, TableEntry
<1>9. /\ Append(h, e) \in Seq(Request)
      /\ Cardinality(Mine(Append(h, e), m)) = 1
      /\ \A x \in Machine \ {m} : Mine(Append(h, e), x) = Mine(h, x)
  <2>1. e.client = m /\ 0 + 1 = 1
      BY SMTT(120)
  <2>. HIDE DEF e, h
  <2>2. Append(h, e) \in Seq(Request)
      BY <1>5, MineAppend
  <2>3. Cardinality(Mine(Append(h, e), m)) = Cardinality(Mine(h, m)) + 1
      BY <1>5, <2>1, MineAppend
  <2>4. \A x \in Machine \ {m} : Mine(Append(h, e), x) = Mine(h, x)
      BY <1>5, <2>1, MineAppend
  <2>. QED
      BY <1>3, <2>1, <2>2, <2>3, <2>4
<1>10. /\ handle' \in [Machine -> Seq(Request)] /\ handle'[w] = Append(h, e)
       /\ \A x \in Machine \ {w} : handle'[x] = handle[x]
       /\ op_ptr_arr' \in [Machine -> Seq(Machine)] /\ op_ptr_arr'[w] = a \o Ops(m, n)
       /\ \A x \in Machine \ {w} : op_ptr_arr'[x] = op_ptr_arr[x]
    BY <1>1, <1>6, <1>7, <1>9 DEF StateOK
<1>11. /\ Append(h, e)[Len(h) + 1] = e /\ Len(h) \in Nat
       /\ \A i \in DOMAIN Append(h, e) : \/ i = Len(h) + 1
                                         \/ i \in DOMAIN h /\ Append(h, e)[i] = h[i]
  <2>. HIDE DEF e, h
  <2>. QED
      BY SMTT(120), <1>5
<1>12. \A i \in DOMAIN Append(h, e) :
           /\ Append(h, e)[i].client \in Others(w)
           /\ Append(h, e)[i].ops_in_req = eresp[Append(h, e)[i].client][w]
  <2>. SUFFICES ASSUME NEW i \in DOMAIN Append(h, e)
                PROVE  /\ Append(h, e)[i].client \in Others(w)
                       /\ Append(h, e)[i].ops_in_req = eresp[Append(h, e)[i].client][w]
      OBVIOUS
  <2>1. CASE i = Len(h) + 1
    <3>1. Append(h, e)[i] = e /\ e.client = m /\ e.ops_in_req = n
        BY <1>11, <2>1
    <3>. QED
        BY <3>1
  <2>2. CASE i \in DOMAIN h /\ Append(h, e)[i] = h[i]
      BY <1>1, <2>2 DEF HandlesOK
  <2>. QED
      BY <1>11, <2>1, <2>2
<1>13. pc' = pc
  <2>1. \A x \in Others(w) : Cardinality(Mine(Append(h, e), x)) <= 1
    <3>1. 1 <= 1
        BY SMTT(120)
    <3>. QED
        BY <1>9, <3>1, CollectedOnce DEF Others
  <2>2. Start(Append(h, e), Len(Append(h, e)) + 1) < WORKER_MAX_BATCH
      BY <1>9, <1>12, <2>1, FewRequests
  <2>3. Len(a) + n < WORKER_MAX_BATCH
      BY <1>6, <2>2 DEF Laid
  <2>4. Len(a) + n \in Nat /\ WORKER_MAX_BATCH \in Nat
    <3>1. Len(a) \in Nat /\ KVS_BATCH \in Nat /\ MACHINE_NUM \in Nat
        BY <1>5, BatchAssumption, OthersFinite, LenProperties
    <3>. HIDE DEF a, n
    <3>. QED
        BY SMTT(120), <1>4, <3>1 DEF WORKER_MAX_BATCH
  <2>. DEFINE t == Len(a) + n
  <2>. HIDE DEF t
  <2>5. t <= WORKER_MAX_BATCH
      BY SMTT(120), <2>3, <2>4 DEF t
  <2>. QED
      BY <1>7, <2>5 DEF t
<1>14. StateOK'
    BY <1>1, <1>2, <1>8, <1>10, <1>13 DEF StateOK, IsTable, EntrySet
<1>15. RequestsOK'
  <2>. SUFFICES ASSUME NEW x \in Machine, NEW y \in Others(x)
                PROVE  /\ Outstanding(x, y)' = bufferused[x][y]
                       /\ bufferused[x][y] = 1 => eresp[x][y] # 0
                       /\ \A k \in DOMAIN data_reqs'[x][y] :
                              data_reqs'[x][y][k] = Ops(x, eresp[x][y])
                       /\ \A k \in DOMAIN data_resps[x][y] :
                              data_resps[x][y][k] = Ops(x, eresp[x][y])
      BY <1>2 DEF RequestsOK
  <2>1. /\ Outstanding(x, y) = bufferused[x][y]
        /\ bufferused[x][y] = 1 => eresp[x][y] # 0
        /\ \A k \in DOMAIN data_reqs[x][y] : data_reqs[x][y][k] = Ops(x, eresp[x][y])
        /\ \A k \in DOMAIN data_resps[x][y] : data_resps[x][y][k] = Ops(x, eresp[x][y])
      BY <1>1 DEF RequestsOK
  <2>2. Outstanding(x, y)' = Len(data_reqs'[x][y]) + Cardinality(Mine(handle'[y], x))
                                 + Len(data_resps[x][y])
      BY <1>2 DEF Outstanding, Collected, Mine
  <2>3. Outstanding(x, y) = Len(data_reqs[x][y]) + Cardinality(Mine(handle[y], x))
                                 + Len(data_resps[x][y])
      BY DEF Outstanding, Collected, Mine
  <2>4. CASE x = m /\ y = w
    <3>1. data_reqs'[x][y] = <<>>
        BY <1>8, <2>4 DEF EntrySet
    <3>2. Len(<<>>) = 0 /\ DOMAIN <<>> = {} /\ 0 + 1 + 0 = 1
        BY SMTT(120)
    <3>3. Outstanding(x, y)' = 0 + 1 + 0
        BY <1>3, <1>9, <1>10, <2>2, <2>4, <3>1, <3>2
    <3>. QED
        BY <1>3, <2>1, <2>4, <3>1, <3>2, <3>3
  <2>5. CASE ~ (x = m /\ y = w)
    <3>1. data_reqs'[x][y] = data_reqs[x][y]
        BY <1>8, <2>5 DEF EntrySet
    <3>2. Mine(handle'[y], x) = Mine(handle[y], x)
        BY <1>9, <1>10, <2>5 DEF Others
    <3>. QED
        BY <2>1, <2>2, <2>3, <3>1, <3>2
  <2>. QED
      BY <2>4, <2>5
<1>16. HandlesOK'
  <2>. SUFFICES ASSUME NEW x \in Machine, NEW i \in DOMAIN handle'[x]
                PROVE  /\ handle'[x][i].client \in Others(x)
                       /\ handle'[x][i].ops_in_req = eresp[handle'[x][i].client][x]
      BY <1>2 DEF HandlesOK
  <2>1. CASE x = w
      BY <1>10, <1>12, <2>1
  <2>2. CASE x # w
      BY <1>1, <1>10, <2>2 DEF HandlesOK
  <2>. QED
      BY <2>1, <2>2
<1>17. ArraysOK'
  <2>1. ASSUME NEW x \in Machine
        PROVE  Laid(handle'[x], op_ptr_arr'[x])
      BY <1>6, <1>10, ArraysLaid DEF IInv
  <2>. QED
      BY <2>1 DEF ArraysOK, Laid, Offset, Start, Sizes
<1>18. PhasesOK'
    BY <1>2, <1>13, KeepPhases DEF IInv, NoDataInTransit
<1>. QED
    BY <1>2, <1>13, <1>14, <1>15, <1>16, <1>17, <1>18, KeepBroadcasts, KeepCounts DEF IInv

\* A client has none or one answer from a drain, the results of its own operations.
LEMMA AnswersOfDrain ==
    ASSUME IInv, NEW w \in Machine, NEW m \in Others(w)
    PROVE  /\ AnswersTo(w, m) \in Seq(Seq(Machine))
           /\ Len(AnswersTo(w, m)) = Cardinality(Mine(handle[w], m))
           /\ \A k \in 1..Len(AnswersTo(w, m)) : AnswersTo(w, m)[k] = Ops(m, eresp[m][w])
<1>. DEFINE h == handle[w]
            C == Collected(w, m)
            s == AnswersTo(w, m)
<1>1. C = Mine(h, m) /\ Cardinality(C) \in Nat /\ Cardinality(C) <= 1
    BY CollectedOnce
<1>2. /\ StateOK /\ HandlesOK /\ h \in Seq(Request) /\ op_ptr_arr[w] \in Seq(Machine)
      /\ Laid(h, op_ptr_arr[w]) /\ m \in Machine /\ w \in Others(m)
    BY ArraysLaid DEF IInv, StateOK, Others
<1>3. IsFiniteSet(C)
    BY <1>1, <1>2, MineFinite
<1>4. s = [k \in 1..Cardinality(C) |->
              Answer(w, CHOOSE i \in C : Cardinality({j \in C : j < i}) = k - 1)]
    BY DEF AnswersTo
<1>5. CASE Cardinality(C) = 0
  <2>1. s = <<>>
      BY SMTT(120), <1>4, <1>5
  <2>2. Len(<<>>) = 0 /\ 1..0 = {}
      BY SMTT(120)
  <2>. QED
      BY <1>1, <1>5, <2>1, <2>2, EmptySeq
<1>6. CASE Cardinality(C) = 1
  <2>1. PICK i : C = {i}
      BY <1>3, <1>6, FS_Singleton
  <2>2. i \in DOMAIN h /\ h[i].client = m /\ i \in Nat
    <3>1. i \in DOMAIN h /\ h[i].client = m
        BY <2>1 DEF Collected
    <3>. QED
        BY SMTT(120), <1>2, <3>1
  <2>3. {j \in C : j < i} = {}
      BY SMTT(120), <2>1, <2>2
  <2>4. Cardinality({j \in C : j < i}) = 1 - 1
    <3>1. 1 - 1 = 0
        BY SMTT(120)
    <3>. QED
        BY <2>3, <3>1, FS_EmptySet
  <2>5. (CHOOSE x \in C : Cardinality({j \in C : j < x}) = 1 - 1) = i
      BY <2>1, <2>4
  <2>6. Answer(w, i) = Ops(m, eresp[m][w])
    <3>1. Answer(w, i) = SubSeq(op_ptr_arr[w], Start(h, i) + 1, Start(h, i) + h[i].ops_in_req)
        BY DEF Answer, Offset, Start, Sizes
    <3>2. Answer(w, i) = Ops(h[i].client, h[i].ops_in_req)
        BY <1>2, <2>2, <3>1, LaidAnswer
    <3>. QED
        BY <1>2, <2>2, <3>2 DEF HandlesOK
  <2>7. s[1] = Answer(w, i) /\ DOMAIN s = 1..1
    <3>1. 1 \in 1..1
        BY SMTT(120)
    <3>. QED
        BY <1>4, <1>6, <2>5, <3>1
  <2>8. Ops(m, eresp[m][w]) \in Seq(Machine)
    <3>1. eresp[m][w] \in 0..KVS_BATCH
        BY <1>2 DEF StateOK, IsTable
    <3>2. eresp[m][w] \in Nat
        BY SMTT(120), <3>1
    <3>. QED
        BY <1>2, <3>2, OpsSeq
  <2>9. s = [k \in 1..1 |-> Ops(m, eresp[m][w])]
      BY SMTT(120), <1>4, <1>6, <2>6, <2>7
  <2>. DEFINE o == Ops(m, eresp[m][w])
  <2>. HIDE DEF o, s
  <2>10. s \in Seq(Seq(Machine)) /\ Len(s) = 1 /\ \A k \in 1..1 : s[k] = o
      BY SMTT(120), <2>8, <2>9 DEF o
  <2>. QED
      BY <1>1, <1>6, <2>10 DEF s, o
<1>7. Cardinality(C) = 0 \/ Cardinality(C) = 1
    BY SMTT(120), <1>1
<1>. QED
    BY <1>5, <1>6, <1>7

\* A worker answers what it has collected and starts again with empty arrays.
LEMMA DrainBatchStep ==
    ASSUME IInv, NEW w \in Machine, DrainBatch(w)
    PROVE  IInv'
<1>1. StateOK /\ RequestsOK /\ HandlesOK
    BY DEF IInv
<1>2. /\ pc' = pc /\ cidx' = cidx /\ idx' = idx /\ wr_i' = wr_i
      /\ previous_wr_i' = previous_wr_i
      /\ bufferused' = bufferused /\ cache_bufferused' = cache_bufferused /\ eresp' = eresp
      /\ reqs_in_transit' = reqs_in_transit
      /\ cache_reqs' = cache_reqs /\ cache_resps' = cache_resps /\ data_reqs' = data_reqs
    BY SMTT(120) DEF DrainBatch, batch, buffers, cache_net
<1>3. <<>> \in Seq(Request) /\ <<>> \in Seq(Machine) /\ Len(<<>>) = 0 /\ DOMAIN <<>> = {}
    BY SMTT(120)
<1>4. /\ handle' \in [Machine -> Seq(Request)] /\ handle'[w] = <<>>
      /\ \A x \in Machine \ {w} : handle'[x] = handle[x]
      /\ op_ptr_arr' \in [Machine -> Seq(Machine)] /\ op_ptr_arr'[w] = <<>>
      /\ \A x \in Machine \ {w} : op_ptr_arr'[x] = op_ptr_arr[x]
    BY <1>1, <1>3 DEF DrainBatch, StateOK
<1>5. data_resps' = [m \in Machine |-> [r \in Others(m) |->
          IF r = w THEN data_resps[m][w] \o AnswersTo(w, m) ELSE data_resps[m][r]]]
    BY DEF DrainBatch
<1>6. ASSUME NEW m \in Machine, w \in Others(m)
      PROVE  /\ data_resps'[m][w] = data_resps[m][w] \o AnswersTo(w, m)
             /\ data_resps'[m][w] \in Seq(Seq(Machine))
             /\ Len(data_resps'[m][w])
                    = Len(data_resps[m][w]) + Cardinality(Mine(handle[w], m))
             /\ \A k \in DOMAIN data_resps'[m][w] :
                    data_resps'[m][w][k] = Ops(m, eresp[m][w])
  <2>. DEFINE s == data_resps[m][w]
              t == AnswersTo(w, m)
              o == Ops(m, eresp[m][w])
  <2>1. m \in Others(w)
      BY <1>6 DEF Others
  <2>2. /\ t \in Seq(Seq(Machine)) /\ Len(t) = Cardinality(Mine(handle[w], m))
        /\ \A k \in 1..Len(t) : t[k] = o
      BY <2>1, AnswersOfDrain
  <2>3. s \in Seq(Seq(Machine)) /\ \A k \in DOMAIN s : s[k] = o
      BY <1>1, <1>6 DEF StateOK, IsTable, RequestsOK
  <2>4. data_resps'[m][w] = s \o t
      BY <1>5, <1>6
  <2>. HIDE DEF s, t, o
  <2>5. Len(s) \in Nat /\ DOMAIN s = 1..Len(s) /\ Len(t) \in Nat
      BY <2>2, <2>3, LenProperties
  <2>6. /\ s \o t \in Seq(Seq(Machine)) /\ Len(s \o t) = Len(s) + Len(t)
        /\ \A k \in 1..(Len(s) + Len(t)) :
              (s \o t)[k] = IF k <= Len(s) THEN s[k] ELSE t[k - Len(s)]
      BY <2>2, <2>3, ConcatProperties
  <2>7. DOMAIN (s \o t) = 1..(Len(s) + Len(t))
      BY <2>6, LenProperties
  <2>8. ASSUME NEW k \in 1..(Len(s) + Len(t)) PROVE (s \o t)[k] = o
    <3>1. k <= Len(s) => k \in 1..Len(s)
        BY SMTT(120), <2>5
    <3>2. ~ (k <= Len(s)) => k - Len(s) \in 1..Len(t)
        BY SMTT(120), <2>5
    <3>. QED
        BY <2>2, <2>3, <2>5, <2>6, <3>1, <3>2
  <2>. QED
      BY <2>2, <2>4, <2>6, <2>7, <2>8 DEF s, t, o
<1>7. \A m \in Machine : \A r \in Others(m) \ {w} : data_resps'[m][r] = data_resps[m][r]
    BY <1>5
<1>8. IsTable(data_resps', Seq(Seq(Machine)))
  <2>1. /\ DOMAIN data_resps' = Machine
        /\ \A m \in Machine : data_resps'[m] = [r \in Others(m) |-> data_resps'[m][r]]
      BY <1>5
  <2>2. \A m \in Machine : \A r \in Others(m) : data_resps'[m][r] \in Seq(Seq(Machine))
      BY <1>1, <1>6, <1>7 DEF StateOK, IsTable
  <2>. QED
      BY <2>1, <2>2 DEF IsTable
<1>9. StateOK'
    BY <1>1, <1>2, <1>4, <1>8 DEF StateOK, IsTable
<1>10. RequestsOK'
  <2>. SUFFICES ASSUME NEW x \in Machine, NEW y \in Others(x)
                PROVE  /\ Outstanding(x, y)' = bufferused[x][y]
                       /\ bufferused[x][y] = 1 => eresp[x][y] # 0
                       /\ \A k \in DOMAIN data_reqs[x][y] :
                              data_reqs[x][y][k] = Ops(x, eresp[x][y])
                       /\ \A k \in DOMAIN data_resps'[x][y] :
                              data_resps'[x][y][k] = Ops(x, eresp[x][y])
      BY <1>2 DEF RequestsOK
  <2>1. /\ Outstanding(x, y) = bufferused[x][y]
        /\ bufferused[x][y] = 1 => eresp[x][y] # 0
        /\ \A k \in DOMAIN data_reqs[x][y] : data_reqs[x][y][k] = Ops(x, eresp[x][y])
        /\ \A k \in DOMAIN data_resps[x][y] : data_resps[x][y][k] = Ops(x, eresp[x][y])
      BY <1>1 DEF RequestsOK
  <2>2. Outstanding(x, y)' = Len(data_reqs[x][y]) + Cardinality(Mine(handle'[y], x))
                                 + Len(data_resps'[x][y])
      BY <1>2 DEF Outstanding, Collected, Mine
  <2>3. Outstanding(x, y) = Len(data_reqs[x][y]) + Cardinality(Mine(handle[y], x))
                                 + Len(data_resps[x][y])
      BY DEF Outstanding, Collected, Mine
  <2>4. CASE y = w
    <3>1. Mine(handle'[y], x) = {}
        BY <1>3, <1>4, <2>4 DEF Mine
    <3>2. Cardinality(Mine(handle'[y], x)) = 0
        BY <3>1, FS_EmptySet
    <3>3. /\ Len(data_resps'[x][y]) = Len(data_resps[x][y]) + Cardinality(Mine(handle[y], x))
          /\ \A k \in DOMAIN data_resps'[x][y] : data_resps'[x][y][k] = Ops(x, eresp[x][y])
        BY <1>6, <2>4
    <3>. DEFINE a == Len(data_reqs[x][y])
                b == Cardinality(Mine(handle[y], x))
                c == Len(data_resps[x][y])
    <3>4. a \in Nat /\ b \in Nat /\ c \in Nat
        BY <1>1, OutstandingParts
    <3>. HIDE DEF a, b, c
    <3>5. a + 0 + (c + b) = a + b + c
        BY SMTT(120), <3>4
    <3>. QED
        BY <2>1, <2>2, <2>3, <3>2, <3>3, <3>5 DEF a, b, c
  <2>5. CASE y # w
    <3>1. handle'[y] = handle[y] /\ data_resps'[x][y] = data_resps[x][y]
        BY <1>4, <1>7, <2>5 DEF Others
    <3>. QED
        BY <2>1, <2>2, <2>3, <3>1
  <2>. QED
      BY <2>4, <2>5
<1>11. HandlesOK'
    BY <1>1, <1>2, <1>3, <1>4 DEF HandlesOK
<1>12. ArraysOK'
  <2>1. Start(<<>>, Len(<<>>) + 1) = 0
    <3>1. 1..((Len(<<>>) + 1) - 1) = {}
        BY SMTT(120)
    <3>. QED
        BY <3>1, SumUnfolds, FS_EmptySet DEF Start
  <2>2. ASSUME NEW x \in Machine
        PROVE  Laid(handle'[x], op_ptr_arr'[x])
    <3>1. CASE x = w
        BY <1>3, <1>4, <2>1, <3>1 DEF Laid
    <3>2. CASE x # w
        BY <1>4, <3>2, ArraysLaid DEF IInv
    <3>. QED
        BY <3>1, <3>2
  <2>. QED
      BY <2>2 DEF ArraysOK, Laid, Offset, Start, Sizes
<1>13. PhasesOK'
    BY <1>2, KeepPhases DEF IInv, NoDataInTransit
<1>. QED
    BY <1>2, <1>9, <1>10, <1>11, <1>12, <1>13, KeepBroadcasts, KeepCounts DEF IInv

-----------------------------------------------------------------------------
(* The client sends.                                                         *)

\* If nothing is counted as in transit, no buffer is used.
LEMMA NothingCounted ==
    ASSUME IInv, NEW m \in Machine, reqs_in_transit[m] = 0
    PROVE  /\ NoDataInTransit(m)
           /\ \A r \in Others(m) : cache_bufferused[m][r] = 0
<1>. DEFINE a == SumFunction(bufferused[m])
            b == SumFunction(cache_bufferused[m])
<1>1. /\ bufferused[m] \in [Others(m) -> 0..1] /\ cache_bufferused[m] \in [Others(m) -> 0..1]
      /\ a + b = 0
    BY DEF IInv, StateOK, IsTable, CountsOK
<1>2. 1 \in Nat
    BY SMTT(120)
<1>3. /\ a \in Nat /\ (a = 0 => \A r \in Others(m) : bufferused[m][r] = 0)
      /\ b \in Nat /\ (b = 0 => \A r \in Others(m) : cache_bufferused[m][r] = 0)
    BY <1>1, <1>2, RowSum
<1>. HIDE DEF a, b
<1>4. a = 0 /\ b = 0
    BY SMTT(120), <1>1, <1>3
<1>. QED
    BY <1>3, <1>4 DEF NoDataInTransit

\* A client that is to send has no cold request in transit: it has waited for them, or
\* its previous batch had none and the batch before that was waited for.
LEMMA SendsWithDataFree ==
    ASSUME IInv, NEW m \in Machine, pc[m] \in {"send", "aborted"}
    PROVE  NoDataInTransit(m)
<1>1. CASE previous_wr_i[m] = 0
    BY <1>1 DEF IInv, PhasesOK
<1>2. CASE previous_wr_i[m] # 0
  <2>1. reqs_in_transit[m] = 0
      BY <1>2 DEF IInv, PhasesOK
  <2>. QED
      BY <2>1, NothingCounted
<1>. QED
    BY <1>1, <1>2

\* Buffers that are marked used are counted.
LEMMA BuffersMarked ==
    ASSUME NEW m \in Machine, NEW f \in [Others(m) -> 0..1], NEW P \in SUBSET Others(m),
           \A r \in P : f[r] = 0, NEW g \in [Others(m) -> 0..1],
           \A r \in Others(m) : g[r] = IF r \in P THEN 1 ELSE f[r]
    PROVE  /\ SumFunction(f) \in Nat /\ Cardinality(P) \in Nat
           /\ SumFunction(g) = SumFunction(f) + Cardinality(P)
<1>1. IsFiniteSet(Others(m)) /\ IsFiniteSet(P) /\ Cardinality(P) \in Nat /\ 1 \in Nat
    BY SMTT(120), OthersFinite, FS_Subset, FS_CardinalityType
<1>2. /\ SumFunction(f) = SumFunctionOnSet(f, Others(m)) /\ SumFunction(f) \in Nat
      /\ SumFunction(g) = SumFunctionOnSet(g, Others(m))
    BY <1>1, RowSum
<1>3. \A x \in Others(m) : f[x] \in Nat
    BY SMTT(120)
<1>4. /\ \A x \in P : f[x] = 0 /\ g[x] = 1
      /\ \A x \in Others(m) \ P : g[x] = f[x]
    OBVIOUS
<1>5. SumFunctionOnSet(g, Others(m)) = SumFunctionOnSet(f, Others(m)) + Cardinality(P)
    BY SMTT(120), <1>1, <1>3, <1>4, SumSetBits
<1>. QED
    BY <1>1, <1>2, <1>5

\* A buffer that is free has no request: none in flight, collected or answered.
LEMMA FreeBuffer ==
    ASSUME IInv, NEW m \in Machine, NEW r \in Others(m), bufferused[m][r] = 0
    PROVE  data_reqs[m][r] = <<>> /\ Mine(handle[r], m) = {} /\ data_resps[m][r] = <<>>
<1>. DEFINE a == Len(data_reqs[m][r])
            b == Cardinality(Collected(r, m))
            c == Len(data_resps[m][r])
<1>1. StateOK /\ RequestsOK
    BY DEF IInv
<1>2. /\ a \in Nat /\ b \in Nat /\ c \in Nat
      /\ Collected(r, m) = Mine(handle[r], m) /\ (b = 0 => Collected(r, m) = {})
    BY <1>1, OutstandingParts
<1>3. a + b + c = 0
    BY <1>1 DEF RequestsOK, Outstanding
<1>4. data_reqs[m][r] \in Seq(Seq(Machine)) /\ data_resps[m][r] \in Seq(Seq(Machine))
    BY <1>1 DEF StateOK, IsTable
<1>. HIDE DEF a, b, c
<1>5. a = 0 /\ b = 0 /\ c = 0
    BY SMTT(120), <1>2, <1>3
<1>. QED
    BY <1>2, <1>4, <1>5, EmptySeq DEF a, c

\* broadcast_cache_ops and send_requests.
LEMMA SendStep ==
    ASSUME IInv, NEW m \in Machine, Send(m)
    PROVE  IInv'
<1>. DEFINE U == {r \in Others(m) : cidx[m] > 0}
            K == {r \in Others(m) : idx[m][r] > 0}
            used == [r \in Others(m) |-> IF r \in U THEN 1 ELSE cache_bufferused[m][r]]
            updates == [r \in Others(m) |-> IF r \in U THEN Append(cache_reqs[m][r], cidx[m])
                                                       ELSE cache_reqs[m][r]]
            data == [r \in Others(m) |-> IF r \in K THEN 1 ELSE bufferused[m][r]]
            room == [r \in Others(m) |-> IF r \in K THEN idx[m][r] ELSE eresp[m][r]]
            colds == [r \in Others(m) |->
                         IF r \in K THEN Append(data_reqs[m][r], Ops(m, idx[m][r]))
                                    ELSE data_reqs[m][r]]
            none == [r \in Others(m) |-> 0]
<1>1. /\ pc[m] = "send" /\ CacheBuffersFree(m) /\ DataBuffersFree(m)
      /\ wr_i' = wr_i /\ previous_wr_i' = previous_wr_i
      /\ handle' = handle /\ op_ptr_arr' = op_ptr_arr
      /\ cache_resps' = cache_resps /\ data_resps' = data_resps
    BY SMTT(120) DEF Send, worker
<1>2. /\ cache_bufferused' = [cache_bufferused EXCEPT ![m] = used]
      /\ cache_reqs' = [cache_reqs EXCEPT ![m] = updates]
      /\ bufferused' = [bufferused EXCEPT ![m] = data]
      /\ eresp' = [eresp EXCEPT ![m] = room]
      /\ data_reqs' = [data_reqs EXCEPT ![m] = colds]
      /\ reqs_in_transit' = [reqs_in_transit EXCEPT ![m] =
              reqs_in_transit[m] + Cardinality(U) + Cardinality(K)]
      /\ cidx' = [cidx EXCEPT ![m] = 0]
      /\ idx' = [idx EXCEPT ![m] = none]
      /\ pc' = [pc EXCEPT ![m] = "poll"]
    BY DEF Send, Ops
<1>3. StateOK /\ RequestsOK /\ BroadcastsOK /\ HandlesOK
    BY DEF IInv
<1>4. /\ cidx[m] \in HotWrites \cup {0} /\ cidx[m] \in Nat
      /\ cidx[m] > 0 => cidx[m] \in HotWrites \ {0}
  <2>1. cidx[m] \in HotWrites \cup {0} /\ HotWrites \subseteq Nat
      BY <1>3, BatchAssumption DEF StateOK
  <2>2. 0 \in Nat /\ ~ (0 > 0)
      BY SMTT(120)
  <2>. QED
      BY <2>1, <2>2
<1>5. ASSUME NEW r \in Others(m)
      PROVE  /\ idx[m][r] \in 0..KVS_BATCH /\ idx[m][r] \in Nat
             /\ r \in K => idx[m][r] \in 1..KVS_BATCH
             /\ cache_reqs[m][r] \in Seq(HotWrites \ {0}) /\ cache_resps[m][r] \in Nat
             /\ data_reqs[m][r] \in Seq(Seq(Machine)) /\ eresp[m][r] \in 0..KVS_BATCH
             /\ bufferused[m][r] \in 0..1 /\ cache_bufferused[m][r] \in 0..1
  <2>1. /\ idx[m][r] \in 0..KVS_BATCH
        /\ cache_reqs[m][r] \in Seq(HotWrites \ {0}) /\ cache_resps[m][r] \in Nat
        /\ data_reqs[m][r] \in Seq(Seq(Machine)) /\ eresp[m][r] \in 0..KVS_BATCH
        /\ bufferused[m][r] \in 0..1 /\ cache_bufferused[m][r] \in 0..1
      BY <1>3 DEF StateOK, IsTable
  <2>2. idx[m][r] \in Nat /\ (idx[m][r] > 0 => idx[m][r] \in 1..KVS_BATCH)
      BY SMTT(120), <2>1
  <2>. QED
      BY <2>1, <2>2
<1>6. /\ \A r \in K : bufferused[m][r] = 0
      /\ \A r \in U : cache_bufferused[m][r] = 0
    BY <1>1 DEF DataBuffersFree, CacheBuffersFree
<1>7. \A r \in K : /\ Ops(m, idx[m][r]) \in Seq(Machine)
                   /\ Append(data_reqs[m][r], Ops(m, idx[m][r])) \in Seq(Seq(Machine))
  <2>1. \A r \in K : Ops(m, idx[m][r]) \in Seq(Machine)
      BY <1>5, OpsSeq
  <2>. QED
      BY <1>5, <2>1, AppendProperties
<1>8. RowSet(cache_bufferused', cache_bufferused, m, used, 0..1)
  <2>1. used \in [Others(m) -> 0..1]
    <3>1. 1 \in 0..1
        BY SMTT(120)
    <3>. QED
        BY <1>5, <3>1
  <2>2. IsTable(cache_bufferused, 0..1)
      BY <1>3 DEF StateOK
  <2>. HIDE DEF used
  <2>. QED
      BY <1>2, <2>1, <2>2, TableRow
<1>9. RowSet(cache_reqs', cache_reqs, m, updates, Seq(HotWrites \ {0}))
  <2>1. updates \in [Others(m) -> Seq(HotWrites \ {0})]
    <3>1. ASSUME NEW r \in Others(m), cidx[m] > 0
          PROVE  Append(cache_reqs[m][r], cidx[m]) \in Seq(HotWrites \ {0})
        BY <1>4, <1>5, <3>1, AppendProperties
    <3>. QED
        BY <1>5, <3>1
  <2>2. IsTable(cache_reqs, Seq(HotWrites \ {0}))
      BY <1>3 DEF StateOK
  <2>. HIDE DEF updates
  <2>. QED
      BY <1>2, <2>1, <2>2, TableRow
<1>10. RowSet(bufferused', bufferused, m, data, 0..1)
  <2>1. data \in [Others(m) -> 0..1]
    <3>1. 1 \in 0..1
        BY SMTT(120)
    <3>. QED
        BY <1>5, <3>1
  <2>2. IsTable(bufferused, 0..1)
      BY <1>3 DEF StateOK
  <2>. HIDE DEF data
  <2>. QED
      BY <1>2, <2>1, <2>2, TableRow
<1>11. RowSet(eresp', eresp, m, room, 0..KVS_BATCH)
  <2>1. room \in [Others(m) -> 0..KVS_BATCH]
      BY <1>5
  <2>2. IsTable(eresp, 0..KVS_BATCH)
      BY <1>3 DEF StateOK
  <2>. HIDE DEF room
  <2>. QED
      BY <1>2, <2>1, <2>2, TableRow
<1>12. RowSet(data_reqs', data_reqs, m, colds, Seq(Seq(Machine)))
  <2>1. colds \in [Others(m) -> Seq(Seq(Machine))]
      BY <1>5, <1>7
  <2>2. IsTable(data_reqs, Seq(Seq(Machine)))
      BY <1>3 DEF StateOK
  <2>. HIDE DEF colds
  <2>. QED
      BY <1>2, <2>1, <2>2, TableRow
<1>13. RowSet(idx', idx, m, none, 0..KVS_BATCH)
  <2>1. none \in [Others(m) -> 0..KVS_BATCH]
    <3>1. 0 \in 0..KVS_BATCH
        BY SMTT(120), BatchAssumption
    <3>. QED
        BY <3>1
  <2>2. IsTable(idx, 0..KVS_BATCH)
      BY <1>3 DEF StateOK
  <2>. HIDE DEF none
  <2>. QED
      BY <1>2, <2>1, <2>2, TableRow
<1>21. \A r \in Others(m) :
           /\ used[r] = IF r \in U THEN 1 ELSE cache_bufferused[m][r]
           /\ updates[r] = IF r \in U THEN Append(cache_reqs[m][r], cidx[m])
                                     ELSE cache_reqs[m][r]
           /\ data[r] = IF r \in K THEN 1 ELSE bufferused[m][r]
           /\ room[r] = IF r \in K THEN idx[m][r] ELSE eresp[m][r]
           /\ colds[r] = IF r \in K THEN Append(data_reqs[m][r], Ops(m, idx[m][r]))
                                   ELSE data_reqs[m][r]
           /\ none[r] = 0
    OBVIOUS
<1>22. /\ \A r \in U : r \in Others(m) /\ cidx[m] > 0
       /\ \A r \in K : r \in Others(m) /\ idx[m][r] > 0
       /\ \A r \in Others(m) \ K : ~ (idx[m][r] > 0)
    OBVIOUS
<1>. HIDE DEF U, K, used, updates, data, room, colds, none
<1>14. /\ SumFunction(cache_bufferused'[m]) = SumFunction(cache_bufferused[m]) + Cardinality(U)
       /\ SumFunction(bufferused'[m]) = SumFunction(bufferused[m]) + Cardinality(K)
       /\ SumFunction(cache_bufferused[m]) \in Nat /\ SumFunction(bufferused[m]) \in Nat
       /\ Cardinality(U) \in Nat /\ Cardinality(K) \in Nat
  <2>1. U \in SUBSET Others(m) /\ K \in SUBSET Others(m)
      BY <1>22
  <2>2. /\ cache_bufferused[m] \in [Others(m) -> 0..1] /\ used \in [Others(m) -> 0..1]
        /\ bufferused[m] \in [Others(m) -> 0..1] /\ data \in [Others(m) -> 0..1]
        /\ cache_bufferused'[m] = used /\ bufferused'[m] = data
      BY <1>3, <1>8, <1>10 DEF StateOK, IsTable, RowSet
  <2>3. /\ SumFunction(cache_bufferused[m]) \in Nat /\ Cardinality(U) \in Nat
        /\ SumFunction(used) = SumFunction(cache_bufferused[m]) + Cardinality(U)
      BY SMTT(120), <1>6, <1>21, <2>1, <2>2, BuffersMarked
  <2>4. /\ SumFunction(bufferused[m]) \in Nat /\ Cardinality(K) \in Nat
        /\ SumFunction(data) = SumFunction(bufferused[m]) + Cardinality(K)
      BY SMTT(120), <1>6, <1>21, <2>1, <2>2, BuffersMarked
  <2>. QED
      BY <2>2, <2>3, <2>4
<1>15. /\ reqs_in_transit' \in [Machine -> Nat]
       /\ reqs_in_transit'[m] = SumFunction(bufferused'[m]) + SumFunction(cache_bufferused'[m])
       /\ \A x \in Machine \ {m} : reqs_in_transit'[x] = reqs_in_transit[x]
  <2>. DEFINE a == SumFunction(bufferused[m])
              b == SumFunction(cache_bufferused[m])
              u == Cardinality(U)
              k == Cardinality(K)
  <2>1. /\ reqs_in_transit \in [Machine -> Nat] /\ reqs_in_transit[m] = a + b
        /\ reqs_in_transit' = [reqs_in_transit EXCEPT ![m] = reqs_in_transit[m] + u + k]
        /\ a \in Nat /\ b \in Nat /\ u \in Nat /\ k \in Nat
        /\ SumFunction(cache_bufferused'[m]) = b + u /\ SumFunction(bufferused'[m]) = a + k
      BY <1>2, <1>3, <1>14 DEF StateOK, IInv, CountsOK
  <2>. HIDE DEF a, b, u, k
  <2>2. (a + b) + u + k \in Nat /\ (a + b) + u + k = (a + k) + (b + u)
      BY SMTT(120), <2>1
  <2>. QED
      BY <2>1, <2>2
<1>16. /\ cidx' \in [Machine -> HotWrites \cup {0}] /\ cidx'[m] = 0
       /\ pc' \in [Machine -> {"prepare", "wait", "send", "poll", "aborted"}]
       /\ pc'[m] = "poll"
       /\ \A x \in Machine \ {m} : cidx'[x] = cidx[x] /\ pc'[x] = pc[x]
    BY <1>2, <1>3 DEF StateOK
<1>17. StateOK'
    BY <1>1, <1>3, <1>8, <1>9, <1>10, <1>11, <1>12, <1>13, <1>15, <1>16
       DEF StateOK, IsTable, RowSet
<1>18. BroadcastsOK'
  <2>. SUFFICES ASSUME NEW x \in Machine, NEW y \in Others(x)
                PROVE  Len(cache_reqs'[x][y]) + cache_resps[x][y] = cache_bufferused'[x][y]
      BY <1>1 DEF BroadcastsOK
  <2>1. Len(cache_reqs[x][y]) + cache_resps[x][y] = cache_bufferused[x][y]
      BY <1>3 DEF BroadcastsOK
  <2>2. CASE x = m /\ y \in U
    <3>1. /\ cache_reqs'[x][y] = Append(cache_reqs[m][y], cidx[m])
          /\ cache_bufferused'[x][y] = 1 /\ y \in Others(m) /\ cidx[m] > 0
      <4>1. cache_reqs'[m][y] = updates[y] /\ cache_bufferused'[m][y] = used[y]
          BY <1>8, <1>9 DEF RowSet
      <4>. QED
          BY <1>21, <1>22, <2>2, <4>1
    <3>2. Len(cache_reqs'[x][y]) = Len(cache_reqs[m][y]) + 1 /\ Len(cache_reqs[m][y]) \in Nat
      <4>. DEFINE V == HotWrites \ {0}
      <4>1. cache_reqs[m][y] \in Seq(V) /\ cidx[m] \in V
          BY <1>4, <1>5, <3>1
      <4>. HIDE DEF V
      <4>2. /\ Len(Append(cache_reqs[m][y], cidx[m])) = Len(cache_reqs[m][y]) + 1
            /\ Len(cache_reqs[m][y]) \in Nat
        <5>1. Len(cache_reqs[m][y]) \in Nat
            BY <4>1, LenProperties
        <5>2. Len(Append(cache_reqs[m][y], cidx[m])) = Len(cache_reqs[m][y]) + 1
            BY <4>1, AppendProperties
        <5>. QED
            BY <5>1, <5>2
      <4>. QED
          BY <3>1, <4>2
    <3>3. cache_resps[m][y] \in Nat /\ Len(cache_reqs[m][y]) + cache_resps[m][y] = 0
        BY <1>5, <1>6, <2>1, <2>2, <3>1
    <3>. DEFINE a == Len(cache_reqs[m][y])
                b == cache_resps[m][y]
    <3>. HIDE DEF a, b
    <3>4. a + 1 + b = 1
        BY SMTT(120), <3>2, <3>3 DEF a, b
    <3>. QED
        BY <2>2, <3>1, <3>2, <3>4 DEF a, b
  <2>3. CASE ~ (x = m /\ y \in U)
    <3>1. cache_reqs'[x][y] = cache_reqs[x][y] /\ cache_bufferused'[x][y] = cache_bufferused[x][y]
        BY <1>8, <1>9, <1>21, <2>3 DEF RowSet
    <3>. QED
        BY <2>1, <3>1
  <2>. QED
      BY <2>2, <2>3
<1>19. ASSUME NEW x \in Machine, NEW y \in Others(x), ~ (x = m /\ y \in K)
       PROVE  /\ bufferused'[x][y] = bufferused[x][y] /\ eresp'[x][y] = eresp[x][y]
              /\ data_reqs'[x][y] = data_reqs[x][y]
  <2>1. CASE x = m
      BY <1>10, <1>11, <1>12, <1>19, <1>21, <2>1 DEF RowSet
  <2>2. CASE x # m
      BY <1>10, <1>11, <1>12, <2>2 DEF RowSet
  <2>. QED
      BY <2>1, <2>2
<1>20. ASSUME NEW y \in K
       PROVE  /\ y \in Others(m) /\ bufferused'[m][y] = 1 /\ eresp'[m][y] = idx[m][y]
              /\ data_reqs'[m][y] = Append(<<>>, Ops(m, idx[m][y]))
              /\ Mine(handle[y], m) = {} /\ data_resps[m][y] = <<>>
  <2>1. y \in Others(m) /\ bufferused[m][y] = 0
      BY <1>6, <1>22
  <2>2. data_reqs[m][y] = <<>> /\ Mine(handle[y], m) = {} /\ data_resps[m][y] = <<>>
      BY <2>1, FreeBuffer
  <2>. QED
      BY <1>10, <1>11, <1>12, <1>21, <2>1, <2>2 DEF RowSet
<1>23. RequestsOK'
  <2>. SUFFICES ASSUME NEW x \in Machine, NEW y \in Others(x)
                PROVE  /\ Outstanding(x, y)' = bufferused'[x][y]
                       /\ bufferused'[x][y] = 1 => eresp'[x][y] # 0
                       /\ \A k \in DOMAIN data_reqs'[x][y] :
                             data_reqs'[x][y][k] = Ops(x, eresp'[x][y])
                       /\ \A k \in DOMAIN data_resps[x][y] :
                             data_resps[x][y][k] = Ops(x, eresp'[x][y])
      BY <1>1 DEF RequestsOK
  <2>1. Outstanding(x, y)' = Len(data_reqs'[x][y]) + Cardinality(Mine(handle[y], x))
                             + Len(data_resps[x][y])
      BY <1>1 DEF Outstanding, Collected, Mine
  <2>2. CASE x = m /\ y \in K
    <3>. DEFINE a == Ops(m, idx[m][y])
    <3>1. a \in Seq(Machine)
        BY <1>7, <2>2
    <3>. HIDE DEF a
    <3>2. /\ Len(Append(<<>>, a)) = 0 + 1 /\ DOMAIN Append(<<>>, a) = 1..1
          /\ Append(<<>>, a)[1] = a /\ Len(<<>>) = 0
          /\ 0 + 1 = 1 /\ 1 + 0 + 0 = 1 /\ \A k \in 1..1 : k = 1
      <4>1. 0 + 1 = 1 /\ 1 + 0 + 0 = 1 /\ \A k \in 1..1 : k = 1
          BY SMTT(120)
      <4>2. <<>> \in Seq(Seq(Machine)) /\ Len(<<>>) = 0
          BY EmptySeq
      <4>3. /\ Append(<<>>, a) \in Seq(Seq(Machine))
            /\ Len(Append(<<>>, a)) = 0 + 1 /\ Append(<<>>, a)[0 + 1] = a
          BY <3>1, <4>2, AppendProperties
      <4>. QED
          BY <4>1, <4>2, <4>3, LenProperties
    <3>3. /\ bufferused'[x][y] = 1 /\ eresp'[x][y] = idx[m][y] /\ y \in Others(m)
          /\ data_reqs'[x][y] = Append(<<>>, a)
          /\ Mine(handle[y], x) = {} /\ data_resps[x][y] = <<>>
        BY <1>20, <2>2 DEF a
    <3>4. Len(data_reqs'[x][y]) + Cardinality(Mine(handle[y], x)) + Len(data_resps[x][y]) = 1
      <4>1. Cardinality(Mine(handle[y], x)) = 0
          BY <3>3, FS_EmptySet
      <4>. QED
          BY <3>2, <3>3, <4>1
    <3>5. idx[m][y] # 0
        BY SMTT(120), <1>5, <1>22, <2>2
    <3>6. \A k \in DOMAIN data_resps[x][y] : FALSE
        BY SMTT(120), <3>3
    <3>7. \A k \in DOMAIN data_reqs'[x][y] : data_reqs'[x][y][k] = Ops(x, eresp'[x][y])
        BY <2>2, <3>2, <3>3 DEF a
    <3>. QED
        BY <2>1, <3>3, <3>4, <3>5, <3>6, <3>7
  <2>3. CASE ~ (x = m /\ y \in K)
    <3>1. /\ Outstanding(x, y) = bufferused[x][y]
          /\ bufferused[x][y] = 1 => eresp[x][y] # 0
          /\ \A k \in DOMAIN data_reqs[x][y] : data_reqs[x][y][k] = Ops(x, eresp[x][y])
          /\ \A k \in DOMAIN data_resps[x][y] : data_resps[x][y][k] = Ops(x, eresp[x][y])
        BY <1>3 DEF RequestsOK
    <3>2. /\ bufferused'[x][y] = bufferused[x][y] /\ eresp'[x][y] = eresp[x][y]
          /\ data_reqs'[x][y] = data_reqs[x][y]
        BY <1>19, <2>3
    <3>3. Outstanding(x, y)' = Outstanding(x, y)
        BY <2>1, <3>2 DEF Outstanding, Collected, Mine
    <3>. QED
        BY <3>1, <3>2, <3>3
  <2>. QED
      BY <2>2, <2>3
<1>24. HandlesOK'
  <2>. SUFFICES ASSUME NEW w \in Machine, NEW i \in DOMAIN handle[w]
                PROVE  /\ handle[w][i].client \in Others(w)
                       /\ handle[w][i].ops_in_req = eresp'[handle[w][i].client][w]
      BY <1>1 DEF HandlesOK
  <2>. DEFINE c == handle[w][i].client
  <2>1. c \in Others(w) /\ handle[w][i].ops_in_req = eresp[c][w]
      BY <1>3 DEF HandlesOK
  <2>2. c \in Machine /\ w \in Others(c)
      BY <2>1 DEF Others
  <2>3. ~ (c = m /\ w \in K)
    <3>1. i \in Mine(handle[w], c)
        BY DEF Mine
    <3>. QED
        BY <1>20, <3>1
  <2>. HIDE DEF c
  <2>4. eresp'[c][w] = eresp[c][w]
      BY <1>19, <2>2, <2>3
  <2>. QED
      BY <2>1, <2>4 DEF c
<1>25. CountsOK'
  <2>1. \A x \in Machine \ {m} : /\ bufferused'[x] = bufferused[x]
                                 /\ cache_bufferused'[x] = cache_bufferused[x]
      BY <1>8, <1>10 DEF RowSet
  <2>2. CountsOK
      BY DEF IInv
  <2>. QED
      BY <1>15, <2>1, <2>2 DEF CountsOK
<1>26. PhasesOK'
  <2>1. \A x \in Machine \ {m} : idx'[x] = idx[x] /\ bufferused'[x] = bufferused[x]
      BY <1>10, <1>13 DEF RowSet
  <2>2. PhasesOK
      BY DEF IInv
  <2>3. ASSUME NEW x \in Machine \ {m}
        PROVE  NoDataInTransit(x)' <=> NoDataInTransit(x)
      BY <2>1 DEF NoDataInTransit
  <2>4. idx'[m] = none /\ \A r \in Others(m) : idx'[m][r] = 0
      BY <1>13, <1>21 DEF RowSet
  <2>5. wr_i[m] = 0 => NoDataInTransit(m)'
    <3>. SUFFICES ASSUME wr_i[m] = 0, NEW r \in Others(m) PROVE bufferused'[m][r] = 0
        BY DEF NoDataInTransit
    <3>1. SumFunction(idx[m]) = 0
        BY <1>1, <2>2 DEF PhasesOK
    <3>2. idx[m] \in [Others(m) -> 0..KVS_BATCH] /\ KVS_BATCH \in Nat
        BY <1>3, BatchAssumption DEF StateOK, IsTable
    <3>3. idx[m][r] = 0
        BY <3>1, <3>2, RowSum
    <3>4. r \notin K
        BY SMTT(120), <1>22, <3>3
    <3>5. bufferused[m][r] = 0
        BY <1>1, SendsWithDataFree DEF NoDataInTransit
    <3>. QED
        BY <1>19, <3>4, <3>5
  <2>6. ASSUME NEW x \in Machine \ {m}
        PROVE  /\ pc'[x] = pc[x] /\ cidx'[x] = cidx[x] /\ idx'[x] = idx[x]
               /\ reqs_in_transit'[x] = reqs_in_transit[x]
      BY <1>15, <1>16, <2>1
  <2>7. ASSUME NEW x \in Machine
        PROVE  /\ pc'[x] \in {"prepare", "poll"} =>
                     /\ cidx'[x] = 0
                     /\ \A r \in Others(x) : idx'[x][r] = 0
                     /\ wr_i'[x] = 0 => NoDataInTransit(x)'
               /\ pc'[x] \in {"wait", "send", "aborted"} =>
                     /\ wr_i'[x] = SumFunction(idx'[x])
                     /\ previous_wr_i'[x] = 0 => NoDataInTransit(x)'
               /\ pc'[x] \in {"send", "aborted"} /\ previous_wr_i'[x] # 0 =>
                     reqs_in_transit'[x] = 0
    <3>1. CASE x = m
        BY <1>1, <1>16, <2>4, <2>5, <3>1
    <3>2. CASE x # m
      <4>1. /\ pc'[x] = pc[x] /\ cidx'[x] = cidx[x] /\ idx'[x] = idx[x]
            /\ reqs_in_transit'[x] = reqs_in_transit[x] /\ wr_i'[x] = wr_i[x]
            /\ previous_wr_i'[x] = previous_wr_i[x]
            /\ NoDataInTransit(x)' <=> NoDataInTransit(x)
          BY <1>1, <2>3, <2>6, <3>2
      <4>. QED
          BY <2>2, <4>1 DEF PhasesOK
    <3>. QED
        BY <3>1, <3>2
  <2>. QED
      BY <2>7 DEF PhasesOK
<1>27. ArraysOK'
    BY <1>1, KeepArrays DEF IInv
<1>. QED
    BY <1>17, <1>18, <1>23, <1>24, <1>25, <1>26, <1>27 DEF IInv

-----------------------------------------------------------------------------
(* The theorems.                                                             *)

\* Every step keeps the invariant.
LEMMA NextStep == IInv /\ [Next]_vars => IInv'
<1>. SUFFICES ASSUME IInv, [Next]_vars PROVE IInv'
    OBVIOUS
<1>1. CASE UNCHANGED vars
  <2>1. /\ pc' = pc /\ cidx' = cidx /\ idx' = idx /\ wr_i' = wr_i
        /\ previous_wr_i' = previous_wr_i /\ bufferused' = bufferused
        /\ cache_bufferused' = cache_bufferused /\ eresp' = eresp
        /\ reqs_in_transit' = reqs_in_transit /\ handle' = handle /\ op_ptr_arr' = op_ptr_arr
        /\ cache_reqs' = cache_reqs /\ cache_resps' = cache_resps
        /\ data_reqs' = data_reqs /\ data_resps' = data_resps
      BY SMTT(120), <1>1 DEF vars, batch, buffers, worker, cache_net, data_net
  <2>2. StateOK'
      BY <2>1 DEF IInv, StateOK, IsTable
  <2>3. PhasesOK'
      BY <2>1, KeepPhases DEF IInv, NoDataInTransit
  <2>. QED
      BY <2>1, <2>2, <2>3, KeepBroadcasts, KeepRequests, KeepHandles, KeepArrays, KeepCounts
         DEF IInv
<1>2. CASE Next
  <2>1. PICK m \in Machine :
            \/ Loop(m)
            \/ DrainBatch(m)
            \/ \E r \in Others(m) :
                  ReqCache(m, r) \/ CacheResponse(m, r) \/ ReceiveResponse(m, r)
                  \/ ReqHandler(m, r)
      BY <1>2 DEF Next
  <2>2. CASE Loop(m)
      BY <2>2, PrepareStep, MoveStep, SendStep DEF Loop
  <2>3. CASE DrainBatch(m)
      BY <2>3, DrainBatchStep
  <2>4. ASSUME NEW r \in Others(m),
               ReqCache(m, r) \/ CacheResponse(m, r) \/ ReceiveResponse(m, r)
               \/ ReqHandler(m, r)
        PROVE  IInv'
      BY <2>4, ReqCacheStep, CacheResponseStep, ReceiveResponseStep, ReqHandlerStep
  <2>. QED
      BY <2>1, <2>2, <2>3, <2>4
<1>. QED
    BY <1>1, <1>2

\* The invariant holds in every reachable state, whatever the number of machines, the
\* batch size, the hot writes of a batch and the homes of the cold keys.
THEOREM Invariant == Spec => []IInv
BY InitInv, NextStep, PTL DEF Spec

\* The client's count, its two arrays of buffers and the requests under way always
\* agree, through every interleaving of the clients' loops, the continuations and the
\* workers: waiting for reqs_in_transit to reach zero is waiting for every answer.
THEOREM AlwaysAccounted == Spec => []RequestsAccounted
<1>1. IInv => RequestsAccounted
    BY DEF IInv, BroadcastsOK, RequestsOK, CountsOK, RequestsAccounted
<1>. QED
    BY <1>1, Invariant, PTL

\* A drain of requests of several clients gives each the results of its own
\* operations, as many as eresp has room for.
THEOREM AnswersAlwaysMatch == Spec => []AnswersMatchRequests
<1>1. IInv => AnswersMatchRequests
    BY DEF IInv, RequestsOK, AnswersMatchRequests, Ops
<1>. QED
    BY <1>1, Invariant, PTL

\* A worker's arrays have room however many requests it collects before it drains.
THEOREM ArraysAlwaysSuffice == Spec => []WorkerArraysSuffice
<1>1. ASSUME IInv, NEW w \in Machine
      PROVE  Len(handle[w]) < MACHINE_NUM /\ Len(op_ptr_arr[w]) < WORKER_MAX_BATCH
  <2>1. /\ handle[w] \in Seq(Request)
        /\ \A i \in DOMAIN handle[w] : handle[w][i].client \in Others(w)
        /\ \A m \in Others(w) : Cardinality(Mine(handle[w], m)) <= 1
        /\ Laid(handle[w], op_ptr_arr[w])
    <3>1. handle[w] \in Seq(Request)
        BY <1>1 DEF IInv, StateOK
    <3>2. \A i \in DOMAIN handle[w] : handle[w][i].client \in Others(w)
        BY <1>1 DEF IInv, HandlesOK
    <3>. QED
        BY <1>1, <3>1, <3>2, CollectedOnce, ArraysLaid DEF IInv
  <2>2. /\ Len(handle[w]) <= MACHINE_NUM - 1
        /\ Start(handle[w], Len(handle[w]) + 1) < WORKER_MAX_BATCH
      BY <2>1, FewRequests
  <2>3. Len(handle[w]) \in Nat /\ MACHINE_NUM \in Nat
      BY <2>1, LenProperties, OthersFinite
  <2>. DEFINE l == Len(handle[w])
              n == MACHINE_NUM
  <2>. HIDE DEF l, n
  <2>4. l < n
      BY SMTT(120), <2>2, <2>3 DEF l, n
  <2>. QED
      BY <2>1, <2>2, <2>4 DEF l, n, Laid
<1>2. IInv => WorkerArraysSuffice
    BY <1>1 DEF WorkerArraysSuffice
<1>. QED
    BY <1>2, Invariant, PTL

\* A client aborts only when it did not wait.
AbortsOK == \A m \in Machine : pc[m] = "aborted" => previous_wr_i[m] = 0

\* No step breaks this: a client whose previous batch had cold requests has waited for
\* all its buffers, and then neither assertion fails.
LEMMA AbortStep == IInv /\ AbortsOK /\ [Next]_vars => AbortsOK'
<1>. SUFFICES ASSUME IInv, AbortsOK, [Next]_vars PROVE AbortsOK'
    OBVIOUS
<1>1. CASE pc' = pc /\ previous_wr_i' = previous_wr_i
    BY <1>1 DEF AbortsOK
<1>2. CASE UNCHANGED vars
  <2>1. pc' = pc /\ previous_wr_i' = previous_wr_i
      BY SMTT(120), <1>2 DEF vars, batch
  <2>. QED
      BY <1>1, <2>1
<1>3. ASSUME NEW m \in Machine,
             Prepare(m) \/ EndWait(m) \/ Send(m) \/ EndPoll(m)
      PROVE  AbortsOK'
  <2>1. PICK new \in {"prepare", "wait", "send", "poll"} : pc' = [pc EXCEPT ![m] = new]
      BY <1>3 DEF Prepare, AfterPrepare, EndWait, Send, EndPoll
  <2>2. \A x \in Machine \ {m} : previous_wr_i'[x] = previous_wr_i[x]
      BY SMTT(120), <1>3 DEF Prepare, EndWait, Send, EndPoll, batch, IInv, StateOK
  <2>3. pc'[m] = new /\ \A x \in Machine \ {m} : pc'[x] = pc[x]
      BY <2>1 DEF IInv, StateOK
  <2>4. new # "aborted"
      BY SMTT(120), <2>1
  <2>. QED
      BY <2>2, <2>3, <2>4 DEF AbortsOK
<1>4. ASSUME NEW m \in Machine, Abort(m)
      PROVE  AbortsOK'
  <2>1. /\ pc[m] = "send" /\ ~ (CacheBuffersFree(m) /\ DataBuffersFree(m))
        /\ pc' = [pc EXCEPT ![m] = "aborted"] /\ previous_wr_i' = previous_wr_i
      BY SMTT(120), <1>4 DEF Abort, batch
  <2>2. previous_wr_i[m] = 0
    <3>. SUFFICES ASSUME previous_wr_i[m] # 0 PROVE FALSE
        OBVIOUS
    <3>1. reqs_in_transit[m] = 0
        BY <2>1 DEF IInv, PhasesOK
    <3>2. \A r \in Others(m) : bufferused[m][r] = 0 /\ cache_bufferused[m][r] = 0
        BY <3>1, NothingCounted DEF NoDataInTransit
    <3>. QED
        BY <2>1, <3>2 DEF CacheBuffersFree, DataBuffersFree
  <2>3. \A x \in Machine \ {m} : pc'[x] = pc[x]
      BY <2>1 DEF IInv, StateOK
  <2>. QED
      BY <2>1, <2>2, <2>3 DEF AbortsOK
<1>5. ASSUME NEW m \in Machine, DrainBatch(m)
      PROVE  pc' = pc /\ previous_wr_i' = previous_wr_i
    BY SMTT(120), <1>5 DEF DrainBatch, batch
<1>6. ASSUME NEW m \in Machine, NEW r \in Others(m),
             ReqCache(m, r) \/ CacheResponse(m, r) \/ ReceiveResponse(m, r)
      PROVE  pc' = pc /\ previous_wr_i' = previous_wr_i
    BY SMTT(120), <1>6 DEF ReqCache, CacheResponse, ReceiveResponse, batch
<1>7. ASSUME NEW m \in Machine, NEW r \in Others(m), ReqHandler(m, r)
      PROVE  pc' = pc /\ previous_wr_i' = previous_wr_i
  <2>1. previous_wr_i' = previous_wr_i
      BY SMTT(120), <1>7 DEF ReqHandler, batch
  <2>. QED
      BY <1>7, <2>1, ReqHandlerStep
<1>. QED
    BY <1>1, <1>2, <1>3, <1>4, <1>5, <1>6, <1>7 DEF Next, Loop

\* The assertion of send_requests never fails, that of broadcast_cache_ops only after
\* a batch without cold requests, and that of req_handler never.
THEOREM AbortsOnlyWithoutWait == Spec => []AbortNeedsColdFreeBatch
<1>1. Init => AbortsOK
    BY SMTT(120) DEF Init, AbortsOK
<1>2. IInv /\ AbortsOK => AbortNeedsColdFreeBatch
    BY SendsWithDataFree DEF AbortNeedsColdFreeBatch, AbortsOK, DataBuffersFree, NoDataInTransit
<1>. QED
    BY <1>1, <1>2, AbortStep, Invariant, PTL DEF Spec

\* Every variable keeps its type, and the counters stay within the buffers they count.
THEOREM TypeCorrect == Spec => []TypeOK
<1>1. ASSUME IInv, NEW m \in Machine
      PROVE  reqs_in_transit[m] \in 0..(2 * (MACHINE_NUM - 1))
  <2>. DEFINE a == SumFunction(bufferused[m])
              b == SumFunction(cache_bufferused[m])
              n == MACHINE_NUM
              q == reqs_in_transit[m]
  <2>1. /\ bufferused[m] \in [Others(m) -> 0..1]
        /\ cache_bufferused[m] \in [Others(m) -> 0..1] /\ 1 \in Nat
      BY SMTT(120), <1>1 DEF IInv, StateOK, IsTable
  <2>2. a \in Nat /\ a <= 1 * (n - 1) /\ b \in Nat /\ b <= 1 * (n - 1)
      BY <2>1, RowSum
  <2>3. n \in Nat /\ n >= 2 /\ q = a + b
      BY <1>1, OthersFinite DEF IInv, CountsOK
  <2>. HIDE DEF a, b, n, q
  <2>4. q \in 0..(2 * (n - 1))
      BY SMTT(120), <2>2, <2>3
  <2>. QED
      BY <2>4 DEF n, q
<1>2. ASSUME IInv, NEW m \in Machine, NEW r \in Others(m)
      PROVE  cache_resps[m][r] \in 0..1
  <2>. DEFINE a == Len(cache_reqs[m][r])
              b == cache_resps[m][r]
              u == cache_bufferused[m][r]
  <2>1. cache_reqs[m][r] \in Seq(HotWrites \ {0}) /\ b \in Nat /\ u \in 0..1
      BY <1>2 DEF IInv, StateOK, IsTable
  <2>2. a \in Nat /\ a + b = u
      BY <1>2, <2>1, LenProperties DEF IInv, BroadcastsOK
  <2>. HIDE DEF a, b, u
  <2>3. b \in 0..1
      BY SMTT(120), <2>1, <2>2
  <2>. QED
      BY <2>3 DEF b
<1>3. IInv => TypeOK
    BY <1>1, <1>2 DEF IInv, StateOK, IsTable, TypeOK, Request
<1>. QED
    BY <1>3, Invariant, PTL

=============================================================================
