-------------------------- MODULE ClientOpsProofs ---------------------------
(***************************************************************************)
(* The safety properties of ClientOps, for buffers, traces and windows of  *)
(* every size, every number of keys and machines, and both programs.       *)
(***************************************************************************)
EXTENDS ClientOps, Integers, TLAPS

\* Zenon is tried first; SMT is named where a leaf needs arithmetic.
USE ZenonT(120)

-----------------------------------------------------------------------------
(* The inductive invariant.                                                   *)

\* The commands of the trace by number.
Asked == [n \in Nat |-> CommandAt(n)]

\* The buffer is being filled, or its filling was aborted.
Filled == pc \in {"fill", "aborted"}

\* handle_cold_requests is walking the buffer.
Walked == pc \in {"walk", "rest"}

\* The oldest command of the operation.
First(op) == op.commands[1]

\* What the cache may have answered to a command.
Kind(op) ==
    \/ /\ op.key \in Home /\ op.opcode \in {"GET", "PUT"}
       /\ op.type \in {"EMPTY", "CACHE_MISS", "UNSERVED_CACHE_MISS"}
    \/ /\ op.key \in Hot /\ op.opcode = "GET"
       /\ op.type \in {"EMPTY", "CACHE_GET_SUCCESS", "CACHE_GET_STALL"}
    \/ /\ op.key \in Hot /\ op.opcode = "PUT"
       /\ op.type \in {"EMPTY", "CACHE_PUT_FAIL", "CACHE_PUT_STALL"}
    \/ /\ op.key \in Hot /\ op.opcode \in {"BRC", "UPD", "INV"}
       /\ op.type = "CACHE_PUT_SUCCESS"

\* The operation stands for commands of its key, of those taken so far: one,
\* unless it is a read of a hot key.
Genuine(op, taken, asked) ==
    /\ op \in Op /\ Kind(op)
    /\ Len(op.commands) >= 1
    /\ Len(op.commands) = 1 \/ (op.opcode = "GET" /\ op.key \in Hot)
    /\ \A i \in DOMAIN op.commands :
          /\ op.commands[i] \in 1..taken
          /\ asked[op.commands[i]].key = op.key
          /\ asked[op.commands[i]].opcode = "GET" <=> op.opcode = "GET"

\* The cache has still to look at the operation.
Fresh(op, program) ==
    /\ op.type \notin {"CACHE_GET_SUCCESS", "CACHE_PUT_FAIL", "CACHE_MISS"}
    /\ op.opcode \notin {"UPD", "INV"}
    /\ program = "SC" => op.type \in {"EMPTY", "UNSERVED_CACHE_MISS"}

\* The cache has answered.
Replied(op, program) ==
    /\ op.type # "EMPTY"
    /\ program = "SC" => op.type \notin {"CACHE_GET_STALL", "CACHE_PUT_STALL", "CACHE_PUT_FAIL"}

\* Whether operation i of the buffer has been probed in this iteration.
Probed(i) == pc \in {"broadcast", "walk", "rest"} \/ (pc = "probe" /\ i < op_i)

\* What op_i and the buffers are at each place of the loop.
StageInv ==
    /\ Filled => op_i = 1
    /\ pc = "probe" => op_i <= CACHE_BATCH_SIZE
    /\ ~ Filled => Len(ops) = CACHE_BATCH_SIZE
    /\ ~ Walked => next_ops = <<>>

\* The operations of both buffers are genuine, and their types and opcodes are
\* those of the place of the loop: next_ops has only what is to be probed again.
OpsInv ==
    /\ \A i \in DOMAIN ops : Genuine(ops[i], fetched, Asked)
    /\ \A i \in DOMAIN ops : IF Probed(i) THEN Replied(ops[i], protocol)
                                          ELSE Fresh(ops[i], protocol)
    /\ \A i \in DOMAIN ops :
          protocol = "SC" /\ (Walked \/ (pc = "broadcast" /\ i < op_i))
              => ops[i].opcode # "BRC"
    /\ \A i \in DOMAIN next_ops : /\ Genuine(next_ops[i], fetched, Asked)
                                  /\ Fresh(next_ops[i], protocol)
                                  /\ next_ops[i].type # "EMPTY"

\* Operations are in the order of the trace.
OrderInv ==
    /\ \A i, j \in DOMAIN ops : i < j => First(ops[i]) < First(ops[j])
    /\ \A i, j \in DOMAIN next_ops : i < j => First(next_ops[i]) < First(next_ops[j])
    /\ \A i \in DOMAIN next_ops, j \in DOMAIN ops :
          j >= op_i => First(next_ops[i]) < First(ops[j])

\* The cold command n is older than the operation, if they have the same key.
Before(n, op) == Asked[n].key \in Home /\ Asked[n].key = op.key => n < First(op)

\* Cold requests were issued in order, those in the buffers are younger than the
\* issued ones for the same machine, and a miss is only left while its machine or
\* the window is full.
HomeInv ==
    /\ \A i, j \in DOMAIN served :
          i < j /\ Asked[served[i]].key \in Home /\ Asked[served[i]].key = Asked[served[j]].key
              => served[i] < served[j]
    /\ \A i \in DOMAIN served, j \in DOMAIN ops :
          (Walked => j >= op_i) => Before(served[i], ops[j])
    /\ \A i \in DOMAIN served, j \in DOMAIN next_ops : Before(served[i], next_ops[j])
    /\ \A j \in DOMAIN next_ops :
          pc = "walk" /\ next_ops[j].key \in Home
              => per_worker_outstanding[next_ops[j].key] >= KVS_BATCH \/ wr_i >= WINDOW_SIZE

\* Commands m and n of a hot key of which one at least is a write.
Conflict(m, n) ==
    /\ Asked[m].key \in Hot /\ Asked[m].key = Asked[n].key
    /\ "PUT" \in {Asked[m].opcode, Asked[n].opcode}

\* The cache has not been probed with operation i in this iteration.
Toprobe(i) == i \in DOMAIN ops /\ pc \in {"fill", "aborted", "probe"} /\ i >= op_i

\* Conflicting commands were executed in order, will be executed after those
\* before them, and no write follows the read that a pointer leads to.
ReadInv == protocol = "SC" =>
    /\ \A i, j \in DOMAIN served : i < j /\ Conflict(served[i], served[j]) => served[i] < served[j]
    /\ \A i \in DOMAIN served, j \in DOMAIN ops : \A n \in DOMAIN ops[j].commands :
          Toprobe(j) /\ Conflict(served[i], ops[j].commands[n])
              => served[i] < ops[j].commands[n]
    /\ \A i, j \in DOMAIN ops : \A m \in DOMAIN ops[i].commands, n \in DOMAIN ops[j].commands :
          Toprobe(i) /\ i < j /\ Conflict(ops[i].commands[m], ops[j].commands[n])
              => ops[i].commands[m] < ops[j].commands[n]
    /\ \A k \in Tracked, j \in DOMAIN ops :
          Filled /\ hottest_keys_pointers[k] # 0 /\ hottest_keys_pointers[k] < j /\ ops[j].key = k
              => ops[j].opcode = "GET"

\* The walk starts with nothing outstanding, and carries nothing over that is as
\* old as the first operation.
OldestInv == protocol = "SC" /\ Walked =>
    /\ op_i = 1 => /\ pc = "walk" /\ wr_i = 0
                   /\ \A h \in Home : per_worker_outstanding[h] = 0
    /\ \A i \in DOMAIN next_ops : First(ops[1]) < First(next_ops[i])

\* A pointer leads to a read of its key in ops or, once the walk has passed it, in
\* next_ops; the SC client clears the pointers after the walk.
PointersInv ==
    \A k \in Tracked : hottest_keys_pointers[k] # 0 =>
        LET i == hottest_keys_pointers[k]
        IN  \/ /\ i \in DOMAIN ops /\ (Walked => i >= op_i)
               /\ ops[i].opcode = "GET" /\ ops[i].key = k
            \/ /\ Walked /\ i < op_i /\ i \in DOMAIN next_ops
               /\ next_ops[i].opcode = "GET" /\ next_ops[i].key = k
            \/ Walked /\ protocol = "SC"

\* The inductive invariant.
IInv ==
    /\ TypeOK
    /\ trace_iter = (fetched % TRACE_LENGTH) + 1
    /\ StageInv
    /\ OpsInv
    /\ OrderInv
    /\ HomeInv
    /\ ReadInv
    /\ OldestInv
    /\ PointersInv
    /\ ServedOnce
    /\ WritesBroadcastOnce

-----------------------------------------------------------------------------
(* Sequences.                                                                 *)

\* A sequence whose members are in a set is a sequence over that set.
LEMMA SeqOf ==
    ASSUME NEW T, NEW U, NEW s \in Seq(T), \A i \in DOMAIN s : s[i] \in U
    PROVE  s \in Seq(U)
BY SMTT(120)

\* A member added at the end.
LEMMA Appended ==
    ASSUME NEW T, NEW s \in Seq(T), NEW x \in T, NEW n, n = Len(s) + 1
    PROVE  LET t == Append(s, x)
           IN  /\ t \in Seq(T) /\ Len(t) = n /\ n \in Nat /\ n >= 1
               /\ n \in DOMAIN t /\ n \notin DOMAIN s /\ t[n] = x
               /\ \A i \in DOMAIN s : i \in DOMAIN t /\ t[i] = s[i] /\ i < n /\ i \in Nat
               /\ \A i \in DOMAIN t : i \in DOMAIN s \/ i = n
BY SMTT(120)

\* A sequence added at the end.
LEMMA Joined ==
    ASSUME NEW T, NEW s \in Seq(T), NEW t \in Seq(T)
    PROVE  LET u == s \o t
           IN  /\ u \in Seq(T) /\ Len(s) \in Nat
               /\ \A i \in DOMAIN s : i \in DOMAIN u /\ u[i] = s[i] /\ i \in Nat /\ i <= Len(s)
               /\ \A j \in DOMAIN t : /\ Len(s) + j \in DOMAIN u /\ u[Len(s) + j] = t[j]
                                       /\ j \in Nat /\ j >= 1
               /\ \A i \in DOMAIN u : i \in DOMAIN s \/ \E j \in DOMAIN t : i = Len(s) + j
<1>1. s \o t \in Seq(T) /\ Len(s \o t) = Len(s) + Len(t) /\ Len(s) \in Nat /\ Len(t) \in Nat
    BY SMTT(120)
<1>2. /\ DOMAIN s = 1..Len(s) /\ DOMAIN t = 1..Len(t) /\ DOMAIN (s \o t) = 1..(Len(s) + Len(t))
    BY SMTT(120), <1>1
<1>3. \A i \in 1..(Len(s) + Len(t)) :
          (s \o t)[i] = IF i <= Len(s) THEN s[i] ELSE t[i - Len(s)]
    BY SMTT(120)
<1>. DEFINE u == s \o t
<1>. HIDE DEF u
<1>4. \A i \in DOMAIN s : i \in DOMAIN u /\ u[i] = s[i] /\ i \in Nat /\ i <= Len(s)
    BY SMTT(120), <1>1, <1>2, <1>3 DEF u
<1>5. \A j \in DOMAIN t : Len(s) + j \in DOMAIN u /\ u[Len(s) + j] = t[j] /\ j \in Nat /\ j >= 1
    BY SMTT(120), <1>1, <1>2, <1>3 DEF u
<1>6. \A i \in DOMAIN u : i \in DOMAIN s \/ \E j \in DOMAIN t : i = Len(s) + j
  <2>. SUFFICES ASSUME NEW i \in DOMAIN u, i \notin DOMAIN s
                PROVE  \E j \in DOMAIN t : i = Len(s) + j
      OBVIOUS
  <2>1. i - Len(s) \in DOMAIN t /\ i = Len(s) + (i - Len(s))
      BY SMTT(120), <1>1, <1>2 DEF u
  <2>. QED
      BY <2>1
<1>. QED
    BY <1>1, <1>4, <1>5, <1>6 DEF u

-----------------------------------------------------------------------------
(* The sizes, the trace and the types of the state.                           *)

\* The input does not change, nor what depends on it only.
LEMMA SameInput ==
    ASSUME [Next]_vars
    PROVE  /\ protocol' = protocol /\ trace' = trace /\ Asked' = Asked
           /\ CACHE_BATCH_SIZE' = CACHE_BATCH_SIZE /\ TRACE_LENGTH' = TRACE_LENGTH
           /\ MAX_FETCHED' = MAX_FETCHED
<1>1. protocol' = protocol /\ trace' = trace
    BY DEF Next, vars, input, Coalesce, CoalesceAborts, Fetch, Probe, Broadcast, StartWalk, Hit, Issue,
           LackOfCredits, RunThroughRest, SwapOps
<1>2. CACHE_BATCH_SIZE' = CACHE_BATCH_SIZE /\ TRACE_LENGTH' = TRACE_LENGTH
      /\ MAX_FETCHED' = MAX_FETCHED
    BY <1>1 DEF CACHE_BATCH_SIZE, TRACE_LENGTH, MAX_FETCHED
<1>3. Asked' = Asked
    BY <1>1, <1>2 DEF Asked, CommandAt, TRACE_LENGTH
<1>. QED
    BY <1>1, <1>2, <1>3

\* Everything has its type.
LEMMA Types ==
    ASSUME TypeOK
    PROVE  /\ ops \in Seq(Op) /\ Len(ops) \in Nat /\ DOMAIN ops = 1..Len(ops)
           /\ next_ops \in Seq(Op) /\ Len(next_ops) \in Nat /\ DOMAIN next_ops = 1..Len(next_ops)
           /\ CACHE_BATCH_SIZE \in Nat /\ CACHE_BATCH_SIZE >= 1
           /\ Len(ops) <= CACHE_BATCH_SIZE /\ Len(next_ops) < op_i
           /\ op_i \in Nat /\ op_i >= 1 /\ op_i <= CACHE_BATCH_SIZE + 1
           /\ wr_i \in Nat /\ wr_i <= WINDOW_SIZE /\ WINDOW_SIZE \in Nat /\ WINDOW_SIZE >= 1
           /\ KVS_BATCH \in Nat /\ KVS_BATCH >= 1
           /\ per_worker_outstanding \in [Home -> 0..KVS_BATCH]
           /\ fetched \in Nat /\ MAX_FETCHED \in Nat /\ fetched <= MAX_FETCHED
           /\ TRACE_LENGTH \in Nat /\ TRACE_LENGTH >= 1
           /\ trace \in [1..TRACE_LENGTH -> Command] /\ trace_iter \in 1..TRACE_LENGTH
           /\ served \in Seq(1..fetched) /\ failed \in Seq(1..fetched)
           /\ broadcast \in Seq(1..fetched)
           /\ hottest_keys_pointers \in [Tracked -> 0..CACHE_BATCH_SIZE]
           /\ protocol \in Program
<1>1. /\ CACHE_BATCH_SIZE \in Nat \ {0} /\ TRACE_LENGTH \in Nat \ {0} /\ MAX_FETCHED \in Nat
      /\ WINDOW_SIZE \in Nat \ {0} /\ KVS_BATCH \in Nat \ {0}
    BY SizeAssumption DEF TypeOK, CACHE_BATCH_SIZE, TRACE_LENGTH, MAX_FETCHED
<1>2. /\ ops \in Seq(Op) /\ next_ops \in Seq(Op) /\ served \in Seq(1..fetched)
      /\ failed \in Seq(1..fetched) /\ broadcast \in Seq(1..fetched)
      /\ per_worker_outstanding \in [Home -> 0..KVS_BATCH]
      /\ trace \in [1..TRACE_LENGTH -> Command] /\ trace_iter \in 1..TRACE_LENGTH
      /\ hottest_keys_pointers \in [Tracked -> 0..CACHE_BATCH_SIZE]
      /\ protocol \in Program /\ Len(ops) <= CACHE_BATCH_SIZE /\ Len(next_ops) < op_i
      /\ op_i \in 1..(CACHE_BATCH_SIZE + 1) /\ wr_i \in 0..WINDOW_SIZE /\ fetched \in 0..MAX_FETCHED
    BY DEF TypeOK
<1>3. /\ Len(ops) \in Nat /\ DOMAIN ops = 1..Len(ops)
      /\ Len(next_ops) \in Nat /\ DOMAIN next_ops = 1..Len(next_ops)
    BY SMTT(120), <1>2
<1>4. /\ CACHE_BATCH_SIZE >= 1 /\ TRACE_LENGTH >= 1 /\ WINDOW_SIZE >= 1 /\ KVS_BATCH >= 1
    BY SMTT(120), <1>1
<1>5. /\ op_i \in Nat /\ op_i >= 1 /\ op_i <= CACHE_BATCH_SIZE + 1
      /\ wr_i \in Nat /\ wr_i <= WINDOW_SIZE /\ fetched \in Nat /\ fetched <= MAX_FETCHED
    BY SMTT(120), <1>1, <1>2
<1>. QED
    BY <1>1, <1>2, <1>3, <1>4, <1>5

\* The commands of the trace are commands; the next one is the one trace_iter
\* points to.
LEMMA NextAsked ==
    ASSUME TypeOK, trace_iter = (fetched % TRACE_LENGTH) + 1
    PROVE  /\ \A n \in Nat : n >= 1 => Asked[n] \in Command
           /\ command = Asked[fetched + 1]
           /\ (IF trace_iter = TRACE_LENGTH THEN 1 ELSE trace_iter + 1) =
                 ((fetched + 1) % TRACE_LENGTH) + 1
<1>. DEFINE L == TRACE_LENGTH
<1>1. /\ L \in Nat /\ L >= 1 /\ fetched \in Nat
      /\ trace \in [1..L -> Command] /\ trace_iter = (fetched % L) + 1
    BY Types
<1>. HIDE DEF L
<1>2. \A n \in Nat : n >= 1 => ((n - 1) % L) + 1 \in 1..L
    BY SMTT(120), <1>1
<1>3. \A n \in Nat : Asked[n] = trace[((n - 1) % L) + 1]
    BY DEF Asked, CommandAt, L
<1>4. ASSUME NEW n \in Nat, n >= 1 PROVE Asked[n] \in Command
    BY <1>1, <1>2, <1>3, <1>4
<1>5. fetched + 1 \in Nat /\ (fetched + 1) - 1 = fetched
    BY SMTT(120), <1>1
<1>6. command = Asked[fetched + 1]
    BY <1>1, <1>3, <1>5 DEF command
<1>7. ((fetched + 1) % L) = IF fetched % L = L - 1 THEN 0 ELSE (fetched % L) + 1
    BY SMTT(120), <1>1
<1>8. (IF trace_iter = L THEN 1 ELSE trace_iter + 1) = ((fetched + 1) % L) + 1
    BY SMTT(120), <1>1, <1>7
<1>. QED
    BY <1>4, <1>6, <1>8 DEF L

-----------------------------------------------------------------------------
(* What the steps make of one operation.                                      *)

\* The answer of the cache to an operation it has to look at.
LEMMA AnsweredOp ==
    ASSUME NEW op, NEW taken, NEW asked, Genuine(op, taken, asked), Fresh(op, protocol),
           protocol \in Program, NEW type \in Answers(op), NEW a, a = Answered(op, type)
    PROVE  /\ Genuine(a, taken, asked) /\ Replied(a, protocol)
           /\ a.key = op.key /\ a.commands = op.commands /\ First(a) = First(op)
           /\ a.opcode = "GET" <=> op.opcode = "GET"
           /\ op.opcode # "BRC" /\ type \in {"CACHE_GET_SUCCESS", "CACHE_PUT_SUCCESS"}
                  => Unexecuted(op) /\ ~ Unexecuted(a) /\ op.key \in Hot
           /\ op.opcode # "BRC" /\ type = "CACHE_PUT_FAIL" => Unexecuted(op) /\ ~ Unexecuted(a)
           /\ op.opcode # "BRC" /\ type = "CACHE_PUT_SUCCESS"
                  <=> op.opcode # "BRC" /\ a.opcode = "BRC"
           /\ op.opcode # "BRC" /\ type = "CACHE_PUT_SUCCESS" => op.opcode = "PUT" /\ op.key \in Hot
           /\ op.opcode # "BRC" /\ type = "CACHE_GET_SUCCESS" => op.opcode = "GET" /\ op.key \in Hot
           /\ op.opcode = "BRC" \/ type \notin {"CACHE_GET_SUCCESS", "CACHE_PUT_SUCCESS", "CACHE_PUT_FAIL"}
                  => (Unexecuted(a) <=> Unexecuted(op)) /\ (op.opcode = "BRC" <=> a.opcode = "BRC")
<1>0. type \in Type /\ op \in Op
  <2>1. op \in Op
      BY DEF Genuine
  <2>2. op.type \in Type
      BY SMTT(120), <2>1 DEF Op
  <2>. QED
      BY SMTT(120), <2>1, <2>2 DEF Type, Answers
<1>1. /\ a.key = op.key /\ a.commands = op.commands /\ a.type = type
      /\ a.opcode = (IF type = "CACHE_PUT_SUCCESS" THEN "BRC" ELSE op.opcode) /\ a \in Op
  <2>. DEFINE code == IF type = "CACHE_PUT_SUCCESS" THEN "BRC" ELSE op.opcode
              b == [op EXCEPT !.type = type]
  <2>1. b \in Op /\ op.opcode \in Opcode
      BY SMTT(120), <1>0 DEF Op
  <2>2. code \in Opcode
      BY SMTT(120), <2>1 DEF Opcode
  <2>3. [b EXCEPT !.opcode = code] \in Op
    <3>. HIDE DEF b, code
    <3>. QED
        BY SMTT(120), <2>1, <2>2 DEF Op
  <2>4. a = [b EXCEPT !.opcode = code]
      BY SMTT(120), <1>0 DEF Op, Answered
  <2>5. /\ a.key = op.key /\ a.commands = op.commands /\ a.type = type /\ a.opcode = code
      BY SMTT(120), <1>0 DEF Op, Answered
  <2>. QED
      BY <2>3, <2>4, <2>5
<1>2. Hot \cap Home = {}
    BY KeyAssumption
<1>3. \/ /\ op.key \in Home /\ op.opcode \in {"GET", "PUT"}
         /\ type \in {"CACHE_MISS", "UNSERVED_CACHE_MISS"}
      \/ /\ op.key \in Hot /\ op.opcode = "GET"
         /\ \/ type = "CACHE_GET_SUCCESS"
            \/ type = "CACHE_GET_STALL" /\ protocol = "LIN"
      \/ /\ op.key \in Hot /\ op.opcode = "PUT"
         /\ \/ type = "CACHE_PUT_SUCCESS"
            \/ type \in {"CACHE_PUT_STALL", "CACHE_PUT_FAIL"} /\ protocol = "LIN"
      \/ /\ op.key \in Hot /\ op.opcode = "BRC" /\ protocol = "LIN"
         /\ type = "CACHE_PUT_SUCCESS" /\ op.type = "CACHE_PUT_SUCCESS"
    BY SMTT(120), <1>2 DEF Genuine, Kind, Fresh, Answers, Program
<1>4. Kind(a) /\ (a.opcode = "GET" <=> op.opcode = "GET")
    BY SMTT(120), <1>1, <1>3 DEF Kind
<1>5. Genuine(a, taken, asked)
    BY <1>1, <1>4 DEF Genuine
<1>6. Replied(a, protocol)
    BY SMTT(120), <1>1, <1>3 DEF Replied
<1>7. First(a) = First(op)
    BY <1>1 DEF First
<1>8. Fresh(op, protocol) => op.type \notin {"CACHE_GET_SUCCESS", "CACHE_PUT_FAIL"}
    BY DEF Fresh
<1>9. /\ op.opcode # "BRC" /\ type \in {"CACHE_GET_SUCCESS", "CACHE_PUT_SUCCESS"}
             => Unexecuted(op) /\ ~ Unexecuted(a) /\ op.key \in Hot
      /\ op.opcode # "BRC" /\ type = "CACHE_PUT_FAIL" => Unexecuted(op) /\ ~ Unexecuted(a)
      /\ op.opcode = "BRC" \/ type \notin {"CACHE_GET_SUCCESS", "CACHE_PUT_SUCCESS", "CACHE_PUT_FAIL"}
             => (Unexecuted(a) <=> Unexecuted(op)) /\ (op.opcode = "BRC" <=> a.opcode = "BRC")
    BY SMTT(120), <1>1, <1>3, <1>8 DEF Unexecuted
<1>10. /\ op.opcode # "BRC" /\ type = "CACHE_PUT_SUCCESS"
             <=> op.opcode # "BRC" /\ a.opcode = "BRC"
       /\ op.opcode # "BRC" /\ type = "CACHE_PUT_SUCCESS" => op.opcode = "PUT" /\ op.key \in Hot
       /\ op.opcode # "BRC" /\ type = "CACHE_GET_SUCCESS" => op.opcode = "GET" /\ op.key \in Hot
    BY SMTT(120), <1>1, <1>3
<1>. QED
    BY <1>1, <1>4, <1>5, <1>6, <1>7, <1>9, <1>10

\* A hot write whose broadcast is sent.
LEMMA SentOp ==
    ASSUME NEW op, NEW taken, NEW asked, Genuine(op, taken, asked), Replied(op, protocol),
           op.opcode = "BRC", NEW code \in {"UPD", "INV"},
           NEW a, a = [op EXCEPT !.opcode = code]
    PROVE  /\ Genuine(a, taken, asked) /\ Replied(a, protocol)
           /\ a.key = op.key /\ a.commands = op.commands /\ First(a) = First(op)
           /\ a.opcode \notin {"BRC", "GET"} /\ ~ Unexecuted(a) /\ ~ Unexecuted(op)
           /\ op.key \in Hot /\ Len(op.commands) = 1
<1>1. /\ a.key = op.key /\ a.commands = op.commands /\ a.type = op.type /\ a.opcode = code
      /\ a \in Op
    BY SMTT(120) DEF Genuine, Op, Opcode
<1>2. Kind(op) /\ Kind(a) /\ op.key \in Hot
    BY SMTT(120), <1>1 DEF Kind, Genuine
<1>3. Genuine(a, taken, asked)
    BY <1>1, <1>2 DEF Genuine
<1>4. Replied(a, protocol) /\ First(a) = First(op)
    BY <1>1 DEF Replied, First
<1>5. a.opcode \notin {"BRC", "GET"} /\ ~ Unexecuted(a) /\ ~ Unexecuted(op)
    BY <1>1 DEF Unexecuted
<1>6. Len(op.commands) = 1
    BY DEF Genuine
<1>. QED
    BY <1>1, <1>2, <1>3, <1>4, <1>5, <1>6

\* A cold operation is one command that has not been served.
LEMMA ColdOp ==
    ASSUME NEW op, NEW taken, NEW asked, Genuine(op, taken, asked), Miss(op)
    PROVE  /\ op.key \in Home /\ op.key \notin Hot /\ op.opcode \in {"GET", "PUT"}
           /\ Unexecuted(op) /\ Len(op.commands) = 1 /\ ~ Finished(op)
           /\ DOMAIN op.commands = {1} /\ First(op) \in 1..taken
           /\ asked[First(op)].key = op.key
<1>1. op.key \in Home /\ op.opcode \in {"GET", "PUT"} /\ Unexecuted(op) /\ ~ Finished(op)
    BY SMTT(120) DEF Genuine, Kind, Miss, Unexecuted, Finished
<1>2. op.key \notin Hot
    BY <1>1, KeyAssumption
<1>3. Len(op.commands) = 1 /\ op.commands \in Seq(Nat)
    BY <1>2, SMTT(120) DEF Genuine, Op
<1>4. DOMAIN op.commands = {1}
    BY SMTT(120), <1>3
<1>5. First(op) \in 1..taken /\ asked[First(op)].key = op.key
    BY <1>4 DEF First, Genuine
<1>. QED
    BY <1>1, <1>2, <1>3, <1>4, <1>5

\* A cold operation kept for the next batch.
LEMMA UnservedOp ==
    ASSUME NEW op, NEW taken, NEW asked, Genuine(op, taken, asked), Miss(op),
           NEW a, a = Unserved(op), protocol \in Program
    PROVE  /\ Genuine(a, taken, asked) /\ Fresh(a, protocol) /\ a.type # "EMPTY"
           /\ a.key = op.key /\ a.commands = op.commands /\ First(a) = First(op)
           /\ a.opcode = op.opcode /\ Unexecuted(a) /\ a.type = "UNSERVED_CACHE_MISS"
<1>1. /\ a.key = op.key /\ a.commands = op.commands /\ a.type = "UNSERVED_CACHE_MISS"
      /\ a.opcode = op.opcode /\ a \in Op
    BY SMTT(120) DEF Genuine, Op, Type, Unserved
<1>2. op.key \in Home /\ op.opcode \in {"GET", "PUT"}
    BY ColdOp
<1>3. Kind(a)
    BY <1>1, <1>2 DEF Kind
<1>4. Genuine(a, taken, asked)
    BY <1>1, <1>3 DEF Genuine
<1>5. Fresh(a, protocol)
    BY SMTT(120), <1>1, <1>2 DEF Fresh
<1>6. Unexecuted(a) /\ First(a) = First(op)
    BY SMTT(120), <1>1, <1>2 DEF Unexecuted, First
<1>. QED
    BY <1>1, <1>4, <1>5, <1>6

\* A hot operation that is not finished is kept, and is to be looked at again:
\* there is none under SC, but for writes that await their broadcast.
LEMMA KeptOp ==
    ASSUME NEW op, NEW taken, NEW asked, Genuine(op, taken, asked), Replied(op, protocol),
           protocol \in Program, ~ Miss(op), ~ Finished(op)
    PROVE  /\ op.key \in Hot /\ op.key \notin Home /\ op.type # "EMPTY"
           /\ protocol = "SC" => op.opcode = "BRC"
           /\ protocol = "LIN" => Fresh(op, protocol)
<1>1. /\ op.key \in Hot /\ op.type # "EMPTY"
      /\ protocol = "SC" => op.opcode = "BRC"
      /\ protocol = "LIN" => Fresh(op, protocol)
    BY SMTT(120) DEF Genuine, Kind, Miss, Finished, Replied, Fresh
<1>. QED
    BY <1>1, KeyAssumption

\* A finished operation waits neither for its execution nor for its broadcast.
LEMMA FinishedOp ==
    ASSUME NEW op, NEW taken, NEW asked, Genuine(op, taken, asked), Finished(op)
    PROVE  ~ Unexecuted(op) /\ op.opcode # "BRC" /\ op.key \in Hot
BY SMTT(120) DEF Genuine, Kind, Finished, Unexecuted

-----------------------------------------------------------------------------
(* The steps of the walk are of three kinds.                                  *)

\* Operation op_i of the buffer is kept for the next batch, as op.
Kept(op) ==
    /\ Walked /\ Walked' /\ op_i \in DOMAIN ops /\ op_i' = op_i + 1
    /\ next_ops' = Append(next_ops, op)
    /\ Genuine(op, fetched, Asked) /\ Fresh(op, protocol) /\ op.type # "EMPTY"
    /\ op.key = ops[op_i].key /\ op.opcode = ops[op_i].opcode
    /\ op.commands = ops[op_i].commands
    /\ Unexecuted(op) <=> Unexecuted(ops[op_i])
    /\ hottest_keys_pointers' = PointersAfterWalk(op)
    /\ pc' = "walk" => /\ pc = "walk"
                       /\ op.key \in Home => \/ per_worker_outstanding[op.key] >= KVS_BATCH
                                             \/ wr_i >= WINDOW_SIZE
    /\ protocol = "SC" => op_i # 1 /\ op.key \in Home
    /\ UNCHANGED <<trace_iter, fetched, ops, wr_i, per_worker_outstanding, served, failed, broadcast>>

\* It is finished.
Dropped ==
    /\ Walked /\ pc' = pc /\ op_i \in DOMAIN ops /\ op_i' = op_i + 1
    /\ Finished(ops[op_i]) /\ ~ Unexecuted(ops[op_i]) /\ ops[op_i].opcode # "BRC"
    /\ hottest_keys_pointers' = PointersAfterWalk(ops[op_i])
    /\ UNCHANGED <<trace_iter, fetched, ops, next_ops, wr_i, per_worker_outstanding, served, failed,
                   broadcast>>

\* It becomes part of a request.
Issued ==
    /\ pc = "walk" /\ pc' = pc /\ op_i \in DOMAIN ops /\ op_i' = op_i + 1
    /\ Miss(ops[op_i]) /\ HasRoom(ops[op_i].key) /\ wr_i < WINDOW_SIZE /\ wr_i' = wr_i + 1
    /\ per_worker_outstanding' = [per_worker_outstanding EXCEPT ![ops[op_i].key] = @ + 1]
    /\ served' = served \o ops[op_i].commands
    /\ UNCHANGED <<trace_iter, fetched, ops, next_ops, hottest_keys_pointers, failed, broadcast>>

\* The operation at op_i during the walk.
LEMMA WalkedOp ==
    ASSUME IInv, Walked, op_i <= CACHE_BATCH_SIZE
    PROVE  /\ op_i \in DOMAIN ops /\ protocol \in Program
           /\ Genuine(ops[op_i], fetched, Asked) /\ Replied(ops[op_i], protocol)
           /\ protocol = "SC" => ops[op_i].opcode # "BRC"
<1>1. TypeOK /\ StageInv /\ OpsInv
    BY DEF IInv
<1>2. ~ Filled
    BY DEF Walked, Filled
<1>3. op_i \in DOMAIN ops /\ protocol \in Program
    BY SMTT(120), <1>1, <1>2, Types DEF StageInv
<1>4. Probed(op_i)
    BY DEF Walked, Probed
<1>. QED
    BY <1>1, <1>3, <1>4 DEF OpsInv

\* Keeping a cold operation.
LEMMA KeepsCold ==
    ASSUME IInv, Walked, Walked', op_i \in DOMAIN ops, op_i' = op_i + 1,
           Miss(ops[op_i]), Genuine(ops[op_i], fetched, Asked), protocol \in Program,
           NEW op, op = Unserved(ops[op_i]), next_ops' = Append(next_ops, op),
           hottest_keys_pointers' = PointersAfterWalk(op),
           pc' = "walk" => /\ pc = "walk"
                           /\ \/ per_worker_outstanding[op.key] >= KVS_BATCH
                              \/ wr_i >= WINDOW_SIZE,
           protocol = "SC" => op_i # 1,
           UNCHANGED <<trace_iter, fetched, ops, wr_i, per_worker_outstanding, served, failed, broadcast>>
    PROVE  Kept(op)
<1>1. /\ Genuine(op, fetched, Asked) /\ Fresh(op, protocol) /\ op.type # "EMPTY"
      /\ op.key = ops[op_i].key /\ op.commands = ops[op_i].commands /\ op.opcode = ops[op_i].opcode
      /\ Unexecuted(op)
    BY UnservedOp
<1>2. Unexecuted(ops[op_i]) /\ op.key \in Home
    BY <1>1, ColdOp
<1>. QED
    BY <1>1, <1>2 DEF Kept

\* Under SC the counts are zero when the walk starts, so that there is room for
\* the first operation.
LEMMA RoomAtStart ==
    ASSUME IInv, Walked, protocol = "SC", op_i = 1
    PROVE  /\ pc = "walk" /\ wr_i < WINDOW_SIZE
           /\ \A h \in Home : HasRoom(h) /\ ~ (per_worker_outstanding[h] >= KVS_BATCH)
<1>1. TypeOK /\ OldestInv
    BY DEF IInv
<1>2. pc = "walk" /\ wr_i = 0 /\ \A h \in Home : per_worker_outstanding[h] = 0
    BY <1>1 DEF OldestInv
<1>3. WINDOW_SIZE \in Nat /\ WINDOW_SIZE >= 1 /\ KVS_BATCH \in Nat /\ KVS_BATCH >= 1
    BY <1>1, Types
<1>4. wr_i < WINDOW_SIZE
    BY SMTT(120), <1>2, <1>3
<1>5. ASSUME NEW h \in Home PROVE HasRoom(h) /\ ~ (per_worker_outstanding[h] >= KVS_BATCH)
    BY SMTT(120), <1>2, <1>3 DEF HasRoom
<1>. QED
    BY <1>2, <1>4, <1>5

\* A hot operation is kept or dropped.
LEMMA BookkeepsHot ==
    ASSUME IInv, Walked, Walked', op_i \in DOMAIN ops, ~ Miss(ops[op_i]), Bookkeep(ops[op_i]),
           Genuine(ops[op_i], fetched, Asked), Replied(ops[op_i], protocol), protocol \in Program,
           protocol = "SC" => ops[op_i].opcode # "BRC", pc' = pc,
           UNCHANGED <<trace_iter, fetched, ops, wr_i, per_worker_outstanding, served, failed, broadcast>>
    PROVE  Kept(ops[op_i]) \/ Dropped
<1>1. CASE Finished(ops[op_i])
  <2>1. ~ Unexecuted(ops[op_i]) /\ ops[op_i].opcode # "BRC"
      BY <1>1, FinishedOp
  <2>. QED
      BY <1>1, <2>1 DEF Dropped, Bookkeep
<1>2. CASE ~ Finished(ops[op_i])
  <2>1. /\ ops[op_i].key \in Hot /\ ops[op_i].key \notin Home /\ ops[op_i].type # "EMPTY"
        /\ protocol = "SC" => ops[op_i].opcode = "BRC"
        /\ protocol = "LIN" => Fresh(ops[op_i], protocol)
      BY <1>2, KeptOp
  <2>2. protocol # "SC" /\ Fresh(ops[op_i], protocol)
      BY <2>1 DEF Program
  <2>. QED
      BY <1>2, <2>1, <2>2 DEF Kept, Bookkeep
<1>. QED
    BY <1>1, <1>2

\* The steps of the walk.
LEMMA WalkMoves ==
    ASSUME IInv, Hit \/ LackOfCredits \/ RunThroughRest \/ Issue
    PROVE  (\E op : Kept(op)) \/ Dropped \/ Issued
<1>0. Walked /\ op_i <= CACHE_BATCH_SIZE
    BY DEF Walked, Hit, LackOfCredits, RunThroughRest, Issue, Walking
<1>1. /\ op_i \in DOMAIN ops /\ protocol \in Program
      /\ Genuine(ops[op_i], fetched, Asked) /\ Replied(ops[op_i], protocol)
      /\ protocol = "SC" => ops[op_i].opcode # "BRC"
    BY <1>0, WalkedOp
<1>2. CASE Hit
  <2>1. pc' = pc /\ Walked' /\ ~ Miss(ops[op_i]) /\ Bookkeep(ops[op_i])
      BY <1>0, <1>2 DEF Hit, Walked
  <2>2. UNCHANGED <<trace_iter, fetched, ops, wr_i, per_worker_outstanding, served, failed, broadcast>>
      BY <1>2 DEF Hit, history
  <2>. QED
      BY <1>0, <1>1, <2>1, <2>2, BookkeepsHot
<1>3. CASE LackOfCredits
  <2>. DEFINE op == Unserved(ops[op_i])
  <2>1. /\ Miss(ops[op_i]) /\ ~ HasRoom(ops[op_i].key) /\ next_ops' = Append(next_ops, op)
        /\ op_i' = op_i + 1 /\ pc = "walk" /\ Walked' /\ pc' \in {"walk", "rest"}
        /\ hottest_keys_pointers' = hottest_keys_pointers
        /\ UNCHANGED <<trace_iter, fetched, ops, wr_i, per_worker_outstanding, served, failed, broadcast>>
      BY <1>3 DEF LackOfCredits, Walking, Walked, history
  <2>2. op.key = ops[op_i].key
      BY <1>1, <2>1, UnservedOp
  <2>3. op.key \in Home /\ op.key \notin Hot
      BY <1>1, <2>1, <2>2, ColdOp
  <2>4. PointersAfterWalk(op) = hottest_keys_pointers
      BY <2>3 DEF PointersAfterWalk, Hot
  <2>5. protocol = "SC" => op_i # 1
      BY <1>0, <2>1, <2>2, <2>3, RoomAtStart
  <2>6. per_worker_outstanding[op.key] >= KVS_BATCH
    <3>1. TypeOK
        BY DEF IInv
    <3>2. per_worker_outstanding \in [Home -> 0..KVS_BATCH] /\ KVS_BATCH \in Nat
        BY <3>1, Types
    <3>. QED
        BY SMTT(120), <2>1, <2>2, <2>3, <3>2 DEF HasRoom
  <2>. HIDE DEF op
  <2>. QED
      BY <1>0, <1>1, <2>1, <2>4, <2>5, <2>6, KeepsCold DEF op
<1>4. CASE RunThroughRest
  <2>1. pc' = pc /\ Walked'
        /\ UNCHANGED <<trace_iter, fetched, ops, wr_i, per_worker_outstanding, served, failed, broadcast>>
      BY <1>0, <1>4 DEF RunThroughRest, Walked, history
  <2>2. CASE ~ Miss(ops[op_i])
    <3>1. Bookkeep(ops[op_i])
        BY <1>4, <2>2 DEF RunThroughRest
    <3>. QED
        BY <1>0, <1>1, <2>1, <2>2, <3>1, BookkeepsHot
  <2>3. CASE Miss(ops[op_i])
    <3>. DEFINE op == Unserved(ops[op_i])
    <3>1. Bookkeep(op)
        BY <1>4, <2>3 DEF RunThroughRest
    <3>2. Genuine(op, fetched, Asked) /\ op.type = "UNSERVED_CACHE_MISS"
        BY <1>1, <2>3, UnservedOp
    <3>3. Miss(op)
        BY <3>2 DEF Miss
    <3>4. ~ Finished(op)
        BY <3>2, <3>3, ColdOp
    <3>. HIDE DEF op
    <3>5. /\ next_ops' = Append(next_ops, op) /\ op_i' = op_i + 1
          /\ hottest_keys_pointers' = PointersAfterWalk(op)
        BY <3>1, <3>4 DEF Bookkeep
    <3>6. pc = "rest" \/ (pc = "walk" /\ wr_i >= WINDOW_SIZE)
        BY <1>4 DEF RunThroughRest
    <3>7. protocol = "SC" => op_i # 1
      <4>. SUFFICES ASSUME protocol = "SC", op_i = 1 PROVE FALSE
          OBVIOUS
      <4>1. pc = "walk" /\ wr_i < WINDOW_SIZE
          BY <1>0, RoomAtStart
      <4>2. wr_i \in Nat /\ WINDOW_SIZE \in Nat
          BY Types DEF IInv
      <4>. QED
          BY SMTT(120), <3>6, <4>1, <4>2
    <3>. QED
        BY <1>0, <1>1, <2>1, <2>3, <3>5, <3>6, <3>7, KeepsCold DEF op
  <2>. QED
      BY <2>2, <2>3
<1>5. CASE Issue
    BY <1>1, <1>5 DEF Issue, Issued, Walking
<1>. QED
    BY <1>2, <1>3, <1>4, <1>5

-----------------------------------------------------------------------------
(* The steps that fill, probe and broadcast the buffer.                       *)

\* One operation of a buffer replaced.
LEMMA Replaced ==
    ASSUME NEW T, NEW s \in Seq(T), NEW x \in T, NEW i \in DOMAIN s
    PROVE  LET t == [s EXCEPT ![i] = x]
           IN  /\ t \in Seq(T) /\ Len(t) = Len(s) /\ DOMAIN t = DOMAIN s /\ t[i] = x
               /\ \A j \in DOMAIN s : j # i => t[j] = s[j]
BY SMTT(120)

\* The next command joins the read at i, which becomes op.
JoinsAt(i, op) ==
    /\ pc = "fill" /\ pc' = pc /\ i \in DOMAIN ops /\ ops' = [ops EXCEPT ![i] = op]
    /\ fetched < MAX_FETCHED /\ NextCommand
    /\ Genuine(op, fetched + 1, Asked) /\ Fresh(op, protocol)
    /\ op.key \in Tracked /\ hottest_keys_pointers[op.key] = i
    /\ op.key = ops[i].key /\ op.opcode = "GET" /\ ops[i].opcode = "GET"
    /\ op.commands = Append(ops[i].commands, fetched + 1) /\ First(op) = First(ops[i])
    /\ Unexecuted(op) /\ Unexecuted(ops[i])
    /\ Asked[fetched + 1].key = op.key /\ Asked[fetched + 1].opcode = "GET"
    /\ UNCHANGED <<next_ops, op_i, wr_i, per_worker_outstanding, hottest_keys_pointers, served,
                   failed, broadcast>>

\* The next command becomes the operation op.
TakenAs(op) ==
    /\ pc = "fill" /\ pc' = pc /\ Len(ops) < CACHE_BATCH_SIZE /\ ops' = Append(ops, op)
    /\ fetched < MAX_FETCHED /\ NextCommand
    /\ Genuine(op, fetched + 1, Asked) /\ Fresh(op, protocol)
    /\ op.key = Asked[fetched + 1].key /\ op.opcode = Asked[fetched + 1].opcode
    /\ op.opcode \in {"GET", "PUT"}
    /\ op.commands = <<fetched + 1>> /\ First(op) = fetched + 1 /\ Unexecuted(op)
    /\ hottest_keys_pointers' =
          IF op.key \in Tracked
          THEN [hottest_keys_pointers EXCEPT ![op.key] = IF op.opcode = "GET" THEN Len(ops) + 1 ELSE 0]
          ELSE hottest_keys_pointers
    /\ UNCHANGED <<next_ops, op_i, wr_i, per_worker_outstanding, served, failed, broadcast>>

\* The operation at op_i has been probed and is now op; S has been executed
\* and F refused.
ProbedAs(op, S, F) ==
    /\ pc \in {"fill", "probe"} /\ Len(ops) = CACHE_BATCH_SIZE /\ op_i \in DOMAIN ops
    /\ ops' = [ops EXCEPT ![op_i] = op] /\ served' = served \o S /\ failed' = failed \o F
    /\ IF op_i < CACHE_BATCH_SIZE THEN pc' = "probe" /\ op_i' = op_i + 1
                                  ELSE pc' = "broadcast" /\ op_i' = 1
    /\ Genuine(op, fetched, Asked) /\ Replied(op, protocol)
    /\ op.key = ops[op_i].key /\ op.commands = ops[op_i].commands /\ First(op) = First(ops[op_i])
    /\ op.opcode = "GET" <=> ops[op_i].opcode = "GET"
    /\ \/ /\ S = ops[op_i].commands /\ F = <<>> /\ ops[op_i].key \in Hot
          /\ Unexecuted(ops[op_i]) /\ ~ Unexecuted(op)
          /\ \/ ops[op_i].opcode = "PUT" /\ op.opcode = "BRC"
             \/ ops[op_i].opcode = "GET" /\ op.opcode = "GET"
       \/ /\ S = <<>> /\ F = ops[op_i].commands /\ Unexecuted(ops[op_i]) /\ ~ Unexecuted(op)
          /\ ops[op_i].opcode # "BRC" /\ op.opcode # "BRC"
       \/ /\ S = <<>> /\ F = <<>> /\ (Unexecuted(op) <=> Unexecuted(ops[op_i]))
          /\ ops[op_i].opcode = "BRC" <=> op.opcode = "BRC"
    /\ UNCHANGED <<trace_iter, fetched, next_ops, wr_i, per_worker_outstanding, hottest_keys_pointers,
                   broadcast>>

\* The operation at op_i has been broadcast and is now op.
SentAs(op) ==
    /\ pc = "broadcast" /\ pc' = pc /\ op_i \in DOMAIN ops /\ ops[op_i].opcode = "BRC"
    /\ ops' = [ops EXCEPT ![op_i] = op] /\ broadcast' = broadcast \o ops[op_i].commands
    /\ Genuine(op, fetched, Asked) /\ Replied(op, protocol)
    /\ op.key = ops[op_i].key /\ op.commands = ops[op_i].commands /\ First(op) = First(ops[op_i])
    /\ op.opcode \notin {"BRC", "GET"} /\ ~ Unexecuted(op) /\ ~ Unexecuted(ops[op_i])
    /\ op_i' = op_i + 1
    /\ UNCHANGED <<trace_iter, fetched, next_ops, wr_i, per_worker_outstanding, hottest_keys_pointers,
                   served, failed>>

\* It needs no broadcast.
Skipped ==
    /\ pc = "broadcast" /\ pc' = pc /\ op_i \in DOMAIN ops /\ ops[op_i].opcode # "BRC"
    /\ op_i' = op_i + 1
    /\ UNCHANGED <<trace_iter, fetched, ops, next_ops, wr_i, per_worker_outstanding,
                   hottest_keys_pointers, served, failed, broadcast>>

\* An operation for commands taken so far is one for commands taken later.
LEMMA StillGenuine ==
    ASSUME NEW op, NEW asked, NEW m \in Nat, NEW n \in Nat, m <= n, Genuine(op, m, asked)
    PROVE  Genuine(op, n, asked)
<1>1. \A i \in 1..m : i \in 1..n
    BY SMTT(120)
<1>. QED
    BY <1>1 DEF Genuine

\* Reads are coalesced into a read of the same key that waits to be probed.
LEMMA CoalesceMove ==
    ASSUME IInv, Coalesce
    PROVE  \E i, op : JoinsAt(i, op)
<1>. DEFINE i == hottest_keys_pointers[command.key]
            n == fetched + 1
            op == [ops[i] EXCEPT !.commands = Append(@, n)]
<1>1. /\ TypeOK /\ trace_iter = (fetched % TRACE_LENGTH) + 1 /\ PointersInv /\ OpsInv /\ StageInv
    BY DEF IInv
<1>2. /\ pc = "fill" /\ command.key \in Tracked /\ command.opcode = "GET" /\ i # 0
      /\ ops' = [ops EXCEPT ![i].commands = Append(@, n)] /\ fetched < MAX_FETCHED /\ NextCommand
      /\ UNCHANGED <<next_ops, op_i, wr_i, per_worker_outstanding, hottest_keys_pointers, served,
                     failed, broadcast, pc>>
    BY DEF Coalesce, Filling, Joins, walk, history
<1>3. ~ Walked /\ ~ Probed(i)
    BY <1>2 DEF Walked, Probed
<1>4. i \in DOMAIN ops /\ ops[i].opcode = "GET" /\ ops[i].key = command.key
    BY <1>1, <1>2, <1>3 DEF PointersInv
<1>5. Genuine(ops[i], fetched, Asked) /\ Fresh(ops[i], protocol)
    BY <1>1, <1>3, <1>4 DEF OpsInv
<1>6. fetched \in Nat /\ n \in Nat /\ fetched <= n /\ n >= 1 /\ n \in 1..n
    BY SMTT(120), <1>1, Types
<1>7. command = Asked[n]
    BY <1>1, NextAsked
<1>. HIDE DEF n
<1>8. Genuine(ops[i], n, Asked)
    BY <1>5, <1>6, StillGenuine
<1>. HIDE DEF i
<1>9. /\ op \in Op /\ op.key = ops[i].key /\ op.opcode = ops[i].opcode /\ op.type = ops[i].type
      /\ op.commands = Append(ops[i].commands, n) /\ ops[i].commands \in Seq(Nat)
  <2>. DEFINE c == Append(ops[i].commands, n)
              b == [ops[i] EXCEPT !.commands = c]
  <2>1. ops[i] \in Op
      BY <1>8 DEF Genuine
  <2>2. ops[i].commands \in Seq(Nat)
      BY SMTT(120), <2>1 DEF Op
  <2>3. c \in Seq(Nat)
      BY SMTT(120), <1>6, <2>2
  <2>. HIDE DEF c
  <2>4. /\ b \in Op /\ b.key = ops[i].key /\ b.opcode = ops[i].opcode /\ b.type = ops[i].type
        /\ b.commands = c
      BY SMTT(120), <2>1, <2>3 DEF Op
  <2>5. op = b
      BY SMTT(120), <2>1 DEF Op, c
  <2>. QED
      BY <2>2, <2>4, <2>5 DEF c
<1>10. ops' = [ops EXCEPT ![i] = op]
    BY SMTT(120), <1>2, <1>4
<1>. HIDE DEF op
<1>11. /\ Len(op.commands) >= 1 /\ First(op) = First(ops[i])
       /\ \A j \in DOMAIN op.commands : j \in DOMAIN ops[i].commands \/ j = Len(ops[i].commands) + 1
       /\ \A j \in DOMAIN ops[i].commands : op.commands[j] = ops[i].commands[j]
       /\ op.commands[Len(ops[i].commands) + 1] = n
  <2>1. Len(ops[i].commands) >= 1
      BY <1>8 DEF Genuine
  <2>. QED
      BY SMTT(120), <1>9, <1>6, <2>1 DEF First
<1>12. ops[i].key \in Hot
    BY <1>4, <1>2 DEF Hot
<1>13. Kind(op) /\ Kind(ops[i])
    BY <1>8, <1>9 DEF Kind, Genuine
<1>14. Genuine(op, n, Asked)
  <2>1. ASSUME NEW j \in DOMAIN op.commands
        PROVE  /\ op.commands[j] \in 1..n
               /\ Asked[op.commands[j]].key = op.key
               /\ Asked[op.commands[j]].opcode = "GET" <=> op.opcode = "GET"
    <3>1. CASE j \in DOMAIN ops[i].commands
        BY <1>8, <1>9, <1>11, <3>1 DEF Genuine
    <3>2. CASE j = Len(ops[i].commands) + 1
        BY <1>2, <1>4, <1>6, <1>7, <1>9, <1>11, <3>2
    <3>. QED
        BY <1>11, <3>1, <3>2
  <2>. QED
      BY <1>4, <1>9, <1>11, <1>12, <1>13, <2>1 DEF Genuine
<1>15. Fresh(op, protocol)
    BY <1>5, <1>9 DEF Fresh
<1>16. Unexecuted(op) /\ Unexecuted(ops[i])
    BY <1>4, <1>5, <1>9 DEF Unexecuted, Fresh
<1>17. op.key \in Tracked /\ hottest_keys_pointers[op.key] = i
    BY <1>2, <1>4, <1>9 DEF i
<1>18. Asked[n].key = op.key /\ Asked[n].opcode = "GET" /\ op.opcode = "GET" /\ ops[i].opcode = "GET"
    BY <1>2, <1>4, <1>7, <1>9
<1>19. JoinsAt(i, op)
    BY <1>2, <1>4, <1>9, <1>10, <1>11, <1>14, <1>15, <1>16, <1>17, <1>18 DEF JoinsAt, n
<1>. QED
    BY <1>19

\* A command that joins no read becomes an operation of its own.
LEMMA FetchMove ==
    ASSUME IInv, Fetch
    PROVE  \E op : TakenAs(op)
<1>. DEFINE n == fetched + 1
            op == [opcode |-> command.opcode, key |-> command.key,
                   type |-> "EMPTY", commands |-> <<n>>]
<1>1. TypeOK /\ trace_iter = (fetched % TRACE_LENGTH) + 1
    BY DEF IInv
<1>2. /\ pc = "fill" /\ Len(ops) < CACHE_BATCH_SIZE /\ ops' = Append(ops, op)
      /\ fetched < MAX_FETCHED /\ NextCommand /\ hottest_keys_pointers' = PointersAfterFetch
      /\ UNCHANGED <<next_ops, op_i, wr_i, per_worker_outstanding, served, failed, broadcast, pc>>
    BY DEF Fetch, Filling, walk, history
<1>3. fetched \in Nat /\ n \in Nat /\ n >= 1 /\ n \in 1..n
    BY SMTT(120), <1>1, Types
<1>4. command = Asked[n] /\ command \in Command
    BY <1>1, <1>3, NextAsked
<1>5. command.opcode \in {"GET", "PUT"} /\ command.key \in Key
    BY SMTT(120), <1>4 DEF Command
<1>. HIDE DEF n
<1>6. <<n>> \in Seq(Nat) /\ Len(<<n>>) = 1 /\ <<n>>[1] = n /\ DOMAIN <<n>> = {1}
    BY SMTT(120), <1>3
<1>7. /\ op.opcode = command.opcode /\ op.key = command.key /\ op.type = "EMPTY"
      /\ op.commands = <<n>>
    OBVIOUS
<1>8. op \in Op
    BY SMTT(120), <1>5, <1>6 DEF Op, Opcode, Type
<1>. HIDE DEF op
<1>9. Kind(op)
    BY <1>5, <1>7 DEF Kind, Key
<1>10. Genuine(op, n, Asked)
  <2>1. Len(op.commands) = 1 /\ Len(op.commands) >= 1
      BY SMTT(120), <1>6, <1>7
  <2>2. ASSUME NEW i \in DOMAIN op.commands
        PROVE  /\ op.commands[i] \in 1..n /\ Asked[op.commands[i]].key = op.key
               /\ Asked[op.commands[i]].opcode = "GET" <=> op.opcode = "GET"
    <3>1. op.commands[i] = n
        BY <1>6, <1>7
    <3>. QED
        BY <1>3, <1>4, <1>7, <3>1
  <2>. QED
      BY <1>8, <1>9, <2>1, <2>2 DEF Genuine
<1>11. Fresh(op, protocol) /\ Unexecuted(op) /\ First(op) = n
    BY SMTT(120), <1>5, <1>6, <1>7 DEF Fresh, Unexecuted, First
<1>12. hottest_keys_pointers' =
          IF op.key \in Tracked
          THEN [hottest_keys_pointers EXCEPT ![op.key] = IF op.opcode = "GET" THEN Len(ops) + 1 ELSE 0]
          ELSE hottest_keys_pointers
    BY <1>2, <1>7 DEF PointersAfterFetch
<1>13. TakenAs(op)
    BY <1>2, <1>4, <1>5, <1>7, <1>10, <1>11, <1>12 DEF TakenAs, n
<1>. QED
    BY <1>13

\* The cache answers an operation it has to look at.
LEMMA ProbeMove ==
    ASSUME IInv, Probe
    PROVE  \E op, S, F : ProbedAs(op, S, F)
<1>1. TypeOK /\ StageInv /\ OpsInv
    BY DEF IInv
<1>2. PICK type \in Answers(ops[op_i]) :
        /\ ops' = [ops EXCEPT ![op_i] = Answered(@, type)]
        /\ served' = served \o Executed(ops[op_i], type,
                                {"CACHE_GET_SUCCESS", "CACHE_PUT_SUCCESS"})
        /\ failed' = failed \o Executed(ops[op_i], type, {"CACHE_PUT_FAIL"})
    BY DEF Probe
<1>. DEFINE op == Answered(ops[op_i], type)
            S == Executed(ops[op_i], type, {"CACHE_GET_SUCCESS", "CACHE_PUT_SUCCESS"})
            F == Executed(ops[op_i], type, {"CACHE_PUT_FAIL"})
<1>3. /\ pc \in {"fill", "probe"} /\ Len(ops) = CACHE_BATCH_SIZE
      /\ op_i <= CACHE_BATCH_SIZE
      /\ IF op_i < CACHE_BATCH_SIZE THEN pc' = "probe" /\ op_i' = op_i + 1
                                    ELSE pc' = "broadcast" /\ op_i' = 1
      /\ UNCHANGED <<trace_iter, fetched, next_ops, wr_i, per_worker_outstanding,
                     hottest_keys_pointers, broadcast>>
  <2>1. pc \in {"fill", "probe"} /\ Len(ops) = CACHE_BATCH_SIZE
      BY <1>1 DEF Probe, StageInv, Filled
  <2>2. pc = "fill" => op_i = 1
      BY <1>1 DEF StageInv, Filled
  <2>3. pc = "probe" => op_i <= CACHE_BATCH_SIZE
      BY <1>1 DEF StageInv
  <2>4. op_i <= CACHE_BATCH_SIZE
      BY SMTT(120), <1>1, <2>1, <2>2, <2>3, Types
  <2>. QED
      BY <2>1, <2>4 DEF Probe
<1>4. op_i \in DOMAIN ops /\ protocol \in Program
    BY SMTT(120), <1>1, <1>3, Types
<1>5. ~ Probed(op_i)
  <2>1. ~ (op_i < op_i)
      BY SMTT(120), <1>1, Types
  <2>. QED
      BY <1>3, <2>1 DEF Probed
<1>6. Genuine(ops[op_i], fetched, Asked) /\ Fresh(ops[op_i], protocol)
    BY <1>1, <1>4, <1>5 DEF OpsInv
<1>7. ops' = [ops EXCEPT ![op_i] = op]
    BY <1>2, <1>4
<1>8. /\ Genuine(op, fetched, Asked) /\ Replied(op, protocol)
      /\ op.key = ops[op_i].key /\ op.commands = ops[op_i].commands /\ First(op) = First(ops[op_i])
      /\ op.opcode = "GET" <=> ops[op_i].opcode = "GET"
    BY <1>4, <1>6, AnsweredOp
<1>9. /\ ops[op_i].opcode # "BRC" /\ type \in {"CACHE_GET_SUCCESS", "CACHE_PUT_SUCCESS"}
             => Unexecuted(ops[op_i]) /\ ~ Unexecuted(op) /\ ops[op_i].key \in Hot
      /\ ops[op_i].opcode # "BRC" /\ type = "CACHE_PUT_FAIL"
             => Unexecuted(ops[op_i]) /\ ~ Unexecuted(op)
      /\ ops[op_i].opcode # "BRC" /\ type = "CACHE_PUT_SUCCESS"
             <=> ops[op_i].opcode # "BRC" /\ op.opcode = "BRC"
      /\ ops[op_i].opcode # "BRC" /\ type = "CACHE_PUT_SUCCESS" => ops[op_i].opcode = "PUT"
      /\ ops[op_i].opcode # "BRC" /\ type = "CACHE_GET_SUCCESS" => ops[op_i].opcode = "GET"
      /\ (ops[op_i].opcode = "BRC" \/ type \notin {"CACHE_GET_SUCCESS", "CACHE_PUT_SUCCESS",
                                                   "CACHE_PUT_FAIL"})
             => /\ Unexecuted(op) <=> Unexecuted(ops[op_i])
                /\ ops[op_i].opcode = "BRC" <=> op.opcode = "BRC"
    BY SMTT(120), <1>4, <1>6, AnsweredOp
<1>. HIDE DEF op
<1>10. CASE ops[op_i].opcode # "BRC" /\ type \in {"CACHE_GET_SUCCESS", "CACHE_PUT_SUCCESS"}
  <2>1. S = ops[op_i].commands /\ F = <<>>
      BY SMTT(120), <1>10 DEF Executed
  <2>2. \/ ops[op_i].opcode = "PUT" /\ op.opcode = "BRC"
        \/ ops[op_i].opcode = "GET" /\ op.opcode = "GET"
      BY <1>8, <1>9, <1>10
  <2>. QED
      BY <1>2, <1>3, <1>4, <1>7, <1>8, <1>9, <1>10, <2>1, <2>2 DEF ProbedAs
<1>11. CASE ops[op_i].opcode # "BRC" /\ type = "CACHE_PUT_FAIL"
  <2>1. S = <<>> /\ F = ops[op_i].commands
      BY SMTT(120), <1>11 DEF Executed
  <2>2. type # "CACHE_PUT_SUCCESS"
      BY <1>11
  <2>. QED
      BY <1>2, <1>3, <1>4, <1>7, <1>8, <1>9, <1>11, <2>1, <2>2 DEF ProbedAs
<1>12. CASE \/ ops[op_i].opcode = "BRC"
            \/ type \notin {"CACHE_GET_SUCCESS", "CACHE_PUT_SUCCESS", "CACHE_PUT_FAIL"}
  <2>1. S = <<>> /\ F = <<>>
      BY SMTT(120), <1>12 DEF Executed
  <2>2. /\ Unexecuted(op) <=> Unexecuted(ops[op_i])
        /\ ops[op_i].opcode = "BRC" <=> op.opcode = "BRC"
      BY <1>9, <1>12
  <2>. QED
      BY <1>2, <1>3, <1>4, <1>7, <1>8, <2>1, <2>2 DEF ProbedAs
<1>. QED
    BY <1>10, <1>11, <1>12

\* A hot write is broadcast, any other operation is passed over.
LEMMA BroadcastMove ==
    ASSUME IInv, Broadcast
    PROVE  Skipped \/ \E op : SentAs(op)
<1>1. TypeOK /\ StageInv /\ OpsInv
    BY DEF IInv
<1>2. /\ pc = "broadcast" /\ pc' = pc /\ op_i <= CACHE_BATCH_SIZE /\ op_i' = op_i + 1
      /\ UNCHANGED <<trace_iter, fetched, next_ops, wr_i, per_worker_outstanding,
                     hottest_keys_pointers, served, failed>>
    BY DEF Broadcast
<1>3. Len(ops) = CACHE_BATCH_SIZE /\ Probed(op_i)
    BY <1>1, <1>2 DEF StageInv, Filled, Probed
<1>4. op_i \in DOMAIN ops
    BY SMTT(120), <1>1, <1>2, <1>3, Types
<1>5. Genuine(ops[op_i], fetched, Asked) /\ Replied(ops[op_i], protocol)
    BY <1>1, <1>3, <1>4 DEF OpsInv
<1>6. CASE ops[op_i].opcode # "BRC"
    BY <1>2, <1>4, <1>6 DEF Broadcast, Skipped
<1>7. CASE ops[op_i].opcode = "BRC"
  <2>. DEFINE code == IF protocol = "SC" THEN "UPD" ELSE "INV"
              op == [ops[op_i] EXCEPT !.opcode = code]
  <2>1. ops' = [ops EXCEPT ![op_i] = op] /\ broadcast' = broadcast \o ops[op_i].commands
      BY <1>4, <1>7 DEF Broadcast
  <2>2. code \in {"UPD", "INV"}
      OBVIOUS
  <2>. HIDE DEF code
  <2>3. /\ Genuine(op, fetched, Asked) /\ Replied(op, protocol)
        /\ op.key = ops[op_i].key /\ op.commands = ops[op_i].commands
        /\ First(op) = First(ops[op_i])
        /\ op.opcode \notin {"BRC", "GET"} /\ ~ Unexecuted(op) /\ ~ Unexecuted(ops[op_i])
      BY SMTT(120), <1>5, <1>7, <2>2, SentOp
  <2>. HIDE DEF op
  <2>4. SentAs(op)
      BY <1>2, <1>4, <1>7, <2>1, <2>3 DEF SentAs
  <2>. QED
      BY <2>4
<1>. QED
    BY <1>6, <1>7

\* All the steps of the client.
LEMMA Moves ==
    ASSUME IInv, [Next]_vars
    PROVE  \/ \E i, op : JoinsAt(i, op)
           \/ \E op : TakenAs(op)
           \/ \E op, S, F : ProbedAs(op, S, F)
           \/ \E op : SentAs(op)
           \/ \E op : Kept(op)
           \/ Skipped \/ Dropped \/ Issued \/ CoalesceAborts \/ StartWalk \/ SwapOps
           \/ UNCHANGED vars
BY CoalesceMove, FetchMove, ProbeMove, BroadcastMove, WalkMoves DEF Next

-----------------------------------------------------------------------------
(* Types, stages and the trace.                                               *)

\* What is left of TypeOK when the input does not change.
LEMMA TypesKept ==
    ASSUME TypeOK, [Next]_vars,
           pc' \in {"fill", "probe", "broadcast", "walk", "rest", "aborted"},
           fetched' = fetched /\ trace_iter' = trace_iter,
           ops' \in Seq(Op), Len(ops') <= CACHE_BATCH_SIZE,
           next_ops' \in Seq(Op), Len(next_ops') < op_i', op_i' \in 1..(CACHE_BATCH_SIZE + 1),
           hottest_keys_pointers' \in [Tracked -> 0..CACHE_BATCH_SIZE],
           wr_i' \in 0..WINDOW_SIZE, per_worker_outstanding' \in [Home -> 0..KVS_BATCH],
           served' \in Seq(1..fetched), failed' \in Seq(1..fetched), broadcast' \in Seq(1..fetched)
    PROVE  TypeOK'
<1>1. /\ protocol' = protocol /\ trace' = trace
      /\ CACHE_BATCH_SIZE' = CACHE_BATCH_SIZE /\ TRACE_LENGTH' = TRACE_LENGTH
      /\ MAX_FETCHED' = MAX_FETCHED
    BY SameInput
<1>. QED
    BY <1>1 DEF TypeOK

\* The commands of an operation are some that were taken.
LEMMA CommandsTaken ==
    ASSUME NEW op, NEW taken, NEW asked, Genuine(op, taken, asked)
    PROVE  op.commands \in Seq(1..taken) /\ op \in Op /\ op.commands \in Seq(Nat)
<1>1. op \in Op /\ \A i \in DOMAIN op.commands : op.commands[i] \in 1..taken
    BY DEF Genuine
<1>2. op.commands \in Seq(Nat)
    BY SMTT(120), <1>1 DEF Op
<1>. QED
    BY <1>1, <1>2, SeqOf

\* The trace starts over at its end.
LEMMA InTrace ==
    ASSUME NEW m \in Nat, NEW len \in Nat, len >= 1
    PROVE  (m % len) + 1 \in 1..len
BY SMTT(120)

\* The members of a sequence over a set.
LEMMA MembersOf ==
    ASSUME NEW T, NEW s \in Seq(T)
    PROVE  \A i \in DOMAIN s : s[i] \in T
BY SMTT(120)

\* NextCommand keeps the trace and its position in step.
LEMMA NextCommandStep ==
    ASSUME IInv, [Next]_vars, NextCommand, fetched < MAX_FETCHED
    PROVE  /\ fetched' = fetched + 1 /\ fetched \in Nat /\ fetched' \in Nat /\ fetched' <= MAX_FETCHED
           /\ trace_iter' = (fetched' % TRACE_LENGTH) + 1 /\ trace_iter' \in 1..TRACE_LENGTH
           /\ served \in Seq(1..fetched') /\ failed \in Seq(1..fetched')
           /\ broadcast \in Seq(1..fetched')
<1>1. TypeOK /\ trace_iter = (fetched % TRACE_LENGTH) + 1
    BY DEF IInv
<1>2. fetched' = fetched + 1 /\ trace_iter' = IF trace_iter = TRACE_LENGTH THEN 1 ELSE trace_iter + 1
    BY DEF NextCommand
<1>3. /\ fetched \in Nat /\ MAX_FETCHED \in Nat /\ TRACE_LENGTH \in Nat /\ TRACE_LENGTH >= 1
      /\ served \in Seq(1..fetched) /\ failed \in Seq(1..fetched) /\ broadcast \in Seq(1..fetched)
    BY <1>1, Types
<1>4. fetched' \in Nat /\ fetched' <= MAX_FETCHED /\ (1..fetched) \subseteq (1..fetched')
    BY SMTT(120), <1>2, <1>3
<1>5. trace_iter' = (fetched' % TRACE_LENGTH) + 1
    BY <1>1, <1>2, NextAsked
<1>6. trace_iter' \in 1..TRACE_LENGTH
    BY <1>3, <1>4, <1>5, InTrace
<1>7. ASSUME NEW h, h \in Seq(1..fetched) PROVE h \in Seq(1..fetched')
    BY <1>4, <1>7, MembersOf, SeqOf
<1>. QED
    BY <1>2, <1>3, <1>4, <1>5, <1>6, <1>7

\* An operation added to or replaced in the buffer while it is filled.
LEMMA FilledTypes ==
    ASSUME IInv, [Next]_vars, NextCommand, fetched < MAX_FETCHED, pc = "fill", pc' = pc,
           ops' \in Seq(Op), Len(ops') <= CACHE_BATCH_SIZE,
           hottest_keys_pointers' \in [Tracked -> 0..CACHE_BATCH_SIZE],
           UNCHANGED <<next_ops, op_i, wr_i, per_worker_outstanding, served, failed, broadcast>>
    PROVE  TypeOK' /\ StageInv' /\ trace_iter' = (fetched' % TRACE_LENGTH') + 1
<1>1. TypeOK /\ StageInv
    BY DEF IInv
<1>2. /\ protocol' = protocol /\ trace' = trace
      /\ CACHE_BATCH_SIZE' = CACHE_BATCH_SIZE /\ TRACE_LENGTH' = TRACE_LENGTH
      /\ MAX_FETCHED' = MAX_FETCHED
    BY SameInput
<1>3. /\ fetched' \in Nat /\ fetched' <= MAX_FETCHED /\ MAX_FETCHED \in Nat
      /\ trace_iter' = (fetched' % TRACE_LENGTH) + 1 /\ trace_iter' \in 1..TRACE_LENGTH
      /\ served \in Seq(1..fetched') /\ failed \in Seq(1..fetched')
      /\ broadcast \in Seq(1..fetched')
    BY <1>1, NextCommandStep, Types
<1>4. fetched' \in 0..MAX_FETCHED
    BY SMTT(120), <1>3
<1>5. TypeOK'
    BY <1>1, <1>2, <1>3, <1>4 DEF TypeOK
<1>6. StageInv'
    BY <1>1 DEF StageInv, Filled, Walked
<1>. QED
    BY <1>2, <1>3, <1>5, <1>6

\* Commands added to a history.
LEMMA HistoryTypes ==
    ASSUME NEW op, NEW taken, NEW asked, Genuine(op, taken, asked), NEW h \in Seq(1..taken),
           NEW c, c \in {op.commands, <<>>}
    PROVE  h \o c \in Seq(1..taken) /\ c \in Seq(1..taken)
<1>1. c \in Seq(1..taken)
  <2>1. <<>> \in Seq(1..taken)
      BY SMTT(120)
  <2>. QED
      BY <2>1, CommandsTaken
<1>. QED
    BY <1>1, Joined

\* One value of a function replaced.
LEMMA Override ==
    ASSUME NEW S, NEW T, NEW f \in [S -> T], NEW k, NEW v \in T
    PROVE  [f EXCEPT ![k] = v] \in [S -> T]
OBVIOUS

\* One operation of the buffer replaced.
LEMMA OpReplaced ==
    ASSUME TypeOK, NEW i \in DOMAIN ops, NEW op \in Op, ops' = [ops EXCEPT ![i] = op]
    PROVE  /\ ops' \in Seq(Op) /\ Len(ops') = Len(ops) /\ DOMAIN ops' = DOMAIN ops /\ ops'[i] = op
           /\ \A j \in DOMAIN ops : j # i => ops'[j] = ops[j]
<1>1. ops \in Seq(Op)
    BY Types
<1>. QED
    BY SMTT(120), <1>1, Replaced

\* One operation added to the buffer.
LEMMA OpAdded ==
    ASSUME TypeOK, NEW op \in Op, ops' = Append(ops, op), NEW n, n = Len(ops) + 1
    PROVE  /\ ops' \in Seq(Op) /\ Len(ops') = n /\ n \in DOMAIN ops' /\ n \notin DOMAIN ops
           /\ ops'[n] = op /\ DOMAIN ops' = DOMAIN ops \cup {n}
           /\ \A j \in DOMAIN ops : j \in DOMAIN ops' /\ ops'[j] = ops[j] /\ j < n
<1>1. ops \in Seq(Op)
    BY Types
<1>. QED
    BY SMTT(120), <1>1

\* One operation added to the next buffer.
LEMMA NextAdded ==
    ASSUME TypeOK, NEW op \in Op, next_ops' = Append(next_ops, op), NEW n, n = Len(next_ops) + 1
    PROVE  /\ next_ops' \in Seq(Op) /\ Len(next_ops') = n /\ n \in DOMAIN next_ops'
           /\ n \notin DOMAIN next_ops /\ next_ops'[n] = op
           /\ DOMAIN next_ops' = DOMAIN next_ops \cup {n}
           /\ \A j \in DOMAIN next_ops : j \in DOMAIN next_ops' /\ next_ops'[j] = next_ops[j] /\ j < n
<1>1. next_ops \in Seq(Op)
    BY Types
<1>. QED
    BY SMTT(120), <1>1

\* The pointers after a step of the walk.
LEMMA PointersType ==
    ASSUME TypeOK, op_i <= CACHE_BATCH_SIZE, NEW op
    PROVE  PointersAfterWalk(op) \in [Tracked -> 0..CACHE_BATCH_SIZE]
<1>. DEFINE p == hottest_keys_pointers
<1>1. /\ p \in [Tracked -> 0..CACHE_BATCH_SIZE]
      /\ Len(next_ops) + 1 \in 0..CACHE_BATCH_SIZE /\ 0 \in 0..CACHE_BATCH_SIZE
    BY SMTT(120), Types
<1>2. ASSUME NEW v \in 0..CACHE_BATCH_SIZE
      PROVE  [p EXCEPT ![op.key] = v] \in [Tracked -> 0..CACHE_BATCH_SIZE]
    BY <1>1, Override
<1>3. PointersAfterWalk(op) \in {p, [p EXCEPT ![op.key] = Len(next_ops) + 1], [p EXCEPT ![op.key] = 0]}
    BY DEF PointersAfterWalk
<1>. QED
    BY <1>1, <1>2, <1>3

\* Types, stages and the trace, while the buffer is filled.
LEMMA FillTypeStep ==
    ASSUME IInv, [Next]_vars, (\E i, op : JoinsAt(i, op)) \/ (\E op : TakenAs(op)) \/ CoalesceAborts
    PROVE  TypeOK' /\ StageInv' /\ trace_iter' = (fetched' % TRACE_LENGTH') + 1
<1>1. TypeOK /\ StageInv /\ trace_iter = (fetched % TRACE_LENGTH) + 1
    BY DEF IInv
<1>2. /\ ops \in Seq(Op) /\ Len(ops) \in Nat /\ Len(ops) <= CACHE_BATCH_SIZE /\ CACHE_BATCH_SIZE \in Nat
      /\ hottest_keys_pointers \in [Tracked -> 0..CACHE_BATCH_SIZE]
    BY <1>1, Types
<1>3. CASE \E i, op : JoinsAt(i, op)
  <2>1. PICK i, op : JoinsAt(i, op)
      BY <1>3
  <2>2. i \in DOMAIN ops /\ op \in Op /\ ops' = [ops EXCEPT ![i] = op]
      BY <2>1 DEF JoinsAt, Genuine
  <2>3. ops' \in Seq(Op) /\ Len(ops') = Len(ops)
      BY <1>1, <2>2, OpReplaced
  <2>4. Len(ops') <= CACHE_BATCH_SIZE
      BY <1>2, <2>3
  <2>. QED
      BY <1>2, <2>1, <2>3, <2>4, FilledTypes DEF JoinsAt
<1>4. CASE \E op : TakenAs(op)
  <2>1. PICK op : TakenAs(op)
      BY <1>4
  <2>2. op \in Op /\ ops' = Append(ops, op) /\ Len(ops) < CACHE_BATCH_SIZE
      BY <2>1 DEF TakenAs, Genuine
  <2>3. /\ ops' \in Seq(Op) /\ Len(ops') = Len(ops) + 1
      BY <1>1, <2>2, OpAdded
  <2>4. Len(ops') <= CACHE_BATCH_SIZE /\ Len(ops) + 1 \in 0..CACHE_BATCH_SIZE /\ 0 \in 0..CACHE_BATCH_SIZE
      BY SMTT(120), <1>2, <2>2, <2>3
  <2>5. ASSUME NEW v \in 0..CACHE_BATCH_SIZE
        PROVE  [hottest_keys_pointers EXCEPT ![op.key] = v] \in [Tracked -> 0..CACHE_BATCH_SIZE]
      BY <1>2, Override
  <2>6. hottest_keys_pointers' \in [Tracked -> 0..CACHE_BATCH_SIZE]
      BY <1>2, <2>1, <2>4, <2>5 DEF TakenAs
  <2>. QED
      BY <2>1, <2>3, <2>4, <2>6, FilledTypes DEF TakenAs
<1>5. CASE CoalesceAborts
  <2>1. /\ pc = "fill" /\ pc' = "aborted"
        /\ UNCHANGED <<trace_iter, fetched, ops, next_ops, op_i, wr_i, per_worker_outstanding,
                       hottest_keys_pointers, served, failed, broadcast>>
      BY <1>5 DEF CoalesceAborts, Filling, walk, history
  <2>2. TypeOK'
      BY <1>1, <2>1, SameInput DEF TypeOK
  <2>3. StageInv'
      BY <1>1, <2>1 DEF StageInv, Filled, Walked
  <2>. QED
      BY <1>1, <2>1, <2>2, <2>3, SameInput
<1>. QED
    BY <1>3, <1>4, <1>5

\* The same, while the buffer is probed and broadcast.
LEMMA ProbeTypeStep ==
    ASSUME IInv, [Next]_vars, \/ \E op, S, F : ProbedAs(op, S, F)
                              \/ \E op : SentAs(op)
                              \/ Skipped
    PROVE  TypeOK' /\ StageInv' /\ trace_iter' = (fetched' % TRACE_LENGTH') + 1
<1>1. TypeOK /\ StageInv /\ trace_iter = (fetched % TRACE_LENGTH) + 1
    BY DEF IInv
<1>2. /\ ops \in Seq(Op) /\ Len(ops) \in Nat /\ Len(ops) <= CACHE_BATCH_SIZE /\ CACHE_BATCH_SIZE \in Nat
      /\ DOMAIN ops = 1..Len(ops) /\ next_ops \in Seq(Op) /\ CACHE_BATCH_SIZE >= 1
      /\ op_i \in Nat /\ op_i >= 1 /\ wr_i \in 0..WINDOW_SIZE
      /\ per_worker_outstanding \in [Home -> 0..KVS_BATCH]
      /\ served \in Seq(1..fetched) /\ failed \in Seq(1..fetched) /\ broadcast \in Seq(1..fetched)
      /\ hottest_keys_pointers \in [Tracked -> 0..CACHE_BATCH_SIZE]
    BY <1>1, Types DEF TypeOK
<1>3. CACHE_BATCH_SIZE' = CACHE_BATCH_SIZE /\ TRACE_LENGTH' = TRACE_LENGTH
    BY SameInput
<1>4. ASSUME ~ Walked, ~ Walked' PROVE next_ops = <<>> /\ Len(<<>>) = 0
    BY SMTT(120), <1>1, <1>4 DEF StageInv
<1>5. CASE \E op, S, F : ProbedAs(op, S, F)
  <2>1. PICK op, S, F : ProbedAs(op, S, F)
      BY <1>5
  <2>2. /\ op_i \in DOMAIN ops /\ op \in Op /\ ops' = [ops EXCEPT ![op_i] = op]
        /\ Genuine(op, fetched, Asked) /\ S \in {op.commands, <<>>} /\ F \in {op.commands, <<>>}
        /\ served' = served \o S /\ failed' = failed \o F /\ broadcast' = broadcast
        /\ pc \in {"fill", "probe"} /\ pc' \in {"probe", "broadcast"} /\ Len(ops) = CACHE_BATCH_SIZE
      BY <2>1 DEF ProbedAs, Genuine
  <2>3. ops' \in Seq(Op) /\ Len(ops') = Len(ops)
      BY <1>1, <2>2, OpReplaced
  <2>4. served' \in Seq(1..fetched) /\ failed' \in Seq(1..fetched)
      BY <1>2, <2>2, HistoryTypes
  <2>5. next_ops' = next_ops /\ next_ops = <<>> /\ Len(<<>>) = 0
      BY <1>4, <2>1, <2>2 DEF Walked, ProbedAs
  <2>6. /\ op_i' \in Nat /\ op_i' >= 1 /\ op_i' <= CACHE_BATCH_SIZE
        /\ op_i' \in 1..(CACHE_BATCH_SIZE + 1) /\ Len(<<>>) < op_i'
    <3>1. op_i' = 1 \/ (op_i < CACHE_BATCH_SIZE /\ op_i' = op_i + 1)
        BY <2>1 DEF ProbedAs
    <3>. QED
        BY SMTT(120), <1>2, <2>5, <3>1
  <2>7. TypeOK'
    <3>1. fetched' = fetched /\ trace_iter' = trace_iter /\ wr_i' = wr_i /\ next_ops' = next_ops
          /\ per_worker_outstanding' = per_worker_outstanding
          /\ hottest_keys_pointers' = hottest_keys_pointers
        BY <2>1 DEF ProbedAs
    <3>. QED
        BY <1>1, <1>2, <2>2, <2>3, <2>4, <2>5, <2>6, <3>1, TypesKept
  <2>8. StageInv'
      BY <1>3, <2>2, <2>3, <2>5, <2>6 DEF StageInv, Filled, Walked
  <2>9. trace_iter' = trace_iter /\ fetched' = fetched
      BY <2>1 DEF ProbedAs
  <2>. QED
      BY <1>1, <1>3, <2>7, <2>8, <2>9
<1>6. CASE (\E op : SentAs(op)) \/ Skipped
  <2>1. /\ pc = "broadcast" /\ pc' = pc /\ op_i \in DOMAIN ops /\ op_i' = op_i + 1
        /\ UNCHANGED <<trace_iter, fetched, next_ops, wr_i, per_worker_outstanding,
                       hottest_keys_pointers, served, failed>>
      BY <1>6 DEF SentAs, Skipped
  <2>2. /\ ops' \in Seq(Op) /\ Len(ops') = Len(ops) /\ broadcast' \in Seq(1..fetched)
    <3>1. CASE Skipped
        BY <1>2, <3>1 DEF Skipped
    <3>2. CASE \E op : SentAs(op)
      <4>1. PICK op : SentAs(op)
          BY <3>2
      <4>2. /\ op \in Op /\ ops' = [ops EXCEPT ![op_i] = op] /\ Genuine(op, fetched, Asked)
            /\ broadcast' = broadcast \o op.commands
          BY <4>1 DEF SentAs, Genuine
      <4>3. broadcast' \in Seq(1..fetched)
          BY <1>2, <4>2, HistoryTypes
      <4>. QED
          BY <1>1, <2>1, <4>2, <4>3, OpReplaced
    <3>. QED
        BY <1>6, <3>1, <3>2
  <2>3. next_ops' = next_ops /\ next_ops = <<>> /\ Len(<<>>) = 0
      BY <1>4, <2>1 DEF Walked
  <2>4. op_i' \in 1..(CACHE_BATCH_SIZE + 1) /\ Len(<<>>) < op_i'
      BY SMTT(120), <1>2, <2>1, <2>3
  <2>5. TypeOK'
      BY <1>1, <1>2, <2>1, <2>2, <2>3, <2>4, TypesKept
  <2>6. StageInv'
      BY <1>1, <1>3, <2>1, <2>2, <2>3 DEF StageInv, Filled, Walked
  <2>. QED
      BY <1>1, <1>3, <2>1, <2>5, <2>6
<1>. QED
    BY <1>5, <1>6

\* The same, for the walk over the buffer.
LEMMA WalkTypeStep ==
    ASSUME IInv, [Next]_vars, (\E op : Kept(op)) \/ Dropped \/ Issued
    PROVE  TypeOK' /\ StageInv' /\ trace_iter' = (fetched' % TRACE_LENGTH') + 1
<1>1. TypeOK /\ StageInv /\ OpsInv /\ trace_iter = (fetched % TRACE_LENGTH) + 1
    BY DEF IInv
<1>2. /\ ops \in Seq(Op) /\ next_ops \in Seq(Op) /\ op_i \in Nat /\ op_i >= 1 /\ DOMAIN ops = 1..Len(ops)
      /\ Len(ops) \in Nat /\ Len(ops) <= CACHE_BATCH_SIZE /\ CACHE_BATCH_SIZE \in Nat
      /\ Len(next_ops) \in Nat /\ Len(next_ops) < op_i
      /\ wr_i \in Nat /\ wr_i <= WINDOW_SIZE /\ WINDOW_SIZE \in Nat /\ KVS_BATCH \in Nat
      /\ per_worker_outstanding \in [Home -> 0..KVS_BATCH]
      /\ served \in Seq(1..fetched) /\ failed \in Seq(1..fetched) /\ broadcast \in Seq(1..fetched)
      /\ hottest_keys_pointers \in [Tracked -> 0..CACHE_BATCH_SIZE]
    BY <1>1, Types
<1>3. CACHE_BATCH_SIZE' = CACHE_BATCH_SIZE /\ TRACE_LENGTH' = TRACE_LENGTH
    BY SameInput
<1>4. /\ Walked /\ Walked' /\ op_i \in DOMAIN ops /\ op_i' = op_i + 1
      /\ ops' = ops /\ trace_iter' = trace_iter /\ fetched' = fetched
      /\ failed' = failed /\ broadcast' = broadcast
    BY DEF Kept, Dropped, Issued, Walked
<1>5. /\ op_i <= CACHE_BATCH_SIZE /\ op_i' \in 1..(CACHE_BATCH_SIZE + 1)
      /\ Len(next_ops) < op_i' /\ Len(next_ops) + 1 < op_i'
    BY SMTT(120), <1>2, <1>4
<1>6. pc' \in {"fill", "probe", "broadcast", "walk", "rest", "aborted"}
    BY <1>4 DEF Walked
<1>7. next_ops' \in Seq(Op) /\ Len(next_ops') < op_i'
  <2>1. CASE \E op : Kept(op)
    <3>1. PICK op : Kept(op)
        BY <2>1
    <3>2. op \in Op /\ next_ops' = Append(next_ops, op)
        BY <3>1 DEF Kept, Genuine
    <3>3. next_ops' \in Seq(Op) /\ Len(next_ops') = Len(next_ops) + 1
        BY <1>1, <3>2, NextAdded
    <3>. QED
        BY <1>5, <3>3
  <2>2. CASE Dropped \/ Issued
      BY <1>2, <1>5, <2>2 DEF Dropped, Issued
  <2>. QED
      BY <2>1, <2>2
<1>8. hottest_keys_pointers' \in [Tracked -> 0..CACHE_BATCH_SIZE]
  <2>1. \A op : PointersAfterWalk(op) \in [Tracked -> 0..CACHE_BATCH_SIZE]
      BY <1>1, <1>5, PointersType
  <2>. QED
      BY <1>2, <2>1 DEF Kept, Dropped, Issued
<1>9. /\ wr_i' \in 0..WINDOW_SIZE /\ per_worker_outstanding' \in [Home -> 0..KVS_BATCH]
      /\ served' \in Seq(1..fetched)
  <2>1. wr_i \in 0..WINDOW_SIZE
      BY SMTT(120), <1>2
  <2>2. CASE (\E op : Kept(op)) \/ Dropped
      BY <1>2, <2>1, <2>2 DEF Kept, Dropped
  <2>3. CASE Issued
    <3>1. Genuine(ops[op_i], fetched, Asked)
        BY <1>1, <1>4 DEF OpsInv
    <3>2. ops[op_i].key \in Home
        BY <2>3, <3>1, ColdOp DEF Issued
    <3>3. wr_i' = wr_i + 1 /\ wr_i < WINDOW_SIZE
          /\ per_worker_outstanding' = [per_worker_outstanding EXCEPT ![ops[op_i].key] = @ + 1]
          /\ per_worker_outstanding[ops[op_i].key] < KVS_BATCH
          /\ served' = served \o ops[op_i].commands
        BY <2>3 DEF Issued, HasRoom
    <3>4. wr_i' \in 0..WINDOW_SIZE
        BY SMTT(120), <1>2, <3>3
    <3>5. per_worker_outstanding[ops[op_i].key] + 1 \in 0..KVS_BATCH
        BY SMTT(120), <1>2, <3>2, <3>3
    <3>6. per_worker_outstanding' \in [Home -> 0..KVS_BATCH]
        BY <1>2, <3>3, <3>5, Override
    <3>7. served' \in Seq(1..fetched)
        BY <1>2, <3>1, <3>3, HistoryTypes
    <3>. QED
        BY <3>4, <3>6, <3>7
  <2>. QED
      BY <2>2, <2>3
<1>10. TypeOK'
    BY <1>1, <1>2, <1>4, <1>5, <1>6, <1>7, <1>8, <1>9, TypesKept
<1>11. StageInv'
    BY <1>1, <1>3, <1>4 DEF StageInv, Filled, Walked
<1>. QED
    BY <1>1, <1>3, <1>4, <1>10, <1>11

\* The same, for the start and the end of the walk.
LEMMA TurnTypeStep ==
    ASSUME IInv, [Next]_vars, StartWalk \/ SwapOps \/ UNCHANGED vars
    PROVE  TypeOK' /\ StageInv' /\ trace_iter' = (fetched' % TRACE_LENGTH') + 1
<1>1. TypeOK /\ StageInv /\ trace_iter = (fetched % TRACE_LENGTH) + 1
    BY DEF IInv
<1>2. /\ ops \in Seq(Op) /\ next_ops \in Seq(Op) /\ op_i \in Nat
      /\ Len(ops) \in Nat /\ Len(ops) <= CACHE_BATCH_SIZE /\ CACHE_BATCH_SIZE \in Nat
      /\ Len(next_ops) \in Nat /\ Len(next_ops) < op_i /\ op_i <= CACHE_BATCH_SIZE + 1
      /\ wr_i \in 0..WINDOW_SIZE /\ WINDOW_SIZE \in Nat /\ KVS_BATCH \in Nat
      /\ per_worker_outstanding \in [Home -> 0..KVS_BATCH]
      /\ served \in Seq(1..fetched) /\ failed \in Seq(1..fetched) /\ broadcast \in Seq(1..fetched)
      /\ hottest_keys_pointers \in [Tracked -> 0..CACHE_BATCH_SIZE]
    BY <1>1, Types DEF TypeOK
<1>3. CACHE_BATCH_SIZE' = CACHE_BATCH_SIZE /\ TRACE_LENGTH' = TRACE_LENGTH
    BY SameInput
<1>4. /\ <<>> \in Seq(Op) /\ Len(<<>>) = 0 /\ 0 < 1 /\ 1 \in 1..(CACHE_BATCH_SIZE + 1)
      /\ 0 \in 0..WINDOW_SIZE /\ 0 \in 0..KVS_BATCH /\ 0 \in 0..CACHE_BATCH_SIZE
    BY SMTT(120), <1>2
<1>5. Len(next_ops) <= CACHE_BATCH_SIZE
    BY SMTT(120), <1>2
<1>6. CASE StartWalk
  <2>1. /\ pc = "broadcast" /\ pc' = "walk" /\ next_ops' = <<>> /\ op_i' = 1 /\ wr_i' = 0
        /\ per_worker_outstanding' = [h \in Home |-> 0]
        /\ UNCHANGED <<trace_iter, fetched, ops, hottest_keys_pointers, served, failed, broadcast>>
      BY <1>6 DEF StartWalk, NoneOutstanding, history
  <2>2. per_worker_outstanding' \in [Home -> 0..KVS_BATCH]
      BY <1>4, <2>1
  <2>3. TypeOK'
      BY <1>1, <1>2, <1>4, <2>1, <2>2, TypesKept
  <2>4. StageInv'
      BY <1>1, <1>3, <2>1 DEF StageInv, Filled, Walked
  <2>. QED
      BY <1>1, <1>3, <2>1, <2>3, <2>4
<1>7. CASE SwapOps
  <2>1. /\ pc' = "fill" /\ ops' = next_ops /\ next_ops' = <<>> /\ op_i' = 1
        /\ hottest_keys_pointers' =
              IF protocol = "SC" THEN [k \in Tracked |-> 0] ELSE hottest_keys_pointers
        /\ UNCHANGED <<trace_iter, fetched, wr_i, per_worker_outstanding, served, failed, broadcast>>
      BY <1>7 DEF SwapOps, history
  <2>2. hottest_keys_pointers' \in [Tracked -> 0..CACHE_BATCH_SIZE]
      BY <1>2, <1>4, <2>1
  <2>3. TypeOK'
      BY <1>1, <1>2, <1>4, <1>5, <2>1, <2>2, TypesKept
  <2>4. StageInv'
      BY <1>1, <1>3, <2>1 DEF StageInv, Filled, Walked
  <2>. QED
      BY <1>1, <1>3, <2>1, <2>3, <2>4
<1>8. CASE UNCHANGED vars
  <2>1. /\ pc' = pc /\ ops' = ops /\ next_ops' = next_ops /\ op_i' = op_i /\ wr_i' = wr_i
        /\ UNCHANGED <<trace_iter, fetched, hottest_keys_pointers, per_worker_outstanding, served,
                       failed, broadcast>>
      BY <1>8 DEF vars, walk, history
  <2>2. TypeOK'
      BY <1>1, <1>3, <2>1, SameInput DEF TypeOK
  <2>3. StageInv'
      BY <1>1, <1>3, <2>1 DEF StageInv, Filled, Walked
  <2>. QED
      BY <1>1, <1>3, <2>1, <2>2, <2>3
<1>. QED
    BY <1>6, <1>7, <1>8

\* Types, stages and the trace, for every step.
LEMMA TypeStep ==
    ASSUME IInv, [Next]_vars
    PROVE  TypeOK' /\ StageInv' /\ trace_iter' = (fetched' % TRACE_LENGTH') + 1
BY Moves, FillTypeStep, ProbeTypeStep, WalkTypeStep, TurnTypeStep

-----------------------------------------------------------------------------
(* The operations in the buffers.                                             *)

\* The clauses of OpsInv after a step.
LEMMA OpsInvNext ==
    ASSUME \A i \in DOMAIN ops' : Genuine(ops'[i], fetched', Asked'),
           \A i \in DOMAIN ops' : IF Probed(i)' THEN Replied(ops'[i], protocol')
                                                ELSE Fresh(ops'[i], protocol'),
           \A i \in DOMAIN ops' :
              protocol' = "SC" /\ (Walked' \/ (pc' = "broadcast" /\ i < op_i'))
                  => ops'[i].opcode # "BRC",
           \A i \in DOMAIN next_ops' : /\ Genuine(next_ops'[i], fetched', Asked')
                                       /\ Fresh(next_ops'[i], protocol')
                                       /\ next_ops'[i].type # "EMPTY"
    PROVE  OpsInv'
BY DEF OpsInv, Genuine, Kind, Fresh, Replied

\* The operations while the buffer is filled.
LEMMA FillOps ==
    ASSUME IInv, [Next]_vars, (\E i, op : JoinsAt(i, op)) \/ (\E op : TakenAs(op)) \/ CoalesceAborts
    PROVE  OpsInv'
<1>1. TypeOK /\ OpsInv /\ StageInv
    BY DEF IInv
<1>2. protocol' = protocol /\ Asked' = Asked
    BY SameInput
<1>3. pc = "fill" /\ pc' \in {"fill", "aborted"} /\ next_ops' = next_ops
    BY DEF JoinsAt, TakenAs, CoalesceAborts, Filling, walk
<1>4. ~ Walked' /\ ~ Walked /\ \A i : ~ Probed(i) /\ ~ Probed(i)'
    BY <1>3 DEF Walked, Probed
<1>5. next_ops = <<>> /\ DOMAIN <<>> = {}
    BY SMTT(120), <1>1, <1>4 DEF StageInv
<1>6. \A i \in DOMAIN ops : Genuine(ops[i], fetched, Asked) /\ Fresh(ops[i], protocol)
    BY <1>1, <1>4 DEF OpsInv
<1>7. \A i \in DOMAIN ops' : Genuine(ops'[i], fetched', Asked) /\ Fresh(ops'[i], protocol)
  <2>1. CASE CoalesceAborts
      BY <1>6, <2>1 DEF CoalesceAborts
  <2>2. ASSUME NextCommand, fetched < MAX_FETCHED
        PROVE  fetched' = fetched + 1 /\ \A i \in DOMAIN ops : Genuine(ops[i], fetched', Asked)
    <3>1. fetched \in Nat /\ fetched' = fetched + 1
        BY <1>1, <2>2, Types DEF NextCommand
    <3>2. fetched' \in Nat /\ fetched <= fetched'
        BY SMTT(120), <3>1
    <3>. QED
        BY <1>6, <3>1, <3>2, StillGenuine
  <2>3. CASE \E i, op : JoinsAt(i, op)
    <3>1. PICK i, op : JoinsAt(i, op)
        BY <2>3
    <3>2. /\ i \in DOMAIN ops /\ op \in Op /\ ops' = [ops EXCEPT ![i] = op]
          /\ Genuine(op, fetched + 1, Asked) /\ Fresh(op, protocol) /\ NextCommand /\ fetched < MAX_FETCHED
        BY <3>1 DEF JoinsAt, Genuine
    <3>3. /\ DOMAIN ops' = DOMAIN ops /\ ops'[i] = op
          /\ \A j \in DOMAIN ops : j # i => ops'[j] = ops[j]
        BY <1>1, <3>2, OpReplaced
    <3>. QED
        BY <1>6, <2>2, <3>2, <3>3
  <2>4. CASE \E op : TakenAs(op)
    <3>1. PICK op : TakenAs(op)
        BY <2>4
    <3>2. /\ op \in Op /\ ops' = Append(ops, op)
          /\ Genuine(op, fetched + 1, Asked) /\ Fresh(op, protocol) /\ NextCommand /\ fetched < MAX_FETCHED
        BY <3>1 DEF TakenAs, Genuine
    <3>3. PICK n : n = Len(ops) + 1
        OBVIOUS
    <3>4. /\ DOMAIN ops' = DOMAIN ops \cup {n} /\ ops'[n] = op
          /\ \A j \in DOMAIN ops : ops'[j] = ops[j]
        BY <1>1, <3>2, <3>3, OpAdded
    <3>. QED
        BY <1>6, <2>2, <3>2, <3>4
  <2>. QED
      BY <2>1, <2>3, <2>4
<1>8. pc' # "broadcast"
    BY <1>3
<1>. QED
    BY <1>2, <1>3, <1>4, <1>5, <1>7, <1>8, OpsInvNext

\* The operations while they are probed.
LEMMA ProbeOps ==
    ASSUME IInv, [Next]_vars, NEW op, NEW S, NEW F, ProbedAs(op, S, F)
    PROVE  OpsInv'
<1>1. TypeOK /\ OpsInv /\ StageInv
    BY DEF IInv
<1>2. protocol' = protocol /\ Asked' = Asked /\ fetched' = fetched /\ next_ops' = next_ops
    BY SameInput DEF ProbedAs
<1>3. /\ op_i \in DOMAIN ops /\ op \in Op /\ ops' = [ops EXCEPT ![op_i] = op]
      /\ Genuine(op, fetched, Asked) /\ Replied(op, protocol)
      /\ pc \in {"fill", "probe"} /\ Len(ops) = CACHE_BATCH_SIZE
      /\ IF op_i < CACHE_BATCH_SIZE THEN pc' = "probe" /\ op_i' = op_i + 1
                                    ELSE pc' = "broadcast" /\ op_i' = 1
    BY DEF ProbedAs, Genuine
<1>4. /\ DOMAIN ops' = DOMAIN ops /\ ops'[op_i] = op
      /\ \A j \in DOMAIN ops : j # op_i => ops'[j] = ops[j]
    BY <1>1, <1>3, OpReplaced
<1>5. /\ DOMAIN ops = 1..Len(ops) /\ Len(ops) \in Nat /\ op_i \in Nat
      /\ pc = "fill" => op_i = 1
    BY <1>1, Types DEF StageInv, Filled
<1>6. ASSUME NEW i \in DOMAIN ops, i # op_i
      PROVE  /\ Probed(i)' <=> Probed(i)
             /\ ~ (pc' = "broadcast" /\ i < op_i')
  <2>1. i < op_i' /\ pc' = "probe" => i < op_i
      BY SMTT(120), <1>3, <1>5, <1>6
  <2>2. i < op_i => (pc' = "probe" /\ i < op_i') \/ pc' = "broadcast"
      BY SMTT(120), <1>3, <1>5, <1>6
  <2>3. pc' = "broadcast" => i < op_i /\ ~ (i < op_i')
      BY SMTT(120), <1>3, <1>5, <1>6
  <2>4. i < op_i => pc = "probe"
      BY SMTT(120), <1>3, <1>5
  <2>. QED
      BY <1>3, <2>1, <2>2, <2>3, <2>4 DEF Probed
<1>7. ASSUME NEW i, i = op_i PROVE Probed(i)' /\ ~ (pc' = "broadcast" /\ i < op_i')
  <2>1. pc' = "probe" => op_i < op_i'
      BY SMTT(120), <1>3, <1>5
  <2>2. pc' = "broadcast" => ~ (op_i < op_i')
      BY SMTT(120), <1>3, <1>5
  <2>. QED
      BY <1>3, <1>7, <2>1, <2>2 DEF Probed
<1>8. ~ Walked'
    BY <1>3 DEF Walked
<1>9. \A i \in DOMAIN ops' : Genuine(ops'[i], fetched', Asked')
    BY <1>1, <1>2, <1>3, <1>4 DEF OpsInv
<1>10. \A i \in DOMAIN ops' : IF Probed(i)' THEN Replied(ops'[i], protocol')
                                            ELSE Fresh(ops'[i], protocol')
  <2>1. \A i \in DOMAIN ops : IF Probed(i) THEN Replied(ops[i], protocol) ELSE Fresh(ops[i], protocol)
      BY <1>1 DEF OpsInv
  <2>2. ASSUME NEW i \in DOMAIN ops
        PROVE  IF Probed(i)' THEN Replied(ops'[i], protocol) ELSE Fresh(ops'[i], protocol)
    <3>1. CASE i = op_i
        BY <1>3, <1>4, <1>7, <3>1
    <3>2. CASE i # op_i
        BY <1>4, <1>6, <2>1, <3>2
    <3>. QED
        BY <3>1, <3>2
  <2>. QED
      BY <1>2, <1>4, <2>2
<1>11. \A i \in DOMAIN next_ops' : /\ Genuine(next_ops'[i], fetched', Asked')
                                   /\ Fresh(next_ops'[i], protocol')
                                   /\ next_ops'[i].type # "EMPTY"
    BY <1>1, <1>2 DEF OpsInv
<1>. QED
    BY <1>4, <1>6, <1>7, <1>8, <1>9, <1>10, <1>11, OpsInvNext

\* The operations while they are broadcast.
LEMMA BroadcastOps ==
    ASSUME IInv, [Next]_vars, Skipped \/ \E op : SentAs(op)
    PROVE  OpsInv'
<1>1. TypeOK /\ OpsInv /\ StageInv
    BY DEF IInv
<1>2. protocol' = protocol /\ Asked' = Asked /\ fetched' = fetched /\ next_ops' = next_ops
    BY SameInput DEF Skipped, SentAs
<1>3. pc = "broadcast" /\ pc' = pc /\ op_i \in DOMAIN ops /\ op_i' = op_i + 1
    BY DEF Skipped, SentAs
<1>4. ~ Walked' /\ \A i : Probed(i) /\ Probed(i)'
    BY <1>3 DEF Walked, Probed
<1>5. \A i \in DOMAIN ops : i < op_i' => i < op_i \/ i = op_i
    BY SMTT(120), <1>1, <1>3, Types
<1>6. /\ DOMAIN ops' = DOMAIN ops
      /\ \A j \in DOMAIN ops : j # op_i => ops'[j] = ops[j]
      /\ Genuine(ops'[op_i], fetched, Asked) /\ Replied(ops'[op_i], protocol)
      /\ ops'[op_i].opcode # "BRC"
  <2>1. CASE Skipped
      BY <1>1, <1>3, <1>4, <2>1 DEF OpsInv, Skipped
  <2>2. CASE \E op : SentAs(op)
    <3>1. PICK op : SentAs(op)
        BY <2>2
    <3>2. /\ op \in Op /\ ops' = [ops EXCEPT ![op_i] = op] /\ op.opcode # "BRC"
          /\ Genuine(op, fetched, Asked) /\ Replied(op, protocol)
        BY <3>1 DEF SentAs, Genuine
    <3>3. /\ DOMAIN ops' = DOMAIN ops /\ ops'[op_i] = op
          /\ \A j \in DOMAIN ops : j # op_i => ops'[j] = ops[j]
        BY <1>1, <1>3, <3>2, OpReplaced
    <3>. QED
        BY <3>2, <3>3
  <2>. QED
      BY <2>1, <2>2
<1>7. \A i \in DOMAIN ops' : Genuine(ops'[i], fetched', Asked')
    BY <1>1, <1>2, <1>6 DEF OpsInv
<1>8. \A i \in DOMAIN ops' : Replied(ops'[i], protocol')
    BY <1>1, <1>2, <1>4, <1>6 DEF OpsInv
<1>9. \A i \in DOMAIN ops' :
         protocol' = "SC" /\ (Walked' \/ (pc' = "broadcast" /\ i < op_i')) => ops'[i].opcode # "BRC"
    BY <1>1, <1>2, <1>3, <1>4, <1>5, <1>6 DEF OpsInv
<1>10. \A i \in DOMAIN next_ops' : /\ Genuine(next_ops'[i], fetched', Asked')
                                   /\ Fresh(next_ops'[i], protocol')
                                   /\ next_ops'[i].type # "EMPTY"
    BY <1>1, <1>2 DEF OpsInv
<1>. QED
    BY <1>4, <1>7, <1>8, <1>9, <1>10, OpsInvNext

\* The operations during the walk.
LEMMA WalkOps ==
    ASSUME IInv, [Next]_vars, (\E op : Kept(op)) \/ Dropped \/ Issued
    PROVE  OpsInv'
<1>1. TypeOK /\ OpsInv
    BY DEF IInv
<1>2. protocol' = protocol /\ Asked' = Asked /\ fetched' = fetched /\ ops' = ops
    BY SameInput DEF Kept, Dropped, Issued
<1>3. Walked /\ Walked' /\ pc' # "broadcast"
    BY DEF Kept, Dropped, Issued, Walked
<1>4. \A i : Probed(i) /\ Probed(i)'
    BY <1>3 DEF Walked, Probed
<1>5. \A i \in DOMAIN next_ops' : /\ Genuine(next_ops'[i], fetched, Asked)
                                  /\ Fresh(next_ops'[i], protocol)
                                  /\ next_ops'[i].type # "EMPTY"
  <2>1. CASE Dropped \/ Issued
      BY <1>1, <2>1 DEF OpsInv, Dropped, Issued
  <2>2. CASE \E op : Kept(op)
    <3>1. PICK op : Kept(op)
        BY <2>2
    <3>2. /\ op \in Op /\ next_ops' = Append(next_ops, op) /\ Genuine(op, fetched, Asked)
          /\ Fresh(op, protocol) /\ op.type # "EMPTY"
        BY <3>1 DEF Kept, Genuine
    <3>3. PICK n : n = Len(next_ops) + 1
        OBVIOUS
    <3>4. /\ DOMAIN next_ops' = DOMAIN next_ops \cup {n} /\ next_ops'[n] = op
          /\ \A j \in DOMAIN next_ops : next_ops'[j] = next_ops[j]
        BY <1>1, <3>2, <3>3, NextAdded
    <3>. QED
        BY <1>1, <3>2, <3>4 DEF OpsInv
  <2>. QED
      BY <2>1, <2>2
<1>6. \A i \in DOMAIN ops' : Genuine(ops'[i], fetched', Asked') /\ Replied(ops'[i], protocol')
    BY <1>1, <1>2, <1>4 DEF OpsInv
<1>7. \A i \in DOMAIN ops' :
         protocol' = "SC" /\ (Walked' \/ (pc' = "broadcast" /\ i < op_i')) => ops'[i].opcode # "BRC"
    BY <1>1, <1>2, <1>3 DEF OpsInv
<1>. QED
    BY <1>2, <1>4, <1>5, <1>6, <1>7, OpsInvNext

\* The operations at the start and at the end of the walk.
LEMMA TurnOps ==
    ASSUME IInv, [Next]_vars, StartWalk \/ SwapOps \/ UNCHANGED vars
    PROVE  OpsInv'
<1>1. TypeOK /\ OpsInv /\ StageInv
    BY DEF IInv
<1>2. protocol' = protocol /\ Asked' = Asked /\ fetched' = fetched
    BY SameInput DEF StartWalk, SwapOps, vars
<1>3. DOMAIN <<>> = {}
    BY SMTT(120)
<1>4. CASE StartWalk
  <2>1. /\ pc = "broadcast" /\ pc' = "walk" /\ next_ops' = <<>> /\ ops' = ops
        /\ protocol = "SC" => ~ (op_i <= CACHE_BATCH_SIZE)
      BY <1>4 DEF StartWalk
  <2>2. \A i : Probed(i) /\ Probed(i)'
      BY <2>1 DEF Probed
  <2>3. \A i \in DOMAIN ops : protocol = "SC" => i < op_i
      BY SMTT(120), <1>1, <2>1, Types
  <2>4. \A i \in DOMAIN ops' : Genuine(ops'[i], fetched', Asked') /\ Replied(ops'[i], protocol')
      BY <1>1, <1>2, <2>1, <2>2 DEF OpsInv
  <2>5. \A i \in DOMAIN ops' :
           protocol' = "SC" /\ (Walked' \/ (pc' = "broadcast" /\ i < op_i')) => ops'[i].opcode # "BRC"
      BY <1>1, <1>2, <2>1, <2>3 DEF OpsInv
  <2>. QED
      BY <1>3, <2>1, <2>2, <2>4, <2>5, OpsInvNext
<1>5. CASE SwapOps
  <2>1. pc' = "fill" /\ next_ops' = <<>> /\ ops' = next_ops
      BY <1>5 DEF SwapOps
  <2>2. ~ Walked' /\ pc' # "broadcast" /\ \A i : ~ Probed(i)'
      BY <2>1 DEF Probed, Walked
  <2>3. \A i \in DOMAIN ops' : Genuine(ops'[i], fetched', Asked') /\ Fresh(ops'[i], protocol')
      BY <1>1, <1>2, <2>1 DEF OpsInv
  <2>. QED
      BY <1>3, <2>1, <2>2, <2>3, OpsInvNext
<1>6. CASE UNCHANGED vars
  <2>1. pc' = pc /\ op_i' = op_i /\ next_ops' = next_ops /\ ops' = ops
      BY <1>6 DEF vars, walk
  <2>2. (Walked' <=> Walked) /\ \A i : Probed(i)' <=> Probed(i)
      BY <2>1 DEF Probed, Walked
  <2>. QED
      BY <1>1, <1>2, <2>1, <2>2, OpsInvNext DEF OpsInv
<1>. QED
    BY <1>4, <1>5, <1>6

\* The operations in the buffers, for every step.
LEMMA OpsStep ==
    ASSUME IInv, [Next]_vars
    PROVE  OpsInv'
BY Moves, FillOps, ProbeOps, BroadcastOps, WalkOps, TurnOps

-----------------------------------------------------------------------------
(* The order of the operations.                                               *)

\* The first command of an operation is one of those taken.
LEMMA FirstTaken ==
    ASSUME NEW op, NEW taken \in Nat, NEW asked, Genuine(op, taken, asked)
    PROVE  First(op) \in Nat /\ First(op) >= 1 /\ First(op) <= taken /\ 1 \in DOMAIN op.commands
<1>1. op \in Op /\ Len(op.commands) >= 1
    BY DEF Genuine
<1>2. 1 \in DOMAIN op.commands
    BY SMTT(120), <1>1 DEF Op
<1>3. op.commands[1] \in 1..taken
    BY <1>2 DEF Genuine
<1>. QED
    BY SMTT(120), <1>2, <1>3 DEF First

\* The first commands of all operations.
LEMMA Firsts ==
    ASSUME IInv
    PROVE  /\ fetched \in Nat
           /\ \A i \in DOMAIN ops : /\ First(ops[i]) \in Nat /\ First(ops[i]) >= 1
                                    /\ First(ops[i]) <= fetched
           /\ \A i \in DOMAIN next_ops : /\ First(next_ops[i]) \in Nat /\ First(next_ops[i]) >= 1
                                         /\ First(next_ops[i]) <= fetched
<1>1. TypeOK /\ OpsInv
    BY DEF IInv
<1>2. fetched \in Nat
    BY <1>1, Types
<1>. QED
    BY <1>1, <1>2, FirstTaken DEF OpsInv

\* The clauses of OrderInv after a step.
LEMMA OrderInvNext ==
    ASSUME \A i, j \in DOMAIN ops' : i < j => First(ops'[i]) < First(ops'[j]),
           \A i, j \in DOMAIN next_ops' : i < j => First(next_ops'[i]) < First(next_ops'[j]),
           \A i \in DOMAIN next_ops', j \in DOMAIN ops' :
              j >= op_i' => First(next_ops'[i]) < First(ops'[j])
    PROVE  OrderInv'
BY DEF OrderInv, First

\* A step that keeps the first command of every operation, outside the walk.
LEMMA SameOrder ==
    ASSUME IInv, DOMAIN ops' = DOMAIN ops, \A i \in DOMAIN ops : First(ops'[i]) = First(ops[i]),
           next_ops' = <<>>
    PROVE  OrderInv'
<1>1. \A i, j \in DOMAIN ops : i < j => First(ops[i]) < First(ops[j])
    BY DEF IInv, OrderInv
<1>2. DOMAIN <<>> = {}
    BY SMTT(120)
<1>3. ASSUME NEW i \in DOMAIN ops', NEW j \in DOMAIN ops', i < j
      PROVE  First(ops'[i]) < First(ops'[j])
  <2>1. i \in DOMAIN ops /\ j \in DOMAIN ops
      OBVIOUS
  <2>2. First(ops'[i]) = First(ops[i]) /\ First(ops'[j]) = First(ops[j])
      BY <2>1
  <2>. QED
      BY <1>1, <1>3, <2>1, <2>2
<1>. QED
    BY <1>2, <1>3, OrderInvNext

\* A hit, a miss or a broadcast leaves an operation its commands.
LEMMA Retained ==
    ASSUME IInv, NEW i \in DOMAIN ops, NEW op, op \in Op, ops' = [ops EXCEPT ![i] = op],
           First(op) = First(ops[i])
    PROVE  DOMAIN ops' = DOMAIN ops /\ \A j \in DOMAIN ops : First(ops'[j]) = First(ops[j])
<1>1. TypeOK
    BY DEF IInv
<1>2. /\ DOMAIN ops' = DOMAIN ops /\ ops'[i] = op
      /\ \A j \in DOMAIN ops : j # i => ops'[j] = ops[j]
    BY <1>1, OpReplaced
<1>. QED
    BY <1>2

\* The order of the operations, for every step.
LEMMA OrderStep ==
    ASSUME IInv, [Next]_vars
    PROVE  OrderInv'
<1>1. TypeOK /\ StageInv /\ OrderInv
    BY DEF IInv
<1>2. /\ DOMAIN ops = 1..Len(ops) /\ DOMAIN next_ops = 1..Len(next_ops) /\ Len(ops) \in Nat
      /\ Len(next_ops) \in Nat /\ op_i \in Nat
    BY <1>1, Types
<1>3. DOMAIN <<>> = {}
    BY SMTT(120)
<1>4. ~ Walked => next_ops = <<>>
    BY <1>1 DEF StageInv
<1>5. ASSUME NEW i, NEW op, JoinsAt(i, op) PROVE OrderInv'
  <2>1. /\ i \in DOMAIN ops /\ op \in Op /\ ops' = [ops EXCEPT ![i] = op]
        /\ First(op) = First(ops[i]) /\ next_ops' = next_ops /\ ~ Walked
      BY <1>5 DEF JoinsAt, Genuine, Walked
  <2>. QED
      BY <1>4, <2>1, Retained, SameOrder
<1>6. ASSUME NEW op, NEW S, NEW F, ProbedAs(op, S, F) PROVE OrderInv'
  <2>1. /\ op_i \in DOMAIN ops /\ op \in Op /\ ops' = [ops EXCEPT ![op_i] = op]
        /\ First(op) = First(ops[op_i]) /\ next_ops' = next_ops /\ ~ Walked
      BY <1>6 DEF ProbedAs, Genuine, Walked
  <2>. QED
      BY <1>4, <2>1, Retained, SameOrder
<1>7. ASSUME NEW op, SentAs(op) PROVE OrderInv'
  <2>1. /\ op_i \in DOMAIN ops /\ op \in Op /\ ops' = [ops EXCEPT ![op_i] = op]
        /\ First(op) = First(ops[op_i]) /\ next_ops' = next_ops /\ ~ Walked
      BY <1>7 DEF SentAs, Genuine, Walked
  <2>. QED
      BY <1>4, <2>1, Retained, SameOrder
<1>8. CASE Skipped \/ CoalesceAborts \/ StartWalk
  <2>1. ops' = ops /\ (next_ops' = <<>> \/ (next_ops' = next_ops /\ ~ Walked))
      BY <1>8 DEF Skipped, CoalesceAborts, StartWalk, Filling, Walked, walk
  <2>. QED
      BY <1>4, <2>1, SameOrder
<1>9. ASSUME NEW op, TakenAs(op) PROVE OrderInv'
  <2>1. /\ op \in Op /\ ops' = Append(ops, op) /\ First(op) = fetched + 1
        /\ next_ops' = next_ops /\ ~ Walked
      BY <1>9 DEF TakenAs, Genuine, Walked
  <2>2. PICK n : n = Len(ops) + 1
      OBVIOUS
  <2>3. /\ DOMAIN ops' = DOMAIN ops \cup {n} /\ ops'[n] = op
        /\ \A j \in DOMAIN ops : ops'[j] = ops[j] /\ j < n
      BY <1>1, <2>1, <2>2, OpAdded
  <2>4. \A j \in DOMAIN ops : First(ops[j]) < fetched + 1 /\ ~ (n < j) /\ ~ (n < n)
      BY SMTT(120), <1>2, <2>2, <2>3, Firsts
  <2>5. ASSUME NEW i \in DOMAIN ops', NEW j \in DOMAIN ops', i < j
        PROVE  First(ops'[i]) < First(ops'[j])
    <3>1. ~ (n < n)
        BY SMTT(120), <1>2, <2>2
    <3>2. i \in DOMAIN ops
        BY <2>3, <2>4, <2>5, <3>1
    <3>3. CASE j \in DOMAIN ops
        BY <1>1, <2>3, <2>5, <3>2, <3>3 DEF OrderInv
    <3>4. CASE j = n
        BY <2>1, <2>3, <2>4, <3>2, <3>4
    <3>. QED
        BY <2>3, <3>3, <3>4
  <2>. QED
      BY <1>3, <1>4, <2>1, <2>5, OrderInvNext
<1>10. ASSUME NEW op, Kept(op) PROVE OrderInv'
  <2>1. /\ op \in Op /\ next_ops' = Append(next_ops, op) /\ First(op) = First(ops[op_i])
        /\ ops' = ops /\ op_i \in DOMAIN ops /\ op_i' = op_i + 1
      BY <1>10 DEF Kept, Genuine, First
  <2>2. PICK n : n = Len(next_ops) + 1
      OBVIOUS
  <2>3. /\ DOMAIN next_ops' = DOMAIN next_ops \cup {n} /\ next_ops'[n] = op
        /\ \A j \in DOMAIN next_ops : next_ops'[j] = next_ops[j] /\ j < n
      BY <1>1, <2>1, <2>2, NextAdded
  <2>4. /\ ~ (n < n) /\ \A j \in DOMAIN next_ops : ~ (n < j)
        /\ op_i >= op_i /\ \A j \in DOMAIN ops : j >= op_i' => op_i < j /\ j >= op_i
      BY SMTT(120), <1>2, <2>1, <2>2
  <2>5. ASSUME NEW i \in DOMAIN next_ops', NEW j \in DOMAIN next_ops', i < j
        PROVE  First(next_ops'[i]) < First(next_ops'[j])
    <3>1. i \in DOMAIN next_ops
        BY <2>3, <2>4, <2>5
    <3>2. CASE j \in DOMAIN next_ops
        BY <1>1, <2>3, <2>5, <3>1, <3>2 DEF OrderInv
    <3>3. CASE j = n
        BY <1>1, <2>1, <2>3, <2>4, <3>1, <3>3 DEF OrderInv
    <3>. QED
        BY <2>3, <3>2, <3>3
  <2>6. ASSUME NEW i \in DOMAIN next_ops', NEW j \in DOMAIN ops, j >= op_i'
        PROVE  First(next_ops'[i]) < First(ops[j])
    <3>1. CASE i \in DOMAIN next_ops
        BY <1>1, <2>3, <2>4, <2>6, <3>1 DEF OrderInv
    <3>2. CASE i = n
        BY <1>1, <2>1, <2>3, <2>4, <2>6, <3>2 DEF OrderInv
    <3>. QED
        BY <2>3, <3>1, <3>2
  <2>. QED
      BY <1>1, <2>1, <2>5, <2>6, OrderInvNext DEF OrderInv
<1>11. CASE Dropped \/ Issued
  <2>1. ops' = ops /\ next_ops' = next_ops /\ op_i \in DOMAIN ops /\ op_i' = op_i + 1
      BY <1>11 DEF Dropped, Issued
  <2>2. \A j \in DOMAIN ops : j >= op_i' => j >= op_i
      BY SMTT(120), <1>2, <2>1
  <2>. QED
      BY <1>1, <2>1, <2>2, OrderInvNext DEF OrderInv
<1>12. CASE SwapOps
    BY <1>1, <1>3, <1>12, OrderInvNext DEF OrderInv, SwapOps
<1>13. CASE UNCHANGED vars
    BY <1>1, <1>13, OrderInvNext DEF OrderInv, vars, walk
<1>. QED
    BY <1>5, <1>6, <1>7, <1>8, <1>9, <1>10, <1>11, <1>12, <1>13, Moves

-----------------------------------------------------------------------------
(* The order of the requests to a home machine.                               *)

\* The clauses of HomeInv after a step.
LEMMA HomeInvNext ==
    ASSUME Asked' = Asked,
           \A i, j \in DOMAIN served' :
              i < j /\ Asked[served'[i]].key \in Home /\ Asked[served'[i]].key = Asked[served'[j]].key
                  => served'[i] < served'[j],
           \A i \in DOMAIN served', j \in DOMAIN ops' :
              (Walked' => j >= op_i') => Before(served'[i], ops'[j]),
           \A i \in DOMAIN served', j \in DOMAIN next_ops' : Before(served'[i], next_ops'[j]),
           \A j \in DOMAIN next_ops' :
              pc' = "walk" /\ next_ops'[j].key \in Home
                  => per_worker_outstanding'[next_ops'[j].key] >= KVS_BATCH \/ wr_i' >= WINDOW_SIZE
    PROVE  HomeInv'
BY DEF HomeInv, Before, First

\* The served commands are some that were taken.
LEMMA ServedTaken ==
    ASSUME TypeOK
    PROVE  \A i \in DOMAIN served : /\ served[i] \in 1..fetched /\ served[i] \in Nat
                                    /\ served[i] >= 1 /\ served[i] <= fetched
<1>1. served \in Seq(1..fetched) /\ fetched \in Nat
    BY Types
<1>2. \A i \in DOMAIN served : served[i] \in 1..fetched
    BY <1>1, MembersOf
<1>. QED
    BY SMTT(120), <1>1, <1>2

\* Every served command was served before the step, or is not a cold one.
OnlyHotServed ==
    \A i \in DOMAIN served' : \/ i \in DOMAIN served /\ served'[i] = served[i]
                              \/ Asked[served'[i]].key \notin Home

\* A step outside the walk that keeps the keys and the order of the operations.
LEMMA SameHome ==
    ASSUME IInv, [Next]_vars, ~ Walked, next_ops' = <<>>, DOMAIN ops' = DOMAIN ops,
           \A i \in DOMAIN ops : First(ops'[i]) = First(ops[i]) /\ ops'[i].key = ops[i].key,
           OnlyHotServed
    PROVE  HomeInv'
<1>1. /\ \A i, j \in DOMAIN served :
            i < j /\ Asked[served[i]].key \in Home /\ Asked[served[i]].key = Asked[served[j]].key
                => served[i] < served[j]
      /\ \A i \in DOMAIN served, j \in DOMAIN ops : Before(served[i], ops[j])
    BY DEF IInv, HomeInv
<1>2. Asked' = Asked
    BY SameInput
<1>3. DOMAIN <<>> = {}
    BY SMTT(120)
<1>4. \A i, j \in DOMAIN served' :
         i < j /\ Asked[served'[i]].key \in Home /\ Asked[served'[i]].key = Asked[served'[j]].key
             => served'[i] < served'[j]
    BY <1>1 DEF OnlyHotServed
<1>5. ASSUME NEW i \in DOMAIN served', NEW j \in DOMAIN ops' PROVE Before(served'[i], ops'[j])
  <2>1. j \in DOMAIN ops /\ First(ops'[j]) = First(ops[j]) /\ ops'[j].key = ops[j].key
      OBVIOUS
  <2>2. CASE i \in DOMAIN served /\ served'[i] = served[i]
      BY <1>1, <2>1, <2>2 DEF Before
  <2>3. CASE Asked[served'[i]].key \notin Home
      BY <2>3 DEF Before
  <2>. QED
      BY <2>2, <2>3 DEF OnlyHotServed
<1>. QED
    BY <1>2, <1>3, <1>4, <1>5, HomeInvNext

\* The commands of a hot operation added to the served ones.
LEMMA HotServes ==
    ASSUME TypeOK, NEW op, Genuine(op, fetched, Asked), NEW S, served' = served \o S,
           S = <<>> \/ (S = op.commands /\ op.key \in Hot)
    PROVE  OnlyHotServed
<1>1. served \in Seq(1..fetched)
    BY Types
<1>2. S \in Seq(1..fetched)
    BY <1>1, HistoryTypes
<1>3. /\ \A i \in DOMAIN served : i \in DOMAIN served' /\ served'[i] = served[i]
      /\ \A j \in DOMAIN S : served'[Len(served) + j] = S[j]
      /\ \A i \in DOMAIN served' : i \in DOMAIN served \/ \E j \in DOMAIN S : i = Len(served) + j
    BY SMTT(120), <1>1, <1>2, Joined
<1>4. DOMAIN <<>> = {}
    BY SMTT(120)
<1>5. ASSUME NEW j \in DOMAIN S PROVE Asked[S[j]].key \notin Home
    BY <1>4, KeyAssumption DEF Genuine
<1>. QED
  <2>. SUFFICES ASSUME NEW i \in DOMAIN served'
                PROVE  \/ i \in DOMAIN served /\ served'[i] = served[i]
                       \/ Asked[served'[i]].key \notin Home
      BY DEF OnlyHotServed
  <2>1. CASE i \in DOMAIN served
      BY <1>3, <2>1
  <2>2. CASE i \notin DOMAIN served
    <3>1. PICK j \in DOMAIN S : i = Len(served) + j
        BY <1>3, <2>2
    <3>. QED
        BY <1>3, <1>5, <3>1
  <2>. QED
      BY <2>1, <2>2

\* The order of the requests, outside the walk.
LEMMA HomeOutside ==
    ASSUME IInv, [Next]_vars, \/ \E i, op : JoinsAt(i, op)
                              \/ \E op, S, F : ProbedAs(op, S, F)
                              \/ \E op : SentAs(op)
                              \/ Skipped \/ CoalesceAborts \/ StartWalk
    PROVE  HomeInv'
<1>1. TypeOK /\ StageInv /\ OpsInv
    BY DEF IInv
<1>2. ~ Walked /\ next_ops' = <<>>
  <2>1. ~ Walked
      BY DEF Walked, JoinsAt, ProbedAs, SentAs, Skipped, CoalesceAborts, StartWalk, Filling
  <2>2. next_ops = <<>>
      BY <1>1, <2>1 DEF StageInv
  <2>. QED
      BY <2>1, <2>2 DEF JoinsAt, ProbedAs, SentAs, Skipped, CoalesceAborts, StartWalk, walk
<1>3. ASSUME NEW i \in DOMAIN ops, NEW op \in Op, ops' = [ops EXCEPT ![i] = op],
             op.key = ops[i].key, First(op) = First(ops[i])
      PROVE  /\ DOMAIN ops' = DOMAIN ops
             /\ \A j \in DOMAIN ops : First(ops'[j]) = First(ops[j]) /\ ops'[j].key = ops[j].key
  <2>1. /\ DOMAIN ops' = DOMAIN ops /\ ops'[i] = op
        /\ \A j \in DOMAIN ops : j # i => ops'[j] = ops[j]
      BY <1>1, <1>3, OpReplaced
  <2>. QED
      BY <1>3, <2>1
<1>4. served' = served => OnlyHotServed
    BY DEF OnlyHotServed
<1>5. ASSUME NEW i, NEW op, JoinsAt(i, op) PROVE HomeInv'
  <2>1. /\ i \in DOMAIN ops /\ op \in Op /\ ops' = [ops EXCEPT ![i] = op]
        /\ op.key = ops[i].key /\ First(op) = First(ops[i]) /\ served' = served
      BY <1>5 DEF JoinsAt, Genuine
  <2>. QED
      BY <1>2, <1>3, <1>4, <2>1, SameHome
<1>6. ASSUME NEW op, NEW S, NEW F, ProbedAs(op, S, F) PROVE HomeInv'
  <2>1. /\ op_i \in DOMAIN ops /\ op \in Op /\ ops' = [ops EXCEPT ![op_i] = op]
        /\ op.key = ops[op_i].key /\ First(op) = First(ops[op_i]) /\ served' = served \o S
        /\ S = <<>> \/ (S = ops[op_i].commands /\ ops[op_i].key \in Hot)
      BY <1>6 DEF ProbedAs, Genuine
  <2>2. Genuine(ops[op_i], fetched, Asked)
      BY <1>1, <2>1 DEF OpsInv
  <2>3. OnlyHotServed
      BY <1>1, <2>1, <2>2, HotServes
  <2>. QED
      BY <1>2, <1>3, <2>1, <2>3, SameHome
<1>7. ASSUME NEW op, SentAs(op) PROVE HomeInv'
  <2>1. /\ op_i \in DOMAIN ops /\ op \in Op /\ ops' = [ops EXCEPT ![op_i] = op]
        /\ op.key = ops[op_i].key /\ First(op) = First(ops[op_i]) /\ served' = served
      BY <1>7 DEF SentAs, Genuine
  <2>. QED
      BY <1>2, <1>3, <1>4, <2>1, SameHome
<1>8. CASE Skipped \/ CoalesceAborts \/ StartWalk
  <2>1. ops' = ops /\ served' = served
      BY <1>8 DEF Skipped, CoalesceAborts, StartWalk, history
  <2>. QED
      BY <1>2, <1>4, <2>1, SameHome
<1>. QED
    BY <1>5, <1>6, <1>7, <1>8

\* The order of the requests, when a command becomes an operation.
LEMMA HomeTaken ==
    ASSUME IInv, [Next]_vars, NEW op, TakenAs(op)
    PROVE  HomeInv'
<1>1. TypeOK /\ StageInv /\ HomeInv
    BY DEF IInv
<1>2. /\ op \in Op /\ ops' = Append(ops, op) /\ First(op) = fetched + 1
      /\ next_ops' = next_ops /\ served' = served /\ ~ Walked
    BY DEF TakenAs, Genuine, Walked
<1>3. PICK n : n = Len(ops) + 1
    OBVIOUS
<1>4. /\ DOMAIN ops' = DOMAIN ops \cup {n} /\ ops'[n] = op
      /\ \A j \in DOMAIN ops : ops'[j] = ops[j]
    BY <1>1, <1>2, <1>3, OpAdded
<1>5. \A i \in DOMAIN served : served[i] < First(op)
    BY SMTT(120), <1>1, <1>2, ServedTaken, Types
<1>6. \A i \in DOMAIN served, j \in DOMAIN ops' : Before(served[i], ops'[j])
    BY <1>1, <1>2, <1>4, <1>5 DEF HomeInv, Before
<1>7. next_ops = <<>> /\ DOMAIN <<>> = {}
    BY SMTT(120), <1>1, <1>2 DEF StageInv
<1>. QED
    BY <1>1, <1>2, <1>6, <1>7, SameInput, HomeInvNext DEF HomeInv

\* The order of the requests, when an operation is kept or dropped.
LEMMA HomeKept ==
    ASSUME IInv, [Next]_vars, (\E op : Kept(op)) \/ Dropped
    PROVE  HomeInv'
<1>1. TypeOK /\ HomeInv
    BY DEF IInv
<1>2. /\ op_i \in DOMAIN ops /\ op_i' = op_i + 1 /\ ops' = ops /\ served' = served
      /\ Walked /\ Walked'
      /\ pc' = "walk" => pc = "walk"
      /\ per_worker_outstanding' = per_worker_outstanding /\ wr_i' = wr_i
    BY DEF Kept, Dropped, Walked
<1>3. op_i >= op_i /\ \A j \in DOMAIN ops : j >= op_i' => j >= op_i
    BY SMTT(120), <1>1, <1>2, Types
<1>4. /\ \A i \in DOMAIN served, j \in DOMAIN next_ops' : Before(served[i], next_ops'[j])
      /\ \A j \in DOMAIN next_ops' :
            pc' = "walk" /\ next_ops'[j].key \in Home
                => per_worker_outstanding[next_ops'[j].key] >= KVS_BATCH \/ wr_i >= WINDOW_SIZE
  <2>1. CASE Dropped
      BY <1>1, <1>2, <2>1 DEF HomeInv, Dropped
  <2>2. ASSUME NEW op, Kept(op)
        PROVE  /\ \A i \in DOMAIN served, j \in DOMAIN next_ops' : Before(served[i], next_ops'[j])
               /\ \A j \in DOMAIN next_ops' :
                     pc' = "walk" /\ next_ops'[j].key \in Home
                         => per_worker_outstanding[next_ops'[j].key] >= KVS_BATCH \/ wr_i >= WINDOW_SIZE
    <3>1. /\ op \in Op /\ next_ops' = Append(next_ops, op) /\ First(op) = First(ops[op_i])
          /\ op.key = ops[op_i].key
          /\ pc' = "walk" /\ op.key \in Home
                => per_worker_outstanding[op.key] >= KVS_BATCH \/ wr_i >= WINDOW_SIZE
        BY <2>2 DEF Kept, Genuine, First
    <3>2. PICK n : n = Len(next_ops) + 1
        OBVIOUS
    <3>3. /\ DOMAIN next_ops' = DOMAIN next_ops \cup {n} /\ next_ops'[n] = op
          /\ \A j \in DOMAIN next_ops : next_ops'[j] = next_ops[j]
        BY <1>1, <3>1, <3>2, NextAdded
    <3>4. \A i \in DOMAIN served : Before(served[i], op)
      <4>1. \A i \in DOMAIN served : Before(served[i], ops[op_i])
          BY <1>1, <1>2, <1>3 DEF HomeInv
      <4>. QED
          BY <3>1, <4>1 DEF Before
    <3>5. \A j \in DOMAIN next_ops :
             pc' = "walk" /\ next_ops[j].key \in Home
                 => per_worker_outstanding[next_ops[j].key] >= KVS_BATCH \/ wr_i >= WINDOW_SIZE
        BY <1>1, <1>2 DEF HomeInv
    <3>6. \A i \in DOMAIN served, j \in DOMAIN next_ops : Before(served[i], next_ops[j])
        BY <1>1 DEF HomeInv
    <3>7. ASSUME NEW i \in DOMAIN served, NEW j \in DOMAIN next_ops' PROVE Before(served[i], next_ops'[j])
        BY <3>3, <3>4, <3>6
    <3>8. ASSUME NEW j \in DOMAIN next_ops', pc' = "walk", next_ops'[j].key \in Home
          PROVE  per_worker_outstanding[next_ops'[j].key] >= KVS_BATCH \/ wr_i >= WINDOW_SIZE
      <4>1. CASE j \in DOMAIN next_ops
          BY <3>3, <3>5, <3>8, <4>1
      <4>2. CASE j = n
          BY <3>1, <3>3, <3>8, <4>2
      <4>. QED
          BY <3>3, <4>1, <4>2
    <3>. QED
        BY <3>7, <3>8
  <2>. QED
      BY <2>1, <2>2
<1>5. \A i \in DOMAIN served, j \in DOMAIN ops : (Walked' => j >= op_i') => Before(served[i], ops[j])
    BY <1>1, <1>2, <1>3 DEF HomeInv
<1>6. \A i, j \in DOMAIN served :
         i < j /\ Asked[served[i]].key \in Home /\ Asked[served[i]].key = Asked[served[j]].key
             => served[i] < served[j]
    BY <1>1 DEF HomeInv
<1>. QED
    BY <1>2, <1>4, <1>5, <1>6, SameInput, HomeInvNext

\* The order of the requests, when one is issued: no request to the same machine
\* is older, since none that was kept finds room later in the walk.
LEMMA HomeIssued ==
    ASSUME IInv, [Next]_vars, Issued
    PROVE  HomeInv'
<1>. DEFINE op == ops[op_i]
            c == First(op)
<1>1. TypeOK /\ HomeInv /\ OpsInv /\ OrderInv
    BY DEF IInv
<1>2. /\ op_i \in DOMAIN ops /\ op_i' = op_i + 1 /\ ops' = ops /\ next_ops' = next_ops
      /\ served' = served \o op.commands /\ Miss(op) /\ HasRoom(op.key) /\ wr_i < WINDOW_SIZE
      /\ wr_i' = wr_i + 1 /\ pc = "walk" /\ pc' = "walk"
      /\ per_worker_outstanding' = [per_worker_outstanding EXCEPT ![op.key] = @ + 1]
    BY DEF Issued
<1>3. Walked /\ Walked'
    BY <1>2 DEF Walked
<1>4. Genuine(op, fetched, Asked)
    BY <1>1, <1>2 DEF OpsInv
<1>5. /\ op.key \in Home /\ DOMAIN op.commands = {1} /\ Asked[c].key = op.key
      /\ op.commands[1] = c
    BY <1>2, <1>4, ColdOp DEF First
<1>6. op.commands \in Seq(1..fetched) /\ served \in Seq(1..fetched)
    BY <1>1, <1>4, CommandsTaken, Types
<1>. HIDE DEF op, c
<1>7. PICK n : n = Len(served) + 1
    OBVIOUS
<1>8. /\ \A i \in DOMAIN served : i \in DOMAIN served' /\ served'[i] = served[i] /\ i < n
      /\ served'[n] = c
      /\ \A i \in DOMAIN served' : i \in DOMAIN served \/ i = n
      /\ ~ (n < n) /\ \A i \in DOMAIN served : ~ (n < i)
    BY SMTT(120), <1>2, <1>5, <1>6, <1>7
<1>9. /\ op_i >= op_i /\ \A j \in DOMAIN ops : j >= op_i' => j >= op_i /\ op_i < j
    BY SMTT(120), <1>1, <1>2, Types
<1>10. /\ per_worker_outstanding \in [Home -> 0..KVS_BATCH] /\ KVS_BATCH \in Nat
       /\ wr_i \in Nat /\ WINDOW_SIZE \in Nat
    BY <1>1, Types
<1>11. ~ (per_worker_outstanding[op.key] >= KVS_BATCH) /\ ~ (wr_i >= WINDOW_SIZE)
    BY SMTT(120), <1>2, <1>5, <1>10 DEF HasRoom
<1>12. \A j \in DOMAIN next_ops : next_ops[j].key # op.key
    BY <1>1, <1>2, <1>5, <1>11 DEF HomeInv
<1>13. \A i \in DOMAIN served : Before(served[i], op)
    BY <1>1, <1>2, <1>9 DEF HomeInv, op
<1>14. ASSUME NEW i \in DOMAIN served', NEW j \in DOMAIN served', i < j,
              Asked[served'[i]].key \in Home, Asked[served'[i]].key = Asked[served'[j]].key
       PROVE  served'[i] < served'[j]
  <2>1. i \in DOMAIN served
      BY <1>8, <1>14
  <2>2. CASE j \in DOMAIN served
      BY <1>1, <1>8, <1>14, <2>1, <2>2 DEF HomeInv
  <2>3. CASE j = n
      BY <1>5, <1>8, <1>13, <1>14, <2>1, <2>3 DEF Before, c
  <2>. QED
      BY <1>8, <2>2, <2>3
<1>15. ASSUME NEW i \in DOMAIN served', NEW j \in DOMAIN ops, j >= op_i'
       PROVE  Before(served'[i], ops[j])
  <2>1. CASE i \in DOMAIN served
      BY <1>1, <1>8, <1>9, <1>15, <2>1 DEF HomeInv
  <2>2. CASE i = n
    <3>1. c < First(ops[j])
        BY <1>1, <1>2, <1>9, <1>15 DEF OrderInv, c, op
    <3>. QED
        BY <1>8, <2>2, <3>1 DEF Before
  <2>. QED
      BY <1>8, <2>1, <2>2
<1>16. ASSUME NEW i \in DOMAIN served', NEW j \in DOMAIN next_ops PROVE Before(served'[i], next_ops[j])
    BY <1>1, <1>5, <1>8, <1>12 DEF HomeInv, Before
<1>17. ASSUME NEW j \in DOMAIN next_ops, next_ops[j].key \in Home
       PROVE  per_worker_outstanding'[next_ops[j].key] >= KVS_BATCH
  <2>1. per_worker_outstanding'[next_ops[j].key] = per_worker_outstanding[next_ops[j].key]
      BY <1>2, <1>10, <1>12, <1>17
  <2>. QED
      BY <1>1, <1>2, <1>11, <1>17, <2>1 DEF HomeInv
<1>. QED
    BY <1>2, <1>3, <1>14, <1>15, <1>16, <1>17, SameInput, HomeInvNext

\* The order of the requests, for every step.
LEMMA HomeStep ==
    ASSUME IInv, [Next]_vars
    PROVE  HomeInv'
<1>1. CASE SwapOps
  <2>1. /\ ops' = next_ops /\ next_ops' = <<>> /\ served' = served /\ HomeInv
      BY <1>1 DEF SwapOps, history, IInv
  <2>2. DOMAIN <<>> = {}
      BY SMTT(120)
  <2>. QED
      BY <2>1, <2>2, SameInput, HomeInvNext DEF HomeInv
<1>2. CASE UNCHANGED vars
  <2>1. /\ ops' = ops /\ next_ops' = next_ops /\ served' = served /\ HomeInv /\ pc' = pc /\ op_i' = op_i
        /\ per_worker_outstanding' = per_worker_outstanding /\ wr_i' = wr_i
      BY <1>2 DEF vars, walk, history, IInv
  <2>2. Walked' <=> Walked
      BY <2>1 DEF Walked
  <2>. QED
      BY <2>1, <2>2, SameInput, HomeInvNext DEF HomeInv
<1>. QED
    BY <1>1, <1>2, Moves, HomeOutside, HomeTaken, HomeKept, HomeIssued

-----------------------------------------------------------------------------
(* Reads and writes of hot keys under SC.                                     *)

\* The clauses of ReadInv after a step.
LEMMA ReadInvNext ==
    ASSUME Asked' = Asked, protocol' = protocol,
           protocol = "SC" => \A i, j \in DOMAIN served' :
              i < j /\ Conflict(served'[i], served'[j]) => served'[i] < served'[j],
           protocol = "SC" => \A i \in DOMAIN served', j \in DOMAIN ops' :
              \A n \in DOMAIN ops'[j].commands :
                 Toprobe(j)' /\ Conflict(served'[i], ops'[j].commands[n])
                     => served'[i] < ops'[j].commands[n],
           protocol = "SC" => \A i, j \in DOMAIN ops' :
              \A m \in DOMAIN ops'[i].commands, n \in DOMAIN ops'[j].commands :
                 Toprobe(i)' /\ i < j /\ Conflict(ops'[i].commands[m], ops'[j].commands[n])
                     => ops'[i].commands[m] < ops'[j].commands[n],
           protocol = "SC" => \A k \in Tracked, j \in DOMAIN ops' :
              Filled' /\ hottest_keys_pointers'[k] # 0 /\ hottest_keys_pointers'[k] < j /\ ops'[j].key = k
                  => ops'[j].opcode = "GET"
    PROVE  ReadInv'
BY DEF ReadInv, Conflict

\* Nothing is left to be probed.
LEMMA NoneToprobe ==
    ASSUME [Next]_vars, pc' \in {"broadcast", "walk", "rest"},
           protocol = "SC" => \A i, j \in DOMAIN served' :
               i < j /\ Conflict(served'[i], served'[j]) => served'[i] < served'[j]
    PROVE  ReadInv'
<1>1. ~ Filled' /\ \A i : ~ Toprobe(i)'
    BY DEF Filled, Toprobe
<1>2. Asked' = Asked /\ protocol' = protocol
    BY SameInput
<1>. QED
    BY <1>1, <1>2, ReadInvNext

\* The commands of an operation, and of one operation after another.
LEMMA CommandFacts ==
    ASSUME IInv
    PROVE  /\ \A i \in DOMAIN ops : \A m \in DOMAIN ops[i].commands :
                 /\ ops[i].commands[m] \in Nat /\ ops[i].commands[m] >= 1
                 /\ ops[i].commands[m] <= fetched
                 /\ Asked[ops[i].commands[m]].key = ops[i].key
                 /\ Asked[ops[i].commands[m]].opcode = "GET" <=> ops[i].opcode = "GET"
           /\ \A i \in DOMAIN ops : \A m, n \in DOMAIN ops[i].commands :
                 m < n => ~ Conflict(ops[i].commands[m], ops[i].commands[n])
<1>1. TypeOK /\ OpsInv
    BY DEF IInv
<1>2. fetched \in Nat
    BY <1>1, Types
<1>3. ASSUME NEW i \in DOMAIN ops, NEW m \in DOMAIN ops[i].commands
      PROVE  /\ ops[i].commands[m] \in Nat /\ ops[i].commands[m] >= 1
             /\ ops[i].commands[m] <= fetched
             /\ Asked[ops[i].commands[m]].key = ops[i].key
             /\ Asked[ops[i].commands[m]].opcode = "GET" <=> ops[i].opcode = "GET"
  <2>1. /\ ops[i].commands[m] \in 1..fetched
        /\ Asked[ops[i].commands[m]].key = ops[i].key
        /\ Asked[ops[i].commands[m]].opcode = "GET" <=> ops[i].opcode = "GET"
      BY <1>1, <1>3 DEF OpsInv, Genuine
  <2>2. /\ ops[i].commands[m] \in Nat /\ ops[i].commands[m] >= 1
        /\ ops[i].commands[m] <= fetched
      BY SMTT(120), <1>2, <2>1
  <2>. QED
      BY <2>1, <2>2
<1>4. ASSUME NEW i \in DOMAIN ops, NEW m \in DOMAIN ops[i].commands,
             NEW n \in DOMAIN ops[i].commands, m < n
      PROVE  ~ Conflict(ops[i].commands[m], ops[i].commands[n])
  <2>1. ops[i] \in Op /\ (Len(ops[i].commands) = 1 \/ ops[i].opcode = "GET")
      BY <1>1 DEF OpsInv, Genuine
  <2>2. Len(ops[i].commands) # 1
      BY SMTT(120), <1>4, <2>1 DEF Op
  <2>3. ops[i].opcode = "GET"
      BY <2>1, <2>2
  <2>4. Asked[ops[i].commands[m]].opcode = "GET" /\ Asked[ops[i].commands[n]].opcode = "GET"
      BY <1>3, <2>3
  <2>. QED
      BY <2>4 DEF Conflict
<1>. QED
    BY <1>3, <1>4

\* Reads and writes, when a command joins a read: it is the newest command, and
\* no write of its key is behind the read.
LEMMA ReadJoins ==
    ASSUME IInv, [Next]_vars, NEW i, NEW op, JoinsAt(i, op)
    PROVE  ReadInv'
<1>. DEFINE new == fetched + 1
            at == Len(ops[i].commands) + 1
<1>1. TypeOK /\ OpsInv /\ ReadInv
    BY DEF IInv
<1>2. /\ i \in DOMAIN ops /\ op \in Op /\ ops' = [ops EXCEPT ![i] = op]
      /\ op.key = ops[i].key /\ op.opcode = ops[i].opcode /\ op.commands = Append(ops[i].commands, new)
      /\ op.key \in Tracked /\ hottest_keys_pointers[op.key] = i
      /\ Asked[new].key = op.key /\ Asked[new].opcode = "GET"
      /\ pc = "fill" /\ pc' = "fill" /\ op_i' = op_i /\ served' = served
      /\ hottest_keys_pointers' = hottest_keys_pointers
    BY DEF JoinsAt, Genuine
<1>3. /\ DOMAIN ops' = DOMAIN ops /\ ops'[i] = op
      /\ \A j \in DOMAIN ops : j # i => ops'[j] = ops[j]
    BY <1>1, <1>2, OpReplaced
<1>4. fetched \in Nat /\ ops[i].commands \in Seq(Nat) /\ DOMAIN ops = 1..Len(ops) /\ Len(ops) \in Nat
    BY <1>1, <1>2, Types, CommandsTaken DEF OpsInv
<1>5. /\ \A m \in DOMAIN ops[i].commands : op.commands[m] = ops[i].commands[m]
      /\ op.commands[at] = new
      /\ \A m \in DOMAIN op.commands : m \in DOMAIN ops[i].commands \/ m = at
    BY SMTT(120), <1>2, <1>4
<1>6. \A j \in DOMAIN ops : \A m \in DOMAIN ops'[j].commands :
          \/ m \in DOMAIN ops[j].commands /\ ops'[j].commands[m] = ops[j].commands[m]
          \/ j = i /\ ops'[j].commands[m] = new
    BY <1>3, <1>5
<1>7. /\ \A j \in DOMAIN served : served[j] < new
      /\ \A j \in DOMAIN ops : \A m \in DOMAIN ops[j].commands : ops[j].commands[m] < new
  <2>1. \A j \in DOMAIN served : served[j] < new
      BY SMTT(120), <1>1, <1>4, ServedTaken
  <2>2. ASSUME NEW j \in DOMAIN ops, NEW m \in DOMAIN ops[j].commands
        PROVE  ops[j].commands[m] < new
    <3>1. ops[j].commands[m] \in Nat /\ ops[j].commands[m] <= fetched
        BY CommandFacts
    <3>. QED
        BY SMTT(120), <1>4, <3>1
  <2>. QED
      BY <2>1, <2>2
<1>. HIDE DEF new, at
<1>8. Filled /\ Filled' /\ \A j : Toprobe(j)' <=> Toprobe(j)
    BY <1>2, <1>3 DEF Filled, Toprobe
<1>9. Asked' = Asked /\ protocol' = protocol
    BY SameInput
<1>10. ASSUME protocol = "SC", NEW j \in DOMAIN ops, i < j, NEW n \in DOMAIN ops[j].commands
       PROVE  ~ Conflict(new, ops[j].commands[n])
  <2>. SUFFICES ASSUME Conflict(new, ops[j].commands[n]) PROVE FALSE
      OBVIOUS
  <2>1. Asked[ops[j].commands[n]].key = ops[j].key
        /\ (Asked[ops[j].commands[n]].opcode = "GET" <=> ops[j].opcode = "GET")
      BY CommandFacts
  <2>2. ops[j].key = op.key /\ Asked[ops[j].commands[n]].opcode = "PUT"
      BY <1>2, <2>1 DEF Conflict
  <2>3. i # 0
      BY SMTT(120), <1>2, <1>4
  <2>4. ops[j].opcode = "GET"
      BY <1>1, <1>2, <1>8, <1>10, <2>2, <2>3 DEF ReadInv
  <2>. QED
      BY <2>1, <2>2, <2>4
<1>11. ASSUME protocol = "SC", NEW j \in DOMAIN ops, NEW l \in DOMAIN ops,
              NEW m \in DOMAIN ops'[j].commands, NEW n \in DOMAIN ops'[l].commands,
              Toprobe(j), j < l, Conflict(ops'[j].commands[m], ops'[l].commands[n])
       PROVE  ops'[j].commands[m] < ops'[l].commands[n]
  <2>0. j # l
      BY SMTT(120), <1>4, <1>11
  <2>1. CASE l = i /\ ops'[l].commands[n] = new
      BY <1>6, <1>7, <2>0, <2>1
  <2>2. CASE n \in DOMAIN ops[l].commands /\ ops'[l].commands[n] = ops[l].commands[n]
    <3>1. CASE j = i /\ ops'[j].commands[m] = new
        BY <1>10, <1>11, <2>2, <3>1
    <3>2. CASE m \in DOMAIN ops[j].commands /\ ops'[j].commands[m] = ops[j].commands[m]
        BY <1>1, <1>11, <2>2, <3>2 DEF ReadInv
    <3>. QED
        BY <1>6, <3>1, <3>2
  <2>. QED
      BY <1>6, <2>1, <2>2
<1>12. ASSUME protocol = "SC", NEW j \in DOMAIN served, NEW l \in DOMAIN ops,
              NEW n \in DOMAIN ops'[l].commands, Toprobe(l), Conflict(served[j], ops'[l].commands[n])
       PROVE  served[j] < ops'[l].commands[n]
  <2>1. CASE ops'[l].commands[n] = new
      BY <1>7, <2>1
  <2>2. CASE n \in DOMAIN ops[l].commands /\ ops'[l].commands[n] = ops[l].commands[n]
      BY <1>1, <1>12, <2>2 DEF ReadInv
  <2>. QED
      BY <1>6, <2>1, <2>2
<1>13. \A j \in DOMAIN ops : ops'[j].key = ops[j].key /\ ops'[j].opcode = ops[j].opcode
    BY <1>2, <1>3
<1>14. ASSUME protocol = "SC", NEW k \in Tracked, NEW j \in DOMAIN ops,
              hottest_keys_pointers[k] # 0, hottest_keys_pointers[k] < j, ops'[j].key = k
       PROVE  ops'[j].opcode = "GET"
    BY <1>1, <1>8, <1>13, <1>14 DEF ReadInv
<1>15. protocol = "SC" => \A l, j \in DOMAIN served :
           l < j /\ Conflict(served[l], served[j]) => served[l] < served[j]
    BY <1>1 DEF ReadInv
<1>16. protocol = "SC" => \A l \in DOMAIN served', j \in DOMAIN ops' :
          \A n \in DOMAIN ops'[j].commands :
             Toprobe(j)' /\ Conflict(served'[l], ops'[j].commands[n])
                 => served'[l] < ops'[j].commands[n]
  <2>. SUFFICES ASSUME protocol = "SC", NEW l \in DOMAIN served', NEW j \in DOMAIN ops',
                       NEW n \in DOMAIN ops'[j].commands,
                       Toprobe(j)', Conflict(served'[l], ops'[j].commands[n])
                PROVE  served'[l] < ops'[j].commands[n]
      OBVIOUS
  <2>1. l \in DOMAIN served /\ served'[l] = served[l] /\ j \in DOMAIN ops /\ Toprobe(j)
      BY <1>2, <1>3, <1>8
  <2>2. Conflict(served[l], ops'[j].commands[n])
      BY <2>1
  <2>. QED
      BY <1>12, <2>1, <2>2
<1>17. protocol = "SC" => \A l, j \in DOMAIN ops' :
          \A m \in DOMAIN ops'[l].commands, n \in DOMAIN ops'[j].commands :
             Toprobe(l)' /\ l < j /\ Conflict(ops'[l].commands[m], ops'[j].commands[n])
                 => ops'[l].commands[m] < ops'[j].commands[n]
  <2>. SUFFICES ASSUME protocol = "SC", NEW l \in DOMAIN ops', NEW j \in DOMAIN ops',
                       NEW m \in DOMAIN ops'[l].commands, NEW n \in DOMAIN ops'[j].commands,
                       Toprobe(l)', l < j, Conflict(ops'[l].commands[m], ops'[j].commands[n])
                PROVE  ops'[l].commands[m] < ops'[j].commands[n]
      OBVIOUS
  <2>1. l \in DOMAIN ops /\ j \in DOMAIN ops /\ Toprobe(l)
      BY <1>3, <1>8
  <2>. QED
      BY <1>11, <2>1
<1>18. protocol = "SC" => \A k \in Tracked, j \in DOMAIN ops' :
          Filled' /\ hottest_keys_pointers'[k] # 0 /\ hottest_keys_pointers'[k] < j /\ ops'[j].key = k
              => ops'[j].opcode = "GET"
    BY <1>2, <1>3, <1>14
<1>. QED
    BY <1>2, <1>9, <1>15, <1>16, <1>17, <1>18, ReadInvNext

\* The pointers when a command becomes operation n: only that of its key moves.
LEMMA PointersTaken ==
    ASSUME TypeOK, NEW op, TakenAs(op), NEW n, n = Len(ops) + 1, NEW k \in Tracked
    PROVE  /\ k = op.key /\ op.opcode = "GET" => hottest_keys_pointers'[k] = n
           /\ k = op.key /\ op.opcode # "GET" => hottest_keys_pointers'[k] = 0
           /\ k # op.key => hottest_keys_pointers'[k] = hottest_keys_pointers[k]
<1>1. hottest_keys_pointers \in [Tracked -> 0..CACHE_BATCH_SIZE]
    BY Types
<1>2. hottest_keys_pointers' =
          IF op.key \in Tracked
          THEN [hottest_keys_pointers EXCEPT ![op.key] = IF op.opcode = "GET" THEN Len(ops) + 1 ELSE 0]
          ELSE hottest_keys_pointers
    BY DEF TakenAs
<1>. QED
    BY <1>1, <1>2

\* Reads and writes, when a command becomes an operation: it is the newest one.
LEMMA ReadTaken ==
    ASSUME IInv, [Next]_vars, NEW op, TakenAs(op)
    PROVE  ReadInv'
<1>. DEFINE new == fetched + 1
<1>1. TypeOK /\ OpsInv /\ ReadInv
    BY DEF IInv
<1>2. /\ op \in Op /\ ops' = Append(ops, op) /\ op.commands = <<new>>
      /\ pc = "fill" /\ pc' = "fill" /\ op_i' = op_i /\ served' = served
    BY DEF TakenAs, Genuine
<1>3. PICK at : at = Len(ops) + 1
    OBVIOUS
<1>4. /\ at \in DOMAIN ops' /\ ops'[at] = op /\ DOMAIN ops' = DOMAIN ops \cup {at}
      /\ at \notin DOMAIN ops
      /\ \A j \in DOMAIN ops : j \in DOMAIN ops' /\ ops'[j] = ops[j] /\ j < at
    BY <1>1, <1>2, <1>3, OpAdded
<1>5. fetched \in Nat /\ DOMAIN ops = 1..Len(ops) /\ Len(ops) \in Nat
    BY <1>1, Types
<1>6. \A m \in DOMAIN op.commands : op.commands[m] = new
    BY SMTT(120), <1>2
<1>7. /\ \A j \in DOMAIN served : served[j] < new
      /\ \A j \in DOMAIN ops : \A m \in DOMAIN ops[j].commands : ops[j].commands[m] < new
  <2>1. \A j \in DOMAIN served : served[j] < new
      BY SMTT(120), <1>1, <1>5, ServedTaken
  <2>2. ASSUME NEW j \in DOMAIN ops, NEW m \in DOMAIN ops[j].commands
        PROVE  ops[j].commands[m] < new
    <3>1. ops[j].commands[m] \in Nat /\ ops[j].commands[m] <= fetched
        BY CommandFacts
    <3>. QED
        BY SMTT(120), <1>5, <3>1
  <2>. QED
      BY <2>1, <2>2
<1>. HIDE DEF new
<1>8. Filled /\ Filled' /\ \A j \in DOMAIN ops : Toprobe(j)' <=> Toprobe(j)
    BY <1>2, <1>4 DEF Filled, Toprobe
<1>9. Asked' = Asked /\ protocol' = protocol
    BY SameInput
<1>10. \A j \in DOMAIN ops' : \/ j \in DOMAIN ops /\ ops'[j] = ops[j]
                              \/ j = at /\ ops'[j] = op
    BY <1>4
<1>11. ASSUME protocol = "SC", NEW l \in DOMAIN served', NEW j \in DOMAIN ops',
              NEW n \in DOMAIN ops'[j].commands, Toprobe(j)', Conflict(served'[l], ops'[j].commands[n])
       PROVE  served'[l] < ops'[j].commands[n]
  <2>0. l \in DOMAIN served /\ served'[l] = served[l]
      BY <1>2
  <2>1. CASE j = at /\ ops'[j] = op
      BY <1>6, <1>7, <2>0, <2>1
  <2>2. CASE j \in DOMAIN ops /\ ops'[j] = ops[j]
      BY <1>1, <1>8, <1>11, <2>0, <2>2 DEF ReadInv
  <2>. QED
      BY <1>10, <2>1, <2>2
<1>12. ASSUME protocol = "SC", NEW l \in DOMAIN ops', NEW j \in DOMAIN ops',
              NEW m \in DOMAIN ops'[l].commands, NEW n \in DOMAIN ops'[j].commands,
              Toprobe(l)', l < j, Conflict(ops'[l].commands[m], ops'[j].commands[n])
       PROVE  ops'[l].commands[m] < ops'[j].commands[n]
  <2>1. l \in DOMAIN ops /\ ops'[l] = ops[l]
    <3>1. CASE l = at
      <4>1. l = j \/ j < l
          BY <1>4, <3>1
      <4>2. l \in Nat /\ j \in Nat
          BY SMTT(120), <1>3, <1>4, <1>5
      <4>. QED
          BY SMTT(120), <1>12, <4>1, <4>2
    <3>. QED
        BY <1>10, <3>1
  <2>2. CASE j = at /\ ops'[j] = op
      BY <1>6, <1>7, <2>1, <2>2
  <2>3. CASE j \in DOMAIN ops /\ ops'[j] = ops[j]
      BY <1>1, <1>8, <1>12, <2>1, <2>3 DEF ReadInv
  <2>. QED
      BY <1>10, <2>2, <2>3
<1>13. ASSUME protocol = "SC", NEW k \in Tracked, NEW j \in DOMAIN ops',
              hottest_keys_pointers'[k] # 0, hottest_keys_pointers'[k] < j, ops'[j].key = k
       PROVE  ops'[j].opcode = "GET"
  <2>1. hottest_keys_pointers'[k] # at
    <3>. SUFFICES ASSUME hottest_keys_pointers'[k] = at PROVE FALSE
        OBVIOUS
    <3>1. j = at \/ j < at
        BY <1>4
    <3>2. j \in Nat /\ at \in Nat
        BY SMTT(120), <1>3, <1>4, <1>5
    <3>. QED
        BY SMTT(120), <1>13, <3>1, <3>2
  <2>2. k # op.key /\ hottest_keys_pointers'[k] = hottest_keys_pointers[k]
      BY <1>1, <1>3, <1>13, <2>1, PointersTaken
  <2>3. j \in DOMAIN ops /\ ops'[j] = ops[j]
      BY <1>10, <1>13, <2>2
  <2>. QED
      BY <1>1, <1>8, <1>13, <2>2, <2>3 DEF ReadInv
<1>14. protocol = "SC" => \A l, j \in DOMAIN served' :
           l < j /\ Conflict(served'[l], served'[j]) => served'[l] < served'[j]
    BY <1>1, <1>2 DEF ReadInv
<1>. QED
    BY <1>9, <1>11, <1>12, <1>13, <1>14, ReadInvNext

\* Reads and writes, when an operation is probed: the ones executed before it
\* are older, and so is it than the ones that are still to be probed.
LEMMA ReadProbed ==
    ASSUME IInv, [Next]_vars, NEW op, NEW S, NEW F, ProbedAs(op, S, F)
    PROVE  ReadInv'
<1>1. TypeOK /\ OpsInv /\ ReadInv
    BY DEF IInv
<1>2. /\ op_i \in DOMAIN ops /\ op \in Op /\ ops' = [ops EXCEPT ![op_i] = op]
      /\ served' = served \o S /\ S \in {ops[op_i].commands, <<>>}
      /\ pc \in {"fill", "probe"} /\ pc' \in {"probe", "broadcast"}
      /\ pc' = "probe" => op_i' = op_i + 1
    BY DEF ProbedAs, Genuine
<1>3. /\ DOMAIN ops' = DOMAIN ops
      /\ \A j \in DOMAIN ops : j # op_i => ops'[j] = ops[j]
    BY <1>1, <1>2, OpReplaced
<1>4. /\ op_i \in Nat /\ DOMAIN ops = 1..Len(ops) /\ Len(ops) \in Nat
      /\ served \in Seq(1..fetched) /\ DOMAIN served = 1..Len(served) /\ Len(served) \in Nat
  <2>1. served \in Seq(1..fetched) /\ DOMAIN ops = 1..Len(ops) /\ Len(ops) \in Nat
      BY <1>1, Types
  <2>. QED
      BY SMTT(120), <1>2, <2>1
<1>5. S \in Seq(1..fetched)
    BY <1>1, <1>2, <1>4, HistoryTypes DEF OpsInv
<1>6. \A m \in DOMAIN S : m \in DOMAIN ops[op_i].commands /\ S[m] = ops[op_i].commands[m] /\ m \in Nat
  <2>1. DOMAIN <<>> = {} /\ \A m \in DOMAIN S : m \in Nat
      BY SMTT(120), <1>5
  <2>. QED
      BY <1>2, <2>1
<1>7. \A i \in DOMAIN served' :
         \/ i \in DOMAIN served /\ served'[i] = served[i]
         \/ \E m \in DOMAIN S : i = Len(served) + m /\ served'[i] = S[m]
  <2>1. /\ \A i \in DOMAIN served : i \in DOMAIN served' /\ served'[i] = served[i]
        /\ \A j \in DOMAIN S : served'[Len(served) + j] = S[j]
        /\ \A i \in DOMAIN served' : i \in DOMAIN served \/ \E j \in DOMAIN S : i = Len(served) + j
      BY SMTT(120), <1>2, <1>4, <1>5, Joined
  <2>. QED
      BY <2>1
<1>8. Toprobe(op_i)
  <2>1. op_i >= op_i
      BY SMTT(120), <1>4
  <2>. QED
      BY <1>2, <2>1 DEF Toprobe
<1>9. ASSUME NEW j, Toprobe(j)'
      PROVE  j \in DOMAIN ops /\ Toprobe(j) /\ op_i < j /\ ops'[j] = ops[j]
  <2>1. j \in DOMAIN ops /\ pc' = "probe" /\ j >= op_i'
      BY <1>2, <1>3, <1>9 DEF Toprobe
  <2>2. j >= op_i /\ op_i < j /\ j # op_i
      BY SMTT(120), <1>2, <1>4, <2>1
  <2>. QED
      BY <1>2, <1>3, <2>1, <2>2 DEF Toprobe
<1>10. Asked' = Asked /\ protocol' = protocol /\ ~ Filled'
    BY <1>2, SameInput DEF Filled
<1>11. ASSUME protocol = "SC", NEW i \in DOMAIN served', NEW j \in DOMAIN served', i < j,
              Conflict(served'[i], served'[j])
       PROVE  served'[i] < served'[j]
  <2>1. CASE i \in DOMAIN served /\ served'[i] = served[i]
    <3>1. CASE j \in DOMAIN served /\ served'[j] = served[j]
        BY <1>1, <1>11, <2>1, <3>1 DEF ReadInv
    <3>2. ASSUME NEW n \in DOMAIN S, served'[j] = S[n] PROVE served'[i] < served'[j]
      <4>1. n \in DOMAIN ops[op_i].commands /\ served'[j] = ops[op_i].commands[n]
          BY <1>6, <3>2
      <4>. QED
          BY <1>1, <1>2, <1>8, <1>11, <2>1, <4>1 DEF ReadInv
    <3>. QED
        BY <1>7, <3>1, <3>2
  <2>2. ASSUME NEW m \in DOMAIN S, i = Len(served) + m, served'[i] = S[m]
        PROVE  FALSE
    <3>1. CASE j \in DOMAIN served
        BY SMTT(120), <1>4, <1>6, <1>11, <2>2, <3>1
    <3>2. ASSUME NEW n \in DOMAIN S, j = Len(served) + n, served'[j] = S[n] PROVE FALSE
      <4>1. m < n
          BY SMTT(120), <1>4, <1>6, <1>11, <2>2, <3>2
      <4>2. ~ Conflict(S[m], S[n])
          BY <1>2, <1>6, <4>1, CommandFacts
      <4>. QED
          BY <1>11, <2>2, <3>2, <4>2
    <3>. QED
        BY <1>7, <3>1, <3>2
  <2>. QED
      BY <1>7, <2>1, <2>2
<1>12. ASSUME protocol = "SC", NEW i \in DOMAIN served', NEW j \in DOMAIN ops',
              NEW n \in DOMAIN ops'[j].commands, Toprobe(j)', Conflict(served'[i], ops'[j].commands[n])
       PROVE  served'[i] < ops'[j].commands[n]
  <2>0. j \in DOMAIN ops /\ Toprobe(j) /\ op_i < j /\ ops'[j] = ops[j]
      BY <1>9, <1>12
  <2>1. CASE i \in DOMAIN served /\ served'[i] = served[i]
      BY <1>1, <1>12, <2>0, <2>1 DEF ReadInv
  <2>2. ASSUME NEW m \in DOMAIN S, served'[i] = S[m] PROVE served'[i] < ops'[j].commands[n]
    <3>1. m \in DOMAIN ops[op_i].commands /\ served'[i] = ops[op_i].commands[m]
        BY <1>6, <2>2
    <3>. QED
        BY <1>1, <1>2, <1>8, <1>12, <2>0, <3>1 DEF ReadInv
  <2>. QED
      BY <1>7, <2>1, <2>2
<1>13. ASSUME protocol = "SC", NEW i \in DOMAIN ops', NEW j \in DOMAIN ops',
              NEW m \in DOMAIN ops'[i].commands, NEW n \in DOMAIN ops'[j].commands,
              Toprobe(i)', i < j, Conflict(ops'[i].commands[m], ops'[j].commands[n])
       PROVE  ops'[i].commands[m] < ops'[j].commands[n]
  <2>1. i \in DOMAIN ops /\ Toprobe(i) /\ op_i < i /\ ops'[i] = ops[i]
      BY <1>9, <1>13
  <2>2. j \in DOMAIN ops
      BY <1>3
  <2>3. j # op_i
      BY SMTT(120), <1>4, <1>13, <2>1, <2>2
  <2>4. ops'[j] = ops[j]
      BY <1>3, <2>2, <2>3
  <2>. QED
      BY <1>1, <1>13, <2>1, <2>2, <2>4 DEF ReadInv
<1>. QED
    BY <1>10, <1>11, <1>12, <1>13, ReadInvNext

\* Reads and writes, when a cold command is issued: it is not among them.
LEMMA ReadIssued ==
    ASSUME IInv, [Next]_vars, Issued
    PROVE  ReadInv'
<1>. DEFINE op == ops[op_i]
<1>1. TypeOK /\ ReadInv /\ OpsInv
    BY DEF IInv
<1>2. op_i \in DOMAIN ops /\ served' = served \o op.commands /\ Miss(op) /\ pc' = "walk"
    BY DEF Issued
<1>3. Genuine(op, fetched, Asked)
    BY <1>1, <1>2 DEF OpsInv
<1>4. op.key \notin Hot
    BY <1>2, <1>3, ColdOp
<1>5. op.commands \in Seq(1..fetched) /\ served \in Seq(1..fetched)
    BY <1>1, <1>3, CommandsTaken, Types
<1>6. \A m \in DOMAIN op.commands : Asked[op.commands[m]].key \notin Hot
    BY <1>3, <1>4 DEF Genuine
<1>7. PICK S : S = op.commands
    OBVIOUS
<1>8. /\ \A i \in DOMAIN served : served'[i] = served[i]
      /\ \A i \in DOMAIN served' : Asked[served'[i]].key \in Hot => i \in DOMAIN served
  <2>1. S \in Seq(1..fetched) /\ served' = served \o S
      BY <1>2, <1>5, <1>7
  <2>2. /\ \A i \in DOMAIN served : served'[i] = served[i]
        /\ \A j \in DOMAIN S : served'[Len(served) + j] = S[j]
        /\ \A i \in DOMAIN served' : i \in DOMAIN served \/ \E j \in DOMAIN S : i = Len(served) + j
      BY SMTT(120), <1>5, <2>1, Joined
  <2>3. \A m \in DOMAIN S : Asked[S[m]].key \notin Hot
      BY <1>6, <1>7
  <2>. QED
      BY <2>2, <2>3
<1>9. ASSUME protocol = "SC", NEW i \in DOMAIN served', NEW j \in DOMAIN served', i < j,
             Conflict(served'[i], served'[j])
      PROVE  served'[i] < served'[j]
  <2>1. i \in DOMAIN served /\ j \in DOMAIN served
      BY <1>8, <1>9 DEF Conflict
  <2>. QED
      BY <1>1, <1>8, <1>9, <2>1 DEF ReadInv
<1>. QED
    BY <1>2, <1>9, NoneToprobe

\* What SC keeps for the next batch is cold.
LEMMA KeptCold ==
    ASSUME IInv, protocol = "SC"
    PROVE  \A i \in DOMAIN next_ops : /\ next_ops[i].key \notin Hot /\ next_ops[i].key \in Home
                                      /\ \A n \in DOMAIN next_ops[i].commands :
                                            Asked[next_ops[i].commands[n]].key = next_ops[i].key
<1>. TAKE i \in DOMAIN next_ops
<1>1. /\ Genuine(next_ops[i], fetched, Asked) /\ Fresh(next_ops[i], protocol)
      /\ next_ops[i].type # "EMPTY"
    BY DEF IInv, OpsInv
<1>2. Miss(next_ops[i])
    BY <1>1 DEF Fresh, Miss
<1>3. next_ops[i].key \in Home /\ next_ops[i].key \notin Hot
    BY <1>1, <1>2, ColdOp
<1>4. \A n \in DOMAIN next_ops[i].commands :
         Asked[next_ops[i].commands[n]].key = next_ops[i].key
    BY <1>1 DEF Genuine
<1>. QED
    BY <1>3, <1>4

\* Reads and writes, when the buffers are swapped: no hot one is carried over.
LEMMA ReadSwaps ==
    ASSUME IInv, [Next]_vars, SwapOps
    PROVE  ReadInv'
<1>1. ops' = next_ops /\ served' = served /\ ReadInv
      /\ hottest_keys_pointers' = IF protocol = "SC" THEN [k \in Tracked |-> 0] ELSE hottest_keys_pointers
    BY DEF SwapOps, history, IInv
<1>2. Asked' = Asked /\ protocol' = protocol
    BY SameInput
<1>3. ASSUME protocol = "SC", NEW m, NEW j \in DOMAIN ops', NEW n \in DOMAIN ops'[j].commands
      PROVE  ~ Conflict(m, ops'[j].commands[n])
  <2>1. Asked[ops'[j].commands[n]].key \notin Hot
      BY <1>1, <1>3, KeptCold
  <2>. QED
      BY <2>1 DEF Conflict
<1>4. protocol = "SC" => \A k \in Tracked : hottest_keys_pointers'[k] = 0
    BY <1>1
<1>5. protocol = "SC" => \A i, j \in DOMAIN served' :
         i < j /\ Conflict(served'[i], served'[j]) => served'[i] < served'[j]
    BY <1>1 DEF ReadInv
<1>. QED
    BY <1>2, <1>3, <1>4, <1>5, ReadInvNext

\* Reads and writes, for every step.
LEMMA ReadStep ==
    ASSUME IInv, [Next]_vars
    PROVE  ReadInv'
<1>1. CASE CoalesceAborts \/ UNCHANGED vars
  <2>1. /\ ops' = ops /\ served' = served /\ hottest_keys_pointers' = hottest_keys_pointers
        /\ op_i' = op_i /\ ReadInv
      BY <1>1 DEF CoalesceAborts, vars, walk, history, IInv
  <2>2. pc' = pc \/ (pc = "fill" /\ pc' = "aborted")
      BY <1>1 DEF CoalesceAborts, Filling, vars
  <2>3. (Filled' <=> Filled) /\ \A j : Toprobe(j)' <=> Toprobe(j)
      BY <2>1, <2>2 DEF Filled, Toprobe
  <2>4. protocol = "SC" => \A i, j \in DOMAIN served' :
           i < j /\ Conflict(served'[i], served'[j]) => served'[i] < served'[j]
      BY <2>1 DEF ReadInv
  <2>5. protocol = "SC" => \A i \in DOMAIN served', j \in DOMAIN ops' :
           \A n \in DOMAIN ops'[j].commands :
              Toprobe(j)' /\ Conflict(served'[i], ops'[j].commands[n])
                  => served'[i] < ops'[j].commands[n]
      BY <2>1, <2>3 DEF ReadInv
  <2>6. protocol = "SC" => \A i, j \in DOMAIN ops' :
           \A m \in DOMAIN ops'[i].commands, n \in DOMAIN ops'[j].commands :
              Toprobe(i)' /\ i < j /\ Conflict(ops'[i].commands[m], ops'[j].commands[n])
                  => ops'[i].commands[m] < ops'[j].commands[n]
      BY <2>1, <2>3 DEF ReadInv
  <2>7. protocol = "SC" => \A k \in Tracked, j \in DOMAIN ops' :
           Filled' /\ hottest_keys_pointers'[k] # 0 /\ hottest_keys_pointers'[k] < j /\ ops'[j].key = k
               => ops'[j].opcode = "GET"
      BY <2>1, <2>3 DEF ReadInv
  <2>. QED
      BY <2>4, <2>5, <2>6, <2>7, SameInput, ReadInvNext
<1>2. CASE (\E op : SentAs(op)) \/ (\E op : Kept(op)) \/ Skipped \/ Dropped \/ StartWalk
  <2>1. pc' \in {"broadcast", "walk", "rest"} /\ served' = served /\ ReadInv
      BY <1>2 DEF SentAs, Kept, Skipped, Dropped, StartWalk, Walked, history, IInv
  <2>2. protocol = "SC" => \A i, j \in DOMAIN served' :
           i < j /\ Conflict(served'[i], served'[j]) => served'[i] < served'[j]
      BY <2>1 DEF ReadInv
  <2>. QED
      BY <2>1, <2>2, NoneToprobe
<1>. QED
    BY <1>1, <1>2, Moves, ReadJoins, ReadTaken, ReadProbed, ReadIssued, ReadSwaps

-----------------------------------------------------------------------------
(* The oldest operation, and the pointers.                                    *)

\* The oldest operation, for every step.
LEMMA OldestStep ==
    ASSUME IInv, [Next]_vars
    PROVE  OldestInv'
<1>1. TypeOK /\ StageInv /\ OrderInv /\ OldestInv
    BY DEF IInv
<1>2. protocol' = protocol
    BY SameInput
<1>3. CASE ~ Walked'
    BY <1>3 DEF OldestInv
<1>4. ASSUME op_i \in DOMAIN ops, op_i' = op_i + 1 PROVE op_i' # 1
  <2>1. op_i \in 1..(CACHE_BATCH_SIZE + 1)
      BY <1>1 DEF TypeOK
  <2>. QED
      BY SMTT(120), <1>4, <2>1
<1>5. ASSUME NEW op, Kept(op) PROVE OldestInv'
  <2>1. /\ op_i \in DOMAIN ops /\ op_i' = op_i + 1 /\ ops' = ops /\ Walked /\ op \in Op
        /\ next_ops' = Append(next_ops, op) /\ op.commands = ops[op_i].commands
        /\ protocol = "SC" => op_i # 1
      BY <1>5 DEF Kept, Genuine
  <2>2. PICK n : n = Len(next_ops) + 1
      OBVIOUS
  <2>3. /\ next_ops'[n] = op /\ DOMAIN next_ops' = DOMAIN next_ops \cup {n}
        /\ \A j \in DOMAIN next_ops : next_ops'[j] = next_ops[j]
      BY <1>1, <2>1, <2>2, NextAdded
  <2>4. op_i # 1 => 1 \in DOMAIN ops /\ 1 < op_i
      BY SMTT(120), <1>1, <2>1, Types
  <2>5. protocol = "SC" => First(ops[1]) < First(op)
      BY <1>1, <2>1, <2>4 DEF OrderInv, First
  <2>6. protocol = "SC" => \A i \in DOMAIN next_ops : First(ops[1]) < First(next_ops[i])
      BY <1>1, <2>1 DEF OldestInv
  <2>7. protocol = "SC" => \A i \in DOMAIN next_ops' : First(ops'[1]) < First(next_ops'[i])
      BY <2>1, <2>3, <2>5, <2>6
  <2>. QED
      BY <1>2, <1>4, <2>1, <2>7 DEF OldestInv, First
<1>6. CASE Dropped \/ Issued
  <2>1. /\ op_i \in DOMAIN ops /\ op_i' = op_i + 1 /\ ops' = ops /\ Walked /\ next_ops' = next_ops
      BY <1>6 DEF Dropped, Issued, Walked
  <2>2. protocol = "SC" => \A i \in DOMAIN next_ops : First(ops[1]) < First(next_ops[i])
      BY <1>1, <2>1 DEF OldestInv
  <2>. QED
      BY <1>2, <1>4, <2>1, <2>2 DEF OldestInv, First
<1>7. CASE StartWalk
  <2>1. /\ next_ops' = <<>> /\ wr_i' = 0 /\ pc' = "walk"
        /\ per_worker_outstanding' = [h \in Home |-> 0]
      BY <1>7 DEF StartWalk, NoneOutstanding
  <2>2. DOMAIN <<>> = {}
      BY SMTT(120)
  <2>. QED
      BY <2>1, <2>2 DEF OldestInv
<1>8. CASE UNCHANGED vars
  <2>1. /\ ops' = ops /\ next_ops' = next_ops /\ pc' = pc /\ op_i' = op_i /\ wr_i' = wr_i
        /\ per_worker_outstanding' = per_worker_outstanding
      BY <1>8 DEF vars, walk
  <2>2. Walked' <=> Walked
      BY <2>1 DEF Walked
  <2>. QED
      BY <1>1, <1>2, <2>1, <2>2 DEF OldestInv, First
<1>9. CASE \/ \E i, op : JoinsAt(i, op)
           \/ \E op : TakenAs(op)
           \/ \E op, S, F : ProbedAs(op, S, F)
           \/ \E op : SentAs(op)
           \/ Skipped \/ CoalesceAborts \/ SwapOps
  <2>1. ~ Walked'
      BY <1>9 DEF Walked, JoinsAt, TakenAs, ProbedAs, SentAs, Skipped, CoalesceAborts, SwapOps
  <2>. QED
      BY <1>3, <2>1
<1>. QED
    BY <1>5, <1>6, <1>7, <1>8, <1>9, Moves

\* What a pointer leads to before a step.
LEMMA PointerNow ==
    ASSUME PointersInv, NEW k \in Tracked, NEW i, i = hottest_keys_pointers[k], i # 0
    PROVE  \/ /\ i \in DOMAIN ops /\ (Walked => i >= op_i)
              /\ ops[i].opcode = "GET" /\ ops[i].key = k
           \/ /\ Walked /\ i < op_i /\ i \in DOMAIN next_ops
              /\ next_ops[i].opcode = "GET" /\ next_ops[i].key = k
           \/ Walked /\ protocol = "SC"
BY DEF PointersInv

\* What pointer i of key k must lead to after the step.
LeadsNext(k, i) ==
    \/ /\ i \in DOMAIN ops' /\ (Walked' => i >= op_i')
       /\ ops'[i].opcode = "GET" /\ ops'[i].key = k
    \/ /\ Walked' /\ i < op_i' /\ i \in DOMAIN next_ops'
       /\ next_ops'[i].opcode = "GET" /\ next_ops'[i].key = k
    \/ Walked' /\ protocol' = "SC"

\* The pointers after a step.
LEMMA PointersInvNext ==
    ASSUME \A k \in Tracked : hottest_keys_pointers'[k] # 0 => LeadsNext(k, hottest_keys_pointers'[k])
    PROVE  PointersInv'
BY DEF PointersInv, LeadsNext

\* The pointers, outside the walk and where they do not change.
LEMMA PointersOutside ==
    ASSUME IInv, [Next]_vars, \/ \E i, op : JoinsAt(i, op)
                              \/ \E op, S, F : ProbedAs(op, S, F)
                              \/ \E op : SentAs(op)
                              \/ Skipped \/ CoalesceAborts \/ StartWalk
    PROVE  PointersInv'
<1>1. TypeOK /\ PointersInv
    BY DEF IInv
<1>2. ~ Walked /\ hottest_keys_pointers' = hottest_keys_pointers
    BY DEF Walked, JoinsAt, ProbedAs, SentAs, Skipped, CoalesceAborts, StartWalk, Filling
<1>3. Walked' => \A i \in DOMAIN ops : i >= op_i'
  <2>1. Walked' => op_i' = 1
      BY DEF Walked, JoinsAt, ProbedAs, SentAs, Skipped, CoalesceAborts, StartWalk
  <2>. QED
      BY SMTT(120), <1>1, <2>1, Types
<1>4. /\ DOMAIN ops' = DOMAIN ops
      /\ \A j \in DOMAIN ops : ops[j].opcode = "GET" => ops'[j].opcode = "GET" /\ ops'[j].key = ops[j].key
  <2>1. ASSUME NEW i \in DOMAIN ops, NEW op \in Op, ops' = [ops EXCEPT ![i] = op],
               ops[i].opcode = "GET" => op.opcode = "GET", op.key = ops[i].key
        PROVE  /\ DOMAIN ops' = DOMAIN ops
               /\ \A j \in DOMAIN ops :
                     ops[j].opcode = "GET" => ops'[j].opcode = "GET" /\ ops'[j].key = ops[j].key
    <3>1. /\ DOMAIN ops' = DOMAIN ops /\ ops'[i] = op
          /\ \A j \in DOMAIN ops : j # i => ops'[j] = ops[j]
        BY <1>1, <2>1, OpReplaced
    <3>. QED
        BY <2>1, <3>1
  <2>2. ASSUME NEW i, NEW op, JoinsAt(i, op)
        PROVE  /\ i \in DOMAIN ops /\ op \in Op /\ ops' = [ops EXCEPT ![i] = op]
               /\ ops[i].opcode = "GET" => op.opcode = "GET"
               /\ op.key = ops[i].key
      BY <2>2 DEF JoinsAt, Genuine
  <2>3. ASSUME NEW op, NEW S, NEW F, ProbedAs(op, S, F)
        PROVE  /\ op_i \in DOMAIN ops /\ op \in Op /\ ops' = [ops EXCEPT ![op_i] = op]
               /\ ops[op_i].opcode = "GET" => op.opcode = "GET"
               /\ op.key = ops[op_i].key
      BY <2>3 DEF ProbedAs, Genuine
  <2>4. ASSUME NEW op, SentAs(op)
        PROVE  /\ op_i \in DOMAIN ops /\ op \in Op /\ ops' = [ops EXCEPT ![op_i] = op]
               /\ ops[op_i].opcode = "GET" => op.opcode = "GET"
               /\ op.key = ops[op_i].key
      BY <2>4 DEF SentAs, Genuine
  <2>5. CASE Skipped \/ CoalesceAborts \/ StartWalk
    <3>1. ops' = ops
        BY <2>5 DEF Skipped, CoalesceAborts, StartWalk
    <3>. QED
        BY <3>1
  <2>. QED
      BY <2>1, <2>2, <2>3, <2>4, <2>5
<1>5. ASSUME NEW k \in Tracked, hottest_keys_pointers'[k] # 0
      PROVE  LeadsNext(k, hottest_keys_pointers'[k])
  <2>1. PICK i : i = hottest_keys_pointers[k]
      OBVIOUS
  <2>2. i \in DOMAIN ops /\ ops[i].opcode = "GET" /\ ops[i].key = k
      BY <1>1, <1>2, <1>5, <2>1, PointerNow
  <2>. QED
      BY <1>2, <1>3, <1>4, <2>1, <2>2 DEF LeadsNext
<1>. QED
    BY <1>5, PointersInvNext

\* The pointers, when a command becomes an operation.
LEMMA PointersAfterTaken ==
    ASSUME IInv, [Next]_vars, NEW op, TakenAs(op)
    PROVE  PointersInv'
<1>1. TypeOK /\ PointersInv
    BY DEF IInv
<1>2. /\ op \in Op /\ ops' = Append(ops, op) /\ ~ Walked /\ ~ Walked'
    BY DEF TakenAs, Genuine, Walked
<1>3. PICK n : n = Len(ops) + 1
    OBVIOUS
<1>4. /\ n \in DOMAIN ops' /\ ops'[n] = op
      /\ \A j \in DOMAIN ops : j \in DOMAIN ops' /\ ops'[j] = ops[j]
    BY <1>1, <1>2, <1>3, OpAdded
<1>5. ASSUME NEW k \in Tracked, hottest_keys_pointers'[k] # 0
      PROVE  LeadsNext(k, hottest_keys_pointers'[k])
  <2>1. CASE k = op.key
    <3>1. op.opcode = "GET" /\ hottest_keys_pointers'[k] = n
        BY <1>1, <1>3, <1>5, <2>1, PointersTaken
    <3>. QED
        BY <1>2, <1>4, <2>1, <3>1 DEF LeadsNext
  <2>2. CASE k # op.key
    <3>1. hottest_keys_pointers'[k] = hottest_keys_pointers[k]
        BY <1>1, <1>3, <2>2, PointersTaken
    <3>2. PICK i : i = hottest_keys_pointers[k]
        OBVIOUS
    <3>3. i \in DOMAIN ops /\ ops[i].opcode = "GET" /\ ops[i].key = k
        BY <1>1, <1>2, <1>5, <3>1, <3>2, PointerNow
    <3>. QED
        BY <1>2, <1>4, <3>1, <3>2, <3>3 DEF LeadsNext
  <2>. QED
      BY <2>1, <2>2
<1>. QED
    BY <1>5, PointersInvNext

\* The pointer of a key after a step of the walk of LIN.
LEMMA PointerWalks ==
    ASSUME TypeOK, protocol = "LIN", NEW op, hottest_keys_pointers' = PointersAfterWalk(op),
           NEW k \in Tracked
    PROVE  /\ \/ op.key # k \/ hottest_keys_pointers[k] # op_i
              => hottest_keys_pointers'[k] = hottest_keys_pointers[k]
           /\ op.key = k /\ hottest_keys_pointers[k] = op_i /\ op.type = "CACHE_GET_STALL"
              => hottest_keys_pointers'[k] = Len(next_ops) + 1
           /\ op.key = k /\ hottest_keys_pointers[k] = op_i /\ op.type = "CACHE_GET_SUCCESS"
              => hottest_keys_pointers'[k] = 0
<1>1. hottest_keys_pointers \in [Tracked -> 0..CACHE_BATCH_SIZE]
    BY Types
<1>2. CASE op.key # k \/ hottest_keys_pointers[k] # op_i
  <2>1. CASE op.key \in Tracked /\ hottest_keys_pointers[op.key] = op_i
    <3>1. op.key # k
        BY <1>2, <2>1
    <3>2. hottest_keys_pointers' \in {hottest_keys_pointers,
             [hottest_keys_pointers EXCEPT ![op.key] = Len(next_ops) + 1],
             [hottest_keys_pointers EXCEPT ![op.key] = 0]}
        BY DEF PointersAfterWalk
    <3>. QED
        BY <1>1, <1>2, <3>1, <3>2
  <2>2. CASE ~ (op.key \in Tracked /\ hottest_keys_pointers[op.key] = op_i)
    <3>1. hottest_keys_pointers' = hottest_keys_pointers
        BY <2>2 DEF PointersAfterWalk
    <3>. QED
        BY <1>2, <3>1
  <2>. QED
      BY <2>1, <2>2
<1>3. CASE op.key = k /\ hottest_keys_pointers[k] = op_i
  <2>1. op.type = "CACHE_GET_STALL"
        => hottest_keys_pointers' = [hottest_keys_pointers EXCEPT ![k] = Len(next_ops) + 1]
      BY <1>3 DEF PointersAfterWalk
  <2>2. op.type = "CACHE_GET_SUCCESS"
        => hottest_keys_pointers' = [hottest_keys_pointers EXCEPT ![k] = 0]
      BY SMTT(120), <1>3 DEF PointersAfterWalk
  <2>. QED
      BY <1>1, <1>3, <2>1, <2>2
<1>. QED
    BY <1>2, <1>3

\* The pointers, when an operation is kept: the one to a stalled read follows it.
LEMMA PointersKept ==
    ASSUME IInv, [Next]_vars, NEW op, Kept(op)
    PROVE  PointersInv'
<1>1. TypeOK /\ PointersInv /\ protocol' = protocol /\ protocol \in Program
    BY SameInput, Types DEF IInv
<1>2. /\ Walked /\ Walked' /\ op_i \in DOMAIN ops /\ op_i' = op_i + 1 /\ ops' = ops
      /\ next_ops' = Append(next_ops, op) /\ op \in Op /\ Kind(op)
      /\ Fresh(op, protocol) /\ op.type # "EMPTY"
      /\ op.key = ops[op_i].key /\ op.opcode = ops[op_i].opcode
      /\ hottest_keys_pointers' = PointersAfterWalk(op)
    BY DEF Kept, Genuine
<1>3. PICK n : n = Len(next_ops) + 1
    OBVIOUS
<1>4. /\ n \in DOMAIN next_ops' /\ next_ops'[n] = op
      /\ \A j \in DOMAIN next_ops : j \in DOMAIN next_ops' /\ next_ops'[j] = next_ops[j]
    BY <1>1, <1>2, <1>3, NextAdded
<1>5. /\ n < op_i'
      /\ \A i \in DOMAIN ops : i >= op_i /\ i # op_i => i >= op_i'
      /\ \A i \in DOMAIN next_ops : i < op_i => i < op_i'
  <2>1. /\ op_i \in Nat /\ Len(next_ops) \in Nat /\ Len(next_ops) < op_i
        /\ DOMAIN ops = 1..Len(ops) /\ DOMAIN next_ops = 1..Len(next_ops)
      BY <1>1, Types
  <2>. QED
      BY SMTT(120), <1>2, <1>3, <2>1
<1>6. ASSUME NEW k \in Tracked, hottest_keys_pointers'[k] # 0
      PROVE  LeadsNext(k, hottest_keys_pointers'[k])
  <2>1. CASE protocol = "SC"
      BY <1>1, <1>2, <2>1 DEF LeadsNext
  <2>2. CASE protocol = "LIN" /\ op.key = k /\ hottest_keys_pointers[k] = op_i
    <3>1. op_i # 0 /\ ~ (op_i < op_i)
        BY SMTT(120), <1>1, Types
    <3>2. ops[op_i].opcode = "GET"
        BY <1>1, <2>2, <3>1, PointerNow
    <3>3. op.key \in Hot /\ op.key \notin Home
        BY <2>2, KeyAssumption DEF Hot
    <3>4. op.type = "CACHE_GET_STALL"
        BY <1>2, <3>2, <3>3 DEF Kind, Fresh
    <3>5. hottest_keys_pointers'[k] = n
        BY <1>1, <1>2, <1>3, <2>2, <3>4, PointerWalks
    <3>. QED
        BY <1>2, <1>4, <1>5, <2>2, <3>2, <3>5 DEF LeadsNext
  <2>3. CASE protocol = "LIN" /\ (op.key # k \/ hottest_keys_pointers[k] # op_i)
    <3>1. hottest_keys_pointers'[k] = hottest_keys_pointers[k]
        BY <1>1, <1>2, <2>3, PointerWalks
    <3>2. PICK i : i = hottest_keys_pointers[k] /\ i # 0
        BY <1>6, <3>1
    <3>3. CASE i \in DOMAIN ops /\ i >= op_i /\ ops[i].opcode = "GET" /\ ops[i].key = k
      <4>1. i # op_i
          BY <1>2, <2>3, <3>2, <3>3
      <4>. QED
          BY <1>2, <1>5, <3>1, <3>2, <3>3, <4>1 DEF LeadsNext
    <3>4. CASE i < op_i /\ i \in DOMAIN next_ops /\ next_ops[i].opcode = "GET" /\ next_ops[i].key = k
        BY <1>2, <1>4, <1>5, <3>1, <3>2, <3>4 DEF LeadsNext
    <3>. QED
        BY <1>1, <1>2, <2>3, <3>2, <3>3, <3>4, PointerNow
  <2>. QED
      BY <1>1, <2>1, <2>2, <2>3 DEF Program
<1>. QED
    BY <1>6, PointersInvNext

\* The pointers, when an operation leaves the buffer for good.
LEMMA PointersGone ==
    ASSUME IInv, [Next]_vars, Dropped \/ Issued
    PROVE  PointersInv'
<1>. DEFINE op == ops[op_i]
<1>1. TypeOK /\ PointersInv /\ OpsInv /\ protocol' = protocol /\ protocol \in Program
    BY SameInput, Types DEF IInv
<1>2. /\ Walked /\ Walked' /\ op_i \in DOMAIN ops /\ op_i' = op_i + 1 /\ ops' = ops
      /\ next_ops' = next_ops
      /\ \/ Finished(op) /\ hottest_keys_pointers' = PointersAfterWalk(op)
         \/ Miss(op) /\ hottest_keys_pointers' = hottest_keys_pointers
    BY DEF Dropped, Issued, Walked
<1>3. Genuine(op, fetched, Asked)
    BY <1>1, <1>2 DEF OpsInv
<1>. HIDE DEF op
<1>4. /\ \A i \in DOMAIN ops : i >= op_i /\ i # op_i => i >= op_i'
      /\ \A i \in DOMAIN next_ops : i < op_i => i < op_i'
      /\ op_i # 0 /\ ~ (op_i < op_i)
  <2>1. op_i \in Nat /\ op_i >= 1 /\ DOMAIN ops = 1..Len(ops) /\ DOMAIN next_ops = 1..Len(next_ops)
      BY <1>1, Types
  <2>. QED
      BY SMTT(120), <1>2, <2>1
<1>5. ASSUME NEW k \in Tracked, protocol = "LIN", hottest_keys_pointers'[k] # 0
      PROVE  /\ hottest_keys_pointers'[k] = hottest_keys_pointers[k]
             /\ hottest_keys_pointers[k] # op_i
  <2>1. CASE Finished(op) /\ hottest_keys_pointers' = PointersAfterWalk(op)
    <3>1. CASE hottest_keys_pointers[k] = op_i
      <4>1. op.opcode = "GET" /\ op.key = k
          BY <1>1, <1>4, <1>5, <3>1, PointerNow DEF op
      <4>2. op.type = "CACHE_GET_SUCCESS"
          BY SMTT(120), <1>3, <2>1, <4>1 DEF Genuine, Kind, Finished
      <4>. QED
          BY <1>1, <1>5, <2>1, <3>1, <4>1, <4>2, PointerWalks
    <3>2. CASE hottest_keys_pointers[k] # op_i
        BY <1>1, <1>5, <2>1, <3>2, PointerWalks
    <3>. QED
        BY <3>1, <3>2
  <2>2. CASE Miss(op) /\ hottest_keys_pointers' = hottest_keys_pointers
    <3>1. op.key \notin Hot
        BY <1>3, <2>2, ColdOp
    <3>2. hottest_keys_pointers[k] = op_i => op.key = k
        BY <1>1, <1>4, <1>5, PointerNow DEF op
    <3>. QED
        BY <2>2, <3>1, <3>2 DEF Hot
  <2>. QED
      BY <1>2, <2>1, <2>2
<1>6. ASSUME NEW k \in Tracked, hottest_keys_pointers'[k] # 0
      PROVE  LeadsNext(k, hottest_keys_pointers'[k])
  <2>1. CASE protocol = "SC"
      BY <1>1, <1>2, <2>1 DEF LeadsNext
  <2>2. CASE protocol = "LIN"
    <3>1. PICK i : i = hottest_keys_pointers[k]
        OBVIOUS
    <3>2. hottest_keys_pointers'[k] = i /\ i # op_i /\ i # 0
        BY <1>5, <1>6, <2>2, <3>1
    <3>3. CASE i \in DOMAIN ops /\ i >= op_i /\ ops[i].opcode = "GET" /\ ops[i].key = k
        BY <1>2, <1>4, <3>2, <3>3 DEF LeadsNext
    <3>4. CASE i < op_i /\ i \in DOMAIN next_ops /\ next_ops[i].opcode = "GET" /\ next_ops[i].key = k
        BY <1>2, <1>4, <3>2, <3>4 DEF LeadsNext
    <3>. QED
        BY <1>1, <1>2, <2>2, <3>1, <3>2, <3>3, <3>4, PointerNow
  <2>. QED
      BY <1>1, <2>1, <2>2 DEF Program
<1>. QED
    BY <1>6, PointersInvNext

\* The pointers, when the buffers are swapped.
LEMMA PointersSwap ==
    ASSUME IInv, [Next]_vars, SwapOps
    PROVE  PointersInv'
<1>1. TypeOK /\ PointersInv /\ StageInv /\ protocol \in Program
    BY Types DEF IInv
<1>2. /\ pc \in {"walk", "rest"} /\ op_i > CACHE_BATCH_SIZE /\ ~ Walked' /\ ops' = next_ops
      /\ hottest_keys_pointers' =
            IF protocol = "SC" THEN [k \in Tracked |-> 0] ELSE hottest_keys_pointers
    BY DEF SwapOps, Walked
<1>3. \A i \in DOMAIN ops : ~ (i >= op_i)
    BY SMTT(120), <1>1, <1>2, Types
<1>4. ASSUME NEW k \in Tracked, hottest_keys_pointers'[k] # 0
      PROVE  LeadsNext(k, hottest_keys_pointers'[k])
  <2>1. protocol # "SC" /\ hottest_keys_pointers' = hottest_keys_pointers /\ Walked
      BY <1>2, <1>4 DEF Walked
  <2>2. PICK i : i = hottest_keys_pointers[k]
      OBVIOUS
  <2>3. i \in DOMAIN next_ops /\ next_ops[i].opcode = "GET" /\ next_ops[i].key = k
      BY <1>1, <1>3, <1>4, <2>1, <2>2, PointerNow
  <2>. QED
      BY <1>2, <2>1, <2>2, <2>3 DEF LeadsNext
<1>. QED
    BY <1>4, PointersInvNext

\* The pointers, for every step.
LEMMA PointersStep ==
    ASSUME IInv, [Next]_vars
    PROVE  PointersInv'
<1>1. CASE UNCHANGED vars
  <2>1. /\ ops' = ops /\ next_ops' = next_ops /\ pc' = pc /\ op_i' = op_i /\ PointersInv
        /\ hottest_keys_pointers' = hottest_keys_pointers /\ protocol' = protocol
      BY <1>1, SameInput DEF vars, walk, IInv
  <2>2. Walked' <=> Walked
      BY <2>1 DEF Walked
  <2>3. ASSUME NEW k \in Tracked, hottest_keys_pointers'[k] # 0
        PROVE  LeadsNext(k, hottest_keys_pointers'[k])
    <3>1. PICK i : i = hottest_keys_pointers[k]
        OBVIOUS
    <3>. QED
        BY <2>1, <2>2, <2>3, <3>1, PointerNow DEF LeadsNext
  <2>. QED
      BY <2>3, PointersInvNext
<1>. QED
    BY <1>1, Moves, PointersOutside, PointersAfterTaken, PointersKept, PointersGone, PointersSwap

-----------------------------------------------------------------------------
(* Commands listed once.                                                      *)

\* The lists are the same.
LEMMA OnceSame ==
    ASSUME NEW F, NEW G, NEW S, ListsOnce(F, S),
           DOMAIN G = DOMAIN F, \A b \in DOMAIN F : G[b] = F[b]
    PROVE  ListsOnce(G, S)
BY SMTT(120) DEF ListsOnce

\* The lists have other names.
LEMMA OnceRenamed ==
    ASSUME NEW F, NEW G, NEW S, ListsOnce(F, S),
           NEW r \in [DOMAIN G -> DOMAIN F],
           \A b \in DOMAIN G : G[b] = F[r[b]],
           \A b, c \in DOMAIN G : r[b] = r[c] => b = c,
           \A b \in DOMAIN F : \E c \in DOMAIN G : r[c] = b
    PROVE  ListsOnce(G, S)
<1>1. \A b \in DOMAIN G : \A i \in DOMAIN G[b] : G[b][i] \in S
    BY DEF ListsOnce
<1>2. \A n \in S : \E b \in DOMAIN G : \E i \in DOMAIN G[b] : G[b][i] = n
    BY SMTT(120) DEF ListsOnce
<1>3. \A b, c \in DOMAIN G : \A i \in DOMAIN G[b] : \A j \in DOMAIN G[c] :
          G[b][i] = G[c][j] => b = c /\ i = j
    BY SMTT(120) DEF ListsOnce
<1>. QED
    BY <1>1, <1>2, <1>3 DEF ListsOnce

\* One list gets a further name.
LEMMA OnceMoved ==
    ASSUME NEW F, NEW G, NEW S, ListsOnce(F, S), NEW old \in DOMAIN F, NEW new,
           new \notin DOMAIN F, DOMAIN G = (DOMAIN F \ {old}) \cup {new},
           G[new] = F[old], \A b \in DOMAIN F \ {old} : G[b] = F[b]
    PROVE  ListsOnce(G, S)
<1>. DEFINE r == [b \in DOMAIN G |-> IF b = new THEN old ELSE b]
<1>1. r \in [DOMAIN G -> DOMAIN F] /\ \A b \in DOMAIN G : G[b] = F[r[b]]
    OBVIOUS
<1>2. \A b, c \in DOMAIN G : r[b] = r[c] => b = c
    OBVIOUS
<1>3. \A b \in DOMAIN F : \E c \in DOMAIN G : r[c] = b
    OBVIOUS
<1>. HIDE DEF r
<1>. QED
    BY SMTT(120), <1>1, <1>2, <1>3, OnceRenamed

\* A command that is not listed is added to a list.
LEMMA OnceAppended ==
    ASSUME NEW F, NEW G, NEW S, ListsOnce(F, S), NEW a \in DOMAIN F, NEW n, n \notin S,
           NEW T, F[a] \in Seq(T), n \in T,
           DOMAIN G = DOMAIN F, G[a] = Append(F[a], n),
           \A b \in DOMAIN F \ {a} : G[b] = F[b]
    PROVE  ListsOnce(G, S \cup {n})
<1>. DEFINE m == Len(F[a]) + 1
<1>1. /\ m \in DOMAIN G[a] /\ G[a][m] = n
      /\ \A i \in DOMAIN F[a] : i \in DOMAIN G[a] /\ G[a][i] = F[a][i]
      /\ \A i \in DOMAIN G[a] : i \in DOMAIN F[a] \/ i = m
    BY SMTT(120), Appended
<1>. HIDE DEF m
<1>2. \A b \in DOMAIN G : \A i \in DOMAIN G[b] :
          (b \in DOMAIN F /\ i \in DOMAIN F[b] /\ G[b][i] = F[b][i]) \/ (b = a /\ i = m)
    BY <1>1
<1>3. \A b \in DOMAIN F : \A i \in DOMAIN F[b] :
          b \in DOMAIN G /\ i \in DOMAIN G[b] /\ G[b][i] = F[b][i] /\ G[b][i] # n
    BY SMTT(120), <1>1 DEF ListsOnce
<1>4. \A b \in DOMAIN G : \A i \in DOMAIN G[b] : G[b][i] \in S \cup {n}
    BY <1>1, <1>2 DEF ListsOnce
<1>5. \A x \in S \cup {n} : \E b \in DOMAIN G : \E i \in DOMAIN G[b] : G[b][i] = x
    BY SMTT(120), <1>1, <1>3 DEF ListsOnce
<1>6. \A b, c \in DOMAIN G : \A i \in DOMAIN G[b] : \A j \in DOMAIN G[c] :
          G[b][i] = G[c][j] => b = c /\ i = j
    BY SMTT(120), <1>1, <1>2, <1>3 DEF ListsOnce
<1>. QED
    BY <1>4, <1>5, <1>6 DEF ListsOnce

\* A list of one command that is not listed is added.
LEMMA OnceAdded ==
    ASSUME NEW F, NEW G, NEW S, ListsOnce(F, S), NEW a, a \notin DOMAIN F, NEW n, n \notin S,
           DOMAIN G = DOMAIN F \cup {a}, DOMAIN G[a] = {1}, G[a][1] = n,
           \A b \in DOMAIN F : G[b] = F[b]
    PROVE  ListsOnce(G, S \cup {n})
<1>1. \A b \in DOMAIN G : \A i \in DOMAIN G[b] : G[b][i] \in S \cup {n}
    BY DEF ListsOnce
<1>2. \A x \in S \cup {n} : \E b \in DOMAIN G : \E i \in DOMAIN G[b] : G[b][i] = x
    BY SMTT(120) DEF ListsOnce
<1>3. \A b, c \in DOMAIN G : \A i \in DOMAIN G[b] : \A j \in DOMAIN G[c] :
          G[b][i] = G[c][j] => b = c /\ i = j
    BY SMTT(120) DEF ListsOnce
<1>. QED
    BY <1>1, <1>2, <1>3 DEF ListsOnce

\* One list is added to another.
LEMMA OnceJoined ==
    ASSUME NEW F, NEW G, NEW S, ListsOnce(F, S), NEW a \in DOMAIN F, NEW h \in DOMAIN F, a # h,
           NEW T, F[a] \in Seq(T), F[h] \in Seq(T),
           DOMAIN G = DOMAIN F \ {a}, G[h] = F[h] \o F[a],
           \A b \in DOMAIN G \ {h} : G[b] = F[b]
    PROVE  ListsOnce(G, S)
<1>. DEFINE m == Len(F[h])
<1>1. /\ m \in Nat
      /\ \A i \in DOMAIN F[h] : i \in DOMAIN G[h] /\ G[h][i] = F[h][i] /\ i \in Nat /\ i <= m
      /\ \A j \in DOMAIN F[a] : m + j \in DOMAIN G[h] /\ G[h][m + j] = F[a][j] /\ j \in Nat
      /\ \A i \in DOMAIN G[h] : i \in DOMAIN F[h] \/ \E j \in DOMAIN F[a] : i = m + j
    BY SMTT(120), Joined
<1>. HIDE DEF m
<1>. DEFINE From(b, i, c, j) ==
         /\ c \in DOMAIN F /\ j \in DOMAIN F[c] /\ G[b][i] = F[c][j]
         /\ (c = b /\ i = j) \/ (c = a /\ b = h /\ i = m + j)
<1>2. \A b \in DOMAIN G : \A i \in DOMAIN G[b] : \E c \in DOMAIN F : \E j \in DOMAIN F[c] :
          From(b, i, c, j)
    BY <1>1
<1>3. \A c \in DOMAIN F : \A j \in DOMAIN F[c] : \E b \in DOMAIN G : \E i \in DOMAIN G[b] :
          G[b][i] = F[c][j]
  <2>. SUFFICES ASSUME NEW c \in DOMAIN F, NEW j \in DOMAIN F[c]
                PROVE  \E b \in DOMAIN G : \E i \in DOMAIN G[b] : G[b][i] = F[c][j]
      OBVIOUS
  <2>1. CASE c = a
      BY <1>1, <2>1
  <2>2. CASE c = h
      BY <1>1, <2>2
  <2>3. CASE c # a /\ c # h
    <3>1. c \in DOMAIN G /\ G[c] = F[c]
        BY <2>3
    <3>. QED
        BY <3>1
  <2>. QED
      BY <2>1, <2>2, <2>3
<1>4. \A b \in DOMAIN G : \A i \in DOMAIN G[b] : G[b][i] \in S
    BY SMTT(120), <1>2 DEF ListsOnce
<1>5. \A n \in S : \E b \in DOMAIN G : \E i \in DOMAIN G[b] : G[b][i] = n
    BY SMTT(120), <1>3 DEF ListsOnce
<1>6. ASSUME NEW b \in DOMAIN G, NEW c \in DOMAIN G, NEW i \in DOMAIN G[b], NEW j \in DOMAIN G[c],
             G[b][i] = G[c][j]
      PROVE  b = c /\ i = j
  <2>1. PICK b0 \in DOMAIN F : \E i0 \in DOMAIN F[b0] : From(b, i, b0, i0)
      BY <1>2
  <2>2. PICK i0 \in DOMAIN F[b0] : From(b, i, b0, i0)
      BY <2>1
  <2>3. PICK c0 \in DOMAIN F : \E j0 \in DOMAIN F[c0] : From(c, j, c0, j0)
      BY <1>2
  <2>4. PICK j0 \in DOMAIN F[c0] : From(c, j, c0, j0)
      BY <2>3
  <2>5. b0 = c0 /\ i0 = j0
    <3>1. F[b0][i0] = F[c0][j0]
        BY <1>6, <2>2, <2>4
    <3>2. \A x, y \in DOMAIN F : \A k \in DOMAIN F[x] : \A l \in DOMAIN F[y] :
              F[x][k] = F[y][l] => x = y /\ k = l
        BY DEF ListsOnce
    <3>3. /\ b0 \in DOMAIN F /\ c0 \in DOMAIN F
          /\ i0 \in DOMAIN F[b0] /\ j0 \in DOMAIN F[c0]
        OBVIOUS
    <3>. QED
        BY ONLY SMTT(120), <3>1, <3>2, <3>3
  <2>. QED
      BY <2>2, <2>4, <2>5
<1>. QED
    BY <1>4, <1>5, <1>6 DEF ListsOnce

-----------------------------------------------------------------------------
(* The places of commands: histories, the buffer and the next buffer.         *)

\* The lists of the histories, of the buffer O and of the next buffer N.
Held(hist, O, N) ==
    [b \in DOMAIN hist \cup ({"ops"} \X DOMAIN O) \cup ({"next_ops"} \X DOMAIN N) |->
        IF b[1] = "ops" THEN O[b[2]] ELSE IF b[1] = "next_ops" THEN N[b[2]] ELSE hist[b]]

\* No history has the name of a place in a buffer.
Named(hist) == \A b \in DOMAIN hist : b[1] \notin {"ops", "next_ops"}

Histories(s, f) ==
    [b \in {<<"served", 0>>, <<"failed", 0>>} |-> IF b[1] = "served" THEN s ELSE f]

Sent(bc) == [b \in {<<"broadcast", 0>>} |-> bc]

\* The names of places differ.
LEMMA NamesDiffer ==
    \A i, j : /\ <<"ops", i>> # <<"next_ops", j>>
              /\ <<"ops", i>> = <<"ops", j>> => i = j
              /\ <<"next_ops", i>> = <<"next_ops", j>> => i = j
BY SMTT(120)

\* The histories of the client, with their names.
LEMMA HistoryFacts ==
    ASSUME NEW s, NEW f
    PROVE  /\ Named(Histories(s, f)) /\ Named(Sent(s))
           /\ DOMAIN Histories(s, f) = {<<"served", 0>>, <<"failed", 0>>}
           /\ <<"served", 0>> # <<"failed", 0>>
           /\ Histories(s, f)[<<"served", 0>>] = s /\ Histories(s, f)[<<"failed", 0>>] = f
           /\ DOMAIN Sent(s) = {<<"broadcast", 0>>} /\ Sent(s)[<<"broadcast", 0>>] = s
BY SMTT(120) DEF Histories, Sent, Named

\* The tables have the same lists; one has a list less, one more, or another
\* at i; one history has the commands c added.
SameLists(G, F) == DOMAIN G = DOMAIN F /\ \A x \in DOMAIN F : G[x] = F[x]

Without(G, F, i) == DOMAIN G = DOMAIN F \ {i} /\ \A x \in DOMAIN G : G[x] = F[x]

With(G, F, i, c) ==
    i \notin DOMAIN F /\ DOMAIN G = DOMAIN F \cup {i} /\ G[i] = c /\ \A x \in DOMAIN F : G[x] = F[x]

Changed(G, F, i, c) == DOMAIN G = DOMAIN F /\ G[i] = c /\ \A x \in DOMAIN F \ {i} : G[x] = F[x]

\* Nothing moves.
LEMMA SameOnce ==
    ASSUME NEW hist, NEW O, NEW N, NEW S, ListsOnce(Held(hist, O, N), S), Named(hist),
           NEW O2, SameLists(O2, O), NEW N2, SameLists(N2, N)
    PROVE  ListsOnce(Held(hist, O2, N2), S)
<1>. USE DEF SameLists
<1>. DEFINE F == Held(hist, O, N)
            G == Held(hist, O2, N2)
<1>. HIDE DEF F, G
<1>1. DOMAIN G = DOMAIN F
    BY DEF F, G, Held
<1>2. \A b \in DOMAIN F : G[b] = F[b]
    BY SMTT(120) DEF F, G, Held, Named
<1>. QED
    BY <1>1, <1>2, OnceSame DEF F, G

\* The list at i of the buffer moves to n of the next buffer.
LEMMA KeepOnce ==
    ASSUME NEW hist, NEW O, NEW N, NEW S, ListsOnce(Held(hist, O, N), S), Named(hist),
           NEW i \in DOMAIN O, NEW n, NEW O2, Without(O2, O, i), NEW N2, With(N2, N, n, O[i])
    PROVE  ListsOnce(Held(hist, O2, N2), S)
<1>. USE DEF Without, With
<1>. DEFINE F == Held(hist, O, N)
            G == Held(hist, O2, N2)
            old == <<"ops", i>>
            new == <<"next_ops", n>>
<1>1. ListsOnce(F, S) /\ old \in DOMAIN F /\ G[new] = F[old]
    BY SMTT(120) DEF Held, Named
<1>2. new \notin DOMAIN F
    BY SMTT(120) DEF Held, Named
<1>3. DOMAIN G = (DOMAIN F \ {old}) \cup {new}
    BY SMTT(120) DEF Held, Named
<1>4. \A b \in DOMAIN F \ {old} : G[b] = F[b]
    BY SMTT(120) DEF Held, Named
<1>. HIDE DEF F, G, old, new, With, Without
<1>5. ListsOnce(G, S)
    BY <1>1, <1>2, <1>3, <1>4, OnceMoved
<1>. QED
    BY <1>5 DEF G

\* The list at i of the buffer is added to history h.
LEMMA ServeOnce ==
    ASSUME NEW hist, NEW O, NEW N, NEW S, ListsOnce(Held(hist, O, N), S), Named(hist),
           NEW i \in DOMAIN O, NEW h \in DOMAIN hist,
           NEW T, O[i] \in Seq(T), hist[h] \in Seq(T),
           NEW O2, Without(O2, O, i), NEW N2, SameLists(N2, N),
           NEW hist2, Changed(hist2, hist, h, hist[h] \o O[i])
    PROVE  ListsOnce(Held(hist2, O2, N2), S)
<1>. USE DEF Without, SameLists, Changed
<1>. DEFINE F == Held(hist, O, N)
            G == Held(hist2, O2, N2)
            a == <<"ops", i>>
<1>1. /\ ListsOnce(F, S) /\ a \in DOMAIN F /\ h \in DOMAIN F /\ a # h
      /\ F[a] = O[i] /\ F[h] = hist[h]
    BY SMTT(120) DEF Held, Named
<1>2. Named(hist2)
    BY DEF Named
<1>3. G[h] = hist2[h]
    BY SMTT(120) DEF Held, Named
<1>4. DOMAIN G = DOMAIN F \ {a}
    BY SMTT(120) DEF Held, Named
<1>5. \A b \in DOMAIN G \ {h} : G[b] = F[b]
    BY SMTT(120) DEF Held, Named
<1>. HIDE DEF F, G, a
<1>6. F[a] \in Seq(T) /\ F[h] \in Seq(T) /\ G[h] = F[h] \o F[a]
    BY <1>1, <1>3
<1>7. ListsOnce(G, S)
    BY <1>1, <1>4, <1>5, <1>6, OnceJoined
<1>. QED
    BY <1>7 DEF G

\* The next buffer becomes the buffer.
LEMMA SwapOnce ==
    ASSUME NEW hist, NEW O, NEW N, NEW S, ListsOnce(Held(hist, O, N), S), Named(hist),
           DOMAIN O = {}, NEW O2, SameLists(O2, N), NEW N2, DOMAIN N2 = {}
    PROVE  ListsOnce(Held(hist, O2, N2), S)
<1>. USE DEF SameLists
<1>. DEFINE F == Held(hist, O, N)
            G == Held(hist, O2, N2)
            r == [b \in DOMAIN G |-> IF b \in DOMAIN hist THEN b ELSE <<"next_ops", b[2]>>]
<1>1. /\ ListsOnce(F, S)
      /\ \A x \in DOMAIN N : <<"next_ops", x>> \in DOMAIN F /\ F[<<"next_ops", x>>] = N[x]
      /\ \A b \in DOMAIN hist : /\ b \in DOMAIN F /\ F[b] = hist[b]
                                /\ \A x : b # <<"ops", x>> /\ b # <<"next_ops", x>>
      /\ \A b \in DOMAIN F : b \in DOMAIN hist \/ \E x \in DOMAIN N : b = <<"next_ops", x>>
    BY SMTT(120) DEF Held, Named
<1>2. /\ \A x \in DOMAIN N : <<"ops", x>> \in DOMAIN G /\ G[<<"ops", x>>] = N[x]
      /\ \A b \in DOMAIN hist : b \in DOMAIN G /\ G[b] = hist[b]
      /\ \A b \in DOMAIN G : b \in DOMAIN hist \/ \E x \in DOMAIN N : b = <<"ops", x>>
    BY SMTT(120) DEF Held, Named
<1>. HIDE DEF F, G
<1>3. /\ \A b \in DOMAIN hist : r[b] = b
      /\ \A x \in DOMAIN N : r[<<"ops", x>>] = <<"next_ops", x>>
    BY SMTT(120), <1>1, <1>2
<1>4. \A b \in DOMAIN G : r[b] \in DOMAIN F /\ G[b] = F[r[b]]
  <2>. HIDE DEF r
  <2>. SUFFICES ASSUME NEW b \in DOMAIN G
                PROVE  r[b] \in DOMAIN F /\ G[b] = F[r[b]]
      OBVIOUS
  <2>1. CASE b \in DOMAIN hist
      BY <1>1, <1>2, <1>3, <2>1
  <2>2. CASE b \notin DOMAIN hist
    <3>1. PICK x \in DOMAIN N : b = <<"ops", x>>
        BY <1>2, <2>2
    <3>. QED
        BY <1>1, <1>2, <1>3, <3>1
  <2>. QED
      BY <2>1, <2>2
<1>5. r \in [DOMAIN G -> DOMAIN F]
    BY <1>4
<1>. HIDE DEF r
<1>6. \A b, c \in DOMAIN G : r[b] = r[c] => b = c
  <2>. SUFFICES ASSUME NEW b \in DOMAIN G, NEW c \in DOMAIN G, r[b] = r[c]
                PROVE  b = c
      OBVIOUS
  <2>1. CASE b \in DOMAIN hist /\ c \in DOMAIN hist
      BY <1>3, <2>1
  <2>2. CASE b \in DOMAIN hist /\ c \notin DOMAIN hist
    <3>1. PICK x \in DOMAIN N : c = <<"ops", x>>
        BY <1>2, <2>2
    <3>. QED
        BY <1>1, <1>3, <2>2, <3>1
  <2>3. CASE b \notin DOMAIN hist /\ c \in DOMAIN hist
    <3>1. PICK x \in DOMAIN N : b = <<"ops", x>>
        BY <1>2, <2>3
    <3>. QED
        BY <1>1, <1>3, <2>3, <3>1
  <2>4. CASE b \notin DOMAIN hist /\ c \notin DOMAIN hist
    <3>1. PICK x \in DOMAIN N : b = <<"ops", x>>
        BY <1>2, <2>4
    <3>2. PICK y \in DOMAIN N : c = <<"ops", y>>
        BY <1>2, <2>4
    <3>3. <<"next_ops", x>> = <<"next_ops", y>>
        BY <1>3, <3>1, <3>2
    <3>. QED
        BY <3>1, <3>2, <3>3, NamesDiffer
  <2>. QED
      BY <2>1, <2>2, <2>3, <2>4
<1>7. \A b \in DOMAIN F : \E c \in DOMAIN G : r[c] = b
    BY <1>1, <1>2, <1>3
<1>8. ListsOnce(G, S)
  <2>1. ListsOnce(F, S) /\ \A b \in DOMAIN G : G[b] = F[r[b]]
      BY <1>1, <1>4
  <2>. QED
      BY ONLY SMTT(120), <2>1, <1>5, <1>6, <1>7, OnceRenamed
<1>. QED
    BY <1>8 DEF G

\* An operation with the new command n enters the buffer.
LEMMA FetchOnce ==
    ASSUME NEW hist, NEW O, NEW N, NEW S, ListsOnce(Held(hist, O, N), S), Named(hist),
           NEW n, n \notin S, NEW c, DOMAIN c = {1}, c[1] = n,
           NEW i, NEW O2, With(O2, O, i, c), NEW N2, SameLists(N2, N)
    PROVE  ListsOnce(Held(hist, O2, N2), S \cup {n})
<1>. USE DEF With, SameLists
<1>. DEFINE F == Held(hist, O, N)
            G == Held(hist, O2, N2)
            a == <<"ops", i>>
<1>1. /\ ListsOnce(F, S) /\ G[a] = O2[i]
    BY SMTT(120) DEF Held, Named
<1>2. a \notin DOMAIN F
    BY SMTT(120) DEF Held, Named
<1>3. DOMAIN G = DOMAIN F \cup {a}
    BY SMTT(120) DEF Held, Named
<1>4. \A b \in DOMAIN F : G[b] = F[b]
    BY SMTT(120) DEF Held, Named
<1>. HIDE DEF F, G, a, With, SameLists
<1>5. DOMAIN G[a] = {1} /\ G[a][1] = n
  <2>1. G[a] = c
      BY <1>1 DEF With
  <2>. QED
      BY <2>1
<1>6. ListsOnce(G, S \cup {n})
    BY <1>1, <1>2, <1>3, <1>4, <1>5, OnceAdded
<1>. QED
    BY <1>6 DEF G

\* The new command n joins the operation at i of the buffer.
LEMMA CoalesceOnce ==
    ASSUME NEW hist, NEW O, NEW N, NEW S, ListsOnce(Held(hist, O, N), S), Named(hist),
           NEW i \in DOMAIN O, NEW n, n \notin S, NEW T, O[i] \in Seq(T), n \in T,
           NEW O2, Changed(O2, O, i, Append(O[i], n)), NEW N2, SameLists(N2, N)
    PROVE  ListsOnce(Held(hist, O2, N2), S \cup {n})
<1>. USE DEF Changed, SameLists
<1>. DEFINE F == Held(hist, O, N)
            G == Held(hist, O2, N2)
            a == <<"ops", i>>
<1>1. ListsOnce(F, S) /\ a \in DOMAIN F /\ F[a] = O[i] /\ G[a] = O2[i]
    BY SMTT(120) DEF Held, Named
<1>2. DOMAIN G = DOMAIN F
    BY DEF Held
<1>3. \A b \in DOMAIN F \ {a} : G[b] = F[b]
    BY SMTT(120) DEF Held, Named
<1>. HIDE DEF F, G, a
<1>4. ListsOnce(G, S \cup {n})
    BY <1>1, <1>2, <1>3, OnceAppended
<1>. QED
    BY <1>4 DEF G

\* The operations of buffer o that are not executed, and those that await their
\* broadcast, from index first on.
Todo(o, first) ==
    [i \in {i \in DOMAIN o : i >= first /\ Unexecuted(o[i])} |-> o[i].commands]

Unsent(o, first) ==
    [i \in {i \in DOMAIN o : i >= first /\ o[i].opcode = "BRC"} |-> o[i].commands]

\* The first operation that the client has still to look at.
Start == IF Walked THEN op_i ELSE 1

\* The tables of ServedOnce and WritesBroadcastOnce.
Places(o, nx, w, at) ==
    ({"ops"} \X {i \in DOMAIN o : w => i >= at}) \cup ({"next_ops"} \X DOMAIN nx)

Placed(o, nx, b) == IF b[1] = "ops" THEN o[b[2]] ELSE nx[b[2]]

List(o, nx, s, f, bc, b) ==
    CASE b[1] = "served" -> s
      [] b[1] = "failed" -> f
      [] b[1] = "broadcast" -> bc
      [] OTHER -> Placed(o, nx, b).commands

ServedLists(o, nx, w, at, s, f, bc) ==
    [b \in {<<"served", 0>>, <<"failed", 0>>}
            \cup {b \in Places(o, nx, w, at) : Unexecuted(Placed(o, nx, b))} |->
        List(o, nx, s, f, bc, b)]

SentLists(o, nx, w, at, s, f, bc) ==
    [b \in {<<"broadcast", 0>>}
            \cup {b \in Places(o, nx, w, at) : Placed(o, nx, b).opcode = "BRC"} |->
        List(o, nx, s, f, bc, b)]

\* They are put together from the histories and the two buffers.
LEMMA Tables ==
    ASSUME NEW o, NEW nx, NEW at, NEW w \in BOOLEAN, NEW s, NEW f, NEW bc, NEW T,
           o \in Seq(T), nx \in Seq(T), NEW first, first = IF w THEN at ELSE 1
    PROVE  /\ ServedLists(o, nx, w, at, s, f, bc) =
                 Held(Histories(s, f), Todo(o, first), Todo(nx, 1))
           /\ SentLists(o, nx, w, at, s, f, bc) =
                 Held(Sent(bc), Unsent(o, first), Unsent(nx, 1))
<1>. DEFINE list(b) == List(o, nx, s, f, bc, b)
            D == {<<"served", 0>>, <<"failed", 0>>}
                    \cup {b \in Places(o, nx, w, at) : Unexecuted(Placed(o, nx, b))}
            E == {<<"broadcast", 0>>}
                    \cup {b \in Places(o, nx, w, at) : Placed(o, nx, b).opcode = "BRC"}
            F == Held(Histories(s, f), Todo(o, first), Todo(nx, 1))
            G == Held(Sent(bc), Unsent(o, first), Unsent(nx, 1))
<1>1. \A i \in DOMAIN o : (w => i >= at) <=> i >= first
    BY SMTT(120)
<1>2. \A i \in DOMAIN nx : i >= 1
    BY SMTT(120)
<1>3. D = DOMAIN F /\ \A b \in D : list(b) = F[b]
  <2>1. D = DOMAIN F
      BY SMTT(120), <1>1, <1>2 DEF Held, Histories, Todo, Places, Placed
  <2>2. \A b \in D : list(b) = F[b]
      BY SMTT(120), <1>1, <1>2 DEF Held, Histories, Todo, Places, Placed, List
  <2>. QED
      BY <2>1, <2>2
<1>4. E = DOMAIN G /\ \A b \in E : list(b) = G[b]
  <2>1. E = DOMAIN G
      BY SMTT(120), <1>1, <1>2 DEF Held, Sent, Unsent, Places, Placed
  <2>2. \A b \in E : list(b) = G[b]
      BY SMTT(120), <1>1, <1>2 DEF Held, Sent, Unsent, Places, Placed, List
  <2>. QED
      BY <2>1, <2>2
<1>5. F = [b \in DOMAIN F |-> F[b]] /\ G = [b \in DOMAIN G |-> G[b]]
    BY DEF Held
<1>. HIDE DEF F, G, D, E, list
<1>6. [b \in D |-> list(b)] = F
    BY SMTT(120), <1>3, <1>5
<1>7. [b \in E |-> list(b)] = G
    BY SMTT(120), <1>4, <1>5
<1>. QED
    BY <1>6, <1>7 DEF D, E, list, F, G, ServedLists, SentLists

\* Every command is served, refused or not executed yet, once; every hot write
\* is broadcast or waits for it, once.
LEMMA TablesNow ==
    ASSUME ops \in Seq(Op), next_ops \in Seq(Op)
    PROVE  /\ ServedOnce <=> ListsOnce(Held(Histories(served, failed), Todo(ops, Start),
                                            Todo(next_ops, 1)), 1..fetched)
           /\ WritesBroadcastOnce <=> ListsOnce(Held(Sent(broadcast), Unsent(ops, Start),
                                                     Unsent(next_ops, 1)), HotWrites)
<1>1. ServedOnce <=>
          ListsOnce(ServedLists(ops, next_ops, Walked, op_i, served, failed, broadcast), 1..fetched)
    BY DEF ServedOnce, Pending, InBuffer, OpAt, CommandsAt, ServedLists, Places, Placed, List, Walked
<1>2. WritesBroadcastOnce <=>
          ListsOnce(SentLists(ops, next_ops, Walked, op_i, served, failed, broadcast), HotWrites)
    BY DEF WritesBroadcastOnce, AwaitingBroadcast, InBuffer, OpAt, CommandsAt, SentLists, Places,
           Placed, List, Walked
<1>3. Walked \in BOOLEAN
    BY SMTT(120) DEF Walked
<1>4. Start = IF Walked THEN op_i ELSE 1
    BY DEF Start
<1>5. /\ ServedLists(ops, next_ops, Walked, op_i, served, failed, broadcast) =
            Held(Histories(served, failed), Todo(ops, Start), Todo(next_ops, 1))
      /\ SentLists(ops, next_ops, Walked, op_i, served, failed, broadcast) =
            Held(Sent(broadcast), Unsent(ops, Start), Unsent(next_ops, 1))
    BY SMTT(120), <1>3, <1>4, Tables
<1>. QED
    BY <1>1, <1>2, <1>5

\* The same after a step.
LEMMA TablesNext ==
    ASSUME ops' \in Seq(Op), next_ops' \in Seq(Op)
    PROVE  /\ ServedOnce' <=> ListsOnce(Held(Histories(served', failed'), Todo(ops', Start'),
                                             Todo(next_ops', 1)), 1..fetched')
           /\ WritesBroadcastOnce' <=> ListsOnce(Held(Sent(broadcast'), Unsent(ops', Start'),
                                                      Unsent(next_ops', 1)), HotWrites')
<1>1. ServedOnce' <=>
          ListsOnce(ServedLists(ops', next_ops', Walked', op_i', served', failed', broadcast'),
                    1..fetched')
    BY DEF ServedOnce, Pending, InBuffer, OpAt, CommandsAt, ServedLists, Places, Placed, List,
           Walked, ListsOnce, Unexecuted
<1>2. WritesBroadcastOnce' <=>
          ListsOnce(SentLists(ops', next_ops', Walked', op_i', served', failed', broadcast'),
                    HotWrites')
    BY DEF WritesBroadcastOnce, AwaitingBroadcast, InBuffer, OpAt, CommandsAt, SentLists, Places,
           Placed, List, Walked, ListsOnce
<1>3. Walked' \in BOOLEAN
    BY SMTT(120) DEF Walked
<1>4. Start' = IF Walked' THEN op_i' ELSE 1
    BY DEF Start
<1>5. /\ ServedLists(ops', next_ops', Walked', op_i', served', failed', broadcast') =
            Held(Histories(served', failed'), Todo(ops', Start'), Todo(next_ops', 1))
      /\ SentLists(ops', next_ops', Walked', op_i', served', failed', broadcast') =
            Held(Sent(broadcast'), Unsent(ops', Start'), Unsent(next_ops', 1))
    BY SMTT(120), <1>3, <1>4, Tables
<1>. QED
    BY <1>1, <1>2, <1>5

-----------------------------------------------------------------------------
(* Every command once.                                                        *)

\* The commands at i of the buffer are executed, refused or broadcast.
LEMMA HistoryGrows ==
    ASSUME NEW O, NEW N, NEW S, NEW s, NEW f, NEW i \in DOMAIN O,
           NEW T, s \in Seq(T), f \in Seq(T), O[i] \in Seq(T),
           NEW O2, Without(O2, O, i), NEW N2, SameLists(N2, N)
    PROVE  /\ ListsOnce(Held(Histories(s, f), O, N), S)
                 => /\ ListsOnce(Held(Histories(s \o O[i], f), O2, N2), S)
                    /\ ListsOnce(Held(Histories(s, f \o O[i]), O2, N2), S)
           /\ ListsOnce(Held(Sent(s), O, N), S) => ListsOnce(Held(Sent(s \o O[i]), O2, N2), S)
<1>. DEFINE S0 == <<"served", 0>>
            F0 == <<"failed", 0>>
            B0 == <<"broadcast", 0>>
<1>1. \A a, b : /\ DOMAIN Histories(a, b) = {S0, F0} /\ Named(Histories(a, b))
                /\ Histories(a, b)[S0] = a /\ Histories(a, b)[F0] = b
                /\ DOMAIN Sent(a) = {B0} /\ Named(Sent(a)) /\ Sent(a)[B0] = a
    BY HistoryFacts
<1>2. S0 # F0
    BY HistoryFacts
<1>. HIDE DEF S0, F0, B0
<1>3. ASSUME ListsOnce(Held(Histories(s, f), O, N), S)
      PROVE  ListsOnce(Held(Histories(s \o O[i], f), O2, N2), S)
  <2>. DEFINE h == Histories(s, f)
              g == Histories(s \o O[i], f)
  <2>0. /\ DOMAIN h = {S0, F0} /\ Named(h) /\ h[S0] = s /\ h[F0] = f
        /\ DOMAIN g = {S0, F0} /\ g[S0] = s \o O[i] /\ g[F0] = f
      BY <1>1
  <2>2. ListsOnce(Held(h, O, N), S)
      BY <1>3
  <2>. HIDE DEF h, g
  <2>1. /\ S0 \in DOMAIN h /\ h[S0] \in Seq(T) /\ Changed(g, h, S0, h[S0] \o O[i])
      BY <1>2, <2>0 DEF Changed
  <2>3. ListsOnce(Held(g, O2, N2), S)
      BY <2>0, <2>1, <2>2, ServeOnce
  <2>. QED
      BY <2>3 DEF g
<1>4. ASSUME ListsOnce(Held(Histories(s, f), O, N), S)
      PROVE  ListsOnce(Held(Histories(s, f \o O[i]), O2, N2), S)
  <2>. DEFINE h == Histories(s, f)
              g == Histories(s, f \o O[i])
  <2>0. /\ DOMAIN h = {S0, F0} /\ Named(h) /\ h[S0] = s /\ h[F0] = f
        /\ DOMAIN g = {S0, F0} /\ g[S0] = s /\ g[F0] = f \o O[i]
      BY <1>1
  <2>2. ListsOnce(Held(h, O, N), S)
      BY <1>4
  <2>. HIDE DEF h, g
  <2>1. /\ F0 \in DOMAIN h /\ h[F0] \in Seq(T) /\ Changed(g, h, F0, h[F0] \o O[i])
      BY <1>2, <2>0 DEF Changed
  <2>3. ListsOnce(Held(g, O2, N2), S)
      BY <2>0, <2>1, <2>2, ServeOnce
  <2>. QED
      BY <2>3 DEF g
<1>5. ASSUME ListsOnce(Held(Sent(s), O, N), S)
      PROVE  ListsOnce(Held(Sent(s \o O[i]), O2, N2), S)
  <2>. DEFINE h == Sent(s)
              g == Sent(s \o O[i])
  <2>0. /\ DOMAIN h = {B0} /\ Named(h) /\ h[B0] = s /\ DOMAIN g = {B0} /\ g[B0] = s \o O[i]
      BY <1>1
  <2>2. ListsOnce(Held(h, O, N), S)
      BY <1>5
  <2>. HIDE DEF h, g
  <2>1. /\ B0 \in DOMAIN h /\ h[B0] \in Seq(T) /\ Changed(g, h, B0, h[B0] \o O[i])
      BY <2>0 DEF Changed
  <2>3. ListsOnce(Held(g, O2, N2), S)
      BY <2>0, <2>1, <2>2, ServeOnce
  <2>. QED
      BY <2>3 DEF g
<1>. QED
    BY <1>3, <1>4, <1>5

\* The operations of a buffer that are not executed, and those to be broadcast.
LEMMA Parts ==
    ASSUME NEW o, NEW first
    PROVE  /\ \A i : i \in DOMAIN Todo(o, first) <=>
                        i \in DOMAIN o /\ i >= first /\ Unexecuted(o[i])
           /\ \A i \in DOMAIN Todo(o, first) : Todo(o, first)[i] = o[i].commands
           /\ \A i : i \in DOMAIN Unsent(o, first) <=>
                        i \in DOMAIN o /\ i >= first /\ o[i].opcode = "BRC"
           /\ \A i \in DOMAIN Unsent(o, first) : Unsent(o, first)[i] = o[i].commands
BY DEF Todo, Unsent

\* A step of the walk leaves the operation at op_i behind.
LEMMA LeftBehind ==
    ASSUME TypeOK, Walked, Walked', op_i \in DOMAIN ops, op_i' = op_i + 1, ops' = ops
    PROVE  /\ Without(Todo(ops', Start'), Todo(ops, Start), op_i)
           /\ op_i \in DOMAIN Todo(ops, Start) <=> Unexecuted(ops[op_i])
           /\ op_i \in DOMAIN Todo(ops, Start) => Todo(ops, Start)[op_i] = ops[op_i].commands
           /\ Without(Unsent(ops', Start'), Unsent(ops, Start), op_i)
           /\ op_i \in DOMAIN Unsent(ops, Start) <=> ops[op_i].opcode = "BRC"
           /\ op_i \in DOMAIN Unsent(ops, Start) => Unsent(ops, Start)[op_i] = ops[op_i].commands
<1>1. Start = op_i /\ Start' = op_i'
    BY DEF Start
<1>2. op_i >= op_i /\ \A x \in DOMAIN ops : x >= op_i' <=> x >= op_i /\ x # op_i
  <2>1. op_i \in Nat /\ DOMAIN ops = 1..Len(ops) /\ Len(ops) \in Nat
      BY Types
  <2>. QED
      BY SMTT(120), <2>1
<1>3. /\ DOMAIN Todo(ops', Start') = {x \in DOMAIN ops : x >= op_i' /\ Unexecuted(ops[x])}
      /\ DOMAIN Todo(ops, Start) = {x \in DOMAIN ops : x >= op_i /\ Unexecuted(ops[x])}
      /\ DOMAIN Unsent(ops', Start') = {x \in DOMAIN ops : x >= op_i' /\ ops[x].opcode = "BRC"}
      /\ DOMAIN Unsent(ops, Start) = {x \in DOMAIN ops : x >= op_i /\ ops[x].opcode = "BRC"}
    BY <1>1 DEF Todo, Unsent
<1>4. /\ DOMAIN Todo(ops', Start') = DOMAIN Todo(ops, Start) \ {op_i}
      /\ DOMAIN Unsent(ops', Start') = DOMAIN Unsent(ops, Start) \ {op_i}
    BY <1>2, <1>3
<1>5. /\ \A x \in DOMAIN Todo(ops', Start') : Todo(ops', Start')[x] = ops[x].commands
      /\ \A x \in DOMAIN Todo(ops, Start) : Todo(ops, Start)[x] = ops[x].commands
      /\ \A x \in DOMAIN Unsent(ops', Start') : Unsent(ops', Start')[x] = ops[x].commands
      /\ \A x \in DOMAIN Unsent(ops, Start) : Unsent(ops, Start)[x] = ops[x].commands
    BY <1>1, Parts
<1>6. /\ Without(Todo(ops', Start'), Todo(ops, Start), op_i)
      /\ Without(Unsent(ops', Start'), Unsent(ops, Start), op_i)
    BY <1>4, <1>5 DEF Without
<1>7. /\ op_i \in DOMAIN Todo(ops, Start) <=> Unexecuted(ops[op_i])
      /\ op_i \in DOMAIN Unsent(ops, Start) <=> ops[op_i].opcode = "BRC"
    BY <1>2, <1>3
<1>. QED
    BY <1>5, <1>6, <1>7

\* Outside the walk all of the buffer is to be looked at.
LEMMA FromStart ==
    ASSUME TypeOK, ~ Walked, ~ Walked' \/ op_i' = 1
    PROVE  Start = 1 /\ Start' = 1 /\ \A x \in DOMAIN ops : x >= 1
<1>1. Start = 1 /\ Start' = 1
    BY DEF Start
<1>2. \A x \in DOMAIN ops : x >= 1
    BY SMTT(120), Types
<1>. QED
    BY <1>1, <1>2

\* The operation at i becomes op.
LEMMA OpChanges ==
    ASSUME TypeOK, NEW i \in DOMAIN ops, NEW op \in Op, ops' = [ops EXCEPT ![i] = op],
           ~ Walked, ~ Walked' \/ op_i' = 1
    PROVE  /\ i \in DOMAIN Todo(ops, Start) <=> Unexecuted(ops[i])
           /\ Unexecuted(ops[i]) => Todo(ops, Start)[i] = ops[i].commands
           /\ Unexecuted(ops[i]) /\ Unexecuted(op)
                 => Changed(Todo(ops', Start'), Todo(ops, Start), i, op.commands)
           /\ Unexecuted(ops[i]) /\ ~ Unexecuted(op)
                 => Without(Todo(ops', Start'), Todo(ops, Start), i)
           /\ (Unexecuted(ops[i]) <=> Unexecuted(op)) /\ (Unexecuted(op) => op.commands = ops[i].commands)
                 => SameLists(Todo(ops', Start'), Todo(ops, Start))
<1>1. Start = 1 /\ Start' = 1 /\ \A x \in DOMAIN ops : x >= 1
    BY FromStart
<1>2. /\ DOMAIN ops' = DOMAIN ops /\ ops'[i] = op
      /\ \A j \in DOMAIN ops : j # i => ops'[j] = ops[j]
    BY OpReplaced
<1>. DEFINE O == Todo(ops, Start)
            O2 == Todo(ops', Start')
<1>3. /\ DOMAIN O = {x \in DOMAIN ops : Unexecuted(ops[x])}
      /\ \A x \in DOMAIN O : O[x] = ops[x].commands
    BY <1>1 DEF Todo
<1>4. /\ DOMAIN O2 = {x \in DOMAIN ops : Unexecuted(ops'[x])}
      /\ \A x \in DOMAIN O2 : O2[x] = ops'[x].commands
    BY <1>1, <1>2 DEF Todo
<1>. HIDE DEF O, O2
<1>5. \A x \in DOMAIN ops : x # i => /\ x \in DOMAIN O2 <=> x \in DOMAIN O
                                     /\ x \in DOMAIN O => O2[x] = O[x]
    BY <1>2, <1>3, <1>4
<1>6. /\ i \in DOMAIN O <=> Unexecuted(ops[i])
      /\ i \in DOMAIN O => O[i] = ops[i].commands
      /\ i \in DOMAIN O2 <=> Unexecuted(op)
      /\ i \in DOMAIN O2 => O2[i] = op.commands
    BY <1>2, <1>3, <1>4
<1>7. DOMAIN O \subseteq DOMAIN ops /\ DOMAIN O2 \subseteq DOMAIN ops
    BY <1>3, <1>4
<1>8. CASE Unexecuted(ops[i]) /\ ~ Unexecuted(op)
  <2>1. Without(O2, O, i)
      BY <1>5, <1>6, <1>7, <1>8 DEF Without
  <2>. QED
      BY <1>6, <1>8, <2>1 DEF O, O2
<1>9. CASE Unexecuted(ops[i]) <=> Unexecuted(op)
  <2>1. DOMAIN O2 = DOMAIN O
      BY <1>5, <1>6, <1>7, <1>9
  <2>2. Unexecuted(op) => Changed(O2, O, i, op.commands)
      BY <1>5, <1>6, <1>7, <1>9, <2>1 DEF Changed
  <2>3. (Unexecuted(op) => op.commands = ops[i].commands) => SameLists(O2, O)
      BY <1>5, <1>6, <1>7, <1>9, <2>1 DEF SameLists
  <2>. QED
      BY <1>6, <1>9, <2>2, <2>3 DEF O, O2
<1>10. CASE ~ Unexecuted(ops[i]) /\ Unexecuted(op)
    BY <1>6, <1>10 DEF O
<1>. QED
    BY <1>8, <1>9, <1>10

\* The same for the operations that await their broadcast.
LEMMA OpChangesUnsent ==
    ASSUME TypeOK, NEW i \in DOMAIN ops, NEW op \in Op, ops' = [ops EXCEPT ![i] = op],
           ~ Walked, ~ Walked' \/ op_i' = 1, op.commands = ops[i].commands \/ op.opcode # "BRC"
    PROVE  /\ i \in DOMAIN Unsent(ops, Start) <=> ops[i].opcode = "BRC"
           /\ ops[i].opcode = "BRC" => Unsent(ops, Start)[i] = ops[i].commands
           /\ ops[i].opcode = "BRC" /\ op.opcode # "BRC"
                 => Without(Unsent(ops', Start'), Unsent(ops, Start), i)
           /\ ops[i].opcode # "BRC" /\ op.opcode = "BRC"
                 => With(Unsent(ops', Start'), Unsent(ops, Start), i, op.commands)
           /\ (ops[i].opcode = "BRC" <=> op.opcode = "BRC")
                 => SameLists(Unsent(ops', Start'), Unsent(ops, Start))
<1>1. Start = 1 /\ Start' = 1 /\ \A x \in DOMAIN ops : x >= 1
    BY FromStart
<1>2. /\ DOMAIN ops' = DOMAIN ops /\ ops'[i] = op
      /\ \A j \in DOMAIN ops : j # i => ops'[j] = ops[j]
    BY OpReplaced
<1>. DEFINE O == Unsent(ops, Start)
            O2 == Unsent(ops', Start')
<1>3. /\ DOMAIN O = {x \in DOMAIN ops : ops[x].opcode = "BRC"}
      /\ \A x \in DOMAIN O : O[x] = ops[x].commands
    BY <1>1 DEF Unsent
<1>4. /\ DOMAIN O2 = {x \in DOMAIN ops : ops'[x].opcode = "BRC"}
      /\ \A x \in DOMAIN O2 : O2[x] = ops'[x].commands
    BY <1>1, <1>2 DEF Unsent
<1>. HIDE DEF O, O2
<1>5. \A x \in DOMAIN ops : x # i => /\ x \in DOMAIN O2 <=> x \in DOMAIN O
                                     /\ x \in DOMAIN O => O2[x] = O[x]
    BY <1>2, <1>3, <1>4
<1>6. /\ i \in DOMAIN O <=> ops[i].opcode = "BRC"
      /\ i \in DOMAIN O => O[i] = ops[i].commands
      /\ i \in DOMAIN O2 <=> op.opcode = "BRC"
      /\ i \in DOMAIN O2 => O2[i] = op.commands
    BY <1>2, <1>3, <1>4
<1>7. DOMAIN O \subseteq DOMAIN ops /\ DOMAIN O2 \subseteq DOMAIN ops
    BY <1>3, <1>4
<1>8. CASE ops[i].opcode = "BRC" /\ op.opcode # "BRC"
  <2>1. Without(O2, O, i)
      BY <1>5, <1>6, <1>7, <1>8 DEF Without
  <2>. QED
      BY <1>6, <1>8, <2>1 DEF O, O2
<1>9. CASE ops[i].opcode = "BRC" <=> op.opcode = "BRC"
  <2>1. DOMAIN O2 = DOMAIN O
      BY <1>5, <1>6, <1>7, <1>9
  <2>2. SameLists(O2, O)
      BY <1>5, <1>6, <1>7, <1>9, <2>1 DEF SameLists
  <2>. QED
      BY <1>6, <1>9, <2>2 DEF O, O2
<1>10. CASE ops[i].opcode # "BRC" /\ op.opcode = "BRC"
  <2>1. DOMAIN O2 = DOMAIN O \cup {i}
      BY <1>5, <1>6, <1>7, <1>10
  <2>2. With(O2, O, i, op.commands)
      BY <1>5, <1>6, <1>7, <1>10, <2>1 DEF With
  <2>. QED
      BY <1>6, <1>10, <2>2 DEF O, O2
<1>. QED
    BY <1>8, <1>9, <1>10

\* Nothing moves between the places of commands that are not executed.
LEMMA SameServed ==
    ASSUME IInv, [Next]_vars, UNCHANGED <<fetched, served, failed>>,
           SameLists(Todo(ops', Start'), Todo(ops, Start)),
           SameLists(Todo(next_ops', 1), Todo(next_ops, 1))
    PROVE  ServedOnce'
<1>1. TypeOK /\ TypeOK' /\ ServedOnce
    BY TypeStep DEF IInv
<1>2. ListsOnce(Held(Histories(served, failed), Todo(ops, Start), Todo(next_ops, 1)), 1..fetched)
    BY <1>1, Types, TablesNow
<1>3. ListsOnce(Held(Histories(served, failed), Todo(ops', Start'), Todo(next_ops', 1)), 1..fetched)
    BY <1>2, HistoryFacts, SameOnce
<1>4. ListsOnce(Held(Histories(served', failed'), Todo(ops', Start'), Todo(next_ops', 1)), 1..fetched')
    BY <1>3
<1>. QED
    BY <1>1, <1>4, TablesNext DEF TypeOK

\* The operation at op_i is executed or refused.
LEMMA ServesOne ==
    ASSUME IInv, [Next]_vars, fetched' = fetched, op_i \in DOMAIN Todo(ops, Start),
           Todo(ops, Start)[op_i] = ops[op_i].commands,
           \/ served' = served \o ops[op_i].commands /\ failed' = failed
           \/ served' = served /\ failed' = failed \o ops[op_i].commands,
           Without(Todo(ops', Start'), Todo(ops, Start), op_i),
           SameLists(Todo(next_ops', 1), Todo(next_ops, 1))
    PROVE  ServedOnce'
<1>. DEFINE O == Todo(ops, Start)
            N == Todo(next_ops, 1)
<1>1. TypeOK /\ TypeOK' /\ ServedOnce /\ OpsInv
    BY TypeStep DEF IInv
<1>2. ListsOnce(Held(Histories(served, failed), O, N), 1..fetched)
    BY <1>1, Types, TablesNow
<1>3. op_i \in DOMAIN ops
    BY Parts
<1>4. served \in Seq(1..fetched) /\ failed \in Seq(1..fetched) /\ O[op_i] \in Seq(1..fetched)
    BY <1>1, <1>3, Types, CommandsTaken DEF OpsInv
<1>5. /\ ListsOnce(Held(Histories(served \o O[op_i], failed), Todo(ops', Start'), Todo(next_ops', 1)),
                   1..fetched)
      /\ ListsOnce(Held(Histories(served, failed \o O[op_i]), Todo(ops', Start'), Todo(next_ops', 1)),
                   1..fetched)
    BY <1>2, <1>4, HistoryGrows
<1>6. ListsOnce(Held(Histories(served', failed'), Todo(ops', Start'), Todo(next_ops', 1)), 1..fetched')
    BY <1>5
<1>. QED
    BY <1>1, <1>6, TablesNext DEF TypeOK

\* Adding nothing to a history.
LEMMA NothingAdded ==
    ASSUME NEW T, NEW s \in Seq(T)
    PROVE  s \o <<>> = s
BY SMTT(120)

\* The lists of a buffer that stays the same.
LEMMA SameNext ==
    ASSUME next_ops' = next_ops
    PROVE  /\ SameLists(Todo(next_ops', 1), Todo(next_ops, 1))
           /\ SameLists(Unsent(next_ops', 1), Unsent(next_ops, 1))
BY DEF SameLists

\* Every command once, while the buffer is filled.
LEMMA FillServed ==
    ASSUME IInv, [Next]_vars, (\E i, op : JoinsAt(i, op)) \/ (\E op : TakenAs(op))
    PROVE  ServedOnce'
<1>. DEFINE new == fetched + 1
            h == Histories(served, failed)
            O == Todo(ops, Start)
            O2 == Todo(ops', Start')
            N == Todo(next_ops, 1)
            N2 == Todo(next_ops', 1)
<1>1. TypeOK /\ TypeOK' /\ ServedOnce /\ OpsInv
    BY TypeStep DEF IInv
<1>2. ListsOnce(Held(h, O, N), 1..fetched) /\ Named(h)
    BY <1>1, Types, TablesNow, HistoryFacts
<1>3. /\ ~ Walked /\ ~ Walked' /\ next_ops' = next_ops /\ served' = served /\ failed' = failed
      /\ fetched' = new
    BY DEF JoinsAt, TakenAs, Walked, NextCommand
<1>4. SameLists(N2, N)
    BY <1>3, SameNext
<1>5. new \notin 1..fetched /\ new \in Nat /\ 1..new = (1..fetched) \cup {new}
    BY SMTT(120), <1>1, Types
<1>6. ListsOnce(Held(h, O2, N2), (1..fetched) \cup {new}) => ServedOnce'
  <2>1. SUFFICES ASSUME ListsOnce(Held(h, O2, N2), (1..fetched) \cup {new}) PROVE ServedOnce'
      OBVIOUS
  <2>2. ListsOnce(Held(h, O2, N2), 1..new)
      BY <1>5, <2>1
  <2>3. ListsOnce(Held(Histories(served', failed'), O2, N2), 1..fetched')
      BY <1>3, <2>2
  <2>. QED
      BY <1>1, <2>3, TablesNext DEF TypeOK
<1>7. ASSUME NEW i, NEW op, JoinsAt(i, op) PROVE ServedOnce'
  <2>1. /\ i \in DOMAIN ops /\ op \in Op /\ ops' = [ops EXCEPT ![i] = op]
        /\ Unexecuted(op) /\ Unexecuted(ops[i]) /\ op.commands = Append(ops[i].commands, new)
      BY <1>7 DEF JoinsAt, Genuine
  <2>2. i \in DOMAIN O /\ O[i] = ops[i].commands /\ Changed(O2, O, i, Append(O[i], new))
      BY <1>1, <1>3, <2>1, OpChanges
  <2>3. O[i] \in Seq(Nat)
      BY <1>1, <2>1, <2>2, CommandsTaken DEF OpsInv
  <2>. HIDE DEF new, h, O, O2, N, N2
  <2>. QED
      BY <1>2, <1>4, <1>5, <1>6, <2>2, <2>3, CoalesceOnce
<1>8. ASSUME NEW op, TakenAs(op) PROVE ServedOnce'
  <2>1. /\ op \in Op /\ ops' = Append(ops, op) /\ Unexecuted(op) /\ op.commands = <<new>>
      BY <1>8 DEF TakenAs, Genuine
  <2>2. PICK n : n = Len(ops) + 1
      OBVIOUS
  <2>3. /\ n \in DOMAIN ops' /\ n \notin DOMAIN ops
        /\ ops'[n] = op /\ DOMAIN ops' = DOMAIN ops \cup {n}
        /\ \A j \in DOMAIN ops : j \in DOMAIN ops' /\ ops'[j] = ops[j] /\ j < n
      BY <1>1, <2>1, <2>2, OpAdded
  <2>4. Start = 1 /\ Start' = 1 /\ n >= 1 /\ \A x \in DOMAIN ops : x >= 1
    <3>1. n >= 1
        BY SMTT(120), <1>1, <2>2, Types
    <3>. QED
        BY <1>1, <1>3, <3>1, FromStart
  <2>5. /\ DOMAIN O = {x \in DOMAIN ops : Unexecuted(ops[x])}
        /\ \A x \in DOMAIN O : O[x] = ops[x].commands
      BY <2>4 DEF Todo
  <2>6. /\ DOMAIN O2 = {x \in DOMAIN ops' : Unexecuted(ops'[x])}
        /\ \A x \in DOMAIN O2 : O2[x] = ops'[x].commands
      BY <2>3, <2>4 DEF Todo
  <2>. DEFINE c == op.commands
  <2>7. DOMAIN c = {1} /\ c[1] = new
      BY SMTT(120), <2>1
  <2>. HIDE DEF new, h, O, O2, N, N2, c
  <2>8. n \notin DOMAIN O /\ DOMAIN O2 = DOMAIN O \cup {n}
      BY <2>1, <2>3, <2>5, <2>6
  <2>9. O2[n] = c /\ \A x \in DOMAIN O : O2[x] = O[x]
      BY <2>3, <2>5, <2>6, <2>8 DEF c
  <2>10. With(O2, O, n, c)
      BY <2>8, <2>9 DEF With
  <2>. QED
      BY <1>2, <1>4, <1>5, <1>6, <2>7, <2>10, FetchOnce
<1>. QED
    BY <1>7, <1>8

\* An operation added to the next buffer.
LEMMA NextGrows ==
    ASSUME TypeOK, NEW op \in Op, next_ops' = Append(next_ops, op), NEW n, n = Len(next_ops) + 1
    PROVE  /\ Unexecuted(op) => With(Todo(next_ops', 1), Todo(next_ops, 1), n, op.commands)
           /\ ~ Unexecuted(op) => SameLists(Todo(next_ops', 1), Todo(next_ops, 1))
           /\ op.opcode = "BRC" => With(Unsent(next_ops', 1), Unsent(next_ops, 1), n, op.commands)
           /\ op.opcode # "BRC" => SameLists(Unsent(next_ops', 1), Unsent(next_ops, 1))
<1>1. /\ n \notin DOMAIN next_ops /\ next_ops'[n] = op
      /\ DOMAIN next_ops' = DOMAIN next_ops \cup {n}
      /\ \A j \in DOMAIN next_ops : j \in DOMAIN next_ops' /\ next_ops'[j] = next_ops[j]
    BY NextAdded
<1>2. n >= 1 /\ \A x \in DOMAIN next_ops : x >= 1
    BY SMTT(120), Types
<1>3. \A x \in DOMAIN next_ops' : x >= 1
    BY <1>1, <1>2
<1>. DEFINE O == Todo(next_ops, 1)
            O2 == Todo(next_ops', 1)
            U == Unsent(next_ops, 1)
            U2 == Unsent(next_ops', 1)
<1>4. /\ DOMAIN O = {x \in DOMAIN next_ops : Unexecuted(next_ops[x])}
      /\ \A x \in DOMAIN O : O[x] = next_ops[x].commands
      /\ DOMAIN U = {x \in DOMAIN next_ops : next_ops[x].opcode = "BRC"}
      /\ \A x \in DOMAIN U : U[x] = next_ops[x].commands
    BY <1>2 DEF Todo, Unsent
<1>5. /\ DOMAIN O2 = {x \in DOMAIN next_ops' : Unexecuted(next_ops'[x])}
      /\ \A x \in DOMAIN O2 : O2[x] = next_ops'[x].commands
      /\ DOMAIN U2 = {x \in DOMAIN next_ops' : next_ops'[x].opcode = "BRC"}
      /\ \A x \in DOMAIN U2 : U2[x] = next_ops'[x].commands
    BY <1>3 DEF Todo, Unsent
<1>. HIDE DEF O, O2, U, U2
<1>6. /\ n \notin DOMAIN O /\ n \notin DOMAIN U
      /\ \A x \in DOMAIN O : x \in DOMAIN O2 /\ O2[x] = O[x]
      /\ \A x \in DOMAIN U : x \in DOMAIN U2 /\ U2[x] = U[x]
  <2>1. /\ \A x \in DOMAIN O : x \in DOMAIN O2
        /\ \A x \in DOMAIN U : x \in DOMAIN U2
      BY <1>1, <1>4, <1>5
  <2>2. \A x \in DOMAIN O \cup DOMAIN U : x \in DOMAIN next_ops /\ next_ops'[x] = next_ops[x]
      BY <1>1, <1>4
  <2>3. /\ \A x \in DOMAIN O : O2[x] = O[x]
        /\ \A x \in DOMAIN U : U2[x] = U[x]
      BY <1>4, <1>5, <2>1, <2>2
  <2>. QED
      BY <1>1, <2>1, <2>2, <2>3
<1>7. /\ \A x \in DOMAIN O2 : x \in DOMAIN O \/ x = n
      /\ \A x \in DOMAIN U2 : x \in DOMAIN U \/ x = n
      /\ n \in DOMAIN O2 <=> Unexecuted(op)
      /\ n \in DOMAIN U2 <=> op.opcode = "BRC"
    BY <1>1, <1>4, <1>5
<1>8. /\ n \in DOMAIN O2 => O2[n] = op.commands
      /\ n \in DOMAIN U2 => U2[n] = op.commands
    BY <1>1, <1>5
<1>9. ASSUME Unexecuted(op) PROVE With(O2, O, n, op.commands)
  <2>1. DOMAIN O2 = DOMAIN O \cup {n}
      BY <1>6, <1>7, <1>9
  <2>. QED
      BY <1>6, <1>7, <1>8, <1>9, <2>1 DEF With
<1>10. ASSUME ~ Unexecuted(op) PROVE SameLists(O2, O)
  <2>1. DOMAIN O2 = DOMAIN O
      BY <1>6, <1>7, <1>10
  <2>. QED
      BY <1>6, <2>1 DEF SameLists
<1>11. ASSUME op.opcode = "BRC" PROVE With(U2, U, n, op.commands)
  <2>1. DOMAIN U2 = DOMAIN U \cup {n}
      BY <1>6, <1>7, <1>11
  <2>. QED
      BY <1>6, <1>7, <1>8, <1>11, <2>1 DEF With
<1>12. ASSUME op.opcode # "BRC" PROVE SameLists(U2, U)
  <2>1. DOMAIN U2 = DOMAIN U
      BY <1>6, <1>7, <1>12
  <2>. QED
      BY <1>6, <2>1 DEF SameLists
<1>. QED
    BY <1>9, <1>10, <1>11, <1>12 DEF O, O2, U, U2

\* Every command once, when an operation is probed.
LEMMA ProbeServed ==
    ASSUME IInv, [Next]_vars, NEW op, NEW S, NEW F, ProbedAs(op, S, F)
    PROVE  ServedOnce'
<1>1. TypeOK /\ served \in Seq(1..fetched) /\ failed \in Seq(1..fetched)
    BY Types DEF IInv
<1>2. /\ op_i \in DOMAIN ops /\ op \in Op /\ ops' = [ops EXCEPT ![op_i] = op]
      /\ ~ Walked /\ ~ Walked' /\ op.commands = ops[op_i].commands
      /\ served' = served \o S /\ failed' = failed \o F /\ fetched' = fetched
      /\ next_ops' = next_ops
      /\ \/ /\ S = ops[op_i].commands /\ F = <<>> /\ Unexecuted(ops[op_i]) /\ ~ Unexecuted(op)
         \/ /\ S = <<>> /\ F = ops[op_i].commands /\ Unexecuted(ops[op_i]) /\ ~ Unexecuted(op)
         \/ /\ S = <<>> /\ F = <<>> /\ (Unexecuted(op) <=> Unexecuted(ops[op_i]))
    BY DEF ProbedAs, Genuine, Walked
<1>3. served \o <<>> = served /\ failed \o <<>> = failed
    BY <1>1, NothingAdded
<1>4. SameLists(Todo(next_ops', 1), Todo(next_ops, 1))
    BY <1>2, SameNext
<1>5. CASE Unexecuted(ops[op_i]) /\ ~ Unexecuted(op)
  <2>1. /\ op_i \in DOMAIN Todo(ops, Start) /\ Todo(ops, Start)[op_i] = ops[op_i].commands
        /\ Without(Todo(ops', Start'), Todo(ops, Start), op_i)
      BY <1>1, <1>2, <1>5, OpChanges
  <2>2. \/ served' = served \o ops[op_i].commands /\ failed' = failed
        \/ served' = served /\ failed' = failed \o ops[op_i].commands
      BY <1>2, <1>3, <1>5
  <2>. QED
      BY <1>2, <1>4, <2>1, <2>2, ServesOne
<1>6. CASE Unexecuted(op) <=> Unexecuted(ops[op_i])
  <2>1. SameLists(Todo(ops', Start'), Todo(ops, Start))
      BY <1>1, <1>2, <1>6, OpChanges
  <2>2. served' = served /\ failed' = failed
      BY <1>2, <1>3, <1>6
  <2>. QED
      BY <1>2, <1>4, <2>1, <2>2, SameServed
<1>. QED
    BY <1>2, <1>5, <1>6

\* Every command once, when an operation is kept.
LEMMA KeptServed ==
    ASSUME IInv, [Next]_vars, NEW op, Kept(op)
    PROVE  ServedOnce'
<1>. DEFINE h == Histories(served, failed)
            O == Todo(ops, Start)
            O2 == Todo(ops', Start')
            N == Todo(next_ops, 1)
            N2 == Todo(next_ops', 1)
<1>1. TypeOK /\ TypeOK' /\ ServedOnce
    BY TypeStep DEF IInv
<1>2. ListsOnce(Held(h, O, N), 1..fetched) /\ Named(h)
    BY <1>1, Types, TablesNow, HistoryFacts
<1>3. /\ Walked /\ Walked' /\ op_i \in DOMAIN ops /\ op_i' = op_i + 1 /\ ops' = ops /\ op \in Op
      /\ next_ops' = Append(next_ops, op) /\ op.commands = ops[op_i].commands
      /\ Unexecuted(op) <=> Unexecuted(ops[op_i])
      /\ fetched' = fetched /\ served' = served /\ failed' = failed
    BY DEF Kept, Genuine
<1>4. /\ Without(O2, O, op_i)
      /\ op_i \in DOMAIN O <=> Unexecuted(op)
      /\ op_i \in DOMAIN O => O[op_i] = op.commands
    BY <1>1, <1>3, LeftBehind
<1>5. PICK n : n = Len(next_ops) + 1
    OBVIOUS
<1>6. /\ Unexecuted(op) => With(N2, N, n, op.commands)
      /\ ~ Unexecuted(op) => SameLists(N2, N)
    BY <1>1, <1>3, <1>5, NextGrows
<1>7. CASE ~ Unexecuted(op)
  <2>1. SameLists(O2, O)
      BY <1>4, <1>7 DEF Without, SameLists
  <2>. QED
      BY <1>3, <1>6, <1>7, <2>1, SameServed
<1>8. CASE Unexecuted(op)
  <2>1. op_i \in DOMAIN O /\ With(N2, N, n, O[op_i]) /\ Without(O2, O, op_i)
      BY <1>4, <1>6, <1>8
  <2>. HIDE DEF O, O2, N, N2, h
  <2>2. ListsOnce(Held(h, O2, N2), 1..fetched)
      BY <1>2, <2>1, KeepOnce
  <2>3. ListsOnce(Held(Histories(served', failed'), O2, N2), 1..fetched')
      BY <1>3, <2>2 DEF h
  <2>. QED
      BY <1>1, <2>3, TablesNext DEF TypeOK, O2, N2
<1>. QED
    BY <1>7, <1>8

\* Every command once, for every step.
LEMMA ServedStep ==
    ASSUME IInv, [Next]_vars
    PROVE  ServedOnce'
<1>1. TypeOK /\ TypeOK' /\ ServedOnce /\ OpsInv /\ StageInv
    BY TypeStep DEF IInv
<1>2. ASSUME NEW op, SentAs(op) PROVE ServedOnce'
  <2>1. /\ op_i \in DOMAIN ops /\ op \in Op /\ ops' = [ops EXCEPT ![op_i] = op]
        /\ ~ Walked /\ ~ Walked' /\ ~ Unexecuted(op) /\ ~ Unexecuted(ops[op_i])
        /\ fetched' = fetched /\ served' = served /\ failed' = failed /\ next_ops' = next_ops
      BY <1>2 DEF SentAs, Genuine, Walked
  <2>2. SameLists(Todo(ops', Start'), Todo(ops, Start))
      BY <1>1, <2>1, OpChanges
  <2>. QED
      BY <2>1, <2>2, SameNext, SameServed
<1>3. CASE Skipped \/ CoalesceAborts \/ StartWalk
  <2>1. /\ ~ Walked /\ (~ Walked' \/ op_i' = 1) /\ ops' = ops
        /\ fetched' = fetched /\ served' = served /\ failed' = failed
      BY <1>3 DEF Skipped, CoalesceAborts, Filling, StartWalk, history, Walked
  <2>2. next_ops' = next_ops
      BY <1>1, <1>3, <2>1 DEF Skipped, CoalesceAborts, StartWalk, StageInv, walk
  <2>3. Start' = Start
      BY <1>1, <2>1, FromStart
  <2>4. SameLists(Todo(ops', Start'), Todo(ops, Start))
      BY <2>1, <2>3 DEF SameLists
  <2>. QED
      BY <2>1, <2>2, <2>4, SameNext, SameServed
<1>4. CASE UNCHANGED vars
  <2>1. /\ pc' = pc /\ op_i' = op_i /\ ops' = ops /\ next_ops' = next_ops
        /\ fetched' = fetched /\ served' = served /\ failed' = failed
      BY <1>4 DEF vars, walk, history
  <2>2. Start' = Start
      BY <2>1 DEF Start, Walked
  <2>3. SameLists(Todo(ops', Start'), Todo(ops, Start))
      BY <2>1, <2>2 DEF SameLists
  <2>. QED
      BY <2>1, <2>3, SameNext, SameServed
<1>5. CASE Dropped
  <2>1. /\ Walked /\ Walked' /\ op_i \in DOMAIN ops /\ op_i' = op_i + 1 /\ ops' = ops
        /\ ~ Unexecuted(ops[op_i]) /\ next_ops' = next_ops
        /\ fetched' = fetched /\ served' = served /\ failed' = failed
      BY <1>5 DEF Dropped, Walked
  <2>2. /\ Without(Todo(ops', Start'), Todo(ops, Start), op_i)
        /\ op_i \notin DOMAIN Todo(ops, Start)
      BY <1>1, <2>1, LeftBehind
  <2>3. SameLists(Todo(ops', Start'), Todo(ops, Start))
      BY <2>2 DEF Without, SameLists
  <2>. QED
      BY <2>1, <2>3, SameNext, SameServed
<1>6. CASE Issued
  <2>1. /\ Walked /\ Walked' /\ op_i \in DOMAIN ops /\ op_i' = op_i + 1 /\ ops' = ops
        /\ Miss(ops[op_i]) /\ next_ops' = next_ops
        /\ fetched' = fetched /\ served' = served \o ops[op_i].commands /\ failed' = failed
      BY <1>6 DEF Issued, Walked
  <2>2. Unexecuted(ops[op_i])
      BY <1>1, <2>1, ColdOp DEF OpsInv
  <2>3. /\ Without(Todo(ops', Start'), Todo(ops, Start), op_i)
        /\ op_i \in DOMAIN Todo(ops, Start) /\ Todo(ops, Start)[op_i] = ops[op_i].commands
      BY <1>1, <2>1, <2>2, LeftBehind
  <2>. QED
      BY <2>1, <2>3, SameNext, ServesOne
<1>7. CASE SwapOps
  <2>. DEFINE h == Histories(served, failed)
              O == Todo(ops, Start)
              O2 == Todo(ops', Start')
              N == Todo(next_ops, 1)
              N2 == Todo(next_ops', 1)
  <2>1. /\ Walked /\ ~ Walked' /\ op_i > CACHE_BATCH_SIZE /\ ops' = next_ops /\ next_ops' = <<>>
        /\ fetched' = fetched /\ served' = served /\ failed' = failed
      BY <1>7 DEF SwapOps, Walked, history
  <2>2. ListsOnce(Held(h, O, N), 1..fetched) /\ Named(h)
      BY <1>1, Types, TablesNow, HistoryFacts
  <2>3. Start = op_i /\ Start' = 1
      BY <2>1 DEF Start
  <2>4. \A x \in DOMAIN ops : ~ (x >= op_i)
      BY SMTT(120), <1>1, <2>1, Types
  <2>5. DOMAIN O = {}
      BY <2>3, <2>4 DEF Todo
  <2>6. DOMAIN <<>> = {}
      BY SMTT(120)
  <2>7. DOMAIN N2 = {}
      BY <2>1, <2>6 DEF Todo
  <2>8. SameLists(O2, N)
      BY <2>1, <2>3 DEF SameLists
  <2>. HIDE DEF h, O, O2, N, N2
  <2>9. ListsOnce(Held(h, O2, N2), 1..fetched)
      BY <2>2, <2>5, <2>7, <2>8, SwapOnce
  <2>10. ListsOnce(Held(Histories(served', failed'), O2, N2), 1..fetched')
      BY <2>1, <2>9 DEF h
  <2>. QED
      BY <1>1, <2>10, TablesNext DEF TypeOK, O2, N2
<1>. QED
    BY <1>2, <1>3, <1>4, <1>5, <1>6, <1>7, Moves, FillServed, ProbeServed, KeptServed

-----------------------------------------------------------------------------
(* Every hot write is broadcast once.                                         *)

\* The hot writes among the commands of a history.
HotOf(s) == {n \in Nat : /\ \E i \in DOMAIN s : s[i] = n
                         /\ Asked[n].opcode = "PUT" /\ Asked[n].key \in Hot}

\* The hot writes the cache has accepted, before and after a step.
LEMMA HotWritesOf ==
    ASSUME TypeOK
    PROVE  HotWrites = HotOf(served)
<1>1. \A i \in DOMAIN served : served[i] \in 1..fetched /\ served[i] \in Nat
    BY ServedTaken
<1>2. \A n \in 1..fetched : n \in Nat
    BY SMTT(120)
<1>3. \A n \in Nat : Asked[n] = CommandAt(n)
    BY DEF Asked
<1>. QED
    BY <1>1, <1>2, <1>3 DEF HotWrites, HotOf

\* The same for the state after a step, whose history of commands is the same or
\* longer.
LEMMA HotWritesNext ==
    ASSUME TypeOK', [Next]_vars
    PROVE  HotWrites' = HotOf(served')
<1>1. served' \in Seq(1..fetched')
    BY DEF TypeOK
<1>2. \A i \in DOMAIN served' : served'[i] \in 1..fetched'
    BY <1>1, MembersOf
<1>3. \A n \in 1..fetched' : n \in Nat
    BY SMTT(120)
<1>4. Asked' = Asked
    BY SameInput
<1>5. Asked' = [n \in Nat |-> CommandAt(n)']
    BY DEF Asked
<1>6. \A n \in Nat : Asked[n] = CommandAt(n)'
    BY <1>4, <1>5
<1>. QED
    BY <1>2, <1>3, <1>6 DEF HotWrites, HotOf

\* Nothing moves between the places of hot writes.
LEMMA SameSent ==
    ASSUME IInv, [Next]_vars, broadcast' = broadcast, HotOf(served') = HotOf(served),
           SameLists(Unsent(ops', Start'), Unsent(ops, Start)),
           SameLists(Unsent(next_ops', 1), Unsent(next_ops, 1))
    PROVE  WritesBroadcastOnce'
<1>1. TypeOK /\ TypeOK' /\ WritesBroadcastOnce
    BY TypeStep DEF IInv
<1>2. ListsOnce(Held(Sent(broadcast), Unsent(ops, Start), Unsent(next_ops, 1)), HotWrites)
    BY <1>1, Types, TablesNow
<1>3. ListsOnce(Held(Sent(broadcast), Unsent(ops', Start'), Unsent(next_ops', 1)), HotWrites)
    BY <1>2, HistoryFacts, SameOnce
<1>4. HotWrites' = HotWrites
    BY <1>1, HotWritesOf, HotWritesNext
<1>5. ListsOnce(Held(Sent(broadcast'), Unsent(ops', Start'), Unsent(next_ops', 1)), HotWrites')
    BY <1>3, <1>4
<1>. QED
    BY <1>1, <1>5, TablesNext DEF TypeOK

\* Commands added to the served ones of which none is a hot write.
LEMMA NoHotWrites ==
    ASSUME TypeOK, NEW c \in Seq(1..fetched), served' = served \o c,
           \A m \in DOMAIN c : Asked[c[m]].opcode # "PUT" \/ Asked[c[m]].key \notin Hot
    PROVE  HotOf(served') = HotOf(served)
<1>1. served \in Seq(1..fetched)
    BY Types
<1>2. /\ \A i \in DOMAIN served : i \in DOMAIN served' /\ served'[i] = served[i]
      /\ \A j \in DOMAIN c : served'[Len(served) + j] = c[j]
      /\ \A i \in DOMAIN served' : i \in DOMAIN served \/ \E j \in DOMAIN c : i = Len(served) + j
    BY SMTT(120), <1>1, Joined
<1>3. ASSUME NEW n, Asked[n].opcode = "PUT", Asked[n].key \in Hot
      PROVE  (\E i \in DOMAIN served' : served'[i] = n) <=> \E i \in DOMAIN served : served[i] = n
  <2>1. ASSUME NEW i \in DOMAIN served', served'[i] = n PROVE \E j \in DOMAIN served : served[j] = n
    <3>1. ASSUME NEW j \in DOMAIN c, i = Len(served) + j PROVE FALSE
      <4>1. c[j] = n
          BY <1>2, <2>1, <3>1
      <4>. QED
          BY <1>3, <4>1
    <3>. QED
        BY <1>2, <2>1, <3>1
  <2>2. ASSUME NEW i \in DOMAIN served, served[i] = n PROVE \E j \in DOMAIN served' : served'[j] = n
      BY <1>2, <2>2
  <2>. QED
      BY <2>1, <2>2
<1>. QED
    BY <1>3 DEF HotOf

\* A hot write is added to the served commands.
LEMMA HotWriteAdded ==
    ASSUME TypeOK, NEW c \in Seq(1..fetched), served' = served \o c, DOMAIN c = {1}, NEW n \in Nat,
           c[1] = n, Asked[n].opcode = "PUT", Asked[n].key \in Hot
    PROVE  HotOf(served') = HotOf(served) \cup {n}
<1>1. served \in Seq(1..fetched)
    BY Types
<1>2. /\ \A i \in DOMAIN served : i \in DOMAIN served' /\ served'[i] = served[i]
      /\ \A j \in DOMAIN c : /\ Len(served) + j \in DOMAIN served'
                             /\ served'[Len(served) + j] = c[j]
      /\ \A i \in DOMAIN served' : i \in DOMAIN served \/ \E j \in DOMAIN c : i = Len(served) + j
    BY SMTT(120), <1>1, Joined
<1>3. PICK at : /\ at \in DOMAIN served' /\ served'[at] = n
                /\ \A i \in DOMAIN served' : i \in DOMAIN served \/ i = at
  <2>1. Len(served) + 1 \in DOMAIN served' /\ served'[Len(served) + 1] = n
      BY <1>2
  <2>2. \A i \in DOMAIN served' : i \in DOMAIN served \/ i = Len(served) + 1
      BY <1>2
  <2>. QED
      BY <2>1, <2>2
<1>4. ASSUME NEW m PROVE (\E i \in DOMAIN served' : served'[i] = m)
                         <=> (\E i \in DOMAIN served : served[i] = m) \/ m = n
  <2>1. ASSUME NEW i \in DOMAIN served', served'[i] = m
        PROVE  (\E j \in DOMAIN served : served[j] = m) \/ m = n
      BY <1>2, <1>3, <2>1
  <2>2. ASSUME NEW i \in DOMAIN served, served[i] = m PROVE \E j \in DOMAIN served' : served'[j] = m
      BY <1>2, <2>2
  <2>. QED
      BY <1>3, <2>1, <2>2
<1>. QED
    BY <1>4 DEF HotOf

\* A command that is not executed has not been served.
LEMMA NotServedYet ==
    ASSUME IInv, NEW i \in DOMAIN Todo(ops, Start), NEW m \in DOMAIN Todo(ops, Start)[i]
    PROVE  \A j \in DOMAIN served : served[j] # Todo(ops, Start)[i][m]
<1>. DEFINE h == Histories(served, failed)
            O == Todo(ops, Start)
            F == Held(h, O, Todo(next_ops, 1))
            a == <<"ops", i>>
            b == <<"served", 0>>
<1>1. ListsOnce(F, 1..fetched)
    BY Types, TablesNow DEF IInv
<1>2. Named(h) /\ b \in DOMAIN h /\ h[b] = served
    BY HistoryFacts
<1>. HIDE DEF h, O, b
<1>3. a \in DOMAIN F /\ F[a] = O[i] /\ b \in DOMAIN F /\ F[b] = served /\ a # b
  <2>1. i \in DOMAIN O
      BY DEF O
  <2>2. a \in DOMAIN F /\ F[a] = O[i]
      BY SMTT(120), <1>2, <2>1 DEF Held, Named
  <2>3. b \in DOMAIN F /\ F[b] = h[b] /\ b # a
      BY SMTT(120), <1>2 DEF Held, Named
  <2>. QED
      BY <1>2, <2>2, <2>3
<1>4. \A x, y \in DOMAIN F : \A j \in DOMAIN F[x] : \A k \in DOMAIN F[y] :
          F[x][j] = F[y][k] => x = y /\ j = k
    BY <1>1 DEF ListsOnce
<1>. HIDE DEF F, a
<1>5. \A j \in DOMAIN F[b] : \A k \in DOMAIN F[a] : F[b][j] # F[a][k]
    BY <1>3, <1>4
<1>6. m \in DOMAIN O[i]
    BY DEF O
<1>7. \A j \in DOMAIN served : served[j] # O[i][m]
    BY <1>3, <1>5, <1>6
<1>. QED
    BY <1>7 DEF O

\* Hot writes, when the cache accepts one: it has not been served before.
LEMMA WriteAccepted ==
    ASSUME IInv, [Next]_vars, NEW op, NEW S, NEW F, ProbedAs(op, S, F),
           S = ops[op_i].commands, ops[op_i].opcode = "PUT", op.opcode = "BRC",
           Unexecuted(ops[op_i]), ops[op_i].key \in Hot
    PROVE  WritesBroadcastOnce'
<1>. DEFINE h == Sent(broadcast)
            O == Unsent(ops, Start)
            O2 == Unsent(ops', Start')
            N == Unsent(next_ops, 1)
            N2 == Unsent(next_ops', 1)
            c == op.commands
<1>1. TypeOK /\ TypeOK' /\ WritesBroadcastOnce /\ OpsInv
    BY TypeStep DEF IInv
<1>2. /\ op_i \in DOMAIN ops /\ op \in Op /\ ops' = [ops EXCEPT ![op_i] = op]
      /\ ~ Walked /\ ~ Walked' /\ op.commands = ops[op_i].commands
      /\ served' = served \o c /\ next_ops' = next_ops /\ broadcast' = broadcast
    BY DEF ProbedAs, Genuine, Walked
<1>3. Genuine(ops[op_i], fetched, Asked)
    BY <1>1, <1>2 DEF OpsInv
<1>4. c \in Seq(1..fetched) /\ Len(c) = 1
    BY <1>2, <1>3, CommandsTaken DEF Genuine
<1>5. DOMAIN c = {1}
    BY SMTT(120), <1>4
<1>6. PICK n : n = c[1]
    OBVIOUS
<1>7. /\ n \in 1..fetched /\ Asked[n].key \in Hot /\ Asked[n].opcode # "GET"
    BY <1>2, <1>3, <1>5, <1>6 DEF Genuine
<1>8. n \in Nat /\ n >= 1
    BY SMTT(120), <1>7
<1>9. Asked[n].opcode = "PUT"
  <2>1. Asked[n] \in Command
      BY <1>1, <1>8, NextAsked DEF IInv
  <2>2. Asked[n].opcode \in {"GET", "PUT"}
      BY SMTT(120), <2>1 DEF Command
  <2>. QED
      BY <1>7, <2>2
<1>10. HotWrites' = HotWrites \cup {n}
    BY <1>1, <1>2, <1>4, <1>5, <1>6, <1>7, <1>8, <1>9, HotWriteAdded, HotWritesOf, HotWritesNext
<1>11. n \notin HotWrites
  <2>1. op_i \in DOMAIN Todo(ops, Start) /\ Todo(ops, Start)[op_i] = c
      BY <1>1, <1>2, OpChanges
  <2>2. \A j \in DOMAIN served : served[j] # n
      BY <1>5, <1>6, <2>1, NotServedYet
  <2>. QED
      BY <2>2 DEF HotWrites
<1>12. With(O2, O, op_i, c)
    BY <1>1, <1>2, OpChangesUnsent
<1>13. SameLists(N2, N)
    BY <1>2, SameNext
<1>14. ListsOnce(Held(h, O, N), HotWrites) /\ Named(h)
    BY <1>1, Types, TablesNow, HistoryFacts
<1>. HIDE DEF h, O, O2, N, N2, c
<1>15. ListsOnce(Held(h, O2, N2), HotWrites \cup {n})
    BY <1>5, <1>6, <1>11, <1>12, <1>13, <1>14, FetchOnce
<1>16. ListsOnce(Held(Sent(broadcast'), O2, N2), HotWrites')
    BY <1>2, <1>10, <1>15 DEF h
<1>. QED
    BY <1>1, <1>16, TablesNext DEF TypeOK, O2, N2

\* Hot writes, for every other answer of the cache.
LEMMA ProbeSent ==
    ASSUME IInv, [Next]_vars, NEW op, NEW S, NEW F, ProbedAs(op, S, F)
    PROVE  WritesBroadcastOnce'
<1>1. TypeOK /\ OpsInv /\ served \in Seq(1..fetched)
    BY Types DEF IInv
<1>2. /\ op_i \in DOMAIN ops /\ op \in Op /\ ops' = [ops EXCEPT ![op_i] = op]
      /\ ~ Walked /\ ~ Walked' /\ op.commands = ops[op_i].commands
      /\ served' = served \o S /\ next_ops' = next_ops /\ broadcast' = broadcast
      /\ \/ /\ S = ops[op_i].commands /\ ops[op_i].key \in Hot /\ Unexecuted(ops[op_i])
            /\ ops[op_i].opcode = "PUT" /\ op.opcode = "BRC"
         \/ /\ S = ops[op_i].commands /\ ops[op_i].opcode = "GET" /\ op.opcode = "GET"
         \/ /\ S = <<>> /\ (ops[op_i].opcode = "BRC" <=> op.opcode = "BRC")
    BY DEF ProbedAs, Genuine, Walked
<1>3. SameLists(Unsent(next_ops', 1), Unsent(next_ops, 1))
    BY <1>2, SameNext
<1>4. ASSUME ops[op_i].opcode = "BRC" <=> op.opcode = "BRC"
      PROVE  SameLists(Unsent(ops', Start'), Unsent(ops, Start))
    BY <1>1, <1>2, <1>4, OpChangesUnsent
<1>5. CASE S = ops[op_i].commands /\ ops[op_i].opcode = "GET" /\ op.opcode = "GET"
  <2>1. Genuine(ops[op_i], fetched, Asked)
      BY <1>1, <1>2 DEF OpsInv
  <2>2. S \in Seq(1..fetched) /\ \A m \in DOMAIN S : Asked[S[m]].opcode # "PUT"
      BY <1>5, <2>1, CommandsTaken DEF Genuine
  <2>3. HotOf(served') = HotOf(served)
      BY <1>1, <1>2, <2>2, NoHotWrites
  <2>. QED
      BY <1>2, <1>3, <1>4, <1>5, <2>3, SameSent
<1>6. CASE S = <<>> /\ (ops[op_i].opcode = "BRC" <=> op.opcode = "BRC")
  <2>1. served' = served
      BY <1>1, <1>2, <1>6, NothingAdded
  <2>. QED
      BY <1>2, <1>3, <1>4, <1>6, <2>1, SameSent
<1>. QED
    BY <1>2, <1>5, <1>6, WriteAccepted

\* Hot writes, when one is broadcast.
LEMMA SentSent ==
    ASSUME IInv, [Next]_vars, NEW op, SentAs(op)
    PROVE  WritesBroadcastOnce'
<1>. DEFINE O == Unsent(ops, Start)
            O2 == Unsent(ops', Start')
            N == Unsent(next_ops, 1)
            N2 == Unsent(next_ops', 1)
<1>1. TypeOK /\ TypeOK' /\ WritesBroadcastOnce /\ OpsInv
    BY TypeStep DEF IInv
<1>2. /\ op_i \in DOMAIN ops /\ op \in Op /\ ops' = [ops EXCEPT ![op_i] = op]
      /\ ~ Walked /\ ~ Walked' /\ op.commands = ops[op_i].commands
      /\ ops[op_i].opcode = "BRC" /\ op.opcode # "BRC"
      /\ served' = served /\ next_ops' = next_ops /\ broadcast' = broadcast \o ops[op_i].commands
    BY DEF SentAs, Genuine, Walked
<1>3. /\ Without(O2, O, op_i) /\ op_i \in DOMAIN O /\ O[op_i] = ops[op_i].commands
    BY <1>1, <1>2, OpChangesUnsent
<1>4. SameLists(N2, N)
    BY <1>2, SameNext
<1>5. ListsOnce(Held(Sent(broadcast), O, N), HotWrites)
    BY <1>1, Types, TablesNow
<1>6. broadcast \in Seq(1..fetched) /\ O[op_i] \in Seq(1..fetched)
    BY <1>1, <1>2, <1>3, Types, CommandsTaken DEF OpsInv
<1>7. HotWrites' = HotWrites
    BY <1>1, <1>2, HotWritesOf, HotWritesNext
<1>. HIDE DEF O, O2, N, N2
<1>8. ListsOnce(Held(Sent(broadcast \o O[op_i]), O2, N2), HotWrites)
    BY <1>3, <1>4, <1>5, <1>6, HistoryGrows
<1>9. ListsOnce(Held(Sent(broadcast'), O2, N2), HotWrites')
    BY <1>2, <1>3, <1>7, <1>8
<1>. QED
    BY <1>1, <1>9, TablesNext DEF TypeOK, O2, N2

\* Hot writes, while the buffer is filled: none is accepted or broadcast.
LEMMA FillSent ==
    ASSUME IInv, [Next]_vars, (\E i, op : JoinsAt(i, op)) \/ (\E op : TakenAs(op))
    PROVE  WritesBroadcastOnce'
<1>1. TypeOK
    BY DEF IInv
<1>2. /\ ~ Walked /\ ~ Walked' /\ next_ops' = next_ops /\ served' = served /\ broadcast' = broadcast
    BY DEF JoinsAt, TakenAs, Walked
<1>3. ASSUME NEW i, NEW op, JoinsAt(i, op) PROVE WritesBroadcastOnce'
  <2>1. /\ i \in DOMAIN ops /\ op \in Op /\ ops' = [ops EXCEPT ![i] = op]
        /\ op.opcode = "GET" /\ ops[i].opcode = "GET"
      BY <1>3 DEF JoinsAt, Genuine
  <2>2. SameLists(Unsent(ops', Start'), Unsent(ops, Start))
      BY <1>1, <1>2, <2>1, OpChangesUnsent
  <2>. QED
      BY <1>2, <2>2, SameNext, SameSent
<1>4. ASSUME NEW op, TakenAs(op) PROVE WritesBroadcastOnce'
  <2>1. op \in Op /\ ops' = Append(ops, op) /\ op.opcode # "BRC"
      BY <1>4 DEF TakenAs, Genuine
  <2>2. PICK n : n = Len(ops) + 1
      OBVIOUS
  <2>3. /\ n \notin DOMAIN ops /\ ops'[n] = op /\ DOMAIN ops' = DOMAIN ops \cup {n}
        /\ \A j \in DOMAIN ops : ops'[j] = ops[j]
      BY <1>1, <2>1, <2>2, OpAdded
  <2>4. Start' = Start
      BY <1>1, <1>2, FromStart
  <2>. DEFINE O == Unsent(ops, Start)
              O2 == Unsent(ops', Start')
  <2>5. /\ DOMAIN O = {x \in DOMAIN ops : x >= Start /\ ops[x].opcode = "BRC"}
        /\ \A x \in DOMAIN O : O[x] = ops[x].commands
        /\ DOMAIN O2 = {x \in DOMAIN ops' : x >= Start /\ ops'[x].opcode = "BRC"}
        /\ \A x \in DOMAIN O2 : O2[x] = ops'[x].commands
      BY <2>4 DEF Unsent
  <2>. HIDE DEF O, O2
  <2>6. DOMAIN O2 = DOMAIN O
      BY <2>1, <2>3, <2>5
  <2>7. \A x \in DOMAIN O : O2[x] = O[x]
      BY <2>3, <2>5, <2>6
  <2>8. SameLists(O2, O)
      BY <2>6, <2>7 DEF SameLists
  <2>. QED
      BY <1>2, <2>8, SameNext, SameSent DEF O, O2
<1>. QED
    BY <1>3, <1>4

\* Hot writes, when an operation is kept.
LEMMA KeptSent ==
    ASSUME IInv, [Next]_vars, NEW op, Kept(op)
    PROVE  WritesBroadcastOnce'
<1>. DEFINE h == Sent(broadcast)
            O == Unsent(ops, Start)
            O2 == Unsent(ops', Start')
            N == Unsent(next_ops, 1)
            N2 == Unsent(next_ops', 1)
<1>1. TypeOK /\ TypeOK' /\ WritesBroadcastOnce
    BY TypeStep DEF IInv
<1>2. ListsOnce(Held(h, O, N), HotWrites) /\ Named(h)
    BY <1>1, Types, TablesNow, HistoryFacts
<1>3. /\ Walked /\ Walked' /\ op_i \in DOMAIN ops /\ op_i' = op_i + 1 /\ ops' = ops /\ op \in Op
      /\ next_ops' = Append(next_ops, op) /\ op.commands = ops[op_i].commands
      /\ op.opcode = ops[op_i].opcode /\ served' = served /\ broadcast' = broadcast
    BY DEF Kept, Genuine
<1>4. /\ Without(O2, O, op_i)
      /\ op_i \in DOMAIN O <=> op.opcode = "BRC"
      /\ op_i \in DOMAIN O => O[op_i] = op.commands
    BY <1>1, <1>3, LeftBehind
<1>5. PICK n : n = Len(next_ops) + 1
    OBVIOUS
<1>6. /\ op.opcode = "BRC" => With(N2, N, n, op.commands)
      /\ op.opcode # "BRC" => SameLists(N2, N)
    BY <1>1, <1>3, <1>5, NextGrows
<1>7. CASE op.opcode # "BRC"
  <2>1. SameLists(O2, O)
      BY <1>4, <1>7 DEF Without, SameLists
  <2>. QED
      BY <1>3, <1>6, <1>7, <2>1, SameSent
<1>8. CASE op.opcode = "BRC"
  <2>1. op_i \in DOMAIN O /\ With(N2, N, n, O[op_i]) /\ Without(O2, O, op_i)
      BY <1>4, <1>6, <1>8
  <2>2. HotWrites' = HotWrites
      BY <1>1, <1>3, HotWritesOf, HotWritesNext
  <2>. HIDE DEF O, O2, N, N2, h
  <2>3. ListsOnce(Held(h, O2, N2), HotWrites)
      BY <1>2, <2>1, KeepOnce
  <2>4. ListsOnce(Held(Sent(broadcast'), O2, N2), HotWrites')
      BY <1>3, <2>2, <2>3 DEF h
  <2>. QED
      BY <1>1, <2>4, TablesNext DEF TypeOK, O2, N2
<1>. QED
    BY <1>7, <1>8

\* Hot writes, for every step.
LEMMA SentStep ==
    ASSUME IInv, [Next]_vars
    PROVE  WritesBroadcastOnce'
<1>1. TypeOK /\ TypeOK' /\ WritesBroadcastOnce /\ OpsInv /\ StageInv
    BY TypeStep DEF IInv
<1>2. CASE Skipped \/ CoalesceAborts \/ StartWalk
  <2>1. /\ ~ Walked /\ (~ Walked' \/ op_i' = 1) /\ ops' = ops
        /\ served' = served /\ broadcast' = broadcast
      BY <1>2 DEF Skipped, CoalesceAborts, Filling, StartWalk, history, Walked
  <2>2. next_ops' = next_ops
      BY <1>1, <1>2, <2>1 DEF Skipped, CoalesceAborts, StartWalk, StageInv, walk
  <2>3. Start' = Start
      BY <1>1, <2>1, FromStart
  <2>4. SameLists(Unsent(ops', Start'), Unsent(ops, Start))
      BY <2>1, <2>3 DEF SameLists
  <2>. QED
      BY <2>1, <2>2, <2>4, SameNext, SameSent
<1>3. CASE UNCHANGED vars
  <2>1. /\ pc' = pc /\ op_i' = op_i /\ ops' = ops /\ next_ops' = next_ops
        /\ served' = served /\ broadcast' = broadcast
      BY <1>3 DEF vars, walk, history
  <2>2. Start' = Start
      BY <2>1 DEF Start, Walked
  <2>3. SameLists(Unsent(ops', Start'), Unsent(ops, Start))
      BY <2>1, <2>2 DEF SameLists
  <2>. QED
      BY <2>1, <2>3, SameNext, SameSent
<1>4. CASE Dropped \/ Issued
  <2>1. /\ Walked /\ Walked' /\ op_i \in DOMAIN ops /\ op_i' = op_i + 1 /\ ops' = ops
        /\ next_ops' = next_ops /\ broadcast' = broadcast
      BY <1>4 DEF Dropped, Issued, Walked
  <2>2. Genuine(ops[op_i], fetched, Asked)
      BY <1>1, <2>1 DEF OpsInv
  <2>3. ops[op_i].opcode # "BRC"
    <3>1. CASE Dropped
        BY <3>1 DEF Dropped
    <3>2. CASE Issued
      <4>1. ops[op_i].opcode \in {"GET", "PUT"}
          BY <2>2, <3>2, ColdOp DEF Issued
      <4>. QED
          BY <4>1
    <3>. QED
        BY <1>4, <3>1, <3>2
  <2>4. SameLists(Unsent(ops', Start'), Unsent(ops, Start))
      BY <1>1, <2>1, <2>3, LeftBehind DEF Without, SameLists
  <2>5. HotOf(served') = HotOf(served)
    <3>1. CASE Dropped
        BY <3>1 DEF Dropped
    <3>2. CASE Issued
      <4>. DEFINE c == ops[op_i].commands
      <4>1. served' = served \o c /\ c \in Seq(1..fetched) /\ ops[op_i].key \notin Hot
          BY <2>2, <3>2, ColdOp, CommandsTaken DEF Issued
      <4>2. \A m \in DOMAIN c : Asked[c[m]].key \notin Hot
          BY <2>2, <4>1 DEF Genuine
      <4>. HIDE DEF c
      <4>. QED
          BY <1>1, <4>1, <4>2, NoHotWrites
    <3>. QED
        BY <1>4, <3>1, <3>2
  <2>. QED
      BY <2>1, <2>4, <2>5, SameNext, SameSent
<1>5. CASE SwapOps
  <2>. DEFINE h == Sent(broadcast)
              O == Unsent(ops, Start)
              O2 == Unsent(ops', Start')
              N == Unsent(next_ops, 1)
              N2 == Unsent(next_ops', 1)
  <2>1. /\ Walked /\ ~ Walked' /\ op_i > CACHE_BATCH_SIZE /\ ops' = next_ops /\ next_ops' = <<>>
        /\ served' = served /\ broadcast' = broadcast
      BY <1>5 DEF SwapOps, Walked, history
  <2>2. ListsOnce(Held(h, O, N), HotWrites) /\ Named(h)
      BY <1>1, Types, TablesNow, HistoryFacts
  <2>3. Start = op_i /\ Start' = 1
      BY <2>1 DEF Start
  <2>4. \A x \in DOMAIN ops : ~ (x >= op_i)
      BY SMTT(120), <1>1, <2>1, Types
  <2>5. DOMAIN O = {}
      BY <2>3, <2>4 DEF Unsent
  <2>6. DOMAIN <<>> = {}
      BY SMTT(120)
  <2>7. DOMAIN N2 = {}
      BY <2>1, <2>6 DEF Unsent
  <2>8. SameLists(O2, N)
      BY <2>1, <2>3 DEF SameLists
  <2>9. HotWrites' = HotWrites
      BY <1>1, <2>1, HotWritesOf, HotWritesNext
  <2>. HIDE DEF h, O, O2, N, N2
  <2>10. ListsOnce(Held(h, O2, N2), HotWrites)
      BY <2>2, <2>5, <2>7, <2>8, SwapOnce
  <2>11. ListsOnce(Held(Sent(broadcast'), O2, N2), HotWrites')
      BY <2>1, <2>9, <2>10 DEF h
  <2>. QED
      BY <1>1, <2>11, TablesNext DEF TypeOK, O2, N2
<1>. QED
    BY <1>2, <1>3, <1>4, <1>5, Moves, FillSent, ProbeSent, SentSent, KeptSent

-----------------------------------------------------------------------------
(* The theorems.                                                              *)

\* The invariant holds at the start: the buffers and the histories are empty.
LEMMA InitIInv ==
    ASSUME Init
    PROVE  IInv
<1>1. /\ pc = "fill" /\ protocol \in Program /\ trace \in [1..TRACE_LENGTH -> Command]
      /\ trace_iter = 1 /\ fetched = 0 /\ ops = <<>> /\ next_ops = <<>>
      /\ hottest_keys_pointers = [k \in Tracked |-> 0] /\ op_i = 1 /\ wr_i = 0
      /\ per_worker_outstanding = [h \in Home |-> 0]
      /\ served = <<>> /\ failed = <<>> /\ broadcast = <<>>
    BY DEF Init
<1>2. /\ CACHE_BATCH_SIZE \in Nat \ {0} /\ TRACE_LENGTH \in Nat \ {0} /\ MAX_FETCHED \in Nat
      /\ WINDOW_SIZE \in Nat \ {0} /\ KVS_BATCH \in Nat \ {0}
    BY <1>1, SizeAssumption DEF CACHE_BATCH_SIZE, TRACE_LENGTH, MAX_FETCHED
<1>3. /\ DOMAIN <<>> = {} /\ Len(<<>>) = 0 /\ <<>> \in Seq(Op) /\ <<>> \in Seq(1..0)
    BY SMTT(120)
<1>4. /\ 1 \in 1..TRACE_LENGTH /\ 0 \in 0..MAX_FETCHED /\ 0 <= CACHE_BATCH_SIZE /\ 0 < 1
      /\ 1 \in 1..(CACHE_BATCH_SIZE + 1) /\ 0 \in 0..WINDOW_SIZE /\ 0 \in 0..CACHE_BATCH_SIZE
      /\ 0 \in 0..KVS_BATCH /\ 1 = (0 % TRACE_LENGTH) + 1
    BY SMTT(120), <1>2
<1>5. TypeOK
  <2>1. /\ hottest_keys_pointers \in [Tracked -> 0..CACHE_BATCH_SIZE]
        /\ per_worker_outstanding \in [Home -> 0..KVS_BATCH]
      BY <1>1, <1>4
  <2>2. {served, failed, broadcast} \subseteq Seq(1..fetched)
      BY <1>1, <1>3
  <2>. QED
      BY <1>1, <1>3, <1>4, <2>1, <2>2 DEF TypeOK
<1>6. trace_iter = (fetched % TRACE_LENGTH) + 1 /\ StageInv
    BY <1>1, <1>4 DEF StageInv, Filled, Walked
<1>7. OpsInv /\ OrderInv /\ HomeInv
    BY <1>1, <1>3 DEF OpsInv, OrderInv, HomeInv
<1>8. ReadInv
    BY <1>1, <1>3 DEF ReadInv
<1>9. OldestInv
    BY <1>1 DEF OldestInv, Walked
<1>10. PointersInv
    BY <1>1 DEF PointersInv
<1>. DEFINE O == Todo(ops, Start)
            N == Todo(next_ops, 1)
            U == Unsent(ops, Start)
            V == Unsent(next_ops, 1)
            h == Histories(served, failed)
            g == Sent(broadcast)
<1>11. DOMAIN O = {} /\ DOMAIN N = {} /\ DOMAIN U = {} /\ DOMAIN V = {}
    BY <1>1, <1>3 DEF Todo, Unsent
<1>12. /\ \A b \in DOMAIN h : DOMAIN h[b] = {}
       /\ \A b \in DOMAIN g : DOMAIN g[b] = {}
    BY SMTT(120), <1>1 DEF Histories, Sent
<1>13. Named(h) /\ Named(g)
    BY HistoryFacts
<1>. HIDE DEF O, N, U, V, h, g
<1>14. /\ \A b \in DOMAIN Held(h, O, N) : DOMAIN Held(h, O, N)[b] = {}
       /\ \A b \in DOMAIN Held(g, U, V) : DOMAIN Held(g, U, V)[b] = {}
    BY SMTT(120), <1>11, <1>12, <1>13 DEF Held, Named
<1>15. 1..fetched = {} /\ HotWrites = {}
  <2>1. 1..fetched = {}
      BY SMTT(120), <1>1
  <2>. QED
      BY <2>1 DEF HotWrites
<1>16. ListsOnce(Held(h, O, N), 1..fetched) /\ ListsOnce(Held(g, U, V), HotWrites)
    BY <1>14, <1>15 DEF ListsOnce
<1>17. ServedOnce /\ WritesBroadcastOnce
    BY <1>5, <1>16, Types, TablesNow DEF O, N, U, V, h, g
<1>. QED
    BY <1>5, <1>6, <1>7, <1>8, <1>9, <1>10, <1>17 DEF IInv

\* Every step of the client keeps the invariant.
LEMMA NextIInv ==
    ASSUME IInv, [Next]_vars
    PROVE  IInv'
BY TypeStep, OpsStep, OrderStep, HomeStep, ReadStep, OldestStep, PointersStep, ServedStep, SentStep DEF IInv

\* The inductive invariant: in every state the client reaches, the buffers hold
\* operations in the order of the trace, each for commands of its own key, and
\* every command is in one place.
THEOREM Inductive == Spec => []IInv
<1>1. IInv /\ UNCHANGED vars => IInv'
    BY NextIInv
<1>. QED
    BY InitIInv, NextIInv, PTL DEF Spec

\* The buffers and the requests of handle_cold_requests stay within their sizes,
\* whatever the sizes, and the variables keep their types.
THEOREM TypeCorrect == Spec => []TypeOK
<1>1. IInv => TypeOK
    BY DEF IInv
<1>. QED
    BY <1>1, Inductive, PTL

\* Every command taken from the trace is served once, refused once or waits in a
\* buffer once: coalescing, skipping misses and swapping the buffers lose none
\* and repeat none.
THEOREM EveryCommandOnce == Spec => []ServedOnce
<1>1. IInv => ServedOnce
    BY DEF IInv
<1>. QED
    BY <1>1, Inductive, PTL

\* Every hot write the cache has accepted is broadcast once or waits for its
\* credits in a buffer.
THEOREM EveryWriteBroadcastOnce == Spec => []WritesBroadcastOnce
<1>1. IInv => WritesBroadcastOnce
    BY DEF IInv
<1>. QED
    BY <1>1, Inductive, PTL

\* Requests for one home machine are issued in the order of the trace, although
\* a full machine makes handle_cold_requests skip them.
THEOREM HomesInOrder == Spec => []HomeOrder
<1>1. ASSUME IInv PROVE HomeOrder
  <2>1. \A i \in DOMAIN served : CommandAt(served[i]) = Asked[served[i]]
      BY <1>1, ServedTaken DEF IInv, Asked
  <2>2. \A i, j \in DOMAIN served :
            i < j /\ Asked[served[i]].key \in Home /\ Asked[served[i]].key = Asked[served[j]].key
                => served[i] < served[j]
      BY <1>1 DEF IInv, HomeInv
  <2>. QED
      BY <2>1, <2>2 DEF HomeOrder
<1>. QED
    BY <1>1, Inductive, PTL

\* Under SC reads and writes of a hot key are executed in the order of the trace,
\* the coalesced reads included.
THEOREM ReadsAfterWrites == Spec => []ReadsFollowWrites
<1>1. ASSUME IInv PROVE ReadsFollowWrites
  <2>1. \A i \in DOMAIN served : CommandAt(served[i]) = Asked[served[i]]
      BY <1>1, ServedTaken DEF IInv, Asked
  <2>2. protocol = "SC" => \A i, j \in DOMAIN served :
            i < j /\ Conflict(served[i], served[j]) => served[i] < served[j]
      BY <1>1 DEF IInv, ReadInv
  <2>. QED
      BY <2>1, <2>2 DEF ReadsFollowWrites, Conflict
<1>. QED
    BY <1>1, Inductive, PTL

\* While the buffer is filled the pointers of hottest_keys_pointers lead to reads
\* of their key that have not been executed.
THEOREM PointersAreSound == Spec => []PointersSound
<1>1. ASSUME IInv PROVE PointersSound
  <2>. SUFFICES ASSUME pc = "fill", NEW k \in Tracked, NEW i, i = hottest_keys_pointers[k], i # 0
                PROVE  /\ i <= Len(ops) /\ ops[i].opcode = "GET" /\ ops[i].key = k
                       /\ ops[i].type \in {"EMPTY", "CACHE_GET_STALL"}
      BY DEF PointersSound
  <2>1. TypeOK /\ PointersInv /\ OpsInv
      BY <1>1 DEF IInv
  <2>2. i \in DOMAIN ops /\ ops[i].opcode = "GET" /\ ops[i].key = k
      BY <2>1, PointerNow DEF Walked
  <2>3. Kind(ops[i]) /\ Fresh(ops[i], protocol)
      BY <2>1, <2>2 DEF OpsInv, Genuine, Probed
  <2>4. ops[i].key \in Hot /\ ops[i].key \notin Home
      BY <2>2, KeyAssumption DEF Hot
  <2>5. ops[i].type \in {"EMPTY", "CACHE_GET_STALL"}
      BY <2>2, <2>3, <2>4 DEF Kind, Fresh
  <2>6. i <= Len(ops)
      BY SMTT(120), <2>1, <2>2, Types
  <2>. QED
      BY <2>2, <2>5, <2>6
<1>. QED
    BY <1>1, Inductive, PTL

\* Under SC swap_ops never finds the oldest operation of the buffer in the next
\* one: every iteration serves it.
THEOREM OldestNotPostponed == Spec => OldestIsServed
<1>. DEFINE A == protocol = "SC" /\ pc' = "fill" /\ pc # "fill" /\ ops' # <<>>
                     => Head(ops'[1].commands) > Head(ops[1].commands)
<1>1. ASSUME IInv, [Next]_vars PROVE [A]_vars
  <2>. SUFFICES ASSUME protocol = "SC", pc' = "fill", pc # "fill", ops' # <<>>
                PROVE  Head(ops'[1].commands) > Head(ops[1].commands)
      OBVIOUS
  <2>1. SwapOps
      BY <1>1, Moves DEF JoinsAt, TakenAs, ProbedAs, SentAs, Kept, Skipped, Dropped, Issued,
                         CoalesceAborts, StartWalk, Walked, vars
  <2>2. /\ ops' = next_ops /\ Walked /\ TypeOK /\ StageInv /\ OpsInv /\ OldestInv
      BY <1>1, <2>1 DEF SwapOps, Walked, IInv
  <2>3. 1 \in DOMAIN next_ops /\ 1 \in DOMAIN ops
    <3>1. /\ next_ops \in Seq(Op) /\ ops \in Seq(Op) /\ Len(ops) = CACHE_BATCH_SIZE
          /\ CACHE_BATCH_SIZE \in Nat /\ CACHE_BATCH_SIZE >= 1
        BY <2>2, Types DEF StageInv, Filled, Walked
    <3>. QED
        BY SMTT(120), <2>2, <3>1
  <2>4. First(ops[1]) < First(next_ops[1])
      BY <2>2, <2>3 DEF OldestInv
  <2>5. /\ Genuine(ops[1], fetched, Asked) /\ Genuine(next_ops[1], fetched, Asked)
      BY <2>2, <2>3 DEF OpsInv
  <2>6. /\ ops[1].commands \in Seq(Nat) /\ Len(ops[1].commands) >= 1
        /\ next_ops[1].commands \in Seq(Nat) /\ Len(next_ops[1].commands) >= 1
      BY <2>5, CommandsTaken DEF Genuine
  <2>. QED
      BY SMTT(120), <2>2, <2>4, <2>6 DEF First
<1>. QED
    BY <1>1, Inductive, PTL DEF Spec, OldestIsServed

=============================================================================
