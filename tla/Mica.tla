-------------------------------- MODULE Mica --------------------------------
(* The MICA store behind the caches, as the worker threads of one machine    *)
(* share it: an index of buckets with a few slots each, pointing into a      *)
(* circular log.  The store is filled once, then every worker executes       *)
(* batches: it first looks up every operation of the batch, without a lock,  *)
(* and then executes them one by one.  A PUT of a key that was not found is  *)
(* an insertion, done under kv_lock, and visible to the lookups of the other *)
(* workers store by store.                                                   *)
(*                                                                           *)
(* The log is measured in 8-byte units.  An entry is ENTRY units long: the   *)
(* metadata, the key, and the value.  Offsets are virtual (they only grow);  *)
(* their place in the log is the offset modulo the capacity.                 *)
EXTENDS Integers, Sequences, FiniteSets, FiniteSetsExt, Functions

CONSTANTS
  Worker,      \* the worker threads that share the store
  KEYS,        \* HERD_NUM_KEYS; keys are 0 .. KEYS-1
  Asked,       \* the keys the clients ask for
  Tag,         \* the tag field of a key
  Bkt,         \* the bucket of a key
  SLOTS,       \* slots of a bucket (8 in the code)
  LOG_CAP,     \* HERD_LOG_CAP, a power of two
  NEAR_END,    \* MICA_MAX_VALUE + 32, in units
  MAX_BATCH,   \* bound: operations in a batch
  MAX_PUTS     \* bound: PUTs the workers execute

Key == 0..(KEYS - 1)
Slot == 0..(SLOTS - 1)

ASSUME KeysAssumption ==
  /\ KEYS \in Nat \ {0} /\ SLOTS \in Nat \ {0} /\ LOG_CAP \in Nat \ {0}
  /\ Tag \in [Key -> Nat] /\ Bkt \in [Key -> Nat] /\ Asked \subseteq Key

(* Units of an entry, and which of them hold the key and the value. *)
KEY_UNIT == 1
VALUE_UNIT == 2
ENTRY == 3

(* An entry that is nearly past the end fits before the wrap check fires. *)
ASSUME LogAssumption ==
  /\ NEAR_END \in Nat /\ ENTRY <= NEAR_END /\ NEAR_END < LOG_CAP
  /\ MAX_BATCH \in Nat /\ MAX_PUTS \in Nat

Null == -1
Nobody == "nobody"

ASSUME WorkerAssumption == Nobody \notin Worker

VARIABLES
  slots,        \* kv->ht_index: bucket -> slot -> [in_use, tag, offset]
  log,          \* kv->ht_log and what follows it, unit by unit
  log_head,     \* kv->log_head, virtual
  kv_lock,      \* the worker that holds kv_lock, or Nobody
  populated,    \* keys inserted so far by cache_populate_fixed_len
  pc,           \* where each worker is in its batch
  ops,          \* the batch of each worker
  kv_ptr,       \* what its lookups found: a place in the log, or Null
  slot_to_use,  \* the slot an insertion under way took
  resp,         \* the last response of each worker
  puts,         \* history: the keys of the PUTs submitted so far; the n-th writes value n
  done,         \* history: the values whose PUT to a key has been executed
  superseded,   \* history: the values a later PUT to the key replaced
  known         \* history: done and superseded when a worker's batch started, and the
                \*   keys whose lookup found an entry that is not in the log yet

index == <<slots, log, log_head>>
history == <<puts, done, superseded, known>>
vars == <<index, kv_lock, populated, pc, ops, kv_ptr, slot_to_use, resp, history>>

Unit == [part : 0..(ENTRY - 1), key : Key \union {Null}, value : 0..MAX_PUTS]

(* What is known when a batch starts. *)
Knowledge == [done |-> done, superseded |-> superseded, unwritten |-> {}]

(* A response without a value. *)
Empty(type) == [type |-> type, key |-> 0, value |-> 0]

Init ==
  /\ slots = [b \in Range(Bkt) |-> [i \in Slot |-> [in_use |-> FALSE, tag |-> 0, offset |-> 0]]]
  /\ log = [a \in 0..(LOG_CAP + ENTRY - 1) |-> [part |-> 0, key |-> Null, value |-> 0]]
  /\ log_head = 0 /\ kv_lock = Nobody /\ populated = 0
  /\ pc = [w \in Worker |-> "idle"]
  /\ ops = [w \in Worker |-> << >>]
  /\ kv_ptr = [w \in Worker |-> << >>]
  /\ slot_to_use = [w \in Worker |-> 0]
  /\ resp = [w \in Worker |-> Empty("NONE")]
  /\ puts = << >>
  /\ done = [k \in Key |-> {0}]
  /\ superseded = [k \in Key |-> {}]
  /\ known = [w \in Worker |-> Knowledge]

-----------------------------------------------------------------------------
(* Insertion *)

(* Variant: only a free slot is looked for, the first one, and no slot with the same tag. *)
FirstFreeSlot(k) ==
  LET free == {i \in Slot : ~slots[Bkt[k]][i].in_use}
  IN  IF free = {} THEN Tag[k] % SLOTS ELSE Min(free)

(* The scan never breaks off, so the last slot that is free or has the tag is *)
(* taken; when there is none, the tag picks the one to evict.                 *)
SlotToUse(k) ==
  LET fits == {i \in Slot : slots[Bkt[k]][i].tag = Tag[k] \/ ~slots[Bkt[k]][i].in_use}
  IN  IF fits = {} THEN Tag[k] % SLOTS ELSE Max(fits)

Place(offset) == offset % LOG_CAP

Pasted(k, v) ==
  [a \in DOMAIN log |->
     IF a - Place(log_head) \in 0..(ENTRY - 1)
     THEN [part |-> a - Place(log_head), key |-> k, value |-> v]
     ELSE log[a]]

(* kv->log_cap - kv->log_head is unsigned: it is huge once the head is past the capacity. *)
NearEnd(head) == head <= LOG_CAP /\ LOG_CAP - head <= NEAR_END

HeadAfterEntry ==
  LET head == log_head + ENTRY
  IN  IF NearEnd(head) THEN ((head + LOG_CAP) \div LOG_CAP) * LOG_CAP ELSE head

(* cache_populate_fixed_len inserts the keys from the last to the first, before *)
(* the workers are started.                                                     *)
Populate ==
  /\ populated < KEYS
  /\ LET k == KEYS - 1 - populated
     IN  /\ slots' = [slots EXCEPT ![Bkt[k]][SlotToUse(k)] =
                                     [in_use |-> TRUE, tag |-> Tag[k], offset |-> log_head]]
         /\ log' = Pasted(k, 0)
         /\ log_head' = HeadAfterEntry
  /\ populated' = populated + 1
  /\ UNCHANGED <<kv_lock, pc, ops, kv_ptr, slot_to_use, resp, history>>

-----------------------------------------------------------------------------
(* A batch of a worker *)

Op == [opcode : {"GET", "PUT"}, key : Asked]

(* The places of the first PUTs of a batch, up to place i. *)
PutsUpTo(b, i) == {j \in 1..i : b[j].opcode = "PUT"}

(* The batch with the PUTs numbered on from n. *)
Numbered(b, n) ==
  [i \in DOMAIN b |->
     [opcode |-> b[i].opcode, key |-> b[i].key, value |-> n + Cardinality(PutsUpTo(b, i))]]

(* The keys of its PUTs, in order. *)
PutsIn(b) ==
  LET all == PutsUpTo(b, Len(b))
  IN  [n \in 1..Cardinality(all) |->
         b[CHOOSE i \in all : Cardinality(PutsUpTo(b, i)) = n].key]

Start(w) ==
  /\ populated = KEYS
  /\ pc[w] = "idle"
  /\ \E n \in 1..MAX_BATCH : \E b \in [1..n -> Op] :
       /\ puts' = puts \o PutsIn(b)
       /\ Len(puts') <= MAX_PUTS
       /\ ops' = [ops EXCEPT ![w] = Numbered(b, Len(puts))]
  /\ pc' = [pc EXCEPT ![w] = "lookup"]
  /\ kv_ptr' = [kv_ptr EXCEPT ![w] = << >>]
  /\ resp' = [resp EXCEPT ![w] = Empty("NONE")]
  /\ known' = [known EXCEPT ![w] = Knowledge]
  /\ UNCHANGED <<index, kv_lock, populated, slot_to_use, done, superseded>>

(* Variant: the lookup does not notice that the head has wrapped around. *)
LookupIgnoresWrap(k) ==
  LET bucket == slots[Bkt[k]]
      matches == {i \in Slot : bucket[i].in_use /\ bucket[i].tag = Tag[k]}
  IN  IF matches = {} THEN Null ELSE Place(bucket[Min(matches)].offset)

(* The first slot in use with the tag, unless the head has since wrapped around its entry. *)
Lookup(k) ==
  LET bucket == slots[Bkt[k]]
      matches == {i \in Slot : bucket[i].in_use /\ bucket[i].tag = Tag[k]}
  IN  IF matches = {} \/ log_head - bucket[Min(matches)].offset >= LOG_CAP
      THEN Null
      ELSE Place(bucket[Min(matches)].offset)

LookupOne(w) ==
  LET k == ops[w][Len(kv_ptr[w]) + 1].key
  IN  /\ pc[w] = "lookup"
      /\ kv_ptr' = [kv_ptr EXCEPT ![w] = Append(@, Lookup(k))]
      /\ pc' = [pc EXCEPT ![w] = IF Len(kv_ptr'[w]) = Len(ops[w]) THEN "execute" ELSE @]
      /\ known' = [known EXCEPT ![w].unwritten =
                      @ \union {j \in {k} : Lookup(j) = Place(log_head)}]
      /\ UNCHANGED <<index, kv_lock, populated, ops, slot_to_use, resp,
                     puts, done, superseded>>

(* The operation at the head of the batch is answered, and the next one is executed. *)
Respond(w, response) ==
  /\ resp' = [resp EXCEPT ![w] = response]
  /\ ops' = [ops EXCEPT ![w] = Tail(@)]
  /\ kv_ptr' = [kv_ptr EXCEPT ![w] = Tail(@)]
  /\ pc' = [pc EXCEPT ![w] = IF Len(ops[w]) = 1 THEN "idle" ELSE "execute"]
  /\ UNCHANGED <<populated, puts, known>>

(* A PUT that is executed replaces the values its worker's batch started after. *)
RecordPut(w) ==
  LET k == Head(ops[w]).key
      v == Head(ops[w]).value
  IN  /\ done' = [done EXCEPT ![k] = @ \union {v}]
      /\ superseded' = [superseded EXCEPT ![k] = @ \union known[w].done[k]]

(* Variant: an entry found by its tag is taken for the key's. *)
TagMatchSuffices(w) == Head(kv_ptr[w]) # Null

(* The key comparison with the entry a lookup found.  Bytes of another part of *)
(* an entry are not taken for a key.                                           *)
KeyInStore(w) ==
  LET p == Head(kv_ptr[w])
  IN  /\ p # Null
      /\ log[p + KEY_UNIT].part = KEY_UNIT
      /\ log[p + KEY_UNIT].key = Head(ops[w]).key

Executes(w, opcode) == pc[w] = "execute" /\ Head(ops[w]).opcode = opcode

GetHit(w) ==
  /\ Executes(w, "GET") /\ KeyInStore(w)
  /\ Respond(w, [type |-> "GET_SUCCESS", key |-> Head(ops[w]).key,
                 value |-> log[Head(kv_ptr[w]) + VALUE_UNIT].value])
  /\ UNCHANGED <<index, kv_lock, slot_to_use, done, superseded>>

GetMiss(w) ==
  /\ Executes(w, "GET") /\ ~KeyInStore(w)
  /\ Respond(w, Empty("GET_FAIL"))
  /\ UNCHANGED <<index, kv_lock, slot_to_use, done, superseded>>

PutHit(w) ==
  /\ Executes(w, "PUT") /\ KeyInStore(w)
  /\ log' = [log EXCEPT ![Head(kv_ptr[w]) + VALUE_UNIT].value = Head(ops[w]).value]
  /\ RecordPut(w)
  /\ Respond(w, Empty("PUT_SUCCESS"))
  /\ UNCHANGED <<slots, log_head, kv_lock, slot_to_use>>

(* Variant: the insertion does not wait for kv_lock. *)
InsertWithoutLock(w) ==
  LET k == Head(ops[w]).key
  IN  /\ Executes(w, "PUT") /\ ~KeyInStore(w)
      /\ kv_lock' = w
      /\ slot_to_use' = [slot_to_use EXCEPT ![w] = SlotToUse(k)]
      /\ slots' = [slots EXCEPT ![Bkt[k]][SlotToUse(k)].in_use = TRUE]
      /\ pc' = [pc EXCEPT ![w] = "offset"]
      /\ UNCHANGED <<log, log_head, populated, ops, kv_ptr, resp, history>>

(* mica_insert_one_crcw, store by store.  Insert takes kv_lock, chooses the slot *)
(* and marks it in use.                                                          *)
Insert(w) ==
  LET k == Head(ops[w]).key
  IN  /\ Executes(w, "PUT") /\ ~KeyInStore(w)
      /\ kv_lock = Nobody
      /\ kv_lock' = w
      /\ slot_to_use' = [slot_to_use EXCEPT ![w] = SlotToUse(k)]
      /\ slots' = [slots EXCEPT ![Bkt[k]][SlotToUse(k)].in_use = TRUE]
      /\ pc' = [pc EXCEPT ![w] = "offset"]
      /\ UNCHANGED <<log, log_head, populated, ops, kv_ptr, resp, history>>

EncodeOffset(w) ==
  /\ pc[w] = "offset"
  /\ slots' = [slots EXCEPT ![Bkt[Head(ops[w]).key]][slot_to_use[w]].offset = log_head]
  /\ pc' = [pc EXCEPT ![w] = "tag"]
  /\ UNCHANGED <<log, log_head, kv_lock, populated, ops, kv_ptr, slot_to_use, resp, history>>

EncodeTag(w) ==
  LET k == Head(ops[w]).key
  IN  /\ pc[w] = "tag"
      /\ slots' = [slots EXCEPT ![Bkt[k]][slot_to_use[w]].tag = Tag[k]]
      /\ pc' = [pc EXCEPT ![w] = "paste"]
      /\ UNCHANGED <<log, log_head, kv_lock, populated, ops, kv_ptr, slot_to_use, resp, history>>

Paste(w) ==
  /\ pc[w] = "paste"
  /\ log' = Pasted(Head(ops[w]).key, Head(ops[w]).value)
  /\ pc' = [pc EXCEPT ![w] = "advance"]
  /\ UNCHANGED <<slots, log_head, kv_lock, populated, ops, kv_ptr, slot_to_use, resp, history>>

(* The head moves past the entry, kv_lock is released and the PUT is answered. *)
Advance(w) ==
  /\ pc[w] = "advance"
  /\ log_head' = HeadAfterEntry
  /\ kv_lock' = Nobody
  /\ RecordPut(w)
  /\ slot_to_use' = [slot_to_use EXCEPT ![w] = 0]
  /\ Respond(w, Empty("PUT_SUCCESS"))
  /\ UNCHANGED <<slots, log>>

Batch(w) ==
  \/ LookupOne(w) \/ GetHit(w) \/ GetMiss(w) \/ PutHit(w)
  \/ Insert(w) \/ EncodeOffset(w) \/ EncodeTag(w) \/ Paste(w) \/ Advance(w)

Next == Populate \/ \E w \in Worker : Start(w) \/ Batch(w)

Spec == Init /\ [][Next]_vars

-----------------------------------------------------------------------------
(* Properties *)

(* Every variable has its type; the log, the offsets and the pointers kept *)
(* between the two passes of a batch stay within their ranges.             *)
TypeOK ==
  /\ \A b \in DOMAIN slots, i \in Slot :
       slots[b][i] \in [in_use : BOOLEAN, tag : Nat, offset : 0..log_head]
  /\ \A a \in DOMAIN log : log[a] \in Unit
  /\ log_head \in Nat /\ populated \in 0..KEYS /\ kv_lock \in Worker \union {Nobody}
  /\ \A w \in Worker :
       /\ pc[w] \in {"idle", "lookup", "execute", "offset", "tag", "paste", "advance"}
       /\ kv_lock = w <=> pc[w] \in {"offset", "tag", "paste", "advance"}
       /\ \A i \in DOMAIN kv_ptr[w] : kv_ptr[w][i] \in {Null} \union (0..(LOG_CAP - 1))
       /\ slot_to_use[w] \in Slot

(* While nobody inserts, no two slots in use of a bucket have the same tag: the *)
(* lookup, which stops at the first, and the insertion, which takes the last,   *)
(* mean the same slot.                                                          *)
TagsUnique ==
  kv_lock = Nobody =>
    \A b \in DOMAIN slots : \A i, j \in Slot :
      slots[b][i].in_use /\ slots[b][j].in_use /\ slots[b][i].tag = slots[b][j].tag => i = j

(* A GET returns a value that was PUT to its key, and never one that had been  *)
(* replaced before its batch started: neither the lookups made before the       *)
(* batch's own PUTs, nor a colliding tag, nor an insertion under way at another *)
(* worker, bring back an abandoned entry or another key's.  The one exception:  *)
(* an insertion publishes the offset of its entry before it writes the entry,   *)
(* and a lookup in between finds what the log held there one lap ago.           *)
GetsCurrentValue ==
  \A w \in Worker :
    resp[w].type = "GET_SUCCESS" =>
      /\ resp[w].value = 0 \/ puts[resp[w].value] = resp[w].key
      /\ \/ resp[w].value \notin known[w].superseded[resp[w].key]
         \/ resp[w].key \in known[w].unwritten

(* While nobody inserts, what a lookup finds is a whole entry of some key with *)
(* that bucket and tag: the wrap-around check marks an entry "not found" before *)
(* its bytes are reused.                                                        *)
FoundEntriesWhole ==
  kv_lock = Nobody =>
    \A k \in Key :
      LET p == Lookup(k)
      IN  p # Null =>
            /\ \A n \in 0..(ENTRY - 1) : log[p + n].part = n /\ log[p + n].key = log[p].key
            /\ log[p].key \in {j \in Key : Bkt[j] = Bkt[k] /\ Tag[j] = Tag[k]}

(* mica.c: "If we're close to overflowing in the physical log, wrap around to the *)
(* beginning": no entry is written past the end of the log.                       *)
EntriesInsideLog == \A a \in DOMAIN log : log[a].key # Null => a < LOG_CAP
=============================================================================
