---------------------------- MODULE MicaProofs -----------------------------
(* The index and the log of the MICA store, for every number of workers,    *)
(* keys and slots, every hash and every size of the log.  The properties of *)
(* Mica speak of the moments at which nobody inserts.  The invariant says   *)
(* what is left of them while an insertion is under way, store by store:    *)
(* only the slot it took is exempt.  A second invariant follows the values, *)
(* to what a GET returns.                                                   *)
EXTENDS Mica, WellFoundedInduction, TLAPS

\* Zenon is tried first; SMT is named where a leaf needs arithmetic.
USE ZenonT(120)

SlotType == [in_use : BOOLEAN, tag : Nat, offset : Nat]

Numbering == [opcode : {"GET", "PUT"}, key : Asked, value : 0..MAX_PUTS]

Pointer == {Null} \union (0..(LOG_CAP - 1))

Bucket == Range(Bkt)

\* The types of the variables.
StateOK ==
  /\ slots \in [Bucket -> [Slot -> SlotType]]
  /\ log \in [0..(LOG_CAP + ENTRY - 1) -> Unit]
  /\ log_head \in Nat
  /\ \A b \in Bucket, i \in Slot : slots[b][i].offset <= log_head
  /\ populated \in 0..KEYS
  /\ kv_lock \in Worker \union {Nobody}
  /\ pc \in [Worker -> {"idle", "lookup", "execute", "offset", "tag", "paste", "advance"}]
  /\ ops \in [Worker -> Seq(Numbering)]
  /\ kv_ptr \in [Worker -> Seq(Pointer)]
  /\ slot_to_use \in [Worker -> Slot]
  /\ puts \in Seq(Key) /\ Len(puts) <= MAX_PUTS

Inserting(w) == pc[w] \in {"offset", "tag", "paste", "advance"}

\* Where a worker is in its batch, and that the store is filled before.
BatchesOK ==
  \A w \in Worker :
    /\ kv_lock = w <=> Inserting(w)
    /\ pc[w] = "lookup" => Len(kv_ptr[w]) < Len(ops[w])
    /\ pc[w] \notin {"idle", "lookup"} => Len(kv_ptr[w]) = Len(ops[w]) /\ ops[w] # << >>
    /\ populated < KEYS => pc[w] = "idle"

\* The key an insertion under way inserts, and its bucket.
NewKey == Head(ops[kv_lock]).key
NewBucket == Bkt[NewKey]

\* The slot is not the one an insertion under way took.
Settled(b, i) == kv_lock = Nobody \/ b # NewBucket \/ i # slot_to_use[kv_lock]

\* The slots of a bucket are taken from the last to the first.
FreeSlotsFirst ==
  \A b \in Bucket : \A i, j \in Slot : i < j /\ slots[b][i].in_use => slots[b][j].in_use

\* Settled slots have different tags.
TagsOK ==
  \A b \in Bucket : \A i, j \in Slot :
    /\ slots[b][i].in_use /\ Settled(b, i)
    /\ slots[b][j].in_use /\ Settled(b, j)
    /\ slots[b][i].tag = slots[b][j].tag
    => i = j

\* A log has an entry of key k at place p.
EntryIn(l, p, k) == \A n \in 0..(ENTRY - 1) : l[p + n].part = n /\ l[p + n].key = k

\* What an insertion has done so far.  No other slot has the tag of its key.
InsertionOK ==
  kv_lock # Nobody =>
    LET s == slots[NewBucket][slot_to_use[kv_lock]]
    IN  /\ s.in_use
        /\ pc[kv_lock] # "offset" => s.offset = log_head
        /\ pc[kv_lock] \in {"paste", "advance"} => s.tag = Tag[NewKey]
        /\ pc[kv_lock] = "advance" => EntryIn(log, Place(log_head), NewKey)
        /\ \A i \in Slot \ {slot_to_use[kv_lock]} :
             slots[NewBucket][i].in_use => slots[NewBucket][i].tag # Tag[NewKey]

\* The head, or what it becomes once the entry that is already in the log counts.
FutureHead ==
  IF kv_lock # Nobody /\ pc[kv_lock] = "advance" THEN HeadAfterEntry ELSE log_head

\* A settled slot leads to an entry before the head, whole as long as the head has
\* not wrapped around it, of a key with this bucket and tag.
EntriesOK ==
  \A b \in Bucket : \A i \in Slot :
    slots[b][i].in_use /\ Settled(b, i) =>
      /\ slots[b][i].offset + ENTRY <= log_head
      /\ FutureHead - slots[b][i].offset < LOG_CAP =>
           \E j \in Key : /\ Bkt[j] = b /\ Tag[j] = slots[b][i].tag
                          /\ EntryIn(log, Place(slots[b][i].offset), j)

\* The inductive invariant.
IInv ==
  /\ StateOK
  /\ BatchesOK
  /\ FreeSlotsFirst
  /\ TagsOK
  /\ InsertionOK
  /\ EntriesOK

-----------------------------------------------------------------------------
(* Sequences and naturals.  The module does without the theorems about sums *)
(* and sequences: fewer facts in scope make the proofs faster.              *)

\* The length and the domain of a sequence.
LEMMA LenProperties ==
  ASSUME NEW T, NEW q \in Seq(T)
  PROVE  Len(q) \in Nat /\ DOMAIN q = 1..Len(q)
BY SMTT(120)

\* The elements of a sequence.
LEMMA ElementOfSeq ==
  ASSUME NEW T, NEW q \in Seq(T), NEW n \in 1..Len(q)
  PROVE  q[n] \in T
BY SMTT(120)

\* The empty sequence is the one of length 0.
LEMMA EmptySeq ==
  ASSUME NEW T
  PROVE  << >> \in Seq(T) /\ Len(<< >>) = 0 /\ \A q \in Seq(T) : q # << >> => Len(q) \in Nat \ {0}
BY SMTT(120)

\* What is left of a sequence without its first element.
LEMMA HeadTailProperties ==
  ASSUME NEW T, NEW q \in Seq(T), q # << >>
  PROVE  /\ Head(q) \in T /\ Tail(q) \in Seq(T) /\ Len(Tail(q)) = Len(q) - 1
         /\ \A n \in 1..Len(Tail(q)) : Tail(q)[n] = q[n + 1]
BY SMTT(120)

\* One more element.
LEMMA AppendProperties ==
  ASSUME NEW T, NEW q \in Seq(T), NEW x \in T
  PROVE  /\ Append(q, x) \in Seq(T) /\ Append(q, x) # << >> /\ Len(Append(q, x)) = Len(q) + 1
         /\ \A n \in 1..Len(q) : Append(q, x)[n] = q[n]
         /\ Append(q, x)[Len(q) + 1] = x
BY SMTT(120)

\* Two sequences, one after the other.
LEMMA ConcatProperties ==
  ASSUME NEW T, NEW q \in Seq(T), NEW r \in Seq(T)
  PROVE  /\ q \o r \in Seq(T) /\ Len(q \o r) = Len(q) + Len(r)
         /\ \A n \in 1..(Len(q) + Len(r)) :
              (q \o r)[n] = IF n <= Len(q) THEN q[n] ELSE r[n - Len(q)]
BY SMTT(120)

\* A nonempty set of naturals has a least element.
LEMMA LeastElement ==
  ASSUME NEW T, T \subseteq Nat, T # {}
  PROVE  \E n \in T : \A m \in T : n <= m
<1>. DEFINE R == {p \in Nat \X Nat : p[1] < p[2]}
<1>1. IsWellFoundedOn(R, Nat)
    BY NatLessThanWellFounded DEF OpToRel
<1>. HIDE DEF R
<1>2. PICK n \in T : \A m \in T : <<m, n>> \notin R
    BY <1>1, WFMin
<1>3. \A m \in T : ~ (m < n)
  <2>1. \A m \in T : <<m, n>> \in Nat \X Nat
      OBVIOUS
  <2>. QED
      BY <1>2, <2>1 DEF R
<1>4. \A m \in T : n <= m
    BY SMTT(120), <1>3
<1>. QED
    BY <1>4

-----------------------------------------------------------------------------
(* Numbers.                                                                 *)

\* The sizes of the store.
LEMMA SizesOK ==
  /\ LOG_CAP \in Nat \ {0} /\ KEYS \in Nat \ {0} /\ SLOTS \in Nat \ {0}
  /\ NEAR_END \in Nat /\ 3 <= NEAR_END /\ NEAR_END < LOG_CAP
  /\ MAX_PUTS \in Nat /\ MAX_BATCH \in Nat /\ ENTRY = 3
BY KeysAssumption, LogAssumption DEF ENTRY

\* A virtual offset and its place in a log of n units.
LEMMA PlaceOf ==
  ASSUME NEW o \in Nat, NEW n \in Nat, n # 0
  PROVE  /\ o % n \in 0..(n - 1)
         /\ \E q \in Nat : o = (n * q) + (o % n)
<1>1. o % n \in 0..(n - 1)
    BY SMTT(120)
<1>2. o \div n \in Nat
    BY SMTT(120)
<1>3. o = (n * (o \div n)) + (o % n)
    BY SMTT(120)
<1>. QED
    BY <1>1, <1>2, <1>3

\* A multiple of n is not strictly between 0 and n.
LEMMA NoMultiple ==
  ASSUME NEW n \in Nat, NEW d \in Int, 0 < n * d, n * d < n
  PROVE  FALSE
<1>1. CASE d <= 0
    BY SMTT(120), <1>1
<1>2. CASE d >= 1
    BY SMTT(120), <1>2
<1>. QED
    BY SMTT(120), <1>1, <1>2

\* Two entries that lie less than a lap apart do not overlap in the log.
LEMMA NoOverlap ==
  ASSUME NEW o \in Nat, NEW h \in Nat, o + 3 <= h, h + 3 - o < LOG_CAP,
         NEW x \in 0..2, NEW y \in 0..2
  PROVE  (o % LOG_CAP) + x # (h % LOG_CAP) + y
<1>. DEFINE L == LOG_CAP
            r == o % L
            t == h % L
<1>1. L \in Nat /\ L # 0
    BY SizesOK
<1>2. PICK p \in Nat : r \in 0..(L - 1) /\ o = (L * p) + r
    BY <1>1, PlaceOf
<1>3. PICK q \in Nat : t \in 0..(L - 1) /\ h = (L * q) + t
    BY <1>1, PlaceOf
<1>4. h + 3 - o < L
    OBVIOUS
<1>. HIDE DEF L, r, t
<1>. SUFFICES ASSUME r + x = t + y PROVE FALSE
    BY DEF L, r, t
<1>. DEFINE d == q - p
            m == L * d
<1>5. d \in Int /\ L * q - L * p = m
    BY SMTT(120), <1>1
<1>6. L * p \in Nat /\ L * q \in Nat /\ m \in Int
    BY SMTT(120), <1>1
<1>. HIDE DEF d
<1>7. 0 < m /\ m < L
    BY SMTT(120), <1>1, <1>2, <1>3, <1>4, <1>5, <1>6
<1>. QED
    BY <1>1, <1>5, <1>7, NoMultiple

\* The least and the greatest element of a set of slots.
LEMMA Extremes ==
  ASSUME NEW S, S \subseteq Slot, S # {}
  PROVE  /\ Min(S) \in S /\ \A i \in S : Min(S) <= i
         /\ Max(S) \in S /\ \A i \in S : Max(S) >= i
<1>1. \A i \in S : i \in Nat /\ i <= SLOTS - 1
    BY SMTT(120), SizesOK DEF Slot
<1>2. \E x \in S : \A y \in S : x =< y
    BY <1>1, LeastElement
<1>3. \E x \in S : \A y \in S : x >= y
  <2>. DEFINE T == {SLOTS - 1 - i : i \in S}
  <2>1. T \subseteq Nat /\ T # {}
      BY SMTT(120), <1>1, SizesOK
  <2>2. PICK n \in T : \A m \in T : n <= m
      BY <2>1, LeastElement
  <2>3. PICK x \in S : n = SLOTS - 1 - x
      BY <2>2
  <2>4. \A y \in S : SLOTS - 1 - x <= SLOTS - 1 - y
      BY <2>2, <2>3
  <2>. HIDE DEF T
  <2>5. \A y \in S : x >= y
      BY SMTT(120), <1>1, <2>3, <2>4, SizesOK
  <2>. QED
      BY <2>5
<1>. QED
    BY <1>2, <1>3 DEF Min, Max

-----------------------------------------------------------------------------
(* Slots and entries.                                                       *)

\* The head moves past the entry, also where it wraps.
LEMMA HeadGrows ==
  ASSUME log_head \in Nat
  PROVE  HeadAfterEntry \in Nat /\ HeadAfterEntry >= log_head + ENTRY
<1>. DEFINE h == log_head + ENTRY
            L == LOG_CAP
            w == ((h + L) \div L) * L
<1>1. h \in Nat /\ L \in Nat /\ L # 0
    BY SMTT(120), SizesOK
<1>2. HeadAfterEntry = IF NearEnd(h) THEN w ELSE h
    BY DEF HeadAfterEntry
<1>3. NearEnd(h) => h <= L
    BY DEF NearEnd
<1>4. h <= L => w \in Nat /\ w >= h
  <2>. HIDE DEF h, L
  <2>1. CASE h < L
    <3>1. (h + L) \div L = 1
        BY SMTT(120), <1>1, <2>1
    <3>. QED
        BY SMTT(120), <1>1, <2>1, <3>1
  <2>2. CASE h = L
    <3>1. (h + L) \div L = 2
        BY SMTT(120), <1>1, <2>2
    <3>. QED
        BY SMTT(120), <1>1, <2>2, <3>1
  <2>. QED
      BY SMTT(120), <1>1, <2>1, <2>2
<1>. HIDE DEF h, w
<1>5. h >= h
    BY SMTT(120), <1>1
<1>6. HeadAfterEntry \in Nat /\ HeadAfterEntry >= h
    BY <1>1, <1>2, <1>3, <1>4, <1>5
<1>. QED
    BY <1>6 DEF h

\* The place of an entry, and of its units, is in the log.
LEMMA PlacesInLog ==
  ASSUME NEW o \in Nat
  PROVE  /\ Place(o) \in 0..(LOG_CAP - 1)
         /\ \A n \in 0..(ENTRY - 1) : Place(o) + n \in 0..(LOG_CAP + ENTRY - 1)
<1>1. LOG_CAP \in Nat /\ LOG_CAP # 0 /\ ENTRY = 3
    BY SizesOK
<1>2. Place(o) \in 0..(LOG_CAP - 1)
    BY <1>1, PlaceOf DEF Place
<1>. QED
    BY SMTT(120), <1>1, <1>2

\* The slot an insertion takes: every slot behind it is in use, and no other slot in
\* use has the key's tag.
LEMMA SlotChosen ==
  ASSUME StateOK, FreeSlotsFirst, TagsOK, kv_lock = Nobody, NEW k \in Key
  PROVE  /\ Bkt[k] \in Bucket
         /\ SlotToUse(k) \in Slot
         /\ \A i \in Slot : SlotToUse(k) < i => slots[Bkt[k]][i].in_use
         /\ \A i \in Slot \ {SlotToUse(k)} :
              slots[Bkt[k]][i].in_use => slots[Bkt[k]][i].tag # Tag[k]
<1>. DEFINE b == Bkt[k]
            s == SlotToUse(k)
            fits == {i \in Slot : slots[b][i].tag = Tag[k] \/ ~slots[b][i].in_use}
<1>1. b \in Bucket
    BY KeysAssumption DEF Bucket, Range
<1>2. s = IF fits = {} THEN Tag[k] % SLOTS ELSE Max(fits)
    BY DEF SlotToUse
<1>3. s \in Slot /\ (fits # {} => s \in fits /\ \A i \in fits : s >= i)
  <2>1. CASE fits = {}
    <3>1. Tag[k] \in Nat /\ SLOTS \in Nat /\ SLOTS # 0
        BY KeysAssumption
    <3>. QED
        BY <1>2, <2>1, <3>1, PlaceOf DEF Slot
  <2>2. CASE fits # {}
    <3>1. fits \subseteq Slot
        OBVIOUS
    <3>. HIDE DEF fits
    <3>. QED
        BY <1>2, <2>2, <3>1, Extremes
  <2>. QED
      BY <2>1, <2>2
<1>. HIDE DEF s
<1>4. \A i \in Slot : i \in Nat
    BY SMTT(120) DEF Slot
<1>5. ASSUME NEW i \in Slot, s < i PROVE slots[b][i].in_use
  <2>1. ~ (s >= i)
      BY SMTT(120), <1>3, <1>4, <1>5
  <2>. QED
      BY <1>3, <2>1
<1>6. ASSUME NEW i \in Slot \ {s}, slots[b][i].in_use, slots[b][i].tag = Tag[k] PROVE FALSE
  <2>1. i \in fits
      BY <1>6
  <2>2. s \in fits /\ s >= i
      BY <1>3, <2>1
  <2>3. i < s
      BY SMTT(120), <1>3, <1>4, <2>2
  <2>4. slots[b][s].in_use
      BY <1>1, <1>3, <1>6, <2>3 DEF FreeSlotsFirst
  <2>5. slots[b][s].tag = Tag[k]
      BY <2>2, <2>4
  <2>. QED
      BY <1>1, <1>3, <1>6, <2>4, <2>5 DEF TagsOK, Settled
<1>. QED
    BY <1>1, <1>3, <1>5, <1>6 DEF s

\* The type of a slot.
LEMMA SlotTypes ==
  ASSUME StateOK, NEW b \in Bucket, NEW i \in Slot
  PROVE  slots[b][i] \in SlotType /\ slots[b][i].offset \in Nat /\ slots[b][i].tag \in Nat
<1>1. slots[b][i] \in SlotType
    BY DEF StateOK
<1>. QED
    BY <1>1 DEF SlotType

\* One slot is changed.
SlotSet(b, i, s) ==
  /\ slots' \in [Bucket -> [Slot -> SlotType]]
  /\ slots'[b][i] = s
  /\ \A c \in Bucket : \A j \in Slot : ~ (c = b /\ j = i) => slots'[c][j] = slots[c][j]

\* To change a slot.
LEMMA SlotUpdate ==
  ASSUME slots \in [Bucket -> [Slot -> SlotType]], NEW b \in Bucket, NEW i \in Slot,
         NEW s \in SlotType, slots' = [slots EXCEPT ![b][i] = s]
  PROVE  SlotSet(b, i, s)
BY SMTT(120) DEF SlotSet

\* Whether a unit of the log is part of an entry, and of which.
SameUnits ==
  \A a \in 0..(LOG_CAP + ENTRY - 1) : log'[a].part = log[a].part /\ log'[a].key = log[a].key

\* Then its entries stay.
LEMMA EntriesStay ==
  ASSUME SameUnits, NEW o \in Nat, NEW k
  PROVE  EntryIn(log, Place(o), k) => EntryIn(log', Place(o), k)
<1>1. \A n \in 0..(ENTRY - 1) : /\ log'[Place(o) + n].part = log[Place(o) + n].part
                                /\ log'[Place(o) + n].key = log[Place(o) + n].key
    BY PlacesInLog DEF SameUnits
<1>. QED
    BY <1>1 DEF EntryIn

\* What a step of a worker that does not insert keeps.
LEMMA KeepIndex ==
  ASSUME IInv, slots' = slots, log_head' = log_head, kv_lock' = kv_lock,
         slot_to_use' = slot_to_use, SameUnits,
         kv_lock # Nobody => ops'[kv_lock] = ops[kv_lock] /\ pc'[kv_lock] = pc[kv_lock]
  PROVE  FreeSlotsFirst' /\ TagsOK' /\ InsertionOK' /\ EntriesOK'
<1>1. StateOK /\ log_head \in Nat /\ \A b \in Bucket : \A i \in Slot : slots[b][i].offset \in Nat
    BY DEF IInv, StateOK, SlotType
<1>2. FreeSlotsFirst'
    BY DEF IInv, FreeSlotsFirst
<1>3. kv_lock # Nobody => NewKey' = NewKey /\ NewBucket' = NewBucket
    BY DEF NewKey, NewBucket
<1>4. \A b, i : Settled(b, i)' <=> Settled(b, i)
    BY <1>3 DEF Settled
<1>5. TagsOK'
    BY <1>4 DEF IInv, TagsOK
<1>6. kv_lock # Nobody /\ EntryIn(log, Place(log_head), NewKey) =>
        EntryIn(log', Place(log_head'), NewKey')
  <2>1. EntryIn(log, Place(log_head), NewKey) => EntryIn(log', Place(log_head), NewKey)
      BY <1>1, EntriesStay
  <2>. QED
      BY <1>3, <2>1
<1>7. InsertionOK'
    BY <1>3, <1>6 DEF IInv, InsertionOK
<1>8. FutureHead' = FutureHead
    BY DEF FutureHead, HeadAfterEntry
<1>9. EntriesOK'
  <2>. SUFFICES ASSUME NEW b \in Bucket, NEW i \in Slot, slots[b][i].in_use, Settled(b, i)
                PROVE  /\ slots[b][i].offset + ENTRY <= log_head
                       /\ FutureHead - slots[b][i].offset < LOG_CAP =>
                            \E j \in Key : /\ Bkt[j] = b /\ Tag[j] = slots[b][i].tag
                                           /\ EntryIn(log', Place(slots[b][i].offset), j)
      BY <1>4, <1>8 DEF EntriesOK
  <2>1. \A j : EntryIn(log, Place(slots[b][i].offset), j) =>
                 EntryIn(log', Place(slots[b][i].offset), j)
      BY <1>1, EntriesStay
  <2>. QED
      BY <2>1 DEF IInv, EntriesOK
<1>. QED
    BY <1>2, <1>5, <1>7, <1>9

\* An entry is written at the head: it overwrites none that the head will not have
\* wrapped around once it has moved on.
LEMMA EntryPasted ==
  ASSUME StateOK, NEW k \in Key, NEW v \in 0..MAX_PUTS, log' = Pasted(k, v)
  PROVE  /\ log' \in [0..(LOG_CAP + ENTRY - 1) -> Unit]
         /\ EntryIn(log', Place(log_head), k)
         /\ \A o \in Nat : \A j :
              /\ o + ENTRY <= log_head /\ HeadAfterEntry - o < LOG_CAP
              /\ EntryIn(log, Place(o), j)
              => EntryIn(log', Place(o), j)
<1>. DEFINE h == Place(log_head)
            D == 0..(LOG_CAP + ENTRY - 1)
            unit(a) == [part |-> a - h, key |-> k, value |-> v]
<1>1. /\ log \in [D -> Unit] /\ log_head \in Nat /\ h \in 0..(LOG_CAP - 1)
      /\ \A n \in 0..(ENTRY - 1) : h + n \in D
    BY PlacesInLog DEF StateOK
<1>2. log' = [a \in D |-> IF a - h \in 0..(ENTRY - 1) THEN unit(a) ELSE log[a]]
    BY <1>1 DEF Pasted
<1>3. log' \in [D -> Unit]
  <2>1. \A a \in D : a - h \in 0..(ENTRY - 1) => unit(a) \in Unit
      BY DEF Unit
  <2>. QED
      BY <1>1, <1>2, <2>1
<1>4. LOG_CAP \in Nat /\ ENTRY = 3 /\ ENTRY - 1 = 2
    BY SMTT(120), SizesOK
<1>5. EntryIn(log', h, k)
  <2>. SUFFICES ASSUME NEW n \in 0..(ENTRY - 1)
                PROVE  log'[h + n].part = n /\ log'[h + n].key = k
      BY DEF EntryIn
  <2>1. (h + n) - h = n
      BY SMTT(120), <1>1, <1>4
  <2>2. log'[h + n] = unit(h + n)
      BY <1>1, <1>2, <2>1
  <2>3. unit(h + n).part = (h + n) - h /\ unit(h + n).key = k
      OBVIOUS
  <2>. HIDE DEF unit
  <2>. QED
      BY <2>1, <2>2, <2>3
<1>6. ASSUME NEW o \in Nat, NEW j, o + ENTRY <= log_head, HeadAfterEntry - o < LOG_CAP,
             EntryIn(log, Place(o), j)
      PROVE  EntryIn(log', Place(o), j)
  <2>. SUFFICES ASSUME NEW n \in 0..(ENTRY - 1)
                PROVE  log'[Place(o) + n] = log[Place(o) + n]
      BY <1>6 DEF EntryIn
  <2>1. HeadAfterEntry \in Nat /\ HeadAfterEntry >= log_head + ENTRY
      BY <1>1, HeadGrows
  <2>2. o + 3 <= log_head /\ log_head + 3 - o < LOG_CAP
    <3>. DEFINE next == HeadAfterEntry
    <3>1. next \in Nat /\ next >= log_head + 3 /\ next - o < LOG_CAP /\ o + 3 <= log_head
        BY <1>4, <1>6, <2>1
    <3>. HIDE DEF next
    <3>. QED
        BY SMTT(120), <1>1, <1>4, <3>1
  <2>3. \A y \in 0..2 : Place(o) + n # h + y
      BY <1>1, <1>4, <2>2, NoOverlap DEF Place
  <2>4. Place(o) + n \in D /\ Place(o) \in 0..(LOG_CAP - 1)
      BY PlacesInLog
  <2>5. (Place(o) + n) - h \notin 0..(ENTRY - 1)
    <3>. DEFINE p == Place(o)
    <3>1. /\ p \in 0..(LOG_CAP - 1) /\ h \in 0..(LOG_CAP - 1)
          /\ n \in 0..2 /\ \A y \in 0..2 : p + n # h + y
        BY <1>1, <1>4, <2>3, <2>4
    <3>. HIDE DEF p, h
    <3>2. (p + n) - h \notin 0..2
        BY SMTT(120), <1>4, <3>1
    <3>. QED
        BY <1>4, <3>2 DEF p
  <2>. QED
      BY <1>2, <2>4, <2>5
<1>. QED
    BY <1>3, <1>5, <1>6

\* What was before the head, or wrapped around, stays so when the head moves.
LEMMA HeadPast ==
  ASSUME NEW o \in Nat, NEW h \in Nat, NEW g \in Nat, g >= h + ENTRY
  PROVE  /\ o <= h => o <= g
         /\ o + ENTRY <= h => o + ENTRY <= g
         /\ g - o < LOG_CAP => h - o < LOG_CAP
<1>1. LOG_CAP \in Nat /\ ENTRY = 3
    BY SizesOK
<1>. QED
    BY SMTT(120), <1>1

-----------------------------------------------------------------------------
(* The store is filled.                                                     *)

\* The invariant holds before the first step.
LEMMA InitInv == Init => IInv
<1>. SUFFICES ASSUME Init PROVE IInv
    OBVIOUS
<1>1. /\ 0 \in Slot /\ 0 \in 0..MAX_PUTS /\ 0 \in 0..(ENTRY - 1) /\ 0 \in Nat /\ 0 \in 0..KEYS
      /\ 0 <= 0 /\ 0 <= MAX_PUTS
    BY SMTT(120), SizesOK DEF Slot
<1>2. \A T : << >> \in Seq(T) /\ Len(<< >>) = 0
    BY EmptySeq
<1>3. /\ slots \in [Bucket -> [Slot -> SlotType]]
      /\ \A b \in Bucket : \A i \in Slot : ~slots[b][i].in_use /\ slots[b][i].offset = 0
    BY <1>1 DEF Init, Bucket, SlotType
<1>4. log \in [0..(LOG_CAP + ENTRY - 1) -> Unit]
    BY <1>1 DEF Init, Unit
<1>5. /\ pc = [w \in Worker |-> "idle"] /\ kv_lock = Nobody /\ log_head = 0 /\ populated = 0
      /\ ops = [w \in Worker |-> << >>] /\ kv_ptr = [w \in Worker |-> << >>]
      /\ slot_to_use = [w \in Worker |-> 0] /\ puts = << >>
    BY DEF Init
<1>6. StateOK
    BY <1>1, <1>2, <1>3, <1>4, <1>5 DEF StateOK
<1>7. BatchesOK
    BY <1>5, WorkerAssumption DEF BatchesOK, Inserting
<1>8. FreeSlotsFirst /\ TagsOK /\ InsertionOK /\ EntriesOK
    BY <1>3, <1>5 DEF FreeSlotsFirst, TagsOK, InsertionOK, EntriesOK
<1>. QED
    BY <1>6, <1>7, <1>8 DEF IInv

\* Nobody inserts while the store is filled.
LEMMA NobodyYet ==
  ASSUME IInv, populated < KEYS
  PROVE  kv_lock = Nobody
BY DEF IInv, StateOK, BatchesOK, Inserting

\* cache_populate_fixed_len inserts a key.
LEMMA PopulateStep ==
  ASSUME IInv, Populate
  PROVE  IInv'
<1>. DEFINE k == KEYS - 1 - populated
            b == Bkt[k]
            s == SlotToUse(k)
            new == [in_use |-> TRUE, tag |-> Tag[k], offset |-> log_head]
<1>1. /\ populated < KEYS /\ populated' = populated + 1
      /\ slots' = [slots EXCEPT ![b][s] = new]
      /\ log' = Pasted(k, 0) /\ log_head' = HeadAfterEntry
      /\ kv_lock' = kv_lock /\ pc' = pc /\ ops' = ops /\ kv_ptr' = kv_ptr
      /\ slot_to_use' = slot_to_use /\ puts' = puts
    BY SMTT(120) DEF Populate, history
<1>2. StateOK /\ BatchesOK /\ FreeSlotsFirst /\ TagsOK /\ EntriesOK /\ kv_lock = Nobody
    BY <1>1, NobodyYet DEF IInv
<1>3. k \in Key /\ populated' \in 0..KEYS /\ 0 \in 0..MAX_PUTS /\ populated \in Nat
  <2>1. populated \in 0..KEYS /\ KEYS \in Nat /\ MAX_PUTS \in Nat
      BY <1>2, SizesOK DEF StateOK
  <2>. QED
      BY SMTT(120), <1>1, <2>1 DEF Key
<1>. HIDE DEF k
<1>4. /\ b \in Bucket /\ s \in Slot
      /\ \A i \in Slot : s < i => slots[b][i].in_use
      /\ \A i \in Slot \ {s} : slots[b][i].in_use => slots[b][i].tag # Tag[k]
    BY <1>2, <1>3, SlotChosen
<1>5. /\ log' \in [0..(LOG_CAP + ENTRY - 1) -> Unit]
      /\ EntryIn(log', Place(log_head), k)
      /\ \A o \in Nat : \A j :
           /\ o + ENTRY <= log_head /\ HeadAfterEntry - o < LOG_CAP
           /\ EntryIn(log, Place(o), j)
           => EntryIn(log', Place(o), j)
    BY <1>1, <1>2, <1>3, EntryPasted
<1>6. new \in SlotType /\ log_head \in Nat /\ Tag[k] \in Nat
    BY <1>2, <1>3, KeysAssumption DEF SlotType, StateOK
<1>7. SlotSet(b, s, new)
  <2>1. slots \in [Bucket -> [Slot -> SlotType]]
      BY <1>2 DEF StateOK
  <2>. HIDE DEF b, s, new
  <2>. QED
      BY <1>1, <1>4, <1>6, <2>1, SlotUpdate
<1>16. new.in_use = TRUE /\ new.tag = Tag[k] /\ new.offset = log_head
    OBVIOUS
<1>. HIDE DEF b, s, new
<1>8. log_head \in Nat /\ log_head' \in Nat /\ log_head' >= log_head + ENTRY
    BY <1>1, <1>6, HeadGrows
<1>9. ASSUME NEW c \in Bucket, NEW i \in Slot
      PROVE  /\ slots[c][i].offset \in Nat
             /\ slots[c][i].offset <= log_head => slots[c][i].offset <= log_head'
             /\ slots[c][i].offset + ENTRY <= log_head => slots[c][i].offset + ENTRY <= log_head'
             /\ log_head' - slots[c][i].offset < LOG_CAP => log_head - slots[c][i].offset < LOG_CAP
  <2>1. slots[c][i].offset \in Nat
      BY <1>2, SlotTypes
  <2>. QED
      BY <1>8, <2>1, HeadPast
<1>10. StateOK'
  <2>1. \A c \in Bucket, i \in Slot : slots'[c][i].offset <= log_head'
    <3>. SUFFICES ASSUME NEW c \in Bucket, NEW i \in Slot PROVE slots'[c][i].offset <= log_head'
        OBVIOUS
    <3>1. CASE c = b /\ i = s
      <4>1. slots'[c][i].offset = log_head
          BY <1>7, <1>16, <3>1 DEF SlotSet
      <4>2. log_head <= log_head'
          BY SMTT(120), <1>8, SizesOK
      <4>. QED
          BY <4>1, <4>2
    <3>2. CASE ~ (c = b /\ i = s)
        BY <1>2, <1>7, <1>9, <3>2 DEF SlotSet, StateOK
    <3>. QED
        BY <3>1, <3>2
  <2>. QED
      BY <1>1, <1>2, <1>3, <1>5, <1>7, <1>8, <2>1 DEF StateOK, SlotSet
<1>11. BatchesOK'
  <2>1. populated' < KEYS => populated < KEYS
      BY <1>1
  <2>. QED
      BY <1>1, <1>2, <2>1 DEF BatchesOK, Inserting
<1>12. FreeSlotsFirst'
  <2>. SUFFICES ASSUME NEW c \in Bucket, NEW i \in Slot, NEW j \in Slot, i < j,
                       slots'[c][i].in_use
                PROVE  slots'[c][j].in_use
      BY DEF FreeSlotsFirst
  <2>1. CASE c = b /\ j = s
      BY <1>7, <1>16, <2>1 DEF SlotSet
  <2>2. CASE ~ (c = b /\ j = s) /\ c = b /\ i = s
      BY <1>4, <1>7, <2>2 DEF SlotSet
  <2>3. CASE ~ (c = b /\ j = s) /\ ~ (c = b /\ i = s)
      BY <1>2, <1>7, <2>3 DEF SlotSet, FreeSlotsFirst
  <2>. QED
      BY <2>1, <2>2, <2>3
<1>13. TagsOK'
  <2>. SUFFICES ASSUME NEW c \in Bucket, NEW i \in Slot, NEW j \in Slot,
                       slots'[c][i].in_use, slots'[c][j].in_use,
                       slots'[c][i].tag = slots'[c][j].tag
                PROVE  i = j
      BY DEF TagsOK
  <2>1. CASE c = b /\ i = s
      BY <1>4, <1>7, <1>16, <2>1 DEF SlotSet
  <2>2. CASE c = b /\ j = s
      BY <1>4, <1>7, <1>16, <2>2 DEF SlotSet
  <2>3. CASE ~ (c = b /\ i = s) /\ ~ (c = b /\ j = s)
      BY <1>2, <1>7, <2>3 DEF SlotSet, TagsOK, Settled
  <2>. QED
      BY <2>1, <2>2, <2>3
<1>14. InsertionOK'
    BY <1>1, <1>2 DEF InsertionOK
<1>15. EntriesOK'
  <2>. SUFFICES ASSUME NEW c \in Bucket, NEW i \in Slot, slots'[c][i].in_use
                PROVE  /\ slots'[c][i].offset + ENTRY <= log_head'
                       /\ log_head' - slots'[c][i].offset < LOG_CAP =>
                            \E j \in Key : /\ Bkt[j] = c /\ Tag[j] = slots'[c][i].tag
                                           /\ EntryIn(log', Place(slots'[c][i].offset), j)
      BY <1>1, <1>2 DEF EntriesOK, FutureHead
  <2>1. CASE c = b /\ i = s
    <3>1. slots'[c][i].offset = log_head /\ slots'[c][i].tag = Tag[k]
        BY <1>7, <1>16, <2>1 DEF SlotSet
    <3>2. log_head + ENTRY <= log_head'
        BY SMTT(120), <1>8, SizesOK
    <3>. QED
        BY <1>3, <1>5, <2>1, <3>1, <3>2 DEF b
  <2>2. CASE ~ (c = b /\ i = s)
    <3>1. slots'[c][i] = slots[c][i]
        BY <1>7, <2>2 DEF SlotSet
    <3>2. /\ slots[c][i].offset + ENTRY <= log_head
          /\ log_head - slots[c][i].offset < LOG_CAP =>
               \E j \in Key : /\ Bkt[j] = c /\ Tag[j] = slots[c][i].tag
                              /\ EntryIn(log, Place(slots[c][i].offset), j)
        BY <1>2, <3>1 DEF EntriesOK, Settled, FutureHead
    <3>. QED
        BY <1>1, <1>5, <1>9, <3>1, <3>2
  <2>. QED
      BY <2>1, <2>2
<1>. QED
    BY <1>10, <1>11, <1>12, <1>13, <1>14, <1>15 DEF IInv

-----------------------------------------------------------------------------
(* The steps of a worker that does not insert.                              *)

\* A worker that is not inserting does not hold kv_lock.
LEMMA NotInserting ==
  ASSUME IInv, NEW w \in Worker, ~ Inserting(w)
  PROVE  kv_lock # w
BY DEF IInv, BatchesOK

\* A worker that is not inserting goes on to place p in its batch, with operations o
\* still to do and pointers q; the index stays.
LEMMA WorkerMoves ==
  ASSUME IInv, NEW w \in Worker, ~ Inserting(w),
         slots' = slots, log_head' = log_head, kv_lock' = kv_lock,
         populated' = populated, slot_to_use' = slot_to_use,
         SameUnits, log' \in [0..(LOG_CAP + ENTRY - 1) -> Unit],
         puts' \in Seq(Key), Len(puts') <= MAX_PUTS,
         NEW p \in {"idle", "lookup", "execute"}, pc' = [pc EXCEPT ![w] = p],
         NEW o \in Seq(Numbering), ops' = [ops EXCEPT ![w] = o],
         NEW q \in Seq(Pointer), kv_ptr' = [kv_ptr EXCEPT ![w] = q],
         p = "lookup" => Len(q) < Len(o),
         p = "execute" => Len(q) = Len(o) /\ o # << >>,
         ~ (populated < KEYS)
  PROVE  IInv'
<1>1. StateOK /\ BatchesOK /\ kv_lock # w
    BY NotInserting DEF IInv
<1>2. /\ pc' \in [Worker -> {"idle", "lookup", "execute", "offset", "tag", "paste", "advance"}]
      /\ ops' \in [Worker -> Seq(Numbering)] /\ kv_ptr' \in [Worker -> Seq(Pointer)]
      /\ pc'[w] = p /\ ops'[w] = o /\ kv_ptr'[w] = q
      /\ \A x \in Worker \ {w} : pc'[x] = pc[x] /\ ops'[x] = ops[x] /\ kv_ptr'[x] = kv_ptr[x]
    BY <1>1 DEF StateOK
<1>3. StateOK'
    BY <1>1, <1>2 DEF StateOK
<1>4. BatchesOK'
  <2>. SUFFICES ASSUME NEW x \in Worker
                PROVE  /\ kv_lock = x <=> Inserting(x)'
                       /\ pc'[x] = "lookup" => Len(kv_ptr'[x]) < Len(ops'[x])
                       /\ pc'[x] \notin {"idle", "lookup"} =>
                             Len(kv_ptr'[x]) = Len(ops'[x]) /\ ops'[x] # << >>
      BY DEF BatchesOK
  <2>1. CASE x = w
      BY <1>1, <1>2, <2>1 DEF Inserting
  <2>2. CASE x # w
      BY <1>1, <1>2, <2>2 DEF BatchesOK, Inserting
  <2>. QED
      BY <2>1, <2>2
<1>5. FreeSlotsFirst' /\ TagsOK' /\ InsertionOK' /\ EntriesOK'
  <2>1. kv_lock # Nobody => ops'[kv_lock] = ops[kv_lock] /\ pc'[kv_lock] = pc[kv_lock]
      BY <1>1, <1>2 DEF StateOK
  <2>. QED
      BY <2>1, KeepIndex
<1>. QED
    BY <1>3, <1>4, <1>5 DEF IInv

\* The place a lookup finds is in the log.
LEMMA LookupInLog ==
  ASSUME StateOK, NEW k \in Key
  PROVE  Lookup(k) \in Pointer
<1>. DEFINE bucket == slots[Bkt[k]]
            matches == {i \in Slot : bucket[i].in_use /\ bucket[i].tag = Tag[k]}
            first == bucket[Min(matches)].offset
<1>1. Lookup(k) = IF matches = {} \/ log_head - first >= LOG_CAP THEN Null ELSE Place(first)
    BY DEF Lookup
<1>2. matches # {} => first \in Nat
  <2>. HAVE matches # {}
  <2>1. matches \subseteq Slot
      OBVIOUS
  <2>2. Bkt[k] \in Bucket
      BY KeysAssumption DEF Bucket, Range
  <2>. HIDE DEF matches
  <2>3. Min(matches) \in Slot
      BY <2>1, Extremes
  <2>. QED
      BY <2>2, <2>3, SlotTypes
<1>. HIDE DEF matches, first
<1>. QED
    BY <1>1, <1>2, PlacesInLog DEF Pointer

\* The first pass of a batch looks up one more operation.
LEMMA LookupStep ==
  ASSUME IInv, NEW w \in Worker, LookupOne(w)
  PROVE  IInv'
<1>. DEFINE k == ops[w][Len(kv_ptr[w]) + 1].key
            q == Append(kv_ptr[w], Lookup(k))
            p == IF Len(kv_ptr'[w]) = Len(ops[w]) THEN "execute" ELSE pc[w]
<1>1. /\ pc[w] = "lookup" /\ kv_ptr' = [kv_ptr EXCEPT ![w] = q]
      /\ pc' = [pc EXCEPT ![w] = p]
      /\ slots' = slots /\ log' = log /\ log_head' = log_head /\ kv_lock' = kv_lock
      /\ populated' = populated /\ ops' = ops /\ slot_to_use' = slot_to_use /\ puts' = puts
    BY SMTT(120) DEF LookupOne, index
<1>2. /\ StateOK /\ BatchesOK /\ ops[w] \in Seq(Numbering) /\ kv_ptr[w] \in Seq(Pointer)
      /\ kv_ptr \in [Worker -> Seq(Pointer)] /\ ops \in [Worker -> Seq(Numbering)]
    BY DEF IInv, StateOK
<1>3. /\ Len(kv_ptr[w]) \in Nat /\ Len(ops[w]) \in Nat /\ Len(kv_ptr[w]) < Len(ops[w])
      /\ ~ (populated < KEYS)
    BY <1>1, <1>2, LenProperties DEF BatchesOK
<1>4. k \in Key
  <2>1. Len(kv_ptr[w]) + 1 \in 1..Len(ops[w])
      BY SMTT(120), <1>3
  <2>2. ops[w][Len(kv_ptr[w]) + 1] \in Numbering
      BY <1>2, <2>1, ElementOfSeq
  <2>. QED
      BY <2>2, KeysAssumption DEF Numbering
<1>5. q \in Seq(Pointer) /\ Len(q) = Len(kv_ptr[w]) + 1
  <2>. HIDE DEF k
  <2>1. Lookup(k) \in Pointer
      BY <1>2, <1>4, LookupInLog
  <2>. QED
      BY ZenonT(120), <1>2, <2>1, AppendProperties
<1>6. kv_ptr'[w] = q
    BY <1>1, <1>2
<1>. HIDE DEF q, k
<1>7. /\ p \in {"idle", "lookup", "execute"}
      /\ p = "lookup" => Len(q) < Len(ops[w])
      /\ p = "execute" => Len(q) = Len(ops[w]) /\ ops[w] # << >>
  <2>. DEFINE x == Len(kv_ptr[w])
              y == Len(ops[w])
  <2>1. x \in Nat /\ y \in Nat /\ x < y
      BY <1>3
  <2>. HIDE DEF x, y
  <2>2. y # 0 /\ (x + 1 # y => x + 1 < y)
      BY SMTT(120), <2>1
  <2>3. ops[w] # << >>
      BY <2>2, EmptySeq DEF y
  <2>. QED
      BY <1>1, <1>5, <1>6, <2>2, <2>3 DEF x, y
<1>. HIDE DEF p
<1>8. /\ SameUnits /\ log' \in [0..(LOG_CAP + ENTRY - 1) -> Unit] /\ ~ Inserting(w)
      /\ puts' \in Seq(Key) /\ Len(puts') <= MAX_PUTS
      /\ ops' = [ops EXCEPT ![w] = ops[w]]
    BY <1>1, <1>2 DEF SameUnits, StateOK, Inserting
<1>. QED
    BY <1>1, <1>2, <1>3, <1>5, <1>7, <1>8, WorkerMoves

\* The operation a worker executes, and what is left of the batch behind it.
LEMMA HeadOfBatch ==
  ASSUME IInv, NEW w \in Worker, pc[w] \notin {"idle", "lookup"}
  PROVE  /\ Head(ops[w]).key \in Key /\ Head(ops[w]).value \in 0..MAX_PUTS
         /\ Head(kv_ptr[w]) \in Pointer
         /\ Tail(ops[w]) \in Seq(Numbering) /\ Tail(kv_ptr[w]) \in Seq(Pointer)
         /\ Len(ops[w]) # 1 =>
              Len(Tail(kv_ptr[w])) = Len(Tail(ops[w])) /\ Tail(ops[w]) # << >>
         /\ ~ (populated < KEYS)
<1>. DEFINE o == ops[w]
            q == kv_ptr[w]
            T == Numbering
            P == Pointer
<1>1. o \in Seq(T) /\ q \in Seq(P) /\ Len(q) = Len(o) /\ o # << >> /\ ~ (populated < KEYS)
    BY DEF IInv, StateOK, BatchesOK
<1>. HIDE DEF o, q, T, P
<1>2. q # << >>
    BY <1>1, EmptySeq
<1>3. Head(o) \in T /\ Tail(o) \in Seq(T) /\ Len(Tail(o)) = Len(o) - 1
    BY <1>1, HeadTailProperties
<1>4. Head(q) \in P /\ Tail(q) \in Seq(P) /\ Len(Tail(q)) = Len(q) - 1
    BY <1>1, <1>2, HeadTailProperties
<1>5. Len(o) # 1 => Tail(o) # << >>
  <2>1. Len(o) \in Nat
      BY <1>1, LenProperties
  <2>2. Len(o) - 1 = 0 => Len(o) = 1
      BY SMTT(120), <2>1
  <2>. QED
      BY <1>3, <2>2, EmptySeq
<1>6. Head(o).key \in Key /\ Head(o).value \in 0..MAX_PUTS
    BY <1>3, KeysAssumption DEF T, Numbering
<1>. QED
    BY <1>1, <1>3, <1>4, <1>5, <1>6 DEF o, q, T, P

\* A worker answers the operation at the head of its batch without inserting.
LEMMA RespondStep ==
  ASSUME IInv, NEW w \in Worker, pc[w] = "execute", NEW r, Respond(w, r),
         slots' = slots, log_head' = log_head, kv_lock' = kv_lock, slot_to_use' = slot_to_use,
         SameUnits, log' \in [0..(LOG_CAP + ENTRY - 1) -> Unit]
  PROVE  IInv'
<1>. DEFINE p == IF Len(ops[w]) = 1 THEN "idle" ELSE "execute"
            o == Tail(ops[w])
            q == Tail(kv_ptr[w])
<1>1. /\ ops' = [ops EXCEPT ![w] = o] /\ kv_ptr' = [kv_ptr EXCEPT ![w] = q]
      /\ pc' = [pc EXCEPT ![w] = p] /\ populated' = populated /\ puts' = puts
    BY DEF Respond
<1>2. /\ p \in {"idle", "lookup", "execute"} /\ p # "lookup"
      /\ o \in Seq(Numbering) /\ q \in Seq(Pointer)
      /\ p = "execute" => Len(q) = Len(o) /\ o # << >>
      /\ ~ (populated < KEYS)
    BY HeadOfBatch
<1>3. /\ ~ Inserting(w)
      /\ puts' \in Seq(Key) /\ Len(puts') <= MAX_PUTS
    BY <1>1 DEF Inserting, IInv, StateOK
<1>. HIDE DEF p, o, q
<1>. QED
    BY <1>1, <1>2, <1>3, WorkerMoves

\* A GET leaves the store alone.
LEMMA GetStep ==
  ASSUME IInv, NEW w \in Worker, GetHit(w) \/ GetMiss(w)
  PROVE  IInv'
<1>1. SameUnits /\ log' \in [0..(LOG_CAP + ENTRY - 1) -> Unit]
    BY DEF GetHit, GetMiss, index, SameUnits, IInv, StateOK
<1>2. /\ slots' = slots /\ log_head' = log_head /\ kv_lock' = kv_lock
      /\ slot_to_use' = slot_to_use /\ pc[w] = "execute" /\ \E r : Respond(w, r)
    BY DEF GetHit, GetMiss, index, Executes
<1>. QED
    BY <1>1, <1>2, RespondStep

\* A PUT to a key in the store overwrites its value, in place.
LEMMA PutHitStep ==
  ASSUME IInv, NEW w \in Worker, PutHit(w)
  PROVE  IInv'
<1>. DEFINE D == 0..(LOG_CAP + ENTRY - 1)
            a == Head(kv_ptr[w]) + VALUE_UNIT
            v == Head(ops[w]).value
<1>1. /\ slots' = slots /\ log_head' = log_head /\ kv_lock' = kv_lock
      /\ slot_to_use' = slot_to_use /\ pc[w] = "execute" /\ Respond(w, Empty("PUT_SUCCESS"))
      /\ log' = [log EXCEPT ![a] = [log[a] EXCEPT !.value = v]]
      /\ Head(kv_ptr[w]) # Null
    BY SMTT(120) DEF PutHit, Executes, KeyInStore
<1>2. log \in [D -> Unit] /\ v \in 0..MAX_PUTS /\ Head(kv_ptr[w]) \in 0..(LOG_CAP - 1)
    BY <1>1, HeadOfBatch DEF Pointer, IInv, StateOK
<1>3. a \in D
    BY SMTT(120), <1>2, SizesOK DEF VALUE_UNIT
<1>4. /\ [log[a] EXCEPT !.value = v] \in Unit
      /\ [log[a] EXCEPT !.value = v].part = log[a].part
      /\ [log[a] EXCEPT !.value = v].key = log[a].key
  <2>1. log[a] \in Unit
      BY <1>2, <1>3
  <2>. HIDE DEF a, v
  <2>. QED
      BY <1>2, <2>1 DEF Unit
<1>. HIDE DEF D, a, v
<1>5. log' \in [D -> Unit] /\ \A c \in D : log'[c].part = log[c].part /\ log'[c].key = log[c].key
    BY <1>1, <1>2, <1>3, <1>4
<1>6. SameUnits
    BY <1>5 DEF SameUnits, D
<1>. QED
    BY <1>1, <1>5, <1>6, RespondStep DEF D


-----------------------------------------------------------------------------
(* An insertion, store by store.                                            *)

\* Worker w holds kv_lock and goes on to place p of its insertion.
LEMMA InsertionMoves ==
  ASSUME IInv, NEW w \in Worker, pc[w] = "execute" \/ Inserting(w),
         kv_lock = Nobody \/ kv_lock = w, kv_lock' = w,
         NEW p \in {"offset", "tag", "paste", "advance"}, pc' = [pc EXCEPT ![w] = p],
         ops' = ops, kv_ptr' = kv_ptr, populated' = populated, puts' = puts,
         NEW s \in Slot, slot_to_use' = [slot_to_use EXCEPT ![w] = s],
         slots' \in [Bucket -> [Slot -> SlotType]], log_head' = log_head,
         \A c \in Bucket, j \in Slot : slots'[c][j].offset <= log_head,
         log' \in [0..(LOG_CAP + ENTRY - 1) -> Unit]
  PROVE  /\ StateOK' /\ BatchesOK'
         /\ pc'[w] = p /\ slot_to_use'[w] = s /\ w # Nobody
         /\ NewKey' = Head(ops[w]).key /\ NewBucket' = Bkt[Head(ops[w]).key]
<1>1. StateOK /\ BatchesOK
    BY DEF IInv
<1>2. /\ pc' \in [Worker -> {"idle", "lookup", "execute", "offset", "tag", "paste", "advance"}]
      /\ pc'[w] = p /\ \A x \in Worker \ {w} : pc'[x] = pc[x]
      /\ slot_to_use' \in [Worker -> Slot] /\ slot_to_use'[w] = s
    BY <1>1 DEF StateOK
<1>3. StateOK'
    BY <1>1, <1>2 DEF StateOK
<1>4. BatchesOK'
  <2>. SUFFICES ASSUME NEW x \in Worker
                PROVE  /\ w = x <=> Inserting(x)'
                       /\ pc'[x] = "lookup" => Len(kv_ptr[x]) < Len(ops[x])
                       /\ pc'[x] \notin {"idle", "lookup"} =>
                             Len(kv_ptr[x]) = Len(ops[x]) /\ ops[x] # << >>
                       /\ populated < KEYS => pc'[x] = "idle"
      BY DEF BatchesOK
  <2>1. CASE x = w
      BY <1>1, <1>2, <2>1 DEF BatchesOK, Inserting
  <2>2. CASE x # w
    <3>1. kv_lock # x
        BY <2>2, WorkerAssumption
    <3>. QED
        BY <1>1, <1>2, <2>2, <3>1 DEF BatchesOK, Inserting
  <2>. QED
      BY <2>1, <2>2
<1>5. w # Nobody
    BY WorkerAssumption
<1>. QED
    BY <1>2, <1>3, <1>4, <1>5 DEF NewKey, NewBucket

\* A store x into slot s, before the entry is written.  Slot s is the one the insertion
\* takes, or has taken.
LEMMA SlotStored ==
  ASSUME IInv, NEW w \in Worker, NEW k \in Key, k = Head(ops[w]).key,
         \/ kv_lock = Nobody /\ pc[w] = "execute"
         \/ kv_lock = w /\ pc[w] \in {"offset", "tag"},
         NEW s \in Slot, kv_lock = w => s = slot_to_use[w],
         \A i \in Slot : s < i => slots[Bkt[k]][i].in_use,
         \A i \in Slot \ {s} : slots[Bkt[k]][i].in_use => slots[Bkt[k]][i].tag # Tag[k],
         NEW x \in SlotType, SlotSet(Bkt[k], s, x), x.in_use, x.offset <= log_head,
         NEW p \in {"offset", "tag", "paste"}, pc' = [pc EXCEPT ![w] = p],
         p # "offset" => x.offset = log_head, p = "paste" => x.tag = Tag[k],
         kv_lock' = w, slot_to_use' = [slot_to_use EXCEPT ![w] = s],
         log' = log, log_head' = log_head,
         ops' = ops, kv_ptr' = kv_ptr, populated' = populated, puts' = puts
  PROVE  IInv'
<1>. DEFINE b == Bkt[k]
<1>1. b \in Bucket
    BY KeysAssumption DEF Bucket, Range
<1>2. \A c \in Bucket, j \in Slot : slots'[c][j].offset <= log_head
    BY DEF SlotSet, IInv, StateOK
<1>3. /\ StateOK' /\ BatchesOK'
      /\ pc'[w] = p /\ slot_to_use'[w] = s /\ w # Nobody
      /\ NewKey' = k /\ NewBucket' = b
  <2>1. /\ pc[w] = "execute" \/ Inserting(w)
        /\ kv_lock = Nobody \/ kv_lock = w
        /\ p \in {"offset", "tag", "paste", "advance"}
      BY DEF Inserting
  <2>2. slots' \in [Bucket -> [Slot -> SlotType]] /\ log' \in [0..(LOG_CAP + ENTRY - 1) -> Unit]
      BY DEF SlotSet, IInv, StateOK
  <2>. QED
      BY ZenonT(120), <1>2, <2>1, <2>2, InsertionMoves
<1>4. \A c \in Bucket : \A j \in Slot :
        Settled(c, j)' => slots'[c][j] = slots[c][j] /\ Settled(c, j) /\ ~ (c = b /\ j = s)
  <2>. SUFFICES ASSUME NEW c \in Bucket, NEW j \in Slot, Settled(c, j)'
                PROVE  slots'[c][j] = slots[c][j] /\ Settled(c, j) /\ ~ (c = b /\ j = s)
      OBVIOUS
  <2>1. ~ (c = b /\ j = s)
      BY <1>3 DEF Settled
  <2>2. slots'[c][j] = slots[c][j]
      BY <2>1 DEF SlotSet
  <2>3. Settled(c, j)
      BY <2>1 DEF Settled, NewBucket, NewKey
  <2>. QED
      BY <2>1, <2>2, <2>3
<1>5. FreeSlotsFirst'
  <2>. SUFFICES ASSUME NEW c \in Bucket, NEW i \in Slot, NEW j \in Slot,
                       i < j, slots'[c][i].in_use
                PROVE  slots'[c][j].in_use
      BY DEF FreeSlotsFirst
  <2>1. CASE c = b /\ j = s
      BY <2>1 DEF SlotSet
  <2>2. CASE ~ (c = b /\ j = s)
    <3>1. slots'[c][j] = slots[c][j]
        BY <2>2 DEF SlotSet
    <3>2. CASE c = b /\ i = s
        BY <3>1, <3>2
    <3>3. CASE ~ (c = b /\ i = s)
        BY <3>1, <3>3 DEF SlotSet, IInv, FreeSlotsFirst
    <3>. QED
        BY <3>2, <3>3
  <2>. QED
      BY <2>1, <2>2
<1>6. TagsOK'
  <2>. SUFFICES ASSUME NEW c \in Bucket, NEW i \in Slot, NEW j \in Slot,
                       slots'[c][i].in_use, Settled(c, i)', slots'[c][j].in_use, Settled(c, j)',
                       slots'[c][i].tag = slots'[c][j].tag
                PROVE  i = j
      BY DEF TagsOK
  <2>1. /\ slots'[c][i] = slots[c][i] /\ Settled(c, i)
        /\ slots'[c][j] = slots[c][j] /\ Settled(c, j)
      BY ZenonT(120), <1>4
  <2>. QED
      BY <2>1 DEF IInv, TagsOK
<1>7. InsertionOK'
  <2>1. slots'[b][s] = x
      BY DEF SlotSet
  <2>2. \A i \in Slot \ {s} : slots'[b][i] = slots[b][i]
      BY <1>1 DEF SlotSet
  <2>3. /\ p # "advance"
        /\ \A i \in Slot \ {s} : slots'[b][i].in_use => slots'[b][i].tag # Tag[k]
      BY <2>2
  <2>4. /\ x.in_use
        /\ p # "offset" => x.offset = log_head
        /\ p \in {"paste", "advance"} => x.tag = Tag[k]
        /\ p = "advance" => EntryIn(log, Place(log_head), k)
      BY <2>3
  <2>5. /\ NewKey' = k /\ NewBucket' = b /\ pc'[w] = p /\ slot_to_use'[w] = s
        /\ kv_lock' = w /\ log' = log /\ log_head' = log_head
      BY <1>3
  <2>. QED
      BY ONLY Zenon, <2>1, <2>3, <2>4, <2>5 DEF InsertionOK
<1>8. EntriesOK'
  <2>1. FutureHead' = log_head
      BY <1>3 DEF FutureHead
  <2>2. FutureHead = log_head
      BY DEF FutureHead
  <2>. SUFFICES ASSUME NEW c \in Bucket, NEW i \in Slot, slots'[c][i].in_use, Settled(c, i)'
                PROVE  /\ slots'[c][i].offset + ENTRY <= log_head
                       /\ log_head - slots'[c][i].offset < LOG_CAP =>
                            \E j \in Key : /\ Bkt[j] = c /\ Tag[j] = slots'[c][i].tag
                                           /\ EntryIn(log, Place(slots'[c][i].offset), j)
      BY <2>1 DEF EntriesOK
  <2>3. slots'[c][i] = slots[c][i] /\ Settled(c, i)
      BY <1>4
  <2>4. EntriesOK /\ slots[c][i].in_use
      BY <2>3 DEF IInv
  <2>. QED
      BY ONLY <2>2, <2>3, <2>4, c \in Bucket, i \in Slot DEF EntriesOK
<1>. QED
    BY <1>3, <1>5, <1>6, <1>7, <1>8 DEF IInv


\* One field of a slot is changed.
LEMMA FieldSet ==
  ASSUME NEW b, NEW i, NEW v
  PROVE  /\ slots' = [slots EXCEPT ![b][i].in_use = v] =>
              slots' = [slots EXCEPT ![b][i] = [slots[b][i] EXCEPT !.in_use = v]]
         /\ slots' = [slots EXCEPT ![b][i].offset = v] =>
              slots' = [slots EXCEPT ![b][i] = [slots[b][i] EXCEPT !.offset = v]]
         /\ slots' = [slots EXCEPT ![b][i].tag = v] =>
              slots' = [slots EXCEPT ![b][i] = [slots[b][i] EXCEPT !.tag = v]]
OBVIOUS

\* kv_lock is taken, and the slot chosen under it is marked in use.
LEMMA InsertStep ==
  ASSUME IInv, NEW w \in Worker, Insert(w)
  PROVE  IInv'
<1>. DEFINE k == Head(ops[w]).key
            b == Bkt[k]
            s == SlotToUse(k)
            x == [slots[b][s] EXCEPT !.in_use = TRUE]
<1>1. /\ pc[w] = "execute" /\ kv_lock = Nobody /\ kv_lock' = w
      /\ slot_to_use' = [slot_to_use EXCEPT ![w] = s]
      /\ slots' = [slots EXCEPT ![b][s] = x]
      /\ pc' = [pc EXCEPT ![w] = "offset"]
      /\ log' = log /\ log_head' = log_head /\ populated' = populated
      /\ ops' = ops /\ kv_ptr' = kv_ptr /\ puts' = puts
    BY FieldSet DEF Insert, Executes, history
<1>2. StateOK /\ FreeSlotsFirst /\ TagsOK /\ k \in Key /\ slots \in [Bucket -> [Slot -> SlotType]]
    BY <1>1, HeadOfBatch DEF IInv, StateOK
<1>3. /\ b \in Bucket /\ s \in Slot
      /\ \A i \in Slot : s < i => slots[b][i].in_use
      /\ \A i \in Slot \ {s} : slots[b][i].in_use => slots[b][i].tag # Tag[k]
    BY <1>1, <1>2, SlotChosen
<1>4. x \in SlotType /\ x.in_use /\ x.offset <= log_head
  <2>. DEFINE y == slots[b][s]
  <2>1. y \in SlotType /\ y.offset <= log_head
      BY <1>2, <1>3 DEF StateOK
  <2>. HIDE DEF y
  <2>2. [y EXCEPT !.in_use = TRUE] \in SlotType /\ [y EXCEPT !.in_use = TRUE].in_use
        /\ [y EXCEPT !.in_use = TRUE].offset = y.offset
      BY <2>1 DEF SlotType
  <2>. QED
      BY <2>1, <2>2 DEF y
<1>. HIDE DEF x, s
<1>5. SlotSet(b, s, x)
    BY <1>1, <1>2, <1>3, <1>4, SlotUpdate
<1>6. k = Head(ops[w]).key /\ kv_lock # w
    BY <1>1, WorkerAssumption
<1>. HIDE DEF k
<1>. QED
    BY <1>1, <1>2, <1>3, <1>4, <1>5, <1>6, SlotStored

\* The slot of an insertion under way, and the slots beside it.
LEMMA SlotTaken ==
  ASSUME IInv, NEW w \in Worker, Inserting(w)
  PROVE  LET k == Head(ops[w]).key
             s == slot_to_use[w]
         IN  /\ kv_lock = w /\ w # Nobody /\ NewKey = k /\ NewBucket = Bkt[k]
             /\ k \in Key /\ Bkt[k] \in Bucket /\ s \in Slot
             /\ slots[Bkt[k]][s] \in SlotType /\ slots[Bkt[k]][s].in_use
             /\ slots[Bkt[k]][s].offset <= log_head
             /\ slot_to_use = [slot_to_use EXCEPT ![w] = s]
             /\ \A i \in Slot : s < i => slots[Bkt[k]][i].in_use
             /\ \A i \in Slot \ {s} :
                  slots[Bkt[k]][i].in_use => slots[Bkt[k]][i].tag # Tag[k]
<1>. DEFINE k == Head(ops[w]).key
            s == slot_to_use[w]
<1>1. kv_lock = w /\ w # Nobody /\ NewKey = k /\ NewBucket = Bkt[k]
    BY WorkerAssumption DEF IInv, BatchesOK, NewKey, NewBucket
<1>2. k \in Key
    BY HeadOfBatch DEF Inserting
<1>3. Bkt[k] \in Bucket
    BY <1>2, KeysAssumption DEF Bucket, Range
<1>. HIDE DEF k
<1>4. s \in Slot
    BY DEF IInv, StateOK
<1>5. slots[Bkt[k]][s] \in SlotType /\ slots[Bkt[k]][s].offset <= log_head
  <2>1. StateOK
      BY DEF IInv
  <2>. QED
      BY <1>3, <1>4, <2>1, SlotTypes DEF StateOK
<1>6. /\ slots[Bkt[k]][s].in_use
      /\ \A i \in Slot \ {s} : slots[Bkt[k]][i].in_use => slots[Bkt[k]][i].tag # Tag[k]
    BY <1>1 DEF IInv, InsertionOK
<1>7. \A i \in Slot : s < i => slots[Bkt[k]][i].in_use
    BY <1>3, <1>4, <1>6 DEF IInv, FreeSlotsFirst
<1>8. slot_to_use = [slot_to_use EXCEPT ![w] = s]
    BY DEF IInv, StateOK
<1>. QED
    BY <1>1, <1>2, <1>3, <1>4, <1>5, <1>6, <1>7, <1>8 DEF k

\* The offset is stored before the entry it leads to.
LEMMA EncodeOffsetStep ==
  ASSUME IInv, NEW w \in Worker, EncodeOffset(w)
  PROVE  IInv'
<1>. DEFINE k == Head(ops[w]).key
            b == Bkt[k]
            s == slot_to_use[w]
            x == [slots[b][s] EXCEPT !.offset = log_head]
<1>1. /\ pc[w] = "offset" /\ slots' = [slots EXCEPT ![b][s] = x]
      /\ pc' = [pc EXCEPT ![w] = "tag"]
      /\ log' = log /\ log_head' = log_head /\ populated' = populated /\ kv_lock' = kv_lock
      /\ ops' = ops /\ kv_ptr' = kv_ptr /\ puts' = puts /\ slot_to_use' = slot_to_use
    BY FieldSet DEF EncodeOffset, history
<1>2. /\ kv_lock = w /\ k \in Key /\ b \in Bucket /\ s \in Slot
      /\ slots[b][s] \in SlotType /\ slots[b][s].in_use
      /\ slot_to_use = [slot_to_use EXCEPT ![w] = s]
      /\ \A i \in Slot : s < i => slots[b][i].in_use
      /\ \A i \in Slot \ {s} : slots[b][i].in_use => slots[b][i].tag # Tag[k]
    BY <1>1, SlotTaken DEF Inserting
<1>3. log_head \in Nat /\ slots \in [Bucket -> [Slot -> SlotType]] /\ log_head <= log_head
  <2>1. log_head \in Nat /\ slots \in [Bucket -> [Slot -> SlotType]]
      BY DEF IInv, StateOK
  <2>2. log_head <= log_head
      BY SMTT(120), <2>1
  <2>. QED
      BY <2>1, <2>2
<1>4. x \in SlotType /\ x.in_use /\ x.offset = log_head
  <2>. DEFINE y == slots[b][s]
  <2>1. y \in SlotType /\ y.in_use
      BY <1>2
  <2>. HIDE DEF y
  <2>2. /\ [y EXCEPT !.offset = log_head] \in SlotType
        /\ [y EXCEPT !.offset = log_head].in_use
        /\ [y EXCEPT !.offset = log_head].offset = log_head
      BY <1>3, <2>1 DEF SlotType
  <2>. QED
      BY <2>2 DEF y
<1>. HIDE DEF x
<1>5. SlotSet(b, s, x)
    BY <1>1, <1>2, <1>3, <1>4, SlotUpdate
<1>6. k = Head(ops[w]).key
    OBVIOUS
<1>. HIDE DEF k, s
<1>. QED
    BY <1>1, <1>2, <1>3, <1>4, <1>5, <1>6, SlotStored DEF s

\* The tag is stored before the entry is written.
LEMMA EncodeTagStep ==
  ASSUME IInv, NEW w \in Worker, EncodeTag(w)
  PROVE  IInv'
<1>. DEFINE k == Head(ops[w]).key
            b == Bkt[k]
            s == slot_to_use[w]
            x == [slots[b][s] EXCEPT !.tag = Tag[k]]
<1>1. /\ pc[w] = "tag" /\ slots' = [slots EXCEPT ![b][s] = x]
      /\ pc' = [pc EXCEPT ![w] = "paste"]
      /\ log' = log /\ log_head' = log_head /\ populated' = populated /\ kv_lock' = kv_lock
      /\ ops' = ops /\ kv_ptr' = kv_ptr /\ puts' = puts /\ slot_to_use' = slot_to_use
    BY FieldSet DEF EncodeTag, history
<1>2. /\ kv_lock = w /\ w # Nobody /\ NewBucket = b /\ k \in Key /\ b \in Bucket /\ s \in Slot
      /\ slots[b][s] \in SlotType /\ slots[b][s].in_use /\ slots[b][s].offset <= log_head
      /\ slot_to_use = [slot_to_use EXCEPT ![w] = s]
      /\ \A i \in Slot : s < i => slots[b][i].in_use
      /\ \A i \in Slot \ {s} : slots[b][i].in_use => slots[b][i].tag # Tag[k]
    BY <1>1, SlotTaken DEF Inserting
<1>3. slots \in [Bucket -> [Slot -> SlotType]] /\ Tag[k] \in Nat
    BY <1>2, KeysAssumption DEF IInv, StateOK
<1>4. slots[b][s].offset = log_head
    BY <1>1, <1>2 DEF IInv, InsertionOK
<1>5. x \in SlotType /\ x.in_use /\ x.offset = log_head /\ x.offset <= log_head /\ x.tag = Tag[k]
  <2>. DEFINE y == slots[b][s]
              t == Tag[k]
  <2>1. y \in SlotType /\ y.in_use /\ y.offset = log_head /\ y.offset <= log_head /\ t \in Nat
      BY <1>2, <1>3, <1>4
  <2>. HIDE DEF y, t
  <2>2. /\ [y EXCEPT !.tag = t] \in SlotType /\ [y EXCEPT !.tag = t].in_use
        /\ [y EXCEPT !.tag = t].offset = y.offset /\ [y EXCEPT !.tag = t].tag = t
      BY <2>1 DEF SlotType
  <2>. QED
      BY <2>1, <2>2 DEF y, t
<1>. HIDE DEF x
<1>6. SlotSet(b, s, x)
    BY <1>1, <1>2, <1>3, <1>5, SlotUpdate
<1>7. k = Head(ops[w]).key
    OBVIOUS
<1>. HIDE DEF k, s
<1>. QED
    BY ZenonT(120), <1>1, <1>2, <1>5, <1>6, <1>7, SlotStored DEF s


\* The entry is written at the head.
LEMMA PasteStep ==
  ASSUME IInv, NEW w \in Worker, Paste(w)
  PROVE  IInv'
<1>. DEFINE k == Head(ops[w]).key
            v == Head(ops[w]).value
            b == Bkt[k]
            s == slot_to_use[w]
<1>1. /\ pc[w] = "paste" /\ log' = Pasted(k, v) /\ pc' = [pc EXCEPT ![w] = "advance"]
      /\ slots' = slots /\ log_head' = log_head /\ populated' = populated /\ kv_lock' = kv_lock
      /\ ops' = ops /\ kv_ptr' = kv_ptr /\ puts' = puts /\ slot_to_use' = slot_to_use
    BY DEF Paste, history
<1>2. /\ kv_lock = w /\ w # Nobody /\ NewKey = k /\ NewBucket = b
      /\ k \in Key /\ b \in Bucket /\ s \in Slot
      /\ slot_to_use = [slot_to_use EXCEPT ![w] = s]
    BY <1>1, SlotTaken DEF Inserting
<1>3. v \in 0..MAX_PUTS /\ StateOK
    BY <1>1, HeadOfBatch DEF IInv
<1>. HIDE DEF v
<1>4. /\ log' \in [0..(LOG_CAP + ENTRY - 1) -> Unit]
      /\ EntryIn(log', Place(log_head), k)
      /\ \A o \in Nat : \A j :
           /\ o + ENTRY <= log_head /\ HeadAfterEntry - o < LOG_CAP
           /\ EntryIn(log, Place(o), j)
           => EntryIn(log', Place(o), j)
    BY <1>1, <1>2, <1>3, EntryPasted
<1>5. /\ StateOK' /\ BatchesOK'
      /\ pc'[w] = "advance" /\ NewKey' = k /\ NewBucket' = b
  <2>1. /\ Inserting(w) /\ kv_lock' = w /\ "advance" \in {"offset", "tag", "paste", "advance"}
        /\ slot_to_use' = [slot_to_use EXCEPT ![w] = s]
      BY <1>1, <1>2 DEF Inserting
  <2>2. /\ slots' \in [Bucket -> [Slot -> SlotType]]
        /\ \A c \in Bucket, j \in Slot : slots'[c][j].offset <= log_head
      BY <1>1, <1>3 DEF StateOK
  <2>. QED
      BY <1>1, <1>2, <1>4, <2>1, <2>2, InsertionMoves
<1>6. \A c, i : Settled(c, i)' <=> Settled(c, i)
    BY <1>1, <1>2, <1>5 DEF Settled
<1>7. FreeSlotsFirst' /\ TagsOK'
    BY <1>1, <1>6 DEF IInv, FreeSlotsFirst, TagsOK
<1>8. InsertionOK'
  <2>1. /\ slots[b][s].in_use /\ slots[b][s].offset = log_head /\ slots[b][s].tag = Tag[k]
        /\ \A i \in Slot \ {s} : slots[b][i].in_use => slots[b][i].tag # Tag[k]
      BY <1>1, <1>2 DEF IInv, InsertionOK
  <2>2. kv_lock' = w /\ slot_to_use' = slot_to_use /\ slots' = slots /\ log_head' = log_head
      BY <1>1, <1>2
  <2>3. NewKey' = k /\ NewBucket' = b /\ EntryIn(log', Place(log_head), k)
      BY <1>4, <1>5
  <2>. HIDE DEF k
  <2>. QED
      BY ONLY Zenon, <2>1, <2>2, <2>3 DEF InsertionOK
<1>9. EntriesOK'
  <2>1. FutureHead' = HeadAfterEntry
      BY <1>1, <1>2, <1>5 DEF FutureHead, HeadAfterEntry
  <2>2. FutureHead = log_head
      BY <1>1, <1>2 DEF FutureHead
  <2>. SUFFICES ASSUME NEW c \in Bucket, NEW i \in Slot, slots[c][i].in_use, Settled(c, i)
                PROVE  /\ slots[c][i].offset + ENTRY <= log_head
                       /\ HeadAfterEntry - slots[c][i].offset < LOG_CAP =>
                            \E j \in Key : /\ Bkt[j] = c /\ Tag[j] = slots[c][i].tag
                                           /\ EntryIn(log', Place(slots[c][i].offset), j)
      BY <1>1, <1>6, <2>1 DEF EntriesOK
  <2>3. /\ slots[c][i].offset + ENTRY <= log_head
        /\ log_head - slots[c][i].offset < LOG_CAP =>
             \E j \in Key : /\ Bkt[j] = c /\ Tag[j] = slots[c][i].tag
                            /\ EntryIn(log, Place(slots[c][i].offset), j)
      BY <2>2 DEF IInv, EntriesOK
  <2>4. slots[c][i].offset \in Nat /\ log_head \in Nat
      BY <1>3, SlotTypes DEF StateOK
  <2>5. HeadAfterEntry - slots[c][i].offset < LOG_CAP => log_head - slots[c][i].offset < LOG_CAP
      BY <2>4, HeadGrows, HeadPast
  <2>. QED
      BY <1>4, <2>3, <2>4, <2>5
<1>. QED
    BY <1>5, <1>7, <1>8, <1>9 DEF IInv

\* The head moves past the entry and kv_lock is released: the slot is settled.
LEMMA AdvanceStep ==
  ASSUME IInv, NEW w \in Worker, Advance(w)
  PROVE  IInv'
<1>. DEFINE k == Head(ops[w]).key
            b == Bkt[k]
            s == slot_to_use[w]
            p == IF Len(ops[w]) = 1 THEN "idle" ELSE "execute"
            o == Tail(ops[w])
            q == Tail(kv_ptr[w])
<1>1. /\ pc[w] = "advance" /\ log_head' = HeadAfterEntry /\ kv_lock' = Nobody
      /\ slot_to_use' = [slot_to_use EXCEPT ![w] = 0]
      /\ slots' = slots /\ log' = log /\ populated' = populated /\ puts' = puts
      /\ ops' = [ops EXCEPT ![w] = o] /\ kv_ptr' = [kv_ptr EXCEPT ![w] = q]
      /\ pc' = [pc EXCEPT ![w] = p]
    BY DEF Advance, Respond
<1>2. /\ o \in Seq(Numbering) /\ q \in Seq(Pointer) /\ p \in {"idle", "execute"}
      /\ p = "execute" => Len(q) = Len(o) /\ o # << >>
      /\ ~ (populated < KEYS)
    BY <1>1, HeadOfBatch
<1>. HIDE DEF o, p, q
<1>3. /\ kv_lock = w /\ w # Nobody /\ NewKey = k /\ NewBucket = b
      /\ k \in Key /\ b \in Bucket /\ s \in Slot
    BY <1>1, SlotTaken DEF Inserting
<1>. HIDE DEF k
<1>4. /\ StateOK /\ BatchesOK /\ log_head \in Nat /\ HeadAfterEntry \in Nat
      /\ HeadAfterEntry >= log_head + ENTRY
    BY HeadGrows DEF IInv, StateOK
<1>5. \A c \in Bucket : \A i \in Slot :
        /\ slots[c][i].offset \in Nat
        /\ slots[c][i].offset <= HeadAfterEntry
        /\ slots[c][i].offset + ENTRY <= log_head => slots[c][i].offset + ENTRY <= HeadAfterEntry
  <2>. SUFFICES ASSUME NEW c \in Bucket, NEW i \in Slot
                PROVE  /\ slots[c][i].offset \in Nat
                       /\ slots[c][i].offset <= HeadAfterEntry
                       /\ slots[c][i].offset + ENTRY <= log_head =>
                            slots[c][i].offset + ENTRY <= HeadAfterEntry
      OBVIOUS
  <2>1. slots[c][i].offset \in Nat /\ slots[c][i].offset <= log_head
      BY <1>4, SlotTypes DEF StateOK
  <2>. QED
      BY <1>4, <2>1, HeadPast
<1>6. /\ pc' \in [Worker -> {"idle", "lookup", "execute", "offset", "tag", "paste", "advance"}]
      /\ ops' \in [Worker -> Seq(Numbering)] /\ kv_ptr' \in [Worker -> Seq(Pointer)]
      /\ slot_to_use' \in [Worker -> Slot]
      /\ pc'[w] = p /\ ops'[w] = o /\ kv_ptr'[w] = q
      /\ \A x \in Worker \ {w} : pc'[x] = pc[x] /\ ops'[x] = ops[x] /\ kv_ptr'[x] = kv_ptr[x]
  <2>1. 0 \in Slot
      BY SMTT(120), SizesOK DEF Slot
  <2>. QED
      BY <1>1, <1>2, <1>4, <2>1 DEF StateOK
<1>7. StateOK'
    BY <1>1, <1>4, <1>5, <1>6 DEF StateOK
<1>8. BatchesOK'
  <2>. SUFFICES ASSUME NEW x \in Worker
                PROVE  /\ Nobody # x /\ ~ Inserting(x)'
                       /\ pc'[x] = "lookup" => Len(kv_ptr'[x]) < Len(ops'[x])
                       /\ pc'[x] \notin {"idle", "lookup"} =>
                             Len(kv_ptr'[x]) = Len(ops'[x]) /\ ops'[x] # << >>
      BY <1>1, <1>2 DEF BatchesOK
  <2>1. CASE x = w
      BY <1>2, <1>3, <1>6, <2>1 DEF Inserting
  <2>2. CASE x # w
      BY <1>3, <1>4, <1>6, <2>2, WorkerAssumption DEF BatchesOK, Inserting
  <2>. QED
      BY <2>1, <2>2
<1>9. FreeSlotsFirst' /\ InsertionOK'
    BY <1>1 DEF IInv, FreeSlotsFirst, InsertionOK
<1>10. /\ slots[b][s].offset = log_head /\ slots[b][s].tag = Tag[k]
       /\ EntryIn(log, Place(log_head), k)
       /\ \A i \in Slot \ {s} : slots[b][i].in_use => slots[b][i].tag # Tag[k]
    BY <1>1, <1>3 DEF IInv, InsertionOK
<1>11. \A c \in Bucket : \A i \in Slot : ~ (c = b /\ i = s) => Settled(c, i)
    BY <1>3 DEF Settled
<1>12. TagsOK'
  <2>. SUFFICES ASSUME NEW c \in Bucket, NEW i \in Slot, NEW j \in Slot, slots[c][i].in_use,
                       slots[c][j].in_use, slots[c][i].tag = slots[c][j].tag
                PROVE  i = j
      BY <1>1 DEF TagsOK
  <2>1. CASE c = b /\ (i = s \/ j = s)
      BY <1>10, <2>1
  <2>2. CASE ~ (c = b /\ (i = s \/ j = s))
      BY <1>11, <2>2 DEF IInv, TagsOK
  <2>. QED
      BY <2>1, <2>2
<1>13. EntriesOK'
  <2>1. FutureHead' = HeadAfterEntry /\ FutureHead = HeadAfterEntry
      BY <1>1, <1>3 DEF FutureHead
  <2>. SUFFICES ASSUME NEW c \in Bucket, NEW i \in Slot, slots[c][i].in_use
                PROVE  /\ slots[c][i].offset + ENTRY <= HeadAfterEntry
                       /\ HeadAfterEntry - slots[c][i].offset < LOG_CAP =>
                            \E j \in Key : /\ Bkt[j] = c /\ Tag[j] = slots[c][i].tag
                                           /\ EntryIn(log, Place(slots[c][i].offset), j)
      BY <1>1, <2>1 DEF EntriesOK
  <2>2. CASE c = b /\ i = s
    <3>1. log_head + ENTRY <= HeadAfterEntry
        BY SMTT(120), <1>4, SizesOK
    <3>. QED
        BY <1>3, <1>10, <2>2, <3>1
  <2>3. CASE ~ (c = b /\ i = s)
    <3>1. Settled(c, i)
        BY <1>11, <2>3
    <3>. QED
        BY <1>5, <2>1, <3>1 DEF IInv, EntriesOK
  <2>. QED
      BY <2>2, <2>3
<1>. QED
    BY <1>7, <1>8, <1>9, <1>12, <1>13 DEF IInv


-----------------------------------------------------------------------------
(* What a GET returns.  The invariant above does not follow the values.  A  *)
(* second one does: it says which values the entries hold that a lookup can *)
(* still reach, and the entries that the workers found in their first pass. *)

LogPlace == 0..(LOG_CAP - 1)

\* What the key comparison and the read of the value see at a place: the key unit of an
\* entry of k, followed by the value unit of an entry.
EntryAt(l, p, k) ==
  /\ l[p + KEY_UNIT].part = KEY_UNIT /\ l[p + KEY_UNIT].key = k
  /\ l[p + VALUE_UNIT].part = VALUE_UNIT

ValueAt(l, p) == l[p + VALUE_UNIT].value

\* The place is not the one of an entry that an insertion has yet to write.
Written(p) == p # Place(log_head) \/ (kv_lock # Nobody /\ pc[kv_lock] = "advance")

At(k, i) == Place(slots[Bkt[k]][i].offset)

Tagged(k, i) == slots[Bkt[k]][i].in_use /\ slots[Bkt[k]][i].tag = Tag[k]

Reachable(k, i) == Tagged(k, i) /\ log_head - slots[Bkt[k]][i].offset < LOG_CAP

\* Slot i leads a lookup of k to an entry of k.
Leads(k, i) == Reachable(k, i) /\ Written(At(k, i)) /\ EntryAt(log, At(k, i), k)

\* The types of the histories.  Nothing is replaced before it is written,
\* nor before the store is filled, and what a batch started after stays true.
HistoryOK ==
  /\ done \in [Key -> SUBSET Nat] /\ superseded \in [Key -> SUBSET Nat]
  /\ known \in [Worker -> [done : [Key -> SUBSET Nat], superseded : [Key -> SUBSET Nat],
                           unwritten : SUBSET Key]]
  /\ \A k \in Key : /\ superseded[k] \subseteq done[k] /\ done[k] \subseteq 0..Len(puts)
                    /\ populated < KEYS => superseded[k] = {}
  /\ \A w \in Worker, k \in Key : /\ known[w].done[k] \subseteq done[k]
                                  /\ known[w].superseded[k] \subseteq superseded[k]

\* The bucket of a key that was inserted is full, or has a slot with its tag: no later
\* insertion takes a free slot, which would keep the tag and the offset it had.
FilledOK ==
  \A k \in Key : k >= KEYS - populated =>
    (\A i \in Slot : slots[Bkt[k]][i].in_use) \/ (\E i \in Slot : Tagged(k, i))

\* No two slots have the same tag, not even during an insertion.
AllTagsOK ==
  \A b \in Bucket : \A i, j \in Slot :
    slots[b][i].in_use /\ slots[b][j].in_use /\ slots[b][i].tag = slots[b][j].tag => i = j

IsPut(w, i) == i \in DOMAIN ops[w] /\ ops[w][i].opcode = "PUT"

\* The PUTs still to be executed write values of their own, not yet done.
PendingOK ==
  /\ \A w \in Worker : \A i : IsPut(w, i) =>
       /\ ops[w][i].value \in 1..Len(puts) /\ puts[ops[w][i].value] = ops[w][i].key
       /\ \A k \in Key : ops[w][i].value \notin done[k]
  /\ \A w, x \in Worker : \A i, j :
       IsPut(w, i) /\ IsPut(x, j) /\ ops[w][i].value = ops[x][j].value => w = x /\ i = j

\* An entry holds a value that was PUT to its key, or the first one.
LogOK ==
  \A p \in LogPlace, k \in Key : EntryAt(log, p, k) =>
    /\ ValueAt(log, p) \in 0..Len(puts)
    /\ ValueAt(log, p) = 0 \/ puts[ValueAt(log, p)] = k

\* No lookup finds a value that was replaced.
CurrentOK ==
  \A k \in Key, i \in Slot : Leads(k, i) => ValueAt(log, At(k, i)) \notin superseded[k]

\* What the n-th lookup of a batch found.  If the key has since got another entry, its
\* value was written after the batch started.  The entry found has a value that was not
\* replaced when the batch started, unless it was not written when it was found.
SeenOK(w, n) ==
  LET k == ops[w][n].key
      p == kv_ptr[w][n]
  IN  /\ \A i \in Slot :
           Leads(k, i) /\ At(k, i) # p => ValueAt(log, At(k, i)) \notin known[w].done[k]
      /\ p # Null /\ EntryAt(log, p, k) =>
           ValueAt(log, p) \notin known[w].superseded[k] \/ k \in known[w].unwritten

PointersOK ==
  \A w \in Worker : pc[w] # "idle" => \A n \in DOMAIN kv_ptr[w] : SeenOK(w, n)

\* An insertion is a PUT, and the value it has written is new to its batch.
WriterOK ==
  kv_lock # Nobody =>
    /\ Head(ops[kv_lock]).opcode = "PUT"
    /\ pc[kv_lock] = "advance" /\ EntryAt(log, Place(log_head), NewKey) =>
         ValueAt(log, Place(log_head)) \notin known[kv_lock].done[NewKey]

\* The inductive invariant about values.
VInv ==
  /\ HistoryOK /\ FilledOK /\ AllTagsOK /\ PendingOK /\ LogOK
  /\ CurrentOK /\ PointersOK /\ WriterOK

\* What a step that writes value v into the entry of k at place q does to the log.
Writes(q, k, v) ==
  \A p \in LogPlace, j \in Key : EntryAt(log', p, j) =>
    \/ p = q /\ j = k /\ ValueAt(log', p) = v
    \/ p # q /\ EntryAt(log, p, j) /\ ValueAt(log', p) = ValueAt(log, p)

\* Writing an entry at the head.
LEMMA PasteWrites ==
  ASSUME StateOK, NEW k \in Key, NEW v, log' = Pasted(k, v)
  PROVE  Writes(Place(log_head), k, v)
<1>. DEFINE q == Place(log_head)
            D == 0..(LOG_CAP + 2)
<1>1. q \in LogPlace /\ LOG_CAP \in Nat /\ log_head \in Nat /\ ENTRY = 3
    BY PlacesInLog, SizesOK DEF StateOK, LogPlace
<1>2. ENTRY - 1 = 2 /\ 0..(LOG_CAP + ENTRY - 1) = D
    BY SMTT(120), <1>1
<1>3. \A a \in D :
        /\ a - q \in 0..2 => log'[a].part = a - q /\ log'[a].key = k /\ log'[a].value = v
        /\ a - q \notin 0..2 => log'[a] = log[a]
  <2>1. log' = [a \in D |-> IF a - q \in 0..2 THEN [part |-> a - q, key |-> k, value |-> v]
                                              ELSE log[a]]
      BY <1>2 DEF Pasted, StateOK
  <2>. HIDE DEF q, D
  <2>. QED
      BY SMTT(120), <2>1
<1>. SUFFICES ASSUME NEW p \in LogPlace, NEW j \in Key, EntryAt(log', p, j)
              PROVE  \/ p = q /\ j = k /\ ValueAt(log', p) = v
                     \/ p # q /\ EntryAt(log, p, j) /\ ValueAt(log', p) = ValueAt(log, p)
    BY DEF Writes
<1>. HIDE DEF q
<1>4. /\ p + 1 \in D /\ p + 2 \in D
      /\ p = q => (p + 1) - q \in 0..2 /\ (p + 2) - q \in 0..2
      /\ p # q => (p + 1) - q # 1 /\ (p + 2) - q # 2
    BY SMTT(120), <1>1 DEF LogPlace
<1>5. log'[p + 1].part = 1 /\ log'[p + 1].key = j /\ log'[p + 2].part = 2
    BY DEF EntryAt, KEY_UNIT, VALUE_UNIT
<1>. HIDE DEF D
<1>6. CASE p = q
  <2>1. log'[p + 1].key = k /\ log'[p + 2].value = v
      BY <1>3, <1>4, <1>6
  <2>. QED
      BY <1>5, <1>6, <2>1 DEF ValueAt, VALUE_UNIT
<1>7. CASE p # q
  <2>1. log'[p + 1] = log[p + 1] /\ log'[p + 2] = log[p + 2]
      BY <1>3, <1>4, <1>5, <1>7
  <2>. QED
      BY <1>5, <1>7, <2>1 DEF EntryAt, ValueAt, KEY_UNIT, VALUE_UNIT
<1>. QED
    BY <1>6, <1>7

\* Overwriting the value of an entry.
LEMMA OverwriteWrites ==
  ASSUME StateOK, NEW q \in LogPlace, NEW k, NEW v, log[q + KEY_UNIT].key = k,
         log' = [log EXCEPT ![q + VALUE_UNIT].value = v]
  PROVE  Writes(q, k, v)
<1>. DEFINE D == 0..(LOG_CAP + 2)
            a == q + 2
<1>1. LOG_CAP \in Nat /\ ENTRY = 3
    BY SizesOK
<1>2. 0..(LOG_CAP + ENTRY - 1) = D
    BY SMTT(120), <1>1
<1>3. log \in [D -> Unit]
    BY <1>2 DEF StateOK
<1>. SUFFICES ASSUME NEW p \in LogPlace, NEW j \in Key, EntryAt(log', p, j)
              PROVE  \/ p = q /\ j = k /\ ValueAt(log', p) = v
                     \/ p # q /\ EntryAt(log, p, j) /\ ValueAt(log', p) = ValueAt(log, p)
    BY DEF Writes
<1>4. a \in D /\ p + 1 \in D /\ p + 2 \in D /\ (p # q => p + 2 # a)
    BY SMTT(120), <1>1 DEF LogPlace
<1>5. log' = [log EXCEPT ![a] = [log[a] EXCEPT !.value = v]]
    BY SMTT(120) DEF VALUE_UNIT
<1>. HIDE DEF a, D
<1>6. log[a] \in Unit
    BY <1>3, <1>4
<1>7. /\ [log[a] EXCEPT !.value = v].part = log[a].part
      /\ [log[a] EXCEPT !.value = v].key = log[a].key
      /\ [log[a] EXCEPT !.value = v].value = v
  <2>. DEFINE u == log[a]
  <2>1. u \in Unit
      BY <1>6
  <2>. HIDE DEF u
  <2>2. /\ [u EXCEPT !.value = v].part = u.part
        /\ [u EXCEPT !.value = v].key = u.key
        /\ [u EXCEPT !.value = v].value = v
      BY <2>1 DEF Unit
  <2>. QED
      BY <2>2 DEF u
<1>8. /\ log'[a].value = v
      /\ \A c \in D : /\ log'[c].part = log[c].part /\ log'[c].key = log[c].key
                      /\ c # a => log'[c] = log[c]
    BY <1>3, <1>4, <1>5, <1>7
<1>9. EntryAt(log, p, j)
    BY <1>4, <1>8 DEF EntryAt, KEY_UNIT, VALUE_UNIT
<1>10. CASE p = q
    BY <1>8, <1>9, <1>10 DEF EntryAt, ValueAt, VALUE_UNIT, a
<1>11. CASE p # q
    BY <1>4, <1>8, <1>9, <1>11 DEF ValueAt, VALUE_UNIT
<1>. QED
    BY <1>10, <1>11

\* A step that changes no value.
LEMMA NothingWritten ==
  ASSUME log' = log, NEW k, NEW v
  PROVE  Writes(Null, k, v)
<1>1. \A p \in LogPlace : p # Null
    BY SMTT(120), SizesOK DEF LogPlace, Null
<1>. QED
    BY <1>1 DEF Writes

\* A value that no PUT has written yet.
Fresh(v) == \A k \in Key : v \notin done[k]

\* No value is one of them.
LEMMA NullFresh == ASSUME VInv PROVE Fresh(Null)
<1>1. \A S : S \subseteq Nat => Null \notin S
  <2>1. Null \notin Nat
      BY SMTT(120) DEF Null
  <2>. QED
      BY <2>1
<1>. QED
    BY <1>1 DEF VInv, HistoryOK, Fresh

\* Where a lookup can lead after a step: to where it led before, or to the new value v.
LeadsFrom(v) ==
  \A k \in Key, i \in Slot : Leads(k, i)' =>
    \/ ValueAt(log', At(k, i)') = v
    \/ Leads(k, i) /\ At(k, i)' = At(k, i) /\ ValueAt(log', At(k, i)') = ValueAt(log, At(k, i))

\* A slot, and the place it leads to.
LEMMA PlaceOfSlot ==
  ASSUME StateOK, NEW k \in Key, NEW i \in Slot
  PROVE  /\ Bkt[k] \in Bucket /\ slots[Bkt[k]][i].offset \in Nat /\ At(k, i) \in LogPlace
<1>1. Bkt[k] \in Bucket
    BY KeysAssumption DEF Bucket, Range
<1>2. slots[Bkt[k]][i].offset \in Nat
    BY <1>1, SlotTypes
<1>. QED
    BY <1>1, <1>2, PlacesInLog DEF At, LogPlace

\* A step that leaves the head alone, and every slot that leads to a written entry.
LEMMA LeadsKept ==
  ASSUME StateOK, log_head' = log_head, NEW q, NEW j, NEW v, Writes(q, j, v),
         \A p : Written(p)' => Written(p) \/ p = q,
         \A k \in Key, i \in Slot :
           slots'[Bkt[k]][i] = slots[Bkt[k]][i] \/ ~ Written(At(k, i))'
  PROVE  LeadsFrom(v)
<1>. SUFFICES ASSUME NEW k \in Key, NEW i \in Slot, Leads(k, i)'
              PROVE  \/ ValueAt(log', At(k, i)') = v
                     \/ /\ Leads(k, i) /\ At(k, i)' = At(k, i)
                        /\ ValueAt(log', At(k, i)') = ValueAt(log, At(k, i))
    BY DEF LeadsFrom
<1>1. Reachable(k, i)' /\ Written(At(k, i))' /\ EntryAt(log', At(k, i)', k)
    BY DEF Leads
<1>2. slots'[Bkt[k]][i] = slots[Bkt[k]][i]
    BY <1>1
<1>3. At(k, i)' = At(k, i) /\ Reachable(k, i)
    BY <1>1, <1>2 DEF At, Place, Reachable, Tagged
<1>4. Written(At(k, i)) \/ At(k, i) = q
    BY <1>1, <1>3 DEF Written
<1>. QED
    BY <1>1, <1>3, <1>4, PlaceOfSlot DEF Writes, Leads

\* A lookup finds the place a slot with the tag leads to, unless the head has wrapped
\* around it.
LEMMA LookupFinds ==
  ASSUME StateOK, NEW k \in Key, Lookup(k) # Null
  PROVE  \E i \in Slot : Reachable(k, i) /\ Lookup(k) = At(k, i)
<1>. DEFINE b == Bkt[k]
            M == {i \in Slot : slots[b][i].in_use /\ slots[b][i].tag = Tag[k]}
            o == slots[b][Min(M)].offset
<1>1. M # {} /\ ~ (log_head - o >= LOG_CAP) /\ Lookup(k) = Place(o)
    BY DEF Lookup
<1>2. M \subseteq Slot
    OBVIOUS
<1>. HIDE DEF M
<1>3. Min(M) \in M /\ Min(M) \in Slot
    BY <1>1, <1>2, Extremes
<1>4. o \in Nat /\ log_head \in Nat
    BY <1>3, PlaceOfSlot DEF StateOK
<1>5. log_head - o < LOG_CAP
  <2>. HIDE DEF o
  <2>. QED
      BY SMTT(120), <1>1, <1>4, SizesOK
<1>. QED
    BY <1>1, <1>3, <1>5 DEF M, Reachable, Tagged, At

\* No other slot has the tag: a lookup finds the entry a slot leads to.
LEMMA LookupLeads ==
  ASSUME StateOK, AllTagsOK, NEW k \in Key, NEW i \in Slot, Reachable(k, i)
  PROVE  Lookup(k) = At(k, i)
<1>. DEFINE b == Bkt[k]
            M == {m \in Slot : slots[b][m].in_use /\ slots[b][m].tag = Tag[k]}
            o == slots[b][Min(M)].offset
<1>1. Lookup(k) = IF M = {} \/ log_head - o >= LOG_CAP THEN Null ELSE Place(o)
    BY DEF Lookup
<1>2. M \subseteq Slot /\ i \in M /\ log_head - slots[b][i].offset < LOG_CAP
    BY DEF Reachable, Tagged
<1>3. b \in Bucket /\ slots[b][i].offset \in Nat /\ log_head \in Nat
    BY PlaceOfSlot DEF StateOK
<1>4. \A m \in M : m = i
    BY <1>2, <1>3 DEF AllTagsOK
<1>. HIDE DEF M
<1>5. Min(M) = i
    BY <1>2, <1>4, Extremes
<1>6. ~ (log_head - o >= LOG_CAP)
  <2>. DEFINE h == slots[b][i].offset
  <2>1. h \in Nat /\ log_head - h < LOG_CAP /\ o = h
      BY <1>2, <1>3, <1>5
  <2>. HIDE DEF h, o
  <2>. QED
      BY SMTT(120), <1>3, <2>1, SizesOK
<1>. QED
    BY <1>1, <1>2, <1>5, <1>6 DEF At

\* The operation whose lookup was made n-th.
LEMMA OpOfPointer ==
  ASSUME IInv, NEW w \in Worker, pc[w] # "idle", NEW n \in DOMAIN kv_ptr[w]
  PROVE  /\ n \in DOMAIN ops[w] /\ ops[w][n].key \in Key /\ kv_ptr[w][n] \in Pointer
         /\ n \in 1..Len(kv_ptr[w])
<1>1. ops[w] \in Seq(Numbering) /\ kv_ptr[w] \in Seq(Pointer)
    BY DEF IInv, StateOK
<1>2. /\ DOMAIN ops[w] = 1..Len(ops[w]) /\ DOMAIN kv_ptr[w] = 1..Len(kv_ptr[w])
      /\ Len(ops[w]) \in Nat /\ Len(kv_ptr[w]) \in Nat
    BY <1>1, LenProperties
<1>3. Len(kv_ptr[w]) < Len(ops[w]) \/ Len(kv_ptr[w]) = Len(ops[w])
    BY DEF IInv, BatchesOK
<1>4. n \in 1..Len(ops[w])
    BY SMTT(120), <1>2, <1>3
<1>5. ops[w][n] \in Numbering /\ kv_ptr[w][n] \in Pointer
    BY <1>1, <1>2, <1>4, ElementOfSeq
<1>. QED
    BY <1>2, <1>4, <1>5, KeysAssumption DEF Numbering

\* The n-th pointer of worker w after a step is one it had, for the same key.
PointerFrom(w, n) ==
  /\ pc[w] # "idle"
  /\ known'[w].done = known[w].done /\ known'[w].superseded = known[w].superseded
  /\ known[w].unwritten \subseteq known'[w].unwritten
  /\ \E m \in DOMAIN kv_ptr[w] :
       kv_ptr'[w][n] = kv_ptr[w][m] /\ ops'[w][n].key = ops[w][m].key

\* What is known of a pointer stays true when a value is written.
LEMMA SeenKept ==
  ASSUME IInv, VInv, NEW q, NEW j, NEW v, Fresh(v), LeadsFrom(v), Writes(q, j, v),
         NEW w \in Worker, NEW n, PointerFrom(w, n)
  PROVE  SeenOK(w, n)'
<1>1. PICK m \in DOMAIN kv_ptr[w] :
        kv_ptr'[w][n] = kv_ptr[w][m] /\ ops'[w][n].key = ops[w][m].key
    BY DEF PointerFrom
<1>2. /\ pc[w] # "idle" /\ known'[w].done = known[w].done
      /\ known'[w].superseded = known[w].superseded
      /\ known[w].unwritten \subseteq known'[w].unwritten
    BY DEF PointerFrom
<1>3. PICK k \in Key, p \in Pointer : k = ops[w][m].key /\ p = kv_ptr[w][m]
    BY <1>2, OpOfPointer
<1>4. /\ \A i \in Slot :
           Leads(k, i) /\ At(k, i) # p => ValueAt(log, At(k, i)) \notin known[w].done[k]
      /\ p # Null /\ EntryAt(log, p, k) =>
           ValueAt(log, p) \notin known[w].superseded[k] \/ k \in known[w].unwritten
    BY <1>2, <1>3 DEF VInv, PointersOK, SeenOK
<1>5. v \notin known[w].done[k] /\ v \notin known[w].superseded[k]
  <2>1. /\ superseded[k] \subseteq done[k] /\ known[w].done[k] \subseteq done[k]
        /\ known[w].superseded[k] \subseteq superseded[k]
      BY <1>3 DEF VInv, HistoryOK
  <2>2. v \notin done[k]
      BY <1>3 DEF Fresh
  <2>. QED
      BY <2>1, <2>2
<1>6. ASSUME NEW i \in Slot, Leads(k, i)', At(k, i)' # p
      PROVE  ValueAt(log', At(k, i)') \notin known[w].done[k]
    BY <1>3, <1>4, <1>5, <1>6 DEF LeadsFrom
<1>7. ASSUME p # Null, EntryAt(log', p, k)
      PROVE  ValueAt(log', p) \notin known[w].superseded[k] \/ k \in known[w].unwritten
  <2>1. p \in LogPlace
      BY <1>3, <1>7 DEF Pointer, LogPlace
  <2>. QED
      BY <1>3, <1>4, <1>5, <1>7, <2>1 DEF Writes
<1>8. kv_ptr'[w][n] = p /\ ops'[w][n].key = k
    BY <1>1, <1>3
<1>. QED
    BY <1>2, <1>6, <1>7, <1>8 DEF SeenOK

\* What a lookup finds stays current when a new value is written.
LEMMA CurrentKept ==
  ASSUME VInv, NEW v, Fresh(v), LeadsFrom(v), superseded' = superseded
  PROVE  CurrentOK'
<1>1. \A k \in Key : v \notin superseded[k]
    BY DEF VInv, HistoryOK, Fresh
<1>. QED
    BY <1>1 DEF VInv, CurrentOK, LeadsFrom

\* The PUTs submitted so far stay.
PutsStay ==
  \A n \in 0..Len(puts) : n \in 0..Len(puts') /\ (n # 0 => puts'[n] = puts[n])

\* Every entry holds a value of its key when a PUT to k writes one.
LEMMA LogKept ==
  ASSUME VInv, PutsStay, NEW q, NEW k, NEW v, Writes(q, k, v),
         q \in LogPlace => v \in 0..Len(puts') /\ (v = 0 \/ puts'[v] = k)
  PROVE  LogOK'
<1>. SUFFICES ASSUME NEW p \in LogPlace, NEW j \in Key, EntryAt(log', p, j)
              PROVE  /\ ValueAt(log', p) \in 0..Len(puts')
                     /\ ValueAt(log', p) = 0 \/ puts'[ValueAt(log', p)] = j
    BY DEF LogOK
<1>1. CASE p = q /\ j = k /\ ValueAt(log', p) = v
    BY <1>1
<1>2. CASE EntryAt(log, p, j) /\ ValueAt(log', p) = ValueAt(log, p)
    BY <1>2 DEF VInv, LogOK, PutsStay
<1>. QED
    BY <1>1, <1>2 DEF Writes

\* An insertion under way at a worker that the step does not concern.
LEMMA WriterKept ==
  ASSUME IInv, VInv, NEW q, NEW j, NEW v, Fresh(v), Writes(q, j, v),
         kv_lock' = kv_lock, log_head' = log_head,
         kv_lock # Nobody => /\ ops'[kv_lock] = ops[kv_lock] /\ pc'[kv_lock] = pc[kv_lock]
                             /\ known'[kv_lock] = known[kv_lock]
  PROVE  WriterOK'
<1>. SUFFICES ASSUME kv_lock # Nobody
              PROVE  /\ Head(ops[kv_lock]).opcode = "PUT"
                     /\ pc[kv_lock] = "advance" /\ EntryAt(log', Place(log_head), NewKey) =>
                          ValueAt(log', Place(log_head)) \notin known[kv_lock].done[NewKey]
    BY DEF WriterOK, NewKey, Place
<1>1. /\ Head(ops[kv_lock]).opcode = "PUT"
      /\ pc[kv_lock] = "advance" /\ EntryAt(log, Place(log_head), NewKey) =>
           ValueAt(log, Place(log_head)) \notin known[kv_lock].done[NewKey]
    BY DEF VInv, WriterOK
<1>2. kv_lock \in Worker /\ Inserting(kv_lock) /\ log_head \in Nat
    BY DEF IInv, StateOK, BatchesOK
<1>3. NewKey \in Key /\ Place(log_head) \in LogPlace
    BY <1>2, SlotTaken, PlacesInLog DEF LogPlace
<1>4. v \notin known[kv_lock].done[NewKey]
    BY <1>2, <1>3 DEF VInv, HistoryOK, Fresh
<1>. QED
    BY <1>1, <1>3, <1>4 DEF Writes

\* A worker that answers an operation: the places of its batch move up by one.
MovedUp(w) ==
  /\ \A n : n \in DOMAIN ops'[w] => n + 1 \in DOMAIN ops[w] /\ ops'[w][n] = ops[w][n + 1]
  /\ \A n : n \in DOMAIN kv_ptr'[w] =>
       n + 1 \in DOMAIN kv_ptr[w] /\ kv_ptr'[w][n] = kv_ptr[w][n + 1]
  /\ \A n : n \in DOMAIN ops'[w] => n \in Nat \ {0}
  /\ DOMAIN kv_ptr'[w] = DOMAIN ops'[w]

\* The elements of a tail.
LEMMA TailMoves ==
  ASSUME NEW S, NEW s \in Seq(S), s # << >>
  PROVE  /\ DOMAIN Tail(s) = 1..(Len(s) - 1)
         /\ \A n : n \in DOMAIN Tail(s) =>
              n + 1 \in DOMAIN s /\ Tail(s)[n] = s[n + 1] /\ n \in Nat \ {0}
<1>1. /\ Tail(s) \in Seq(S) /\ Len(Tail(s)) = Len(s) - 1 /\ Len(s) \in Nat
      /\ DOMAIN s = 1..Len(s) /\ DOMAIN Tail(s) = 1..Len(Tail(s))
      /\ \A i \in 1..Len(Tail(s)) : Tail(s)[i] = s[i + 1]
    BY HeadTailProperties, LenProperties
<1>2. \A n \in 1..(Len(s) - 1) : n + 1 \in 1..Len(s) /\ n \in Nat \ {0}
    BY SMTT(120), <1>1
<1>. QED
    BY <1>1, <1>2

\* The operation a worker executes is the first of its batch.
LEMMA FirstOp ==
  ASSUME IInv, NEW w \in Worker, pc[w] \notin {"idle", "lookup"}
  PROVE  /\ ops[w] \in Seq(Numbering) /\ ops[w] # << >> /\ kv_ptr[w] \in Seq(Pointer)
         /\ kv_ptr[w] # << >> /\ Len(kv_ptr[w]) = Len(ops[w])
         /\ 1 \in DOMAIN ops[w] /\ 1 \in DOMAIN kv_ptr[w]
         /\ Head(ops[w]) = ops[w][1] /\ Head(kv_ptr[w]) = kv_ptr[w][1]
<1>1. /\ ops[w] \in Seq(Numbering) /\ ops[w] # << >> /\ kv_ptr[w] \in Seq(Pointer)
      /\ Len(kv_ptr[w]) = Len(ops[w])
    BY DEF IInv, StateOK, BatchesOK
<1>2. kv_ptr[w] # << >> /\ 1 \in DOMAIN ops[w] /\ 1 \in DOMAIN kv_ptr[w]
  <2>1. /\ Len(ops[w]) \in Nat \ {0} /\ DOMAIN ops[w] = 1..Len(ops[w])
        /\ DOMAIN kv_ptr[w] = 1..Len(kv_ptr[w])
      BY <1>1, EmptySeq, LenProperties
  <2>2. Len(<< >>) = 0
      BY EmptySeq
  <2>3. \A n \in Nat \ {0} : 1 \in 1..n /\ n # 0
      BY SMTT(120)
  <2>. QED
      BY <1>1, <2>1, <2>2, <2>3
<1>3. Head(ops[w]) = ops[w][1] /\ Head(kv_ptr[w]) = kv_ptr[w][1]
    BY SMTT(120)
<1>. QED
    BY <1>1, <1>2, <1>3

\* Answering an operation.
LEMMA Answered ==
  ASSUME IInv, NEW w \in Worker, pc[w] \notin {"idle", "lookup"}, NEW r, Respond(w, r)
  PROVE  /\ MovedUp(w) /\ 1 \in DOMAIN ops[w] /\ 1 \in DOMAIN kv_ptr[w]
         /\ Head(ops[w]) = ops[w][1] /\ Head(kv_ptr[w]) = kv_ptr[w][1]
         /\ \A x \in Worker \ {w} : ops'[x] = ops[x] /\ kv_ptr'[x] = kv_ptr[x] /\ pc'[x] = pc[x]
         /\ puts' = puts /\ known' = known /\ populated' = populated
<1>1. /\ ops[w] \in Seq(Numbering) /\ ops[w] # << >> /\ kv_ptr[w] \in Seq(Pointer)
      /\ kv_ptr[w] # << >> /\ Len(kv_ptr[w]) = Len(ops[w])
      /\ 1 \in DOMAIN ops[w] /\ 1 \in DOMAIN kv_ptr[w]
      /\ Head(ops[w]) = ops[w][1] /\ Head(kv_ptr[w]) = kv_ptr[w][1]
    BY FirstOp
<1>2. /\ ops'[w] = Tail(ops[w]) /\ kv_ptr'[w] = Tail(kv_ptr[w])
      /\ \A x \in Worker \ {w} : ops'[x] = ops[x] /\ kv_ptr'[x] = kv_ptr[x] /\ pc'[x] = pc[x]
      /\ puts' = puts /\ known' = known /\ populated' = populated
    BY DEF Respond, IInv, StateOK
<1>3. MovedUp(w)
  <2>. DEFINE o == ops[w]
              q == kv_ptr[w]
              T == Numbering
              P == Pointer
  <2>1. o \in Seq(T) /\ o # << >> /\ q \in Seq(P) /\ q # << >> /\ Len(q) = Len(o)
      BY <1>1
  <2>2. ops'[w] = Tail(o) /\ kv_ptr'[w] = Tail(q)
      BY <1>2
  <2>. HIDE DEF o, q, T, P
  <2>3. /\ DOMAIN Tail(o) = 1..(Len(o) - 1)
        /\ \A n : n \in DOMAIN Tail(o) =>
             n + 1 \in DOMAIN o /\ Tail(o)[n] = o[n + 1] /\ n \in Nat \ {0}
      BY <2>1, TailMoves
  <2>4. /\ DOMAIN Tail(q) = 1..(Len(q) - 1)
        /\ \A n : n \in DOMAIN Tail(q) => n + 1 \in DOMAIN q /\ Tail(q)[n] = q[n + 1]
      BY <2>1, TailMoves
  <2>. QED
      BY <2>1, <2>2, <2>3, <2>4 DEF MovedUp, o, q
<1>. QED
    BY <1>1, <1>2, <1>3

\* The PUTs left in the batches when the operation at the head of one is answered: their
\* values are not the one it writes.
LEMMA PendingAnswered ==
  ASSUME VInv, NEW w \in Worker, MovedUp(w), 1 \in DOMAIN ops[w],
         \A x \in Worker \ {w} : ops'[x] = ops[x], puts' = puts,
         \A k \in Key : \A v \in done'[k] :
           v \in done[k] \/ (ops[w][1].opcode = "PUT" /\ v = ops[w][1].value)
  PROVE  PendingOK'
<1>1. \A x \in Worker : \A i : IsPut(x, i)' =>
        \E m : /\ IsPut(x, m) /\ ops'[x][i] = ops[x][m]
               /\ m = (IF x = w THEN i + 1 ELSE i) /\ (x = w => i \in Nat \ {0})
  <2>. TAKE x \in Worker
  <2>1. CASE x = w
    <3>1. \A i : IsPut(x, i)' => /\ IsPut(x, i + 1) /\ ops'[x][i] = ops[x][i + 1]
                                 /\ i \in Nat \ {0}
        BY <2>1 DEF IsPut, MovedUp
    <3>. QED
        BY <2>1, <3>1
  <2>2. CASE x # w
      BY <2>2 DEF IsPut
  <2>. QED
      BY <2>1, <2>2
<1>2. \A i \in Nat \ {0} : i + 1 # 1
    BY SMTT(120)
<1>3. \A i, j \in Nat \ {0} : i + 1 = j + 1 => i = j
    BY SMTT(120)
<1>4. ASSUME NEW x \in Worker, NEW i, IsPut(x, i)'
      PROVE  /\ ops'[x][i].value \in 1..Len(puts') /\ puts'[ops'[x][i].value] = ops'[x][i].key
             /\ \A k \in Key : ops'[x][i].value \notin done'[k]
  <2>1. PICK m : /\ IsPut(x, m) /\ ops'[x][i] = ops[x][m]
                 /\ m = (IF x = w THEN i + 1 ELSE i) /\ (x = w => i \in Nat \ {0})
      BY <1>1, <1>4
  <2>2. ~ (x = w /\ m = 1)
      BY <1>2, <2>1
  <2>3. ops[w][1].opcode = "PUT" => ops[x][m].value # ops[w][1].value
      BY <2>1, <2>2 DEF VInv, PendingOK, IsPut
  <2>4. /\ ops[x][m].value \in 1..Len(puts) /\ puts[ops[x][m].value] = ops[x][m].key
        /\ \A k \in Key : ops[x][m].value \notin done[k]
      BY <2>1 DEF VInv, PendingOK
  <2>. QED
      BY <2>1, <2>3, <2>4
<1>5. ASSUME NEW x \in Worker, NEW y \in Worker, NEW i, NEW j, IsPut(x, i)', IsPut(y, j)',
             ops'[x][i].value = ops'[y][j].value
      PROVE  x = y /\ i = j
  <2>1. PICK m : /\ IsPut(x, m) /\ ops'[x][i] = ops[x][m]
                 /\ m = (IF x = w THEN i + 1 ELSE i) /\ (x = w => i \in Nat \ {0})
      BY <1>1, <1>5
  <2>2. PICK n : /\ IsPut(y, n) /\ ops'[y][j] = ops[y][n]
                 /\ n = (IF y = w THEN j + 1 ELSE j) /\ (y = w => j \in Nat \ {0})
      BY <1>1, <1>5
  <2>3. x = y /\ m = n
      BY <1>5, <2>1, <2>2 DEF VInv, PendingOK
  <2>. QED
      BY <1>3, <2>1, <2>2, <2>3
<1>. QED
    BY <1>4, <1>5 DEF PendingOK

\* The pointers left when an operation is answered.
LEMMA PointersAnswered ==
  ASSUME NEW w \in Worker, pc[w] # "idle", MovedUp(w), known' = known,
         \A x \in Worker \ {w} : ops'[x] = ops[x] /\ kv_ptr'[x] = kv_ptr[x] /\ pc'[x] = pc[x],
         NEW x \in Worker, pc'[x] # "idle", NEW n \in DOMAIN kv_ptr'[x]
  PROVE  PointerFrom(x, n)
<1>1. CASE x = w
  <2>1. n + 1 \in DOMAIN kv_ptr[w] /\ kv_ptr'[w][n] = kv_ptr[w][n + 1]
        /\ ops'[w][n] = ops[w][n + 1]
      BY <1>1 DEF MovedUp
  <2>. QED
      BY <1>1, <2>1 DEF PointerFrom
<1>2. CASE x # w
    BY <1>2 DEF PointerFrom
<1>. QED
    BY <1>1, <1>2

\* The value the PUT at the head of a batch writes.
LEMMA HeadFresh ==
  ASSUME VInv, NEW w \in Worker, 1 \in DOMAIN ops[w], ops[w][1].opcode = "PUT"
  PROVE  /\ Fresh(ops[w][1].value) /\ ops[w][1].value \in 1..Len(puts)
         /\ puts[ops[w][1].value] = ops[w][1].key
BY DEF VInv, PendingOK, IsPut, Fresh

\* Worker w has executed a PUT of v to k.
PutDone(w, k, v) ==
  /\ done' = [done EXCEPT ![k] = @ \union {v}]
  /\ superseded' = [superseded EXCEPT ![k] = @ \union known[w].done[k]]
  /\ known' = known /\ puts' = puts /\ populated' = populated

\* An executed PUT is done, and it replaces what was done when its batch started.
LEMMA PutRecorded ==
  ASSUME IInv, VInv, NEW w \in Worker, NEW k \in Key, NEW v, v \in 1..Len(puts),
         PutDone(w, k, v), ~ (populated < KEYS)
  PROVE  /\ HistoryOK'
         /\ \A j \in Key : \A x \in done'[j] : x \in done[j] \/ x = v
         /\ \A j \in Key : \A x \in superseded'[j] :
              x \in superseded[j] \/ (j = k /\ x \in known[w].done[k])
<1>1. HistoryOK
    BY DEF VInv
<1>2. /\ \A j \in Key : done'[j] = IF j = k THEN done[k] \union {v} ELSE done[j]
      /\ \A j \in Key : superseded'[j] = IF j = k THEN superseded[k] \union known[w].done[k]
                                                  ELSE superseded[j]
    BY <1>1 DEF HistoryOK, PutDone
<1>3. v \in Nat /\ v \in 0..Len(puts)
  <2>1. Len(puts) \in Nat
      BY LenProperties DEF IInv, StateOK
  <2>. QED
      BY SMTT(120), <2>1
<1>4. known[w].done[k] \subseteq done[k] /\ done[k] \subseteq 0..Len(puts)
    BY <1>1 DEF HistoryOK
<1>5. done[k] \union {v} \in SUBSET Nat /\ superseded[k] \union known[w].done[k] \in SUBSET Nat
    BY <1>1, <1>3, <1>4 DEF HistoryOK
<1>6. done' \in [Key -> SUBSET Nat] /\ superseded' \in [Key -> SUBSET Nat]
    BY <1>1, <1>5 DEF HistoryOK, PutDone
<1>7. \A j \in Key : /\ superseded'[j] \subseteq done'[j] /\ done'[j] \subseteq 0..Len(puts)
                     /\ done[j] \subseteq done'[j] /\ superseded[j] \subseteq superseded'[j]
  <2>. TAKE j \in Key
  <2>1. superseded[j] \subseteq done[j] /\ done[j] \subseteq 0..Len(puts)
      BY <1>1 DEF HistoryOK
  <2>2. CASE j = k
    <3>1. done'[j] = done[k] \union {v} /\ superseded'[j] = superseded[k] \union known[w].done[k]
        BY <1>2, <2>2
    <3>. QED
        BY <1>3, <1>4, <2>1, <2>2, <3>1
  <2>3. CASE j # k
    <3>1. done'[j] = done[j] /\ superseded'[j] = superseded[j]
        BY <1>2, <2>3
    <3>. QED
        BY <2>1, <3>1
  <2>. QED
      BY <2>2, <2>3
<1>8. \A x \in Worker, j \in Key :
        known'[x].done[j] \subseteq done'[j] /\ known'[x].superseded[j] \subseteq superseded'[j]
    BY <1>1, <1>7 DEF HistoryOK, PutDone
<1>. QED
    BY <1>1, <1>2, <1>6, <1>7, <1>8 DEF HistoryOK, PutDone

\* A step that leaves the index alone, and the worker that inserts.
LEMMA IndexKept ==
  ASSUME IInv, VInv, NEW w \in Worker, ~ Inserting(w),
         slots' = slots, log_head' = log_head, kv_lock' = kv_lock, populated' = populated,
         \A x \in Worker \ {w} : ops'[x] = ops[x] /\ pc'[x] = pc[x] /\ known'[x] = known[x],
         NEW q, NEW j, NEW v, Writes(q, j, v), Fresh(v)
  PROVE  FilledOK' /\ AllTagsOK' /\ WriterOK' /\ LeadsFrom(v)
<1>1. /\ StateOK
      /\ kv_lock # Nobody => /\ ops'[kv_lock] = ops[kv_lock] /\ pc'[kv_lock] = pc[kv_lock]
                             /\ known'[kv_lock] = known[kv_lock]
    BY NotInserting DEF IInv, StateOK
<1>2. FilledOK' /\ AllTagsOK'
    BY DEF VInv, FilledOK, AllTagsOK, Tagged
<1>3. LeadsFrom(v)
  <2>1. \A p : Written(p)' => Written(p) \/ p = q
      BY <1>1 DEF Written, Place
  <2>. QED
      BY <1>1, <2>1, LeadsKept
<1>4. WriterOK'
    BY <1>1, WriterKept
<1>. QED
    BY <1>2, <1>3, <1>4

\* A worker learns which of its lookups found an entry that is not written.
LEMMA UnwrittenNoted ==
  ASSUME HistoryOK, NEW w \in Worker, NEW U \in SUBSET Key,
         known' = [known EXCEPT ![w].unwritten = @ \union U]
  PROVE  /\ known' \in [Worker -> [done : [Key -> SUBSET Nat], superseded : [Key -> SUBSET Nat],
                                   unwritten : SUBSET Key]]
         /\ \A x \in Worker : /\ known'[x].done = known[x].done
                              /\ known'[x].superseded = known[x].superseded
                              /\ known[x].unwritten \subseteq known'[x].unwritten
                              /\ x # w => known'[x] = known[x]
         /\ U \subseteq known'[w].unwritten
<1>. DEFINE K == [done : [Key -> SUBSET Nat], superseded : [Key -> SUBSET Nat],
                  unwritten : SUBSET Key]
            y == known[w]
            z == [known[w] EXCEPT !.unwritten = @ \union U]
<1>1. known \in [Worker -> K] /\ y \in K
    BY DEF HistoryOK
<1>2. known' = [known EXCEPT ![w] = z]
    OBVIOUS
<1>3. z = [y EXCEPT !.unwritten = y.unwritten \union U]
    OBVIOUS
<1>. HIDE DEF y, z
<1>4. /\ z \in K /\ z.done = y.done /\ z.superseded = y.superseded
      /\ z.unwritten = y.unwritten \union U
  <2>1. y.unwritten \union U \in SUBSET Key
      BY <1>1
  <2>. QED
      BY <1>1, <1>3, <2>1
<1>. HIDE DEF K
<1>5. known' \in [Worker -> K] /\ known'[w] = z /\ \A x \in Worker : x # w => known'[x] = known[x]
    BY <1>1, <1>2, <1>4
<1>6. \A x \in Worker : /\ known'[x].done = known[x].done
                        /\ known'[x].superseded = known[x].superseded
                        /\ known[x].unwritten \subseteq known'[x].unwritten
                        /\ x # w => known'[x] = known[x]
  <2>. TAKE x \in Worker
  <2>1. CASE x = w
      BY <1>4, <1>5, <2>1 DEF y
  <2>2. CASE x # w
      BY <1>5, <2>2
  <2>. QED
      BY <2>1, <2>2
<1>. QED
    BY <1>4, <1>5, <1>6 DEF K

\* The first pass of a batch looks up one more operation.
LEMMA LookupValues ==
  ASSUME IInv, VInv, NEW w \in Worker, LookupOne(w)
  PROVE  VInv'
<1>1. /\ pc[w] = "lookup" /\ ops' = ops /\ slots' = slots /\ log' = log /\ log_head' = log_head
      /\ kv_lock' = kv_lock /\ populated' = populated /\ puts' = puts /\ done' = done
      /\ superseded' = superseded
    BY DEF LookupOne, index
<1>2. /\ ops[w] \in Seq(Numbering) /\ kv_ptr[w] \in Seq(Pointer) /\ StateOK
      /\ Len(kv_ptr[w]) < Len(ops[w])
    BY <1>1 DEF IInv, StateOK, BatchesOK
<1>3. PICK l \in Nat : l = Len(kv_ptr[w]) /\ l + 1 \in 1..Len(ops[w])
  <2>1. Len(kv_ptr[w]) \in Nat /\ Len(ops[w]) \in Nat
      BY <1>2, LenProperties
  <2>2. Len(kv_ptr[w]) + 1 \in 1..Len(ops[w])
      BY SMTT(120), <1>2, <2>1
  <2>. QED
      BY <2>1, <2>2
<1>4. PICK k \in Key : k = ops[w][l + 1].key
  <2>1. ops[w][l + 1] \in Numbering
      BY <1>2, <1>3, ElementOfSeq
  <2>. QED
      BY <2>1, KeysAssumption DEF Numbering
<1>. DEFINE U == {j \in {k} : Lookup(j) = Place(log_head)}
<1>5. /\ kv_ptr' = [kv_ptr EXCEPT ![w] = Append(@, Lookup(k))]
      /\ known' = [known EXCEPT ![w].unwritten = @ \union U]
      /\ \A x \in Worker \ {w} : pc'[x] = pc[x]
    BY <1>3, <1>4 DEF LookupOne, IInv, StateOK
<1>6. U \in SUBSET Key /\ HistoryOK
    BY DEF VInv
<1>7. /\ known' \in [Worker -> [done : [Key -> SUBSET Nat], superseded : [Key -> SUBSET Nat],
                                unwritten : SUBSET Key]]
      /\ \A x \in Worker : /\ known'[x].done = known[x].done
                           /\ known'[x].superseded = known[x].superseded
                           /\ known[x].unwritten \subseteq known'[x].unwritten
                           /\ x # w => known'[x] = known[x]
      /\ U \subseteq known'[w].unwritten
  <2>. HIDE DEF U
  <2>. QED
      BY <1>5, <1>6, UnwrittenNoted
<1>8. HistoryOK'
    BY <1>1, <1>6, <1>7 DEF HistoryOK
<1>9. Writes(Null, 0, Null) /\ Fresh(Null) /\ ~ Inserting(w)
    BY <1>1, NothingWritten, NullFresh DEF Inserting
<1>10. FilledOK' /\ AllTagsOK' /\ WriterOK' /\ LeadsFrom(Null)
    BY <1>1, <1>5, <1>7, <1>9, IndexKept
<1>11. CurrentOK' /\ LogOK' /\ PendingOK'
    BY <1>1, <1>9, <1>10, CurrentKept DEF VInv, LogOK, PendingOK, IsPut
<1>12. /\ kv_ptr'[w] \in Seq(Pointer) /\ DOMAIN kv_ptr'[w] = 1..(l + 1)
       /\ \A n \in 1..l : kv_ptr'[w][n] = kv_ptr[w][n]
       /\ kv_ptr'[w][l + 1] = Lookup(k) /\ DOMAIN kv_ptr[w] = 1..l
       /\ \A x \in Worker \ {w} : kv_ptr'[x] = kv_ptr[x]
  <2>. DEFINE s == kv_ptr[w]
              e == Lookup(k)
              P == Pointer
  <2>1. s \in Seq(P) /\ e \in P
      BY <1>2, LookupInLog
  <2>2. kv_ptr'[w] = Append(s, e) /\ \A x \in Worker \ {w} : kv_ptr'[x] = kv_ptr[x]
      BY <1>5 DEF IInv, StateOK
  <2>3. l = Len(s)
      BY <1>3
  <2>. HIDE DEF s, e, P
  <2>4. /\ Append(s, e) \in Seq(P) /\ Len(Append(s, e)) = Len(s) + 1
        /\ \A i \in 1..Len(s) : Append(s, e)[i] = s[i]
        /\ Append(s, e)[Len(s) + 1] = e
      BY SMTT(120), <2>1, AppendProperties
  <2>5. DOMAIN Append(s, e) = 1..(Len(s) + 1) /\ DOMAIN s = 1..Len(s)
      BY <2>1, <2>4, LenProperties
  <2>. QED
      BY <2>2, <2>3, <2>4, <2>5 DEF s, e, P
<1>13. SeenOK(w, l + 1)'
  <2>1. ops'[w][l + 1].key = k /\ kv_ptr'[w][l + 1] = Lookup(k)
      BY <1>1, <1>4, <1>12
  <2>2. ASSUME NEW i \in Slot, Leads(k, i)' PROVE At(k, i)' = Lookup(k)
    <3>1. Reachable(k, i) /\ At(k, i)' = At(k, i)
        BY <1>1, <2>2 DEF Leads, Reachable, Tagged, At, Place
    <3>2. AllTagsOK
        BY DEF VInv
    <3>. QED
        BY <1>2, <3>1, <3>2, LookupLeads
  <2>3. ASSUME Lookup(k) # Null, EntryAt(log, Lookup(k), k)
        PROVE  \/ ValueAt(log, Lookup(k)) \notin known'[w].superseded[k]
               \/ k \in known'[w].unwritten
    <3>1. PICK i \in Slot : Reachable(k, i) /\ Lookup(k) = At(k, i)
        BY <1>2, <2>3, LookupFinds
    <3>2. CASE Lookup(k) = Place(log_head)
        BY <1>7, <3>2
    <3>3. CASE Lookup(k) # Place(log_head)
      <4>1. Leads(k, i)
          BY <2>3, <3>1, <3>3 DEF Leads, Written
      <4>2. ValueAt(log, Lookup(k)) \notin superseded[k]
          BY <3>1, <4>1 DEF VInv, CurrentOK
      <4>. QED
          BY <1>6, <1>7, <4>2 DEF HistoryOK
    <3>. QED
        BY <3>2, <3>3
  <2>. QED
      BY <1>1, <2>1, <2>2, <2>3 DEF SeenOK
<1>14. PointersOK'
  <2>. SUFFICES ASSUME NEW x \in Worker, pc'[x] # "idle", NEW m \in DOMAIN kv_ptr'[x]
                PROVE  SeenOK(x, m)'
      BY DEF PointersOK
  <2>1. CASE x = w /\ m = l + 1
      BY <1>13, <2>1
  <2>2. CASE ~ (x = w /\ m = l + 1)
    <3>1. x = w => m \in 1..l
        BY SMTT(120), <1>12, <2>2
    <3>2. PointerFrom(x, m)
      <4>1. CASE x = w
          BY <1>1, <1>7, <1>12, <3>1, <4>1 DEF PointerFrom
      <4>2. CASE x # w
          BY <1>1, <1>5, <1>7, <1>12, <4>2 DEF PointerFrom
      <4>. QED
          BY <4>1, <4>2
    <3>. QED
        BY <1>9, <1>10, <3>2, SeenKept
  <2>. QED
      BY <2>1, <2>2
<1>. QED
    BY <1>8, <1>10, <1>11, <1>14 DEF VInv

\* A GET leaves the values alone.
LEMMA GetValues ==
  ASSUME IInv, VInv, NEW w \in Worker, GetHit(w) \/ GetMiss(w)
  PROVE  VInv'
<1>1. /\ pc[w] = "execute" /\ slots' = slots /\ log' = log /\ log_head' = log_head
      /\ kv_lock' = kv_lock /\ done' = done /\ superseded' = superseded
      /\ \E r : Respond(w, r)
    BY DEF GetHit, GetMiss, Executes, index
<1>2. /\ MovedUp(w) /\ 1 \in DOMAIN ops[w]
      /\ \A x \in Worker \ {w} : ops'[x] = ops[x] /\ kv_ptr'[x] = kv_ptr[x] /\ pc'[x] = pc[x]
      /\ puts' = puts /\ known' = known /\ populated' = populated
    BY <1>1, Answered
<1>3. Writes(Null, 0, Null) /\ Fresh(Null) /\ ~ Inserting(w)
    BY <1>1, NothingWritten, NullFresh DEF Inserting
<1>4. FilledOK' /\ AllTagsOK' /\ WriterOK' /\ LeadsFrom(Null)
    BY <1>1, <1>2, <1>3, IndexKept
<1>5. CurrentOK' /\ LogOK' /\ HistoryOK'
    BY <1>1, <1>2, <1>3, <1>4, CurrentKept DEF VInv, LogOK, HistoryOK
<1>6. PendingOK'
    BY <1>1, <1>2, PendingAnswered
<1>7. PointersOK'
  <2>. SUFFICES ASSUME NEW x \in Worker, pc'[x] # "idle", NEW n \in DOMAIN kv_ptr'[x]
                PROVE  SeenOK(x, n)'
      BY DEF PointersOK
  <2>1. PointerFrom(x, n)
      BY <1>1, <1>2, PointersAnswered
  <2>. QED
      BY <1>3, <1>4, <2>1, SeenKept
<1>. QED
    BY <1>4, <1>5, <1>6, <1>7 DEF VInv

\* A PUT to a key in the store overwrites the value of the entry its lookup found.  If
\* that is not the key's entry any more, the entry in the index is newer than the batch.
LEMMA PutHitValues ==
  ASSUME IInv, VInv, NEW w \in Worker, PutHit(w)
  PROVE  VInv'
<1>1. /\ pc[w] = "execute" /\ KeyInStore(w) /\ Head(ops[w]).opcode = "PUT"
      /\ log' = [log EXCEPT ![Head(kv_ptr[w]) + VALUE_UNIT].value = Head(ops[w]).value]
      /\ RecordPut(w) /\ Respond(w, Empty("PUT_SUCCESS"))
      /\ slots' = slots /\ log_head' = log_head /\ kv_lock' = kv_lock
    BY DEF PutHit, Executes
<1>2. /\ MovedUp(w) /\ 1 \in DOMAIN ops[w] /\ 1 \in DOMAIN kv_ptr[w]
      /\ Head(ops[w]) = ops[w][1] /\ Head(kv_ptr[w]) = kv_ptr[w][1]
      /\ \A x \in Worker \ {w} : ops'[x] = ops[x] /\ kv_ptr'[x] = kv_ptr[x] /\ pc'[x] = pc[x]
      /\ puts' = puts /\ known' = known /\ populated' = populated
    BY <1>1, Answered
<1>3. PICK k \in Key, q \in LogPlace, v \in 0..MAX_PUTS :
        k = ops[w][1].key /\ q = kv_ptr[w][1] /\ v = ops[w][1].value
  <2>1. /\ Head(ops[w]).key \in Key /\ Head(ops[w]).value \in 0..MAX_PUTS
        /\ Head(kv_ptr[w]) \in Pointer /\ Head(kv_ptr[w]) # Null
      BY <1>1, HeadOfBatch DEF KeyInStore
  <2>. QED
      BY <1>2, <2>1 DEF Pointer, LogPlace
<1>4. Fresh(v) /\ v \in 1..Len(puts) /\ puts[v] = k
    BY <1>1, <1>2, <1>3, HeadFresh
<1>5. Writes(q, k, v)
  <2>1. log[q + KEY_UNIT].key = k /\ log' = [log EXCEPT ![q + VALUE_UNIT].value = v] /\ StateOK
      BY <1>1, <1>2, <1>3 DEF KeyInStore, IInv
  <2>. QED
      BY <2>1, OverwriteWrites
<1>6. FilledOK' /\ AllTagsOK' /\ WriterOK' /\ LeadsFrom(v)
  <2>1. ~ Inserting(w)
      BY <1>1 DEF Inserting
  <2>. QED
      BY <1>1, <1>2, <1>4, <1>5, <2>1, IndexKept
<1>7. /\ HistoryOK'
      /\ \A j \in Key : \A x \in done'[j] : x \in done[j] \/ x = v
      /\ \A j \in Key : \A x \in superseded'[j] :
           x \in superseded[j] \/ (j = k /\ x \in known[w].done[k])
  <2>1. Head(ops[w]).key = k /\ Head(ops[w]).value = v
      BY <1>2, <1>3
  <2>2. PutDone(w, k, v)
      BY <1>1, <1>2, <2>1 DEF RecordPut, PutDone
  <2>3. ~ (populated < KEYS)
      BY <1>1, HeadOfBatch
  <2>. QED
      BY <1>4, <2>2, <2>3, PutRecorded
<1>8. PendingOK'
    BY <1>1, <1>2, <1>3, <1>7, PendingAnswered
<1>9. LogOK'
  <2>1. PutsStay
      BY <1>2 DEF PutsStay
  <2>2. v \in 0..Len(puts)
    <3>1. Len(puts) \in Nat
        BY LenProperties DEF IInv, StateOK
    <3>. QED
        BY SMTT(120), <1>4, <3>1
  <2>. QED
      BY <1>2, <1>4, <1>5, <2>1, <2>2, LogKept
<1>10. PointersOK'
  <2>. SUFFICES ASSUME NEW x \in Worker, pc'[x] # "idle", NEW n \in DOMAIN kv_ptr'[x]
                PROVE  SeenOK(x, n)'
      BY DEF PointersOK
  <2>1. PointerFrom(x, n)
      BY <1>1, <1>2, PointersAnswered
  <2>. QED
      BY <1>4, <1>5, <1>6, <2>1, SeenKept
<1>11. CurrentOK'
  <2>. SUFFICES ASSUME NEW j \in Key, NEW i \in Slot, Leads(j, i)',
                       ValueAt(log', At(j, i)') \in superseded'[j]
                PROVE  FALSE
      BY DEF CurrentOK
  <2>1. superseded[j] \subseteq done[j] /\ known[w].done[k] \subseteq done[k]
      BY DEF VInv, HistoryOK
  <2>2. ValueAt(log', At(j, i)') # v
      BY <1>4, <1>7, <2>1 DEF Fresh
  <2>3. Leads(j, i) /\ At(j, i)' = At(j, i) /\ ValueAt(log', At(j, i)') = ValueAt(log, At(j, i))
      BY <1>6, <2>2 DEF LeadsFrom
  <2>4. At(j, i) # q
    <3>1. EntryAt(log', At(j, i), j) /\ At(j, i) \in LogPlace
        BY <2>3, PlaceOfSlot DEF Leads, IInv
    <3>. QED
        BY <1>5, <2>2, <2>3, <3>1 DEF Writes
  <2>5. ValueAt(log, At(j, i)) \notin superseded[j]
      BY <2>3 DEF VInv, CurrentOK
  <2>6. j = k => ValueAt(log, At(j, i)) \notin known[w].done[k]
    <3>1. SeenOK(w, 1)
        BY <1>1, <1>2 DEF VInv, PointersOK
    <3>. QED
        BY <1>3, <2>3, <2>4, <3>1 DEF SeenOK
  <2>. QED
      BY <1>7, <2>3, <2>5, <2>6
<1>. QED
    BY <1>6, <1>7, <1>8, <1>9, <1>10, <1>11 DEF VInv

\* A store of an insertion.  It leaves the batches and the histories alone.
Stores(w, p) ==
  /\ pc' = [pc EXCEPT ![w] = p] /\ kv_lock' = w /\ log_head' = log_head
  /\ ops' = ops /\ kv_ptr' = kv_ptr /\ populated' = populated
  /\ puts' = puts /\ done' = done /\ superseded' = superseded /\ known' = known

\* It keeps what is known of the values.
LEMMA StoreKeeps ==
  ASSUME IInv, VInv, NEW w \in Worker, pc[w] # "idle", NEW p, Stores(w, p),
         NEW q, NEW j, NEW v, Fresh(v), LeadsFrom(v), Writes(q, j, v),
         q \in LogPlace => v \in 0..Len(puts) /\ (v = 0 \/ puts[v] = j)
  PROVE  HistoryOK' /\ PendingOK' /\ LogOK' /\ CurrentOK' /\ PointersOK'
<1>1. /\ ops' = ops /\ kv_ptr' = kv_ptr /\ populated' = populated
      /\ puts' = puts /\ done' = done /\ superseded' = superseded /\ known' = known
      /\ \A x \in Worker \ {w} : pc'[x] = pc[x]
    BY DEF Stores, IInv, StateOK
<1>2. HistoryOK' /\ PendingOK'
  <2>1. HistoryOK'
      BY <1>1 DEF VInv, HistoryOK
  <2>2. PendingOK'
      BY SMTT(120), <1>1 DEF VInv, PendingOK, IsPut
  <2>. QED
      BY <2>1, <2>2
<1>3. LogOK'
  <2>1. PutsStay
      BY <1>1 DEF PutsStay
  <2>. QED
      BY <1>1, <2>1, LogKept
<1>4. CurrentOK'
    BY <1>1, CurrentKept
<1>5. PointersOK'
  <2>. SUFFICES ASSUME NEW x \in Worker, pc'[x] # "idle", NEW n \in DOMAIN kv_ptr'[x]
                PROVE  SeenOK(x, n)'
      BY DEF PointersOK
  <2>1. PointerFrom(x, n)
      BY <1>1 DEF PointerFrom
  <2>. QED
      BY <2>1, SeenKept
<1>. QED
    BY <1>2, <1>3, <1>4, <1>5

\* A store into a slot, before the entry is written.
LEMMA SlotStoreKeeps ==
  ASSUME IInv, VInv, NEW w \in Worker, pc[w] = "execute" \/ Inserting(w),
         NEW p \in {"offset", "tag", "paste"}, Stores(w, p), log' = log,
         kv_lock = Nobody \/ (kv_lock = w /\ pc[w] # "advance"),
         Head(ops[w]).opcode = "PUT",
         \A k \in Key, i \in Slot :
           slots'[Bkt[k]][i] = slots[Bkt[k]][i] \/ slots'[Bkt[k]][i].offset = log_head
  PROVE  HistoryOK' /\ PendingOK' /\ LogOK' /\ CurrentOK' /\ PointersOK' /\ WriterOK'
<1>1. kv_lock' = w /\ pc'[w] = p /\ log_head' = log_head /\ ops' = ops
    BY DEF Stores, IInv, StateOK
<1>2. \A a : Written(a)' <=> a # Place(log_head)
    BY <1>1 DEF Written, Place
<1>3. Writes(Null, 0, Null) /\ Fresh(Null) /\ StateOK /\ pc[w] # "idle"
    BY NothingWritten, NullFresh DEF Inserting, IInv
<1>4. LeadsFrom(Null)
  <2>1. \A a : Written(a)' => Written(a) \/ a = Null
      BY <1>2 DEF Written
  <2>2. \A k \in Key, i \in Slot :
          slots'[Bkt[k]][i] = slots[Bkt[k]][i] \/ ~ Written(At(k, i))'
      BY <1>1, <1>2 DEF Written, At, Place
  <2>. QED
      BY <1>1, <1>3, <2>1, <2>2, LeadsKept
<1>5. Null \notin LogPlace
    BY SMTT(120), SizesOK DEF Null, LogPlace
<1>6. WriterOK'
    BY <1>1 DEF WriterOK
<1>. QED
    BY <1>3, <1>4, <1>5, <1>6, StoreKeeps

\* The tags stay.
LEMMA TagsKept ==
  ASSUME VInv, populated' = populated,
         \A c \in Bucket, i \in Slot : /\ slots'[c][i].in_use <=> slots[c][i].in_use
                                       /\ slots'[c][i].tag = slots[c][i].tag
  PROVE  FilledOK' /\ AllTagsOK'
<1>1. \A k \in Key : Bkt[k] \in Bucket
    BY KeysAssumption DEF Bucket, Range
<1>2. \A k \in Key, i \in Slot : Tagged(k, i)' <=> Tagged(k, i)
    BY <1>1 DEF Tagged
<1>3. FilledOK'
    BY <1>1, <1>2 DEF VInv, FilledOK
<1>4. AllTagsOK'
  <2>. SUFFICES ASSUME NEW b \in Bucket, NEW i \in Slot, NEW j \in Slot,
                       slots'[b][i].in_use, slots'[b][j].in_use,
                       slots'[b][i].tag = slots'[b][j].tag
                PROVE  i = j
      BY DEF AllTagsOK
  <2>1. slots[b][i].in_use /\ slots[b][j].in_use /\ slots[b][i].tag = slots[b][j].tag
      OBVIOUS
  <2>. QED
      BY <2>1 DEF VInv, AllTagsOK
<1>. QED
    BY <1>3, <1>4

\* The store is filled: an insertion takes a slot that is in use.
LEMMA SlotInUse ==
  ASSUME IInv, VInv, kv_lock = Nobody, NEW k \in Key, ~ (populated < KEYS)
  PROVE  slots[Bkt[k]][SlotToUse(k)].in_use
<1>. DEFINE b == Bkt[k]
            s == SlotToUse(k)
<1>1. /\ b \in Bucket /\ s \in Slot /\ populated \in 0..KEYS
      /\ \A i \in Slot \ {s} : slots[b][i].in_use => slots[b][i].tag # Tag[k]
    BY SlotChosen DEF IInv, StateOK
<1>2. k >= KEYS - populated
    BY SMTT(120), <1>1, SizesOK DEF Key
<1>. HIDE DEF s
<1>3. (\A i \in Slot : slots[b][i].in_use) \/ (\E i \in Slot : Tagged(k, i))
    BY <1>2 DEF VInv, FilledOK
<1>. QED
    BY <1>1, <1>3 DEF Tagged, s

\* An insertion takes kv_lock and a slot; the slot is in use already.
LEMMA InsertValues ==
  ASSUME IInv, VInv, NEW w \in Worker, Insert(w)
  PROVE  VInv'
<1>. DEFINE k == Head(ops[w]).key
            b == Bkt[k]
            s == SlotToUse(k)
            y == slots[b][s]
            x == [y EXCEPT !.in_use = TRUE]
<1>1. /\ pc[w] = "execute" /\ Head(ops[w]).opcode = "PUT" /\ kv_lock = Nobody
      /\ Stores(w, "offset") /\ log' = log
      /\ slots' = [slots EXCEPT ![b][s] = x]
    BY FieldSet DEF Insert, Executes, Stores, history
<1>2. k \in Key /\ ~ (populated < KEYS)
    BY <1>1, HeadOfBatch
<1>3. b \in Bucket /\ s \in Slot /\ StateOK /\ slots \in [Bucket -> [Slot -> SlotType]]
    BY <1>1, <1>2, SlotChosen DEF IInv, StateOK
<1>4. y.in_use
    BY <1>1, <1>2, SlotInUse
<1>5. x = y /\ x \in SlotType
  <2>1. y \in SlotType
      BY <1>3
  <2>. HIDE DEF y
  <2>2. y.in_use = TRUE
      BY <1>4
  <2>3. [y EXCEPT !.in_use = TRUE] = y
      BY <2>1, <2>2 DEF SlotType
  <2>. QED
      BY <2>1, <2>3
<1>. HIDE DEF x, s, k
<1>6. \A c \in Bucket, i \in Slot : slots'[c][i] = slots[c][i]
  <2>1. SlotSet(b, s, x)
      BY <1>1, <1>3, <1>5, SlotUpdate
  <2>. QED
      BY <1>5, <2>1 DEF SlotSet
<1>7. \A j \in Key : Bkt[j] \in Bucket
    BY KeysAssumption DEF Bucket, Range
<1>8. HistoryOK' /\ PendingOK' /\ LogOK' /\ CurrentOK' /\ PointersOK' /\ WriterOK'
    BY <1>1, <1>6, <1>7, SlotStoreKeeps
<1>9. FilledOK' /\ AllTagsOK'
    BY <1>1, <1>6, TagsKept DEF Stores
<1>. QED
    BY <1>8, <1>9 DEF VInv

\* A worker that inserts executes a PUT.
LEMMA InsertsPut ==
  ASSUME IInv, VInv, NEW w \in Worker, Inserting(w)
  PROVE  Head(ops[w]).opcode = "PUT" /\ pc[w] # "idle"
BY SlotTaken DEF VInv, WriterOK, Inserting

\* The offset is stored before the entry it leads to.
LEMMA EncodeOffsetValues ==
  ASSUME IInv, VInv, NEW w \in Worker, EncodeOffset(w)
  PROVE  VInv'
<1>. DEFINE k == Head(ops[w]).key
            b == Bkt[k]
            s == slot_to_use[w]
            y == slots[b][s]
            x == [y EXCEPT !.offset = log_head]
<1>1. /\ pc[w] = "offset" /\ log' = log /\ slots' = [slots EXCEPT ![b][s] = x]
      /\ kv_lock = w /\ k \in Key /\ b \in Bucket /\ s \in Slot /\ y \in SlotType
  <2>1. /\ pc[w] = "offset" /\ log' = log /\ slots' = [slots EXCEPT ![b][s] = x]
      BY FieldSet DEF EncodeOffset
  <2>. QED
      BY <2>1, SlotTaken DEF Inserting
<1>2. Stores(w, "tag") /\ Inserting(w)
    BY <1>1 DEF EncodeOffset, Stores, history, Inserting
<1>3. slots \in [Bucket -> [Slot -> SlotType]] /\ log_head \in Nat
    BY DEF IInv, StateOK
<1>4. x \in SlotType /\ x.offset = log_head /\ x.tag = y.tag /\ (x.in_use <=> y.in_use)
  <2>1. y \in SlotType
      BY <1>1
  <2>. HIDE DEF y
  <2>. QED
      BY <1>3, <2>1 DEF SlotType
<1>. HIDE DEF x, s, k
<1>5. SlotSet(b, s, x)
    BY <1>1, <1>3, <1>4, SlotUpdate
<1>6. \A j \in Key : Bkt[j] \in Bucket
    BY KeysAssumption DEF Bucket, Range
<1>7. HistoryOK' /\ PendingOK' /\ LogOK' /\ CurrentOK' /\ PointersOK' /\ WriterOK'
  <2>1. \A j \in Key, i \in Slot :
          slots'[Bkt[j]][i] = slots[Bkt[j]][i] \/ slots'[Bkt[j]][i].offset = log_head
      BY <1>4, <1>5, <1>6 DEF SlotSet
  <2>. QED
      BY <1>1, <1>2, <2>1, InsertsPut, SlotStoreKeeps
<1>8. FilledOK' /\ AllTagsOK'
  <2>1. \A c \in Bucket, i \in Slot : /\ slots'[c][i].in_use <=> slots[c][i].in_use
                                      /\ slots'[c][i].tag = slots[c][i].tag
      BY <1>4, <1>5 DEF SlotSet
  <2>. QED
      BY <1>2, <2>1, TagsKept DEF Stores
<1>. QED
    BY <1>7, <1>8 DEF VInv

\* The tag is stored before the entry is written.  If the bucket is not full, the slot
\* has the tag already.
LEMMA EncodeTagValues ==
  ASSUME IInv, VInv, NEW w \in Worker, EncodeTag(w)
  PROVE  VInv'
<1>. DEFINE k == Head(ops[w]).key
            b == Bkt[k]
            s == slot_to_use[w]
            y == slots[b][s]
            x == [y EXCEPT !.tag = Tag[k]]
<1>1. /\ pc[w] = "tag" /\ log' = log /\ slots' = [slots EXCEPT ![b][s] = x]
      /\ kv_lock = w /\ k \in Key /\ b \in Bucket /\ s \in Slot /\ y \in SlotType
      /\ w # Nobody /\ NewBucket = b /\ y.in_use
      /\ \A i \in Slot \ {s} : slots[b][i].in_use => slots[b][i].tag # Tag[k]
  <2>1. /\ pc[w] = "tag" /\ log' = log /\ slots' = [slots EXCEPT ![b][s] = x]
      BY FieldSet DEF EncodeTag
  <2>. QED
      BY <2>1, SlotTaken DEF Inserting
<1>2. Stores(w, "paste") /\ Inserting(w)
    BY <1>1 DEF EncodeTag, Stores, history, Inserting
<1>3. /\ slots \in [Bucket -> [Slot -> SlotType]] /\ Tag[k] \in Nat
      /\ populated \in 0..KEYS /\ ~ (populated < KEYS)
    BY <1>1, KeysAssumption, HeadOfBatch DEF IInv, StateOK
<1>4. y.offset = log_head
    BY <1>1 DEF IInv, InsertionOK
<1>5. x \in SlotType /\ x.offset = log_head /\ x.tag = Tag[k] /\ x.in_use
  <2>. DEFINE t == Tag[k]
  <2>1. y \in SlotType /\ t \in Nat /\ y.in_use /\ y.offset = log_head
      BY <1>1, <1>3, <1>4
  <2>2. x = [y EXCEPT !.tag = t]
      OBVIOUS
  <2>. HIDE DEF y, t, x
  <2>3. x \in SlotType /\ x.offset = log_head /\ x.tag = t /\ x.in_use
      BY <2>1, <2>2 DEF SlotType
  <2>. QED
      BY <2>3 DEF t
<1>6. k >= KEYS - populated
  <2>. HIDE DEF k
  <2>. QED
      BY SMTT(120), <1>1, <1>3, SizesOK DEF Key
<1>. HIDE DEF x, s, k
<1>7. SlotSet(b, s, x)
    BY <1>1, <1>3, <1>5, SlotUpdate
<1>8. \A j \in Key : Bkt[j] \in Bucket
    BY KeysAssumption DEF Bucket, Range
<1>9. HistoryOK' /\ PendingOK' /\ LogOK' /\ CurrentOK' /\ PointersOK' /\ WriterOK'
  <2>1. \A j \in Key, i \in Slot :
          slots'[Bkt[j]][i] = slots[Bkt[j]][i] \/ slots'[Bkt[j]][i].offset = log_head
      BY <1>5, <1>7, <1>8 DEF SlotSet
  <2>. QED
      BY <1>1, <1>2, <2>1, InsertsPut, SlotStoreKeeps
<1>10. (\A i \in Slot : slots[b][i].in_use) \/ y.tag = Tag[k]
  <2>1. (\A i \in Slot : slots[b][i].in_use) \/ (\E i \in Slot : Tagged(k, i))
      BY <1>1, <1>6 DEF VInv, FilledOK
  <2>. QED
      BY <1>1, <2>1 DEF Tagged
<1>11. FilledOK'
  <2>. SUFFICES ASSUME NEW j \in Key, j >= KEYS - populated
                PROVE  \/ \A i \in Slot : slots'[Bkt[j]][i].in_use
                       \/ \E i \in Slot : Tagged(j, i)'
      BY <1>2 DEF FilledOK, Stores
  <2>1. (\A i \in Slot : slots[Bkt[j]][i].in_use) \/ (\E i \in Slot : Tagged(j, i))
      BY DEF VInv, FilledOK
  <2>2. \A c \in Bucket, i \in Slot : slots[c][i].in_use => slots'[c][i].in_use
      BY <1>5, <1>7 DEF SlotSet
  <2>3. CASE \A i \in Slot : slots[Bkt[j]][i].in_use
      BY <1>8, <2>2, <2>3
  <2>4. CASE ~ (\A i \in Slot : slots[Bkt[j]][i].in_use)
    <3>1. PICK i \in Slot : Tagged(j, i)
        BY <2>1, <2>4
    <3>2. slots'[Bkt[j]][i].tag = slots[Bkt[j]][i].tag
        BY <1>5, <1>7, <1>8, <1>10, <2>4 DEF SlotSet
    <3>. QED
        BY <1>8, <2>2, <3>1, <3>2 DEF Tagged
  <2>. QED
      BY <2>3, <2>4
<1>12. AllTagsOK'
  <2>. SUFFICES ASSUME NEW c \in Bucket, NEW i \in Slot, NEW j \in Slot,
                       slots'[c][i].in_use, slots'[c][j].in_use,
                       slots'[c][i].tag = slots'[c][j].tag
                PROVE  i = j
      BY DEF AllTagsOK
  <2>1. CASE c = b /\ (i = s \/ j = s)
    <3>1. slots'[b][s].tag = Tag[k]
        BY <1>5, <1>7 DEF SlotSet
    <3>2. \A m \in Slot : m # s /\ slots'[b][m].in_use => slots'[b][m].tag # Tag[k]
        BY <1>1, <1>7 DEF SlotSet
    <3>. QED
        BY <2>1, <3>1, <3>2
  <2>2. CASE ~ (c = b /\ (i = s \/ j = s))
      BY <1>7, <2>2 DEF SlotSet, VInv, AllTagsOK
  <2>. QED
      BY <2>1, <2>2
<1>. QED
    BY <1>9, <1>11, <1>12 DEF VInv

\* The entry is written at the head.
LEMMA PasteValues ==
  ASSUME IInv, VInv, NEW w \in Worker, Paste(w)
  PROVE  VInv'
<1>1. /\ pc[w] = "paste" /\ log' = Pasted(Head(ops[w]).key, Head(ops[w]).value)
      /\ slots' = slots /\ kv_lock' = kv_lock /\ pc' = [pc EXCEPT ![w] = "advance"]
      /\ Inserting(w)
    BY DEF Paste, Inserting
<1>2. /\ kv_lock = w /\ w # Nobody /\ Head(ops[w]).opcode = "PUT" /\ pc[w] # "idle"
      /\ Head(ops[w]).key \in Key /\ StateOK /\ log_head \in Nat
    BY <1>1, SlotTaken, InsertsPut DEF IInv, StateOK
<1>3. Stores(w, "advance")
    BY <1>1, <1>2 DEF Paste, Stores, history
<1>4. PICK k \in Key, q \in LogPlace, v \in 0..MAX_PUTS :
        k = Head(ops[w]).key /\ q = Place(log_head) /\ v = Head(ops[w]).value
    BY <1>1, <1>2, HeadOfBatch, PlacesInLog DEF LogPlace
<1>5. Fresh(v) /\ v \in 1..Len(puts) /\ puts[v] = k
  <2>1. 1 \in DOMAIN ops[w] /\ Head(ops[w]) = ops[w][1]
      BY <1>1, FirstOp
  <2>. QED
      BY <1>2, <1>4, <2>1, HeadFresh
<1>6. Writes(q, k, v)
    BY <1>1, <1>2, <1>4, PasteWrites
<1>7. LeadsFrom(v)
  <2>1. \A a : Written(a)' => Written(a) \/ a = q
      BY <1>4 DEF Written
  <2>. QED
      BY <1>1, <1>2, <1>3, <1>6, <2>1, LeadsKept DEF Stores
<1>8. HistoryOK' /\ PendingOK' /\ LogOK' /\ CurrentOK' /\ PointersOK'
  <2>1. v \in 0..Len(puts)
    <3>1. Len(puts) \in Nat
        BY LenProperties DEF IInv, StateOK
    <3>. QED
        BY SMTT(120), <1>5, <3>1
  <2>. QED
      BY <1>2, <1>3, <1>5, <1>6, <1>7, <2>1, StoreKeeps
<1>9. FilledOK' /\ AllTagsOK'
    BY <1>1, <1>3, TagsKept DEF Stores
<1>10. WriterOK'
  <2>1. /\ kv_lock' = w /\ ops' = ops /\ known' = known /\ Place(log_head)' = q /\ NewKey' = k
      BY <1>1, <1>2, <1>3, <1>4 DEF Stores, Place, NewKey
  <2>2. known[w].done[k] \subseteq done[k]
      BY DEF VInv, HistoryOK
  <2>3. EntryAt(log', q, k) => ValueAt(log', q) \notin known[w].done[k]
      BY <1>5, <1>6, <2>2 DEF Writes, Fresh
  <2>. QED
      BY <1>2, <2>1, <2>3 DEF WriterOK
<1>. QED
    BY <1>8, <1>9, <1>10 DEF VInv

\* The head moves past the entry, and the PUT is done: no other entry is found now.
LEMMA AdvanceValues ==
  ASSUME IInv, VInv, NEW w \in Worker, Advance(w)
  PROVE  VInv'
<1>1. /\ pc[w] = "advance" /\ log_head' = HeadAfterEntry /\ kv_lock' = Nobody /\ RecordPut(w)
      /\ Respond(w, Empty("PUT_SUCCESS")) /\ slots' = slots /\ log' = log /\ Inserting(w)
    BY DEF Advance, Inserting
<1>2. /\ kv_lock = w /\ w # Nobody /\ Head(ops[w]).opcode = "PUT" /\ pc[w] # "idle"
      /\ Head(ops[w]).key \in Key /\ StateOK /\ log_head \in Nat
    BY <1>1, SlotTaken, InsertsPut DEF IInv, StateOK
<1>3. /\ MovedUp(w) /\ 1 \in DOMAIN ops[w] /\ Head(ops[w]) = ops[w][1]
      /\ \A x \in Worker \ {w} : ops'[x] = ops[x] /\ kv_ptr'[x] = kv_ptr[x] /\ pc'[x] = pc[x]
      /\ puts' = puts /\ known' = known /\ populated' = populated
    BY <1>1, Answered
<1>4. PICK k \in Key, v \in 0..MAX_PUTS : k = ops[w][1].key /\ v = ops[w][1].value
    BY <1>1, <1>2, <1>3, HeadOfBatch
<1>5. Fresh(v) /\ v \in 1..Len(puts) /\ puts[v] = k
    BY <1>2, <1>3, <1>4, HeadFresh
<1>6. Writes(Null, 0, Null) /\ Fresh(Null)
    BY <1>1, NothingWritten, NullFresh
<1>7. ASSUME NEW j \in Key, NEW i \in Slot, Leads(j, i)'
      PROVE  Leads(j, i) /\ At(j, i)' = At(j, i)
  <2>1. At(j, i)' = At(j, i)
      BY <1>1 DEF At, Place
  <2>2. slots[Bkt[j]][i].offset \in Nat /\ HeadAfterEntry \in Nat /\ HeadAfterEntry >= log_head + ENTRY
      BY <1>2, PlaceOfSlot, HeadGrows
  <2>3. log_head - slots[Bkt[j]][i].offset < LOG_CAP
    <3>1. HeadAfterEntry - slots[Bkt[j]][i].offset < LOG_CAP
        BY <1>1, <1>7 DEF Leads, Reachable
    <3>. QED
        BY <1>2, <2>2, <3>1, HeadPast
  <2>4. Written(At(j, i))
      BY <1>1, <1>2 DEF Written
  <2>. QED
      BY <1>1, <1>7, <2>1, <2>3, <2>4 DEF Leads, Reachable, Tagged
<1>8. LeadsFrom(Null)
    BY <1>1, <1>7 DEF LeadsFrom
<1>9. /\ HistoryOK'
      /\ \A j \in Key : \A x \in done'[j] : x \in done[j] \/ x = v
      /\ \A j \in Key : \A x \in superseded'[j] :
           x \in superseded[j] \/ (j = k /\ x \in known[w].done[k])
  <2>1. Head(ops[w]).key = k /\ Head(ops[w]).value = v
      BY <1>3, <1>4
  <2>2. PutDone(w, k, v)
      BY <1>1, <1>3, <2>1 DEF RecordPut, PutDone
  <2>3. ~ (populated < KEYS)
      BY <1>1, HeadOfBatch
  <2>. QED
      BY <1>5, <2>2, <2>3, PutRecorded
<1>10. PendingOK'
    BY <1>2, <1>3, <1>4, <1>9, PendingAnswered
<1>11. LogOK' /\ WriterOK'
    BY <1>1, <1>3 DEF VInv, LogOK, WriterOK
<1>12. FilledOK' /\ AllTagsOK'
    BY <1>1, <1>3, TagsKept
<1>13. PointersOK'
  <2>. SUFFICES ASSUME NEW x \in Worker, pc'[x] # "idle", NEW n \in DOMAIN kv_ptr'[x]
                PROVE  SeenOK(x, n)'
      BY DEF PointersOK
  <2>1. PointerFrom(x, n)
      BY <1>2, <1>3, PointersAnswered
  <2>. QED
      BY <1>6, <1>8, <2>1, SeenKept
<1>14. CurrentOK'
  <2>. SUFFICES ASSUME NEW j \in Key, NEW i \in Slot, Leads(j, i)',
                       ValueAt(log', At(j, i)') \in superseded'[j]
                PROVE  FALSE
      BY DEF CurrentOK
  <2>1. Leads(j, i) /\ At(j, i)' = At(j, i)
      BY <1>7
  <2>2. ValueAt(log, At(j, i)) \notin superseded[j]
      BY <2>1 DEF VInv, CurrentOK
  <2>3. j = k /\ ValueAt(log, At(j, i)) \in known[w].done[k]
      BY <1>1, <1>9, <2>1, <2>2
  <2>4. NewKey = k /\ NewBucket = Bkt[k]
      BY <1>2, <1>3, <1>4 DEF NewKey, NewBucket
  <2>5. At(j, i) = Place(log_head)
    <3>1. /\ slots[Bkt[k]][slot_to_use[w]].offset = log_head
          /\ \A m \in Slot \ {slot_to_use[w]} :
               slots[Bkt[k]][m].in_use => slots[Bkt[k]][m].tag # Tag[k]
        BY <1>1, <1>2, <2>4 DEF IInv, InsertionOK
    <3>. QED
        BY <2>1, <2>3, <3>1 DEF Leads, Reachable, Tagged, At
  <2>6. EntryAt(log, Place(log_head), k)
      BY <2>1, <2>3, <2>5 DEF Leads
  <2>. QED
      BY <1>1, <1>2, <2>3, <2>4, <2>5, <2>6 DEF VInv, WriterOK
<1>. QED
    BY <1>9, <1>10, <1>11, <1>12, <1>13, <1>14 DEF VInv

\* Filling the store: a key that was inserted keeps its slot until its bucket is full.
LEMMA PopulateValues ==
  ASSUME IInv, IInv', VInv, Populate
  PROVE  VInv'
<1>1. /\ populated < KEYS /\ populated' = populated + 1 /\ kv_lock' = kv_lock /\ pc' = pc
      /\ ops' = ops /\ kv_ptr' = kv_ptr /\ puts' = puts /\ done' = done
      /\ superseded' = superseded /\ known' = known
    BY DEF Populate, history
<1>2. kv_lock = Nobody /\ StateOK /\ populated \in 0..KEYS
    BY <1>1, NobodyYet DEF IInv, StateOK
<1>3. PICK k \in Key : k = KEYS - 1 - populated
    BY SMTT(120), <1>1, <1>2, SizesOK DEF Key
<1>. DEFINE b == Bkt[k]
            s == SlotToUse(k)
            x == [in_use |-> TRUE, tag |-> Tag[k], offset |-> log_head]
<1>4. slots' = [slots EXCEPT ![b][s] = x] /\ log' = Pasted(k, 0)
    BY <1>3 DEF Populate
<1>5. /\ b \in Bucket /\ s \in Slot
      /\ slots \in [Bucket -> [Slot -> SlotType]]
      /\ (\A i \in Slot : slots[b][i].in_use) \/ slots[b][s].tag = Tag[k] \/ ~ slots[b][s].in_use
  <2>1. b \in Bucket /\ s \in Slot /\ slots \in [Bucket -> [Slot -> SlotType]]
      BY <1>2, SlotChosen DEF IInv, StateOK
  <2>. DEFINE fits == {i \in Slot : slots[b][i].tag = Tag[k] \/ ~ slots[b][i].in_use}
  <2>2. s = IF fits = {} THEN Tag[k] % SLOTS ELSE Max(fits)
      BY DEF SlotToUse
  <2>3. fits # {} => s \in fits
    <3>1. fits \subseteq Slot
        OBVIOUS
    <3>. HIDE DEF fits, s
    <3>. QED
        BY <2>2, <3>1, Extremes
  <2>. HIDE DEF s
  <2>4. CASE fits = {}
      BY <2>1, <2>4
  <2>5. CASE fits # {}
      BY <2>1, <2>3, <2>5
  <2>. QED
      BY <2>4, <2>5
<1>6. x \in SlotType /\ x.in_use /\ x.tag = Tag[k]
  <2>1. Tag[k] \in Nat /\ log_head \in Nat
      BY <1>2, KeysAssumption DEF StateOK
  <2>. QED
      BY <2>1 DEF SlotType
<1>. HIDE DEF s, x
<1>7. SlotSet(b, s, x)
    BY <1>4, <1>5, <1>6, SlotUpdate
<1>8. FilledOK'
  <2>. SUFFICES ASSUME NEW j \in Key, j >= KEYS - populated'
                PROVE  \/ \A i \in Slot : slots'[Bkt[j]][i].in_use
                       \/ \E i \in Slot : Tagged(j, i)'
      BY DEF FilledOK
  <2>1. Bkt[j] \in Bucket
      BY KeysAssumption DEF Bucket, Range
  <2>2. CASE j = k
      BY <1>5, <1>6, <1>7, <2>2 DEF SlotSet, Tagged
  <2>3. CASE j # k
    <3>1. j >= KEYS - populated
        BY SMTT(120), <1>1, <1>2, <1>3, <2>3, SizesOK DEF Key
    <3>2. (\A i \in Slot : slots[Bkt[j]][i].in_use) \/ (\E i \in Slot : Tagged(j, i))
        BY <3>1 DEF VInv, FilledOK
    <3>3. \A i \in Slot : slots[Bkt[j]][i].in_use => slots'[Bkt[j]][i].in_use
        BY <1>6, <1>7, <2>1 DEF SlotSet
    <3>4. CASE \A i \in Slot : slots[Bkt[j]][i].in_use
        BY <3>3, <3>4
    <3>5. CASE ~ (\A i \in Slot : slots[Bkt[j]][i].in_use)
      <4>1. PICK i \in Slot : Tagged(j, i)
          BY <3>2, <3>5
      <4>2. slots'[Bkt[j]][i].tag = slots[Bkt[j]][i].tag
        <5>1. CASE Bkt[j] = b /\ i = s
          <6>1. slots[b][s].tag = Tag[k]
              BY <1>5, <3>5, <4>1, <5>1 DEF Tagged
          <6>. QED
              BY <1>6, <1>7, <5>1, <6>1 DEF SlotSet
        <5>2. CASE ~ (Bkt[j] = b /\ i = s)
            BY <1>7, <2>1, <5>2 DEF SlotSet
        <5>. QED
            BY <5>1, <5>2
      <4>. QED
          BY <3>3, <4>1, <4>2 DEF Tagged
    <3>. QED
        BY <3>4, <3>5
  <2>. QED
      BY <2>2, <2>3
<1>9. AllTagsOK'
    BY <1>1, <1>2 DEF IInv, TagsOK, Settled, AllTagsOK
<1>10. LogOK'
  <2>1. PutsStay
      BY <1>1 DEF PutsStay
  <2>2. Writes(Place(log_head), k, 0)
      BY <1>2, <1>4, PasteWrites
  <2>3. 0 \in 0..Len(puts')
    <3>1. Len(puts') \in Nat
        BY <1>1, LenProperties DEF IInv, StateOK
    <3>. QED
        BY SMTT(120), <3>1
  <2>. QED
      BY <2>1, <2>2, <2>3, LogKept
<1>11. HistoryOK' /\ CurrentOK'
  <2>1. HistoryOK
      BY DEF VInv
  <2>2. \A j \in Key : superseded[j] = {}
      BY <1>1, <2>1 DEF HistoryOK
  <2>. QED
      BY <1>1, <2>1, <2>2 DEF HistoryOK, CurrentOK
<1>12. PendingOK'
    BY SMTT(120), <1>1 DEF VInv, PendingOK, IsPut
<1>13. PointersOK' /\ WriterOK'
  <2>1. \A w \in Worker : pc[w] = "idle"
      BY <1>1 DEF IInv, BatchesOK
  <2>. QED
      BY <1>1, <1>2, <2>1 DEF PointersOK, WriterOK
<1>. QED
    BY <1>8, <1>9, <1>10, <1>11, <1>12, <1>13 DEF VInv

\* The empty store.
LEMMA InitValues == Init => VInv
<1>. SUFFICES ASSUME Init PROVE VInv
    OBVIOUS
<1>1. IInv
    BY InitInv
<1>2. HistoryOK
  <2>1. /\ done = [k \in Key |-> {0}] /\ superseded = [k \in Key |-> {}]
        /\ known = [w \in Worker |-> Knowledge] /\ puts = << >>
      BY DEF Init
  <2>2. {0} \in SUBSET Nat /\ {} \in SUBSET Nat /\ {0} \subseteq 0..Len(<< >>)
      BY SMTT(120)
  <2>3. done \in [Key -> SUBSET Nat] /\ superseded \in [Key -> SUBSET Nat]
      BY <2>1, <2>2
  <2>4. /\ Knowledge.done = done /\ Knowledge.superseded = superseded
        /\ Knowledge \in [done : [Key -> SUBSET Nat], superseded : [Key -> SUBSET Nat],
                          unwritten : SUBSET Key]
      BY <2>3 DEF Knowledge
  <2>. HIDE DEF Knowledge
  <2>5. \A w \in Worker : known[w].done = done /\ known[w].superseded = superseded
      BY <2>1, <2>4
  <2>6. known \in [Worker -> [done : [Key -> SUBSET Nat], superseded : [Key -> SUBSET Nat],
                              unwritten : SUBSET Key]]
      BY <2>1, <2>4
  <2>7. \A k \in Key : /\ superseded[k] \subseteq done[k] /\ done[k] \subseteq 0..Len(puts)
                       /\ superseded[k] = {}
      BY <2>1, <2>2
  <2>. QED
      BY <2>3, <2>5, <2>6, <2>7 DEF HistoryOK
<1>3. \A b \in Bucket, i \in Slot : ~ slots[b][i].in_use
    BY DEF Init, Bucket
<1>4. AllTagsOK
    BY <1>3 DEF AllTagsOK
<1>5. FilledOK
  <2>1. \A k \in Key : ~ (k >= KEYS - 0)
      BY SMTT(120), SizesOK DEF Key
  <2>. QED
      BY <2>1 DEF FilledOK, Init
<1>6. \A w \in Worker : pc[w] = "idle" /\ ops[w] = << >> /\ kv_lock = Nobody
    BY DEF Init
<1>7. PendingOK
  <2>1. DOMAIN << >> = {}
      BY SMTT(120)
  <2>. QED
      BY <1>6, <2>1 DEF PendingOK, IsPut
<1>8. \A p \in LogPlace : log[p + VALUE_UNIT].part = 0
  <2>1. \A p \in LogPlace : p + VALUE_UNIT \in 0..(LOG_CAP + ENTRY - 1)
      BY SMTT(120), SizesOK DEF LogPlace, VALUE_UNIT
  <2>. QED
      BY <2>1 DEF Init
<1>9. LogOK
  <2>1. VALUE_UNIT # 0
      BY SMTT(120) DEF VALUE_UNIT
  <2>. QED
      BY <1>8, <2>1 DEF LogOK, EntryAt
<1>10. CurrentOK
  <2>1. \A k \in Key : superseded[k] = {}
      BY DEF Init
  <2>. QED
      BY <2>1 DEF CurrentOK
<1>11. PointersOK /\ WriterOK
    BY <1>6 DEF Init, PointersOK, WriterOK
<1>. QED
    BY <1>2, <1>4, <1>5, <1>7, <1>9, <1>10, <1>11 DEF VInv

-----------------------------------------------------------------------------
(* A batch starts.  Its PUTs are counted, with the theorems about the       *)
(* cardinality of finite sets.                                              *)

INSTANCE FiniteSetTheorems

\* The PUTs of a batch up to a place: they are finitely many, and one more than up to
\* the place before if there is a PUT.
LEMMA PutsGrow ==
  ASSUME NEW b, NEW i \in Nat
  PROVE  /\ IsFiniteSet(PutsUpTo(b, i))
         /\ Cardinality(PutsUpTo(b, i)) \in Nat
         /\ i = 0 => Cardinality(PutsUpTo(b, i)) = 0
         /\ Cardinality(PutsUpTo(b, i + 1)) =
              IF b[i + 1].opcode = "PUT" THEN Cardinality(PutsUpTo(b, i)) + 1
                                         ELSE Cardinality(PutsUpTo(b, i))
<1>1. PutsUpTo(b, i) \subseteq 1..i
    BY DEF PutsUpTo
<1>2. IsFiniteSet(1..i)
  <2>1. 1 \in Int /\ i \in Int
      BY SMTT(120)
  <2>. QED
      BY <2>1, FS_Interval
<1>3. IsFiniteSet(PutsUpTo(b, i)) /\ Cardinality(PutsUpTo(b, i)) \in Nat
    BY <1>1, <1>2, FS_Subset, FS_CardinalityType
<1>4. i = 0 => Cardinality(PutsUpTo(b, i)) = 0
  <2>1. i = 0 => 1..i = {}
      BY SMTT(120)
  <2>. QED
      BY <1>1, <2>1, FS_EmptySet
<1>5. 1..(i + 1) = (1..i) \union {i + 1} /\ i + 1 \notin 1..i
    BY SMTT(120)
<1>6. CASE b[i + 1].opcode = "PUT"
  <2>1. PutsUpTo(b, i + 1) = PutsUpTo(b, i) \union {i + 1} /\ i + 1 \notin PutsUpTo(b, i)
      BY <1>5, <1>6 DEF PutsUpTo
  <2>. QED
      BY <1>3, <1>4, <1>6, <2>1, FS_AddElement
<1>7. CASE b[i + 1].opcode # "PUT"
  <2>1. PutsUpTo(b, i + 1) = PutsUpTo(b, i)
      BY <1>5, <1>7 DEF PutsUpTo
  <2>. QED
      BY <1>3, <1>4, <1>7, <2>1
<1>. QED
    BY <1>6, <1>7

\* The keys of the PUTs of a batch, and their number.
LEMMA PutsListed ==
  ASSUME NEW n \in Nat, NEW b \in [1..n -> Op]
  PROVE  /\ PutsIn(b) \in Seq(Key)
         /\ Len(PutsIn(b)) = Cardinality(PutsUpTo(b, n))
<1>. DEFINE count(i) == Cardinality(PutsUpTo(b, i))
            all == PutsUpTo(b, n)
<1>1. Len(b) = n
    BY SMTT(120)
<1>2. ASSUME NEW m \in 1..count(n)
      PROVE  \E i \in all : count(i) = m
  <2>. DEFINE T == {i \in 0..n : count(i) >= m}
  <2>1. \A i \in Nat : count(i) \in Nat
      BY PutsGrow
  <2>2. n \in T
    <3>1. n \in 0..n
        BY SMTT(120)
    <3>2. count(n) >= m
        BY SMTT(120), <2>1
    <3>. QED
        BY <3>1, <3>2
  <2>3. T \subseteq Nat
      BY SMTT(120)
  <2>. HIDE DEF count
  <2>4. PICK i \in T : \A j \in T : i <= j
      BY <2>2, <2>3, LeastElement
  <2>5. i \in Nat /\ i \in 0..n /\ count(i) >= m
      BY <2>3, <2>4
  <2>6. count(0) = 0 /\ m \in Nat /\ m >= 1 /\ 0 \in Nat
    <3>1. 0 \in Nat
        BY SMTT(120)
    <3>2. count(0) = 0
        BY <3>1, PutsGrow DEF count
    <3>3. m \in Nat /\ m >= 1
        BY SMTT(120), <2>1
    <3>. QED
        BY <3>1, <3>2, <3>3
  <2>7. i # 0
      BY SMTT(120), <2>5, <2>6
  <2>. DEFINE j == i - 1
  <2>8. j \in Nat /\ j + 1 = i /\ j \in 0..n /\ ~ (i <= j)
      BY SMTT(120), <2>5, <2>7
  <2>9. ~ (count(j) >= m)
      BY <2>4, <2>8
  <2>10. count(i) = IF b[i].opcode = "PUT" THEN count(j) + 1 ELSE count(j)
    <3>. HIDE DEF j
    <3>1. count(j + 1) = IF b[j + 1].opcode = "PUT" THEN count(j) + 1 ELSE count(j)
        BY <2>8, PutsGrow DEF count
    <3>. QED
        BY <2>8, <3>1
  <2>11. b[i].opcode = "PUT"
      BY <2>5, <2>9, <2>10
  <2>12. count(i) = m
    <3>. DEFINE x == count(i)
                y == count(j)
    <3>1. x = y + 1 /\ x \in Nat /\ y \in Nat /\ x >= m /\ ~ (y >= m) /\ m \in Nat
        BY <2>1, <2>5, <2>6, <2>8, <2>9, <2>10, <2>11
    <3>. HIDE DEF x, y
    <3>2. x = m
        BY SMTT(120), <3>1
    <3>. QED
        BY <3>2 DEF x
  <2>13. i \in 1..n
      BY SMTT(120), <2>5, <2>7
  <2>. QED
      BY <2>11, <2>12, <2>13 DEF PutsUpTo
<1>. DEFINE place(m) == CHOOSE i \in all : count(i) = m
<1>3. \A m \in 1..count(n) : b[place(m)].key \in Key
  <2>1. \A m \in 1..count(n) : place(m) \in 1..n
      BY <1>2 DEF PutsUpTo
  <2>2. \A i \in 1..n : b[i].key \in Key
      BY KeysAssumption DEF Op
  <2>. QED
      BY <2>1, <2>2
<1>4. PutsIn(b) = [m \in 1..count(n) |-> b[place(m)].key]
  <2>. DEFINE keys(l) == [m \in 1..Cardinality(PutsUpTo(b, l)) |->
                            b[CHOOSE i \in PutsUpTo(b, l) : count(i) = m].key]
  <2>1. PutsIn(b) = keys(Len(b)) /\ keys(n) = [m \in 1..count(n) |-> b[place(m)].key]
      BY DEF PutsIn
  <2>. HIDE DEF keys
  <2>. QED
      BY <1>1, <2>1
<1>5. count(n) \in Nat
    BY PutsGrow
<1>. HIDE DEF count, all, place
<1>. QED
    BY SMTT(120), <1>3, <1>4, <1>5 DEF count

\* The numbered batch fits the bound on PUTs.
LEMMA BatchNumbered ==
  ASSUME NEW n \in Nat, NEW b \in [1..n -> Op], NEW l \in Nat,
         l + Cardinality(PutsUpTo(b, n)) <= MAX_PUTS
  PROVE  Numbered(b, l) \in Seq(Numbering) /\ Len(Numbered(b, l)) = n
<1>. DEFINE op(i) == [opcode |-> b[i].opcode, key |-> b[i].key,
                      value |-> l + Cardinality(PutsUpTo(b, i))]
<1>1. ASSUME NEW i \in 1..n
      PROVE  l + Cardinality(PutsUpTo(b, i)) \in 0..MAX_PUTS
  <2>. DEFINE x == Cardinality(PutsUpTo(b, i))
              y == Cardinality(PutsUpTo(b, n))
  <2>1. i \in Nat /\ i <= n /\ 1..i \subseteq 1..n
      BY SMTT(120)
  <2>2. PutsUpTo(b, i) \subseteq PutsUpTo(b, n)
      BY <2>1 DEF PutsUpTo
  <2>3. x \in Nat /\ y \in Nat /\ x <= y
      BY <2>1, <2>2, PutsGrow, FS_Subset
  <2>. HIDE DEF x, y
  <2>4. l + x \in 0..MAX_PUTS
      BY SMTT(120), <2>3, SizesOK DEF y
  <2>. QED
      BY <2>4 DEF x
<1>2. \A i \in 1..n : op(i) \in Numbering
    BY <1>1 DEF Numbering, Op
<1>3. Numbered(b, l) = [i \in 1..n |-> op(i)]
    BY DEF Numbered
<1>. HIDE DEF op
<1>. QED
    BY SMTT(120), <1>2, <1>3

\* A worker starts a batch.
LEMMA StartStep ==
  ASSUME IInv, NEW w \in Worker, Start(w)
  PROVE  IInv'
<1>1. PICK n \in 1..MAX_BATCH : \E b \in [1..n -> Op] :
         /\ puts' = puts \o PutsIn(b)
         /\ Len(puts') <= MAX_PUTS
         /\ ops' = [ops EXCEPT ![w] = Numbered(b, Len(puts))]
    BY DEF Start
<1>2. PICK b \in [1..n -> Op] :
         /\ puts' = puts \o PutsIn(b)
         /\ Len(puts') <= MAX_PUTS
         /\ ops' = [ops EXCEPT ![w] = Numbered(b, Len(puts))]
    BY <1>1
<1>3. /\ populated = KEYS /\ pc[w] = "idle"
      /\ pc' = [pc EXCEPT ![w] = "lookup"] /\ kv_ptr' = [kv_ptr EXCEPT ![w] = << >>]
      /\ slots' = slots /\ log' = log /\ log_head' = log_head /\ kv_lock' = kv_lock
      /\ populated' = populated /\ slot_to_use' = slot_to_use
    BY SMTT(120) DEF Start, index
<1>. DEFINE new == Numbered(b, Len(puts))
<1>4. n \in Nat /\ n >= 1
    BY SMTT(120), SizesOK
<1>5. StateOK /\ BatchesOK
    BY DEF IInv
<1>6. puts' \in Seq(Key) /\ new \in Seq(Numbering) /\ Len(new) = n
  <2>1. puts \in Seq(Key) /\ Len(puts) \in Nat
      BY <1>5, LenProperties DEF StateOK
  <2>2. PutsIn(b) \in Seq(Key) /\ Len(PutsIn(b)) = Cardinality(PutsUpTo(b, n))
      BY <1>4, PutsListed
  <2>3. puts' \in Seq(Key) /\ Len(puts') = Len(puts) + Len(PutsIn(b))
      BY <1>2, <2>1, <2>2, ConcatProperties
  <2>4. Len(puts) + Cardinality(PutsUpTo(b, n)) <= MAX_PUTS
      BY <1>2, <2>2, <2>3
  <2>. QED
      BY <1>4, <2>1, <2>3, <2>4, BatchNumbered
<1>. HIDE DEF new
<1>7. << >> \in Seq(Pointer) /\ Len(<< >>) < Len(new)
  <2>1. << >> \in Seq(Pointer) /\ Len(<< >>) = 0
      BY EmptySeq
  <2>2. 0 < n
      BY SMTT(120), <1>4
  <2>. QED
      BY <1>6, <2>1, <2>2
<1>8. ~ (populated < KEYS) /\ "lookup" \in {"idle", "lookup", "execute"}
    BY SMTT(120), <1>3, SizesOK
<1>9. SameUnits /\ log' \in [0..(LOG_CAP + ENTRY - 1) -> Unit] /\ ~ Inserting(w)
    BY <1>3, <1>5 DEF SameUnits, StateOK, Inserting
<1>10. ops' = [ops EXCEPT ![w] = new]
    BY <1>2 DEF new
<1>. QED
    BY <1>2, <1>3, <1>6, <1>7, <1>8, <1>9, <1>10, WorkerMoves

\* Two PUTs of a batch get different numbers.
LEMMA NumbersDiffer ==
  ASSUME NEW b, NEW i \in Nat, NEW j \in Nat, i < j, j \in 1..j, b[j].opcode = "PUT"
  PROVE  Cardinality(PutsUpTo(b, i)) # Cardinality(PutsUpTo(b, j))
<1>1. 1..i \subseteq 1..j /\ j \notin 1..i
    BY SMTT(120)
<1>2. /\ PutsUpTo(b, i) \subseteq PutsUpTo(b, j)
      /\ j \in PutsUpTo(b, j) /\ j \notin PutsUpTo(b, i)
    BY <1>1 DEF PutsUpTo
<1>3. IsFiniteSet(PutsUpTo(b, j))
    BY PutsGrow
<1>. QED
    BY <1>2, <1>3, FS_Subset

\* The number of a PUT is its place in the list of the batch's PUTs.
LEMMA NumbersListed ==
  ASSUME NEW n \in Nat, NEW b \in [1..n -> Op], NEW i \in 1..n, b[i].opcode = "PUT"
  PROVE  /\ Cardinality(PutsUpTo(b, i)) \in 1..Len(PutsIn(b))
         /\ PutsIn(b)[Cardinality(PutsUpTo(b, i))] = b[i].key
         /\ \A j \in 1..n : b[j].opcode = "PUT" /\ j # i =>
              Cardinality(PutsUpTo(b, j)) # Cardinality(PutsUpTo(b, i))
<1>. DEFINE count(j) == Cardinality(PutsUpTo(b, j))
            all == PutsUpTo(b, n)
<1>1. \A j \in 1..n : j \in Nat /\ j \in 1..j /\ 1..j \subseteq 1..n
    BY SMTT(120)
<1>2. \A j \in 1..n : b[j].opcode = "PUT" /\ j # i => count(j) # count(i)
  <2>. SUFFICES ASSUME NEW j \in 1..n, b[j].opcode = "PUT", j # i PROVE count(j) # count(i)
      OBVIOUS
  <2>1. j < i \/ i < j
      BY SMTT(120)
  <2>. QED
      BY <1>1, <2>1, NumbersDiffer
<1>3. i \in all /\ all \subseteq 1..n /\ \A j \in all : b[j].opcode = "PUT"
    BY DEF PutsUpTo
<1>4. (CHOOSE j \in all : count(j) = count(i)) = i
  <2>1. \A j \in all : count(j) = count(i) => j = i
      BY <1>2, <1>3
  <2>. HIDE DEF all, count
  <2>. QED
      BY <1>3, <2>1
<1>5. count(i) \in 1..count(n)
  <2>1. PutsUpTo(b, i) \subseteq PutsUpTo(b, n) /\ i \in PutsUpTo(b, i)
      BY <1>1 DEF PutsUpTo
  <2>2. count(i) \in Nat /\ count(n) \in Nat /\ count(i) <= count(n)
      BY <1>1, <2>1, PutsGrow, FS_Subset
  <2>3. count(i) # 0
      BY <1>1, <2>1, PutsGrow, FS_EmptySet
  <2>. DEFINE x == count(i)
              y == count(n)
  <2>4. x \in Nat /\ y \in Nat /\ x <= y /\ x # 0
      BY <2>2, <2>3
  <2>. HIDE DEF x, y
  <2>5. x \in 1..y
      BY SMTT(120), <2>4
  <2>. QED
      BY <2>5 DEF x, y
<1>6. PutsIn(b) = [m \in 1..count(n) |-> b[CHOOSE j \in all : count(j) = m].key]
  <2>. DEFINE keys(l) == [m \in 1..Cardinality(PutsUpTo(b, l)) |->
                            b[CHOOSE j \in PutsUpTo(b, l) : count(j) = m].key]
  <2>1. PutsIn(b) = keys(Len(b)) /\ keys(n) = [m \in 1..count(n) |->
                                                 b[CHOOSE j \in all : count(j) = m].key]
      BY DEF PutsIn
  <2>2. Len(b) = n
      BY SMTT(120)
  <2>. HIDE DEF keys
  <2>. QED
      BY <2>1, <2>2
<1>7. PutsIn(b)[count(i)] = b[i].key
  <2>. DEFINE place(m) == CHOOSE j \in all : count(j) = m
  <2>1. PutsIn(b) = [m \in 1..count(n) |-> b[place(m)].key] /\ place(count(i)) = i
      BY <1>4, <1>6
  <2>. HIDE DEF place, count, all
  <2>. QED
      BY <1>5, <2>1
<1>8. Len(PutsIn(b)) = count(n)
    BY PutsListed
<1>. QED
    BY <1>2, <1>5, <1>7, <1>8

\* The PUTs of a batch that starts write new values.
LEMMA BatchPending ==
  ASSUME IInv, VInv, NEW w \in Worker, NEW n \in Nat, NEW b \in [1..n -> Op],
         puts' = puts \o PutsIn(b), done' = done,
         ops' = [ops EXCEPT ![w] = Numbered(b, Len(puts))]
  PROVE  PendingOK' /\ PutsStay
<1>. DEFINE l == Len(puts)
            count(i) == Cardinality(PutsUpTo(b, i))
<1>1. /\ l \in Nat /\ puts' \in Seq(Key) /\ Len(puts') = l + Len(PutsIn(b))
      /\ Len(PutsIn(b)) \in Nat
      /\ \A i \in 1..(l + Len(PutsIn(b))) :
           puts'[i] = IF i <= l THEN puts[i] ELSE PutsIn(b)[i - l]
  <2>1. puts \in Seq(Key)
      BY DEF IInv, StateOK
  <2>2. PutsIn(b) \in Seq(Key)
      BY PutsListed
  <2>. QED
      BY <2>1, <2>2, ConcatProperties, LenProperties
<1>2. PutsStay
  <2>. DEFINE c == Len(PutsIn(b))
  <2>1. \A i \in 0..l : i \in 0..(l + c) /\ (i # 0 => i \in 1..(l + c) /\ i <= l)
    <3>. HIDE DEF l, c
    <3>. QED
        BY SMTT(120), <1>1 DEF c
  <2>. QED
      BY <1>1, <2>1 DEF PutsStay
<1>3. ops'[w] = Numbered(b, l) /\ \A x \in Worker \ {w} : ops'[x] = ops[x]
    BY DEF IInv, StateOK
<1>4. \A i : IsPut(w, i)' => i \in 1..n /\ b[i].opcode = "PUT" /\ ops'[w][i].value = l + count(i)
                             /\ ops'[w][i].key = b[i].key
  <2>. DEFINE op(i) == [opcode |-> b[i].opcode, key |-> b[i].key, value |-> l + count(i)]
  <2>1. ops'[w] = [i \in 1..n |-> op(i)]
      BY <1>3 DEF Numbered
  <2>2. \A i : op(i).opcode = b[i].opcode /\ op(i).key = b[i].key /\ op(i).value = l + count(i)
      OBVIOUS
  <2>. HIDE DEF op, l, count
  <2>3. \A i \in DOMAIN ops'[w] : i \in 1..n /\ ops'[w][i] = op(i)
      BY <2>1
  <2>. QED
      BY <2>2, <2>3 DEF IsPut
<1>5. ASSUME NEW i, IsPut(w, i)'
      PROVE  /\ ops'[w][i].value \in 1..Len(puts') /\ puts'[ops'[w][i].value] = ops'[w][i].key
             /\ ops'[w][i].value \notin 0..l
  <2>. DEFINE c == Len(PutsIn(b))
              m == count(i)
  <2>1. m \in 1..c /\ PutsIn(b)[m] = b[i].key
      BY <1>4, <1>5, NumbersListed
  <2>2. l \in Nat /\ c \in Nat
      BY <1>1
  <2>3. l + m \in 1..(l + c) /\ ~ (l + m <= l) /\ (l + m) - l = m /\ l + m \notin 0..l
    <3>. HIDE DEF l, c, m
    <3>. QED
        BY SMTT(120), <2>1, <2>2
  <2>4. puts'[l + m] = PutsIn(b)[(l + m) - l]
      BY <1>1, <2>3
  <2>5. puts'[l + m] = b[i].key
      BY <2>1, <2>3, <2>4
  <2>. HIDE DEF l, m, count
  <2>. QED
      BY <1>1, <1>4, <1>5, <2>3, <2>5 DEF m
<1>6. ASSUME NEW x \in Worker, x # w, NEW i, IsPut(x, i)'
      PROVE  /\ IsPut(x, i) /\ ops'[x][i] = ops[x][i]
             /\ ops[x][i].value \in 1..l /\ ops[x][i].value \in 0..l
             /\ puts[ops[x][i].value] = ops[x][i].key
             /\ \A k \in Key : ops[x][i].value \notin done[k]
  <2>1. IsPut(x, i) /\ ops'[x][i] = ops[x][i]
      BY <1>3, <1>6 DEF IsPut
  <2>2. \A v \in 1..l : v \in 0..l
      BY SMTT(120), <1>1
  <2>. QED
      BY <2>1, <2>2 DEF VInv, PendingOK
<1>7. \A v \in 1..l : v # 0
    BY SMTT(120), <1>1
<1>8. \A k \in Key : done[k] \subseteq 0..l
    BY DEF VInv, HistoryOK
<1>. HIDE DEF l, count
<1>9. \A x \in Worker : \A i : IsPut(x, i)' =>
        /\ ops'[x][i].value \in 1..Len(puts') /\ puts'[ops'[x][i].value] = ops'[x][i].key
        /\ \A k \in Key : ops'[x][i].value \notin done'[k]
  <2>. SUFFICES ASSUME NEW x \in Worker, NEW i, IsPut(x, i)'
                PROVE  /\ ops'[x][i].value \in 1..Len(puts')
                       /\ puts'[ops'[x][i].value] = ops'[x][i].key
                       /\ \A k \in Key : ops'[x][i].value \notin done'[k]
      OBVIOUS
  <2>1. CASE x = w
      BY <1>5, <1>8, <2>1
  <2>2. CASE x # w
    <3>. DEFINE v == ops[x][i].value
    <3>1. /\ v \in 1..l /\ v \in 0..l /\ puts[v] = ops[x][i].key /\ ops'[x][i] = ops[x][i]
          /\ \A k \in Key : v \notin done[k]
        BY <1>6, <2>2
    <3>. HIDE DEF v
    <3>2. v \in 0..Len(puts') /\ puts'[v] = puts[v] /\ v # 0
        BY <1>2, <1>7, <3>1 DEF PutsStay, l
    <3>3. v \in 1..Len(puts')
      <4>1. Len(puts') \in Nat
          BY <1>1, LenProperties
      <4>. QED
          BY SMTT(120), <3>2, <4>1
    <3>. QED
        BY <3>1, <3>2, <3>3 DEF v
  <2>. QED
      BY <2>1, <2>2
<1>10. ASSUME NEW x \in Worker, NEW y \in Worker, NEW i, NEW j, IsPut(x, i)', IsPut(y, j)',
              ops'[x][i].value = ops'[y][j].value
       PROVE  x = y /\ i = j
  <2>1. CASE x = w /\ y = w
    <3>1. count(i) = count(j)
      <4>. DEFINE c == count(i)
                  d == count(j)
      <4>1. l + c = l + d
          BY <1>4, <1>10, <2>1
      <4>2. c \in Nat /\ d \in Nat
        <5>1. i \in Nat /\ j \in Nat
          <6>1. i \in 1..n /\ j \in 1..n
              BY <1>4, <1>10, <2>1
          <6>. QED
              BY SMTT(120), <6>1
        <5>. QED
            BY <5>1, PutsGrow DEF count
      <4>. HIDE DEF c, d
      <4>3. c = d
          BY SMTT(120), <1>1, <4>1, <4>2
      <4>. QED
          BY <4>3 DEF c, d
    <3>. QED
        BY <1>4, <1>10, <2>1, <3>1, NumbersListed DEF count
  <2>2. CASE x # w /\ y # w
    <3>1. IsPut(x, i) /\ IsPut(y, j) /\ ops[x][i].value = ops[y][j].value
      <4>1. IsPut(x, i) /\ ops'[x][i] = ops[x][i]
          BY <1>6, <1>10, <2>2
      <4>2. IsPut(y, j) /\ ops'[y][j] = ops[y][j]
          BY <1>6, <1>10, <2>2
      <4>. QED
          BY <1>10, <4>1, <4>2
    <3>. QED
        BY <3>1 DEF VInv, PendingOK
  <2>3. CASE x = w /\ y # w
    <3>1. ops'[w][i].value \notin 0..l
        BY <1>5, <1>10, <2>3
    <3>2. ops'[y][j].value \in 0..l
        BY <1>6, <1>10, <2>3
    <3>. QED
        BY <1>10, <2>3, <3>1, <3>2
  <2>4. CASE x # w /\ y = w
    <3>1. ops'[w][j].value \notin 0..l
        BY <1>5, <1>10, <2>4
    <3>2. ops'[x][i].value \in 0..l
        BY <1>6, <1>10, <2>4
    <3>. QED
        BY <1>10, <2>4, <3>1, <3>2
  <2>. QED
      BY <2>1, <2>2, <2>3, <2>4
<1>. QED
    BY <1>2, <1>9, <1>10 DEF PendingOK

\* A worker starts a batch.
LEMMA StartValues ==
  ASSUME IInv, VInv, NEW w \in Worker, Start(w)
  PROVE  VInv' /\ PutsStay
<1>1. PICK n \in 1..MAX_BATCH : \E b \in [1..n -> Op] :
         puts' = puts \o PutsIn(b) /\ ops' = [ops EXCEPT ![w] = Numbered(b, Len(puts))]
    BY DEF Start
<1>2. PICK b \in [1..n -> Op] :
         puts' = puts \o PutsIn(b) /\ ops' = [ops EXCEPT ![w] = Numbered(b, Len(puts))]
    BY <1>1
<1>3. /\ pc[w] = "idle" /\ kv_ptr' = [kv_ptr EXCEPT ![w] = << >>]
      /\ pc' = [pc EXCEPT ![w] = "lookup"] /\ known' = [known EXCEPT ![w] = Knowledge]
      /\ slots' = slots /\ log' = log /\ log_head' = log_head /\ kv_lock' = kv_lock
      /\ populated' = populated /\ done' = done /\ superseded' = superseded
    BY DEF Start, index
<1>4. PendingOK' /\ PutsStay
  <2>1. n \in Nat
      BY SMTT(120), SizesOK
  <2>. QED
      BY <1>2, <1>3, <2>1, BatchPending
<1>5. HistoryOK
    BY DEF VInv
<1>6. /\ kv_ptr'[w] = << >> /\ known'[w] = Knowledge
      /\ \A x \in Worker \ {w} : /\ ops'[x] = ops[x] /\ pc'[x] = pc[x] /\ known'[x] = known[x]
                                 /\ kv_ptr'[x] = kv_ptr[x]
    BY <1>2, <1>3, <1>5 DEF IInv, StateOK, HistoryOK
<1>7. /\ Writes(Null, 0, Null) /\ Fresh(Null) /\ ~ Inserting(w)
    BY <1>3, NothingWritten, NullFresh DEF Inserting
<1>8. FilledOK' /\ AllTagsOK' /\ WriterOK' /\ LeadsFrom(Null)
    BY <1>3, <1>6, <1>7, IndexKept
<1>9. CurrentOK'
    BY <1>3, <1>7, <1>8, CurrentKept
<1>10. LogOK'
  <2>1. Null \notin LogPlace
      BY SMTT(120), SizesOK DEF Null, LogPlace
  <2>. QED
      BY <1>4, <1>7, <2>1, LogKept
<1>11. PointersOK'
  <2>. SUFFICES ASSUME NEW x \in Worker, pc'[x] # "idle", NEW m \in DOMAIN kv_ptr'[x]
                PROVE  SeenOK(x, m)'
      BY DEF PointersOK
  <2>1. x # w
    <3>1. DOMAIN << >> = {}
        BY SMTT(120)
    <3>. QED
        BY <1>6, <3>1
  <2>2. PointerFrom(x, m)
      BY <1>6, <2>1 DEF PointerFrom
  <2>. QED
      BY <1>7, <1>8, <2>2, SeenKept
<1>12. HistoryOK'
  <2>1. /\ Knowledge.done = done /\ Knowledge.superseded = superseded
        /\ Knowledge \in [done : [Key -> SUBSET Nat], superseded : [Key -> SUBSET Nat],
                          unwritten : SUBSET Key]
      BY <1>5 DEF Knowledge, HistoryOK
  <2>2. known' \in [Worker -> [done : [Key -> SUBSET Nat], superseded : [Key -> SUBSET Nat],
                               unwritten : SUBSET Key]]
    <3>. HIDE DEF Knowledge
    <3>. QED
        BY <1>3, <1>5, <2>1 DEF HistoryOK
  <2>3. \A x \in Worker, k \in Key : /\ known'[x].done[k] \subseteq done[k]
                                     /\ known'[x].superseded[k] \subseteq superseded[k]
      BY <1>5, <1>6, <2>1 DEF HistoryOK
  <2>4. 0..Len(puts) \subseteq 0..Len(puts')
      BY <1>4 DEF PutsStay
  <2>. QED
      BY <1>3, <1>5, <2>2, <2>3, <2>4 DEF HistoryOK
<1>. QED
    BY <1>4, <1>8, <1>9, <1>10, <1>11, <1>12 DEF VInv

-----------------------------------------------------------------------------
(* The theorems about the index and the log.                                *)

\* Every step keeps the invariant.
LEMMA NextStep == IInv /\ [Next]_vars => IInv'
<1>. SUFFICES ASSUME IInv, [Next]_vars PROVE IInv'
    OBVIOUS
<1>1. CASE Populate
    BY <1>1, PopulateStep
<1>2. ASSUME NEW w \in Worker, Start(w) PROVE IInv'
    BY <1>2, StartStep
<1>3. ASSUME NEW w \in Worker, Batch(w) PROVE IInv'
    BY <1>3, LookupStep, GetStep, PutHitStep, InsertStep, EncodeOffsetStep, EncodeTagStep,
       PasteStep, AdvanceStep DEF Batch
<1>4. CASE UNCHANGED vars
  <2>1. /\ slots' = slots /\ log' = log /\ log_head' = log_head /\ kv_lock' = kv_lock
        /\ populated' = populated /\ pc' = pc /\ ops' = ops /\ kv_ptr' = kv_ptr
        /\ slot_to_use' = slot_to_use /\ puts' = puts
      BY <1>4 DEF vars, index, history
  <2>2. StateOK' /\ BatchesOK'
      BY <2>1 DEF IInv, StateOK, BatchesOK, Inserting
  <2>3. SameUnits
      BY <2>1 DEF SameUnits
  <2>. QED
      BY <2>1, <2>2, <2>3, KeepIndex DEF IInv
<1>. QED
    BY <1>1, <1>2, <1>3, <1>4 DEF Next

\* The invariant holds in every reachable state.
THEOREM Invariant == Spec => []IInv
BY InitInv, NextStep, PTL DEF Spec

\* The log, the offsets and the pointers a worker keeps between the two passes of its
\* batch stay within their ranges, and kv_lock is held exactly during an insertion.
THEOREM TypeCorrect == Spec => []TypeOK
<1>1. IInv => TypeOK
  <2>. SUFFICES ASSUME IInv PROVE TypeOK
      OBVIOUS
  <2>1. StateOK /\ BatchesOK
      BY DEF IInv
  <2>2. ASSUME NEW b \in DOMAIN slots, NEW i \in Slot
        PROVE  slots[b][i] \in [in_use : BOOLEAN, tag : Nat, offset : 0..log_head]
    <3>. DEFINE y == slots[b][i]
    <3>1. b \in Bucket
        BY <2>1 DEF StateOK
    <3>2. y \in SlotType /\ y.offset \in Nat
        BY <2>1, <3>1, SlotTypes
    <3>3. y.offset <= log_head /\ log_head \in Nat
        BY <2>1, <3>1 DEF StateOK
    <3>. HIDE DEF y
    <3>4. y.offset \in 0..log_head
        BY SMTT(120), <3>2, <3>3
    <3>5. y \in [in_use : BOOLEAN, tag : Nat, offset : 0..log_head]
        BY <3>2, <3>4 DEF SlotType
    <3>. QED
        BY <3>5 DEF y
  <2>3. \A a \in DOMAIN log : log[a] \in Unit
      BY <2>1 DEF StateOK
  <2>4. ASSUME NEW w \in Worker, NEW i \in DOMAIN kv_ptr[w]
        PROVE  kv_ptr[w][i] \in {Null} \union (0..(LOG_CAP - 1))
    <3>1. kv_ptr[w] \in Seq(Pointer)
        BY <2>1 DEF StateOK
    <3>2. DOMAIN kv_ptr[w] = 1..Len(kv_ptr[w])
        BY <3>1, LenProperties
    <3>. QED
        BY <3>1, <3>2, ElementOfSeq DEF Pointer
  <2>5. ASSUME NEW w \in Worker
        PROVE  /\ pc[w] \in {"idle", "lookup", "execute", "offset", "tag", "paste", "advance"}
               /\ kv_lock = w <=> pc[w] \in {"offset", "tag", "paste", "advance"}
               /\ slot_to_use[w] \in Slot
      BY <2>1 DEF StateOK, BatchesOK, Inserting
  <2>6. log_head \in Nat /\ populated \in 0..KEYS /\ kv_lock \in Worker \union {Nobody}
      BY <2>1 DEF StateOK
  <2>. QED
      BY <2>2, <2>3, <2>4, <2>5, <2>6 DEF TypeOK
<1>. QED
    BY <1>1, Invariant, PTL

\* While nobody inserts, no two slots in use of a bucket have the same tag, whatever the
\* hash, the evictions and the order of the insertions: the first slot a lookup stops at
\* and the last one an insertion takes are the same.
THEOREM TagsAlwaysUnique == Spec => []TagsUnique
<1>1. IInv => TagsUnique
    BY DEF IInv, StateOK, TagsOK, Settled, TagsUnique
<1>. QED
    BY <1>1, Invariant, PTL

\* While nobody inserts, what a lookup finds is a whole entry of some key with that bucket
\* and tag, for every size of the log: the entries never overlap before the wrap-around
\* check of the lookup gives them up.
THEOREM FoundAlwaysWhole == Spec => []FoundEntriesWhole
<1>1. IInv => FoundEntriesWhole
  <2>. SUFFICES ASSUME IInv, kv_lock = Nobody, NEW k \in Key, Lookup(k) # Null
                PROVE  /\ \A n \in 0..(ENTRY - 1) :
                            /\ log[Lookup(k) + n].part = n
                            /\ log[Lookup(k) + n].key = log[Lookup(k)].key
                       /\ log[Lookup(k)].key \in {j \in Key : Bkt[j] = Bkt[k] /\ Tag[j] = Tag[k]}
      BY DEF FoundEntriesWhole
  <2>. DEFINE b == Bkt[k]
              matches == {i \in Slot : slots[b][i].in_use /\ slots[b][i].tag = Tag[k]}
              m == Min(matches)
              o == slots[b][m].offset
  <2>1. matches # {} /\ ~ (log_head - o >= LOG_CAP) /\ Lookup(k) = Place(o)
      BY DEF Lookup
  <2>2. m \in Slot /\ slots[b][m].in_use /\ slots[b][m].tag = Tag[k]
    <3>1. matches \subseteq Slot
        OBVIOUS
    <3>. DEFINE M == matches
    <3>2. M \subseteq Slot /\ M # {}
        BY <2>1, <3>1
    <3>. HIDE DEF M
    <3>3. Min(M) \in M
        BY <3>2, Extremes
    <3>. QED
        BY <3>3 DEF M
  <2>3. b \in Bucket /\ StateOK /\ log_head \in Nat
      BY KeysAssumption DEF Bucket, Range, IInv, StateOK
  <2>. HIDE DEF m, matches
  <2>4. o \in Nat
      BY <2>2, <2>3, SlotTypes
  <2>5. log_head - o < LOG_CAP
    <3>. HIDE DEF o
    <3>. QED
        BY SMTT(120), <2>1, <2>3, <2>4, SizesOK
  <2>6. FutureHead = log_head /\ Settled(b, m)
      BY DEF FutureHead, Settled
  <2>7. PICK j \in Key : Bkt[j] = b /\ Tag[j] = Tag[k] /\ EntryIn(log, Place(o), j)
      BY ZenonT(120), <2>2, <2>3, <2>5, <2>6 DEF IInv, EntriesOK
  <2>8. 0 \in 0..(ENTRY - 1) /\ Place(o) + 0 = Place(o)
    <3>. DEFINE p == Place(o)
    <3>1. p \in 0..(LOG_CAP - 1)
        BY <2>4, PlacesInLog
    <3>. HIDE DEF p
    <3>2. 0 \in 0..(ENTRY - 1) /\ p + 0 = p
        BY SMTT(120), <3>1, SizesOK
    <3>. QED
        BY <3>2 DEF p
  <2>. HIDE DEF o
  <2>. QED
      BY <2>1, <2>7, <2>8 DEF EntryIn
<1>. QED
    BY <1>1, Invariant, PTL

-----------------------------------------------------------------------------
(* The theorems about what a GET returns.                                   *)

\* Every step keeps what the second invariant says about values.
LEMMA NextValues ==
  ASSUME IInv, IInv', VInv, [Next]_vars
  PROVE  VInv' /\ PutsStay
<1>1. CASE Populate
  <2>1. puts' = puts
      BY <1>1 DEF Populate, history
  <2>. QED
      BY <1>1, <2>1, PopulateValues DEF PutsStay
<1>2. ASSUME NEW w \in Worker, Start(w) PROVE VInv' /\ PutsStay
    BY <1>2, StartValues
<1>3. ASSUME NEW w \in Worker, Batch(w) PROVE VInv' /\ PutsStay
  <2>1. VInv'
      BY <1>3, LookupValues, GetValues, PutHitValues, InsertValues, EncodeOffsetValues,
         EncodeTagValues, PasteValues, AdvanceValues DEF Batch
  <2>2. puts' = puts
      BY <1>3 DEF Batch, LookupOne, GetHit, GetMiss, PutHit, Insert, EncodeOffset, EncodeTag,
                  Paste, Advance, Respond, history
  <2>. QED
      BY <2>1, <2>2 DEF PutsStay
<1>4. CASE UNCHANGED vars
  <2>1. /\ slots' = slots /\ log' = log /\ log_head' = log_head /\ kv_lock' = kv_lock
        /\ populated' = populated /\ pc' = pc /\ ops' = ops /\ kv_ptr' = kv_ptr
        /\ puts' = puts /\ done' = done /\ superseded' = superseded /\ known' = known
      BY <1>4 DEF vars, index, history
  <2>2. HistoryOK' /\ FilledOK' /\ AllTagsOK' /\ LogOK'
      BY <2>1 DEF VInv, HistoryOK, FilledOK, AllTagsOK, LogOK, Tagged
  <2>3. PendingOK'
      BY SMTT(120), <2>1 DEF VInv, PendingOK, IsPut
  <2>4. \A k \in Key, i \in Slot : Leads(k, i)' = Leads(k, i) /\ At(k, i)' = At(k, i)
      BY <2>1 DEF Leads, Reachable, Tagged, Written, At
  <2>5. CurrentOK' /\ WriterOK'
      BY <2>1, <2>4 DEF VInv, CurrentOK, WriterOK, NewKey
  <2>6. PointersOK'
    <3>. SUFFICES ASSUME NEW x \in Worker, pc'[x] # "idle", NEW n \in DOMAIN kv_ptr'[x]
                  PROVE  SeenOK(x, n)'
        BY DEF PointersOK
    <3>1. PointerFrom(x, n)
        BY <2>1 DEF PointerFrom
    <3>2. Writes(Null, 0, Null) /\ Fresh(Null)
        BY <2>1, NothingWritten, NullFresh
    <3>3. LeadsFrom(Null)
        BY <2>1, <2>4 DEF LeadsFrom
    <3>. QED
        BY <3>1, <3>2, <3>3, SeenKept
  <2>. QED
      BY <2>1, <2>2, <2>3, <2>5, <2>6 DEF VInv, PutsStay
<1>. QED
    BY <1>1, <1>2, <1>3, <1>4 DEF Next

\* No lookup finds a value that was replaced, and an entry found by the first pass of a
\* batch holds, when the second pass reads it, a value of its key that was not replaced
\* when the batch started.
THEOREM ValuesInvariant == Spec => []VInv
<1>1. IInv /\ IInv' /\ VInv /\ [Next]_vars => VInv'
    BY NextValues
<1>. QED
    BY <1>1, InitValues, Invariant, PTL DEF Spec

\* A GET whose key comparison succeeds reads the value of the entry it compared: the log
\* has not wrapped around so far, since the lookup, that the head of another entry lies
\* over the value.
EntriesReadWhole ==
  \A w \in Worker :
    Executes(w, "GET") /\ KeyInStore(w) => log[Head(kv_ptr[w]) + VALUE_UNIT].part = VALUE_UNIT

\* A response to a GET has a value of its key that was not replaced when the batch started.
AnswerOK(w, r) ==
  r.type = "GET_SUCCESS" =>
    /\ r.key \in Key /\ r.value \in 0..Len(puts)
    /\ r.value = 0 \/ puts[r.value] = r.key
    /\ r.value \notin known[w].superseded[r.key] \/ r.key \in known[w].unwritten

AnswersOK == DOMAIN resp = Worker /\ \A w \in Worker : AnswerOK(w, resp[w])

\* A response stays right while its batch lasts.
LEMMA AnswerKept ==
  ASSUME AnswersOK, PutsStay, NEW x \in Worker, resp'[x] = resp[x],
         known'[x].superseded = known[x].superseded,
         known[x].unwritten \subseteq known'[x].unwritten
  PROVE  AnswerOK(x, resp[x])'
BY DEF AnswersOK, AnswerOK, PutsStay

\* A GET that finds its key answers the value of the entry its lookup found.
LEMMA GetAnswers ==
  ASSUME IInv, VInv, AnswersOK, EntriesReadWhole, NEW w \in Worker, GetHit(w)
  PROVE  AnswersOK'
<1>. DEFINE k == Head(ops[w]).key
            p == Head(kv_ptr[w])
            r == [type |-> "GET_SUCCESS", key |-> k, value |-> ValueAt(log, p)]
<1>1. /\ pc[w] = "execute" /\ KeyInStore(w) /\ Executes(w, "GET") /\ Respond(w, r)
    BY DEF GetHit, Executes, ValueAt
<1>2. /\ resp' = [resp EXCEPT ![w] = r] /\ puts' = puts /\ known' = known
    BY <1>1 DEF Respond
<1>3. k \in Key /\ p \in LogPlace /\ p # Null
  <2>1. k \in Key /\ p \in Pointer /\ p # Null
      BY <1>1, HeadOfBatch DEF KeyInStore
  <2>. QED
      BY <2>1 DEF Pointer, LogPlace
<1>4. EntryAt(log, p, k)
    BY <1>1 DEF EntriesReadWhole, KeyInStore, EntryAt
<1>5. ValueAt(log, p) \in 0..Len(puts) /\ (ValueAt(log, p) = 0 \/ puts[ValueAt(log, p)] = k)
    BY <1>3, <1>4 DEF VInv, LogOK
<1>6. ValueAt(log, p) \notin known[w].superseded[k] \/ k \in known[w].unwritten
  <2>1. 1 \in DOMAIN kv_ptr[w] /\ k = ops[w][1].key /\ p = kv_ptr[w][1]
      BY <1>1, FirstOp
  <2>2. SeenOK(w, 1)
      BY <1>1, <2>1 DEF VInv, PointersOK
  <2>. QED
      BY <1>3, <1>4, <2>1, <2>2 DEF SeenOK
<1>7. AnswerOK(w, r)
    BY <1>3, <1>5, <1>6 DEF AnswerOK
<1>8. DOMAIN resp' = Worker /\ resp'[w] = r /\ \A x \in Worker \ {w} : resp'[x] = resp[x]
  <2>. HIDE DEF r
  <2>. QED
      BY <1>2 DEF AnswersOK
<1>9. AnswerOK(w, resp[w])'
  <2>. HIDE DEF r
  <2>. QED
      BY <1>2, <1>7, <1>8 DEF AnswerOK
<1>10. \A x \in Worker \ {w} : AnswerOK(x, resp[x])'
    BY <1>2, <1>8, AnswerKept DEF PutsStay
<1>. QED
    BY <1>8, <1>9, <1>10 DEF AnswersOK

\* The other steps of a batch, and the start of one.
LEMMA OtherAnswers ==
  ASSUME IInv, VInv, AnswersOK, PutsStay, [Next]_vars, \A w \in Worker : ~ GetHit(w)
  PROVE  AnswersOK'
<1>1. ASSUME NEW w \in Worker, NEW r, r.type # "GET_SUCCESS", resp' = [resp EXCEPT ![w] = r],
             \A x \in Worker \ {w} : known'[x] = known[x]
      PROVE  AnswersOK'
  <2>1. DOMAIN resp' = Worker /\ resp'[w] = r /\ \A x \in Worker \ {w} : resp'[x] = resp[x]
      BY <1>1 DEF AnswersOK
  <2>2. \A x \in Worker \ {w} : AnswerOK(x, resp[x])'
      BY <1>1, <2>1, AnswerKept
  <2>3. AnswerOK(w, resp[w])'
      BY <1>1, <2>1 DEF AnswerOK
  <2>. QED
      BY <2>1, <2>2, <2>3 DEF AnswersOK
<1>2. ASSUME resp' = resp,
             \A x \in Worker : /\ known'[x].superseded = known[x].superseded
                               /\ known[x].unwritten \subseteq known'[x].unwritten
      PROVE  AnswersOK'
  <2>1. \A x \in Worker : AnswerOK(x, resp[x])'
      BY <1>2, AnswerKept
  <2>. QED
      BY <1>2, <2>1 DEF AnswersOK
<1>3. known \in [Worker -> [done : [Key -> SUBSET Nat], superseded : [Key -> SUBSET Nat],
                            unwritten : SUBSET Key]]
    BY DEF VInv, HistoryOK
<1>4. Empty("NONE").type # "GET_SUCCESS" /\ Empty("GET_FAIL").type # "GET_SUCCESS"
      /\ Empty("PUT_SUCCESS").type # "GET_SUCCESS"
    BY DEF Empty
<1>5. ASSUME NEW w \in Worker, Start(w) PROVE AnswersOK'
  <2>1. resp' = [resp EXCEPT ![w] = Empty("NONE")] /\ known' = [known EXCEPT ![w] = Knowledge]
      BY <1>5 DEF Start
  <2>2. \A x \in Worker \ {w} : known'[x] = known[x]
      BY <1>3, <2>1
  <2>. QED
      BY <1>1, <1>4, <2>1, <2>2
<1>6. ASSUME NEW w \in Worker, LookupOne(w) PROVE AnswersOK'
  <2>1. PICK U : resp' = resp /\ known' = [known EXCEPT ![w].unwritten = @ \union U]
      BY <1>6 DEF LookupOne
  <2>2. \A x \in Worker : /\ known'[x].superseded = known[x].superseded
                          /\ known[x].unwritten \subseteq known'[x].unwritten
      BY <1>3, <2>1
  <2>. QED
      BY <1>2, <2>1, <2>2
<1>7. ASSUME NEW w \in Worker, GetMiss(w) \/ PutHit(w) \/ Advance(w) PROVE AnswersOK'
  <2>1. PICK r \in {Empty("GET_FAIL"), Empty("PUT_SUCCESS")} : Respond(w, r)
      BY <1>7 DEF GetMiss, PutHit, Advance
  <2>2. resp' = [resp EXCEPT ![w] = r] /\ known' = known /\ r.type # "GET_SUCCESS"
      BY <1>4, <2>1 DEF Respond
  <2>. QED
      BY <1>1, <2>2
<1>8. ASSUME resp' = resp, known' = known PROVE AnswersOK'
    BY <1>2, <1>8
<1>9. CASE Populate \/ UNCHANGED vars
    BY <1>8, <1>9 DEF Populate, vars, history
<1>10. ASSUME NEW w \in Worker, Insert(w) \/ EncodeOffset(w) \/ EncodeTag(w) \/ Paste(w)
       PROVE  AnswersOK'
    BY <1>8, <1>10 DEF Insert, EncodeOffset, EncodeTag, Paste, history
<1>. QED
    BY <1>5, <1>6, <1>7, <1>9, <1>10 DEF Next, Batch

\* A GET returns a value that was PUT to its key, and never one that had been replaced
\* before its batch started, as long as no GET reads an entry that is partly overwritten.
THEOREM GetsAlwaysCurrent == Spec /\ []EntriesReadWhole => []GetsCurrentValue
<1>1. Init => AnswersOK
  <2>1. Empty("NONE").type # "GET_SUCCESS"
      BY DEF Empty
  <2>2. Init => DOMAIN resp = Worker /\ \A w \in Worker : resp[w] = Empty("NONE")
      BY DEF Init
  <2>. QED
      BY <2>1, <2>2 DEF AnswersOK, AnswerOK
<1>2. IInv /\ IInv' /\ VInv /\ EntriesReadWhole /\ AnswersOK /\ [Next]_vars => AnswersOK'
  <2>. SUFFICES ASSUME IInv, IInv', VInv, EntriesReadWhole, AnswersOK, [Next]_vars
                PROVE  AnswersOK'
      OBVIOUS
  <2>1. PutsStay
      BY NextValues
  <2>. QED
      BY <2>1, GetAnswers, OtherAnswers
<1>3. AnswersOK => GetsCurrentValue
    BY DEF AnswersOK, AnswerOK, GetsCurrentValue
<1>. QED
    BY <1>1, <1>2, <1>3, Invariant, ValuesInvariant, PTL DEF Spec
=============================================================================
