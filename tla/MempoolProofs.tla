---------------------------- MODULE MempoolProofs ----------------------------
(***************************************************************************)
(* Theorems about Mempool, for slots of any size, blocks of any number of  *)
(* slots, and any addresses malloc returns. And about GeoFence, which     *)
(* keeps its records in such a pool.                                       *)
(***************************************************************************)
EXTENDS Mempool, GeoFence, FiniteSetTheorems, SequenceTheorems, WellFoundedInduction, TLAPS

Apart(b, c) == b + BlockSize <= c \/ c + BlockSize <= b

Injective(f) == \A i, j \in DOMAIN f : f[i] = f[j] => i = j

\* malloc keeps a new block apart from those of the heap, and all the
\* blocks of the pool are of the heap.
BlocksInv ==
  /\ \A i, j \in DOMAIN memory : i # j => Apart(memory[i], memory[j])
  /\ Range(memory) \subseteq heap

SlotsInv ==
  /\ Injective(freelist)
  /\ Range(freelist) \cap (held \cup rejected) = {}
  /\ held \cap rejected = {}
  /\ Range(freelist) \cup held \cup rejected = AllSlots

CountInv ==
  /\ IsFiniteSet(held) /\ IsFiniteSet(rejected)
  /\ blocks = Len(freelist)
  /\ used_slots = Cardinality(held) + Cardinality(rejected)
  /\ used_slots + blocks = alloc_time * SlotCount

Inv == TypeOK /\ (~destroyed => BlocksInv /\ SlotsInv /\ CountInv)

\* All addresses are so close together that no difference of two of them is
\* too large for an int.
NoWrap ==
  \A s \in AnySlot, b \in Bases :
    s - b \in -(IntSpan \div 2) .. (IntSpan \div 2) - 1

-----------------------------------------------------------------------------
(* Numbers.                                                                *)
LEMMA Numbers ==
  /\ SlotSize \in Nat \ {0} /\ SlotCount \in Nat \ {0} /\ MAX_EXP_TIME \in Nat \ {0}
  /\ BlockSize \in Nat /\ Bases \subseteq Nat
BY MempoolAssumption DEF BlockSize

(* Products with a positive number.                                        *)
LEMMA Multiples ==
  ASSUME NEW n \in Nat \ {0}, NEW k \in Int, NEW l \in Int
  PROVE  /\ k * n \in Int /\ (k <= l => k * n <= l * n) /\ (k * n = l * n => k = l)
         /\ (k < l => k * n + n <= l * n)
         /\ (k + 1) * n = k * n + n /\ n * k = k * n
OBVIOUS

(* Only one number of an interval of n has a given remainder.              *)
LEMMA Congruent ==
  ASSUME NEW n \in Nat \ {0}, NEW k \in Int, NEW x \in Int, NEW y \in Int,
         x - y = k * n, x - y < n, y - x < n
  PROVE  x = y
<1>1. CASE k >= 1
  BY <1>1, Multiples
<1>2. CASE k <= -1
  BY <1>2, Multiples
<1>3. CASE k = 0
  BY <1>3
<1> QED BY <1>1, <1>2, <1>3

(* Division leaves a remainder.                                            *)
LEMMA Remainder ==
  ASSUME NEW n \in Nat \ {0}, NEW x \in Int
  PROVE  x % n \in 0 .. n - 1 /\ \E q \in Int : x = q * n + (x % n)
<1>1. x = (x \div n) * n + (x % n) /\ x \div n \in Int
  OBVIOUS
<1>2. PICK q \in Int : q = x \div n
  BY <1>1
<1>3. x % n \in 0 .. n - 1
  OBVIOUS
<1> QED BY <1>1, <1>2, <1>3

(* An address less another, through int, is their difference if it fits.   *)
LEMMA IntDifference ==
  ASSUME NEW s \in Int, NEW b \in Int, s - b \in -(IntSpan \div 2) .. (IntSpan \div 2) - 1
  PROVE  AsInt(AsInt(s) - AsInt(b)) = s - b
<1> DEFINE h == IntSpan \div 2
<1>1. IntSpan \in Nat \ {0} /\ h \in Nat /\ 2 * h = IntSpan
  BY MempoolAssumption
<1> HIDE DEF h
<1>2. ASSUME NEW x \in Int
      PROVE  /\ AsInt(x) \in Int /\ AsInt(x) >= -h /\ AsInt(x) < h
             /\ \E q \in Int : AsInt(x) = x - q * IntSpan
  <2>1. PICK y \in Int : y = x + h
    BY <1>1
  <2>2. y % IntSpan \in 0 .. IntSpan - 1 /\ \E q \in Int : y = q * IntSpan + (y % IntSpan)
    BY <1>1, Remainder
  <2>3. PICK r \in 0 .. IntSpan - 1 : r = y % IntSpan
    BY <2>2
  <2>4. PICK q \in Int : y = q * IntSpan + r
    BY <2>2, <2>3
  <2>5. AsInt(x) = r - h
    BY <2>1, <2>3 DEF AsInt, h
  <2>6. q * IntSpan \in Int
    BY <1>1, Multiples
  <2>7. AsInt(x) = x - q * IntSpan
    BY <1>1, <2>1, <2>4, <2>5, <2>6
  <2> QED BY <1>1, <2>3, <2>5, <2>7
<1>3. PICK i \in Int : AsInt(s) = s - i * IntSpan
  BY <1>2
<1>4. PICK j \in Int : AsInt(b) = b - j * IntSpan
  BY <1>2
<1>5. PICK d \in Int : d = AsInt(s) - AsInt(b)
  BY <1>2
<1>6. PICK k \in Int : AsInt(d) = d - k * IntSpan
  BY <1>2
<1>7. AsInt(d) \in Int /\ AsInt(d) >= -h /\ AsInt(d) < h
  BY <1>2
<1>8. /\ i * IntSpan \in Int /\ j * IntSpan \in Int /\ k * IntSpan \in Int
      /\ (j - i - k) * IntSpan = j * IntSpan - i * IntSpan - k * IntSpan
  BY <1>1
<1>9. AsInt(d) - (s - b) = (j - i - k) * IntSpan
  BY <1>3, <1>4, <1>5, <1>6, <1>8
<1>10. s - b \in Int /\ s - b >= -h /\ s - b < h
  BY <1>1 DEF h
<1>11. j - i - k \in Int /\ AsInt(d) - (s - b) < IntSpan /\ (s - b) - AsInt(d) < IntSpan
  BY <1>1, <1>7, <1>10
<1>12. AsInt(d) = s - b
  BY <1>1, <1>7, <1>9, <1>10, <1>11, Congruent
<1> QED BY <1>5, <1>12

-----------------------------------------------------------------------------
(* Slots. Those of a block lie in it, one SlotSize apart; those of blocks  *)
(* that lie apart are different.                                           *)
LEMMA SlotLies ==
  ASSUME NEW b \in Nat, NEW s \in BlockOf(b)
  PROVE  s \in Nat /\ b <= s /\ s < b + BlockSize
<1>1. PICK k \in 0 .. SlotCount - 1 : s = b + k * SlotSize
  BY DEF BlockOf
<1>2. /\ 0 * SlotSize = 0 /\ 0 * SlotSize <= k * SlotSize /\ k * SlotSize \in Int
      /\ k * SlotSize + SlotSize <= SlotCount * SlotSize
  BY Numbers, Multiples
<1>3. BlockSize = SlotCount * SlotSize /\ BlockSize \in Nat /\ SlotSize \in Nat \ {0}
  BY Numbers DEF BlockSize
<1> QED BY <1>1, <1>2, <1>3

(* Blocks that lie apart share no slot.                                    *)
LEMMA ApartSlots ==
  ASSUME NEW b \in Nat, NEW c \in Nat, Apart(b, c)
  PROVE  BlockOf(b) \cap BlockOf(c) = {}
<1> SUFFICES ASSUME NEW s \in BlockOf(b), s \in BlockOf(c) PROVE FALSE
  OBVIOUS
<1>1. s \in Nat /\ b <= s /\ s < b + BlockSize /\ c <= s /\ s < c + BlockSize
  BY SlotLies
<1> QED BY <1>1, Numbers DEF Apart

(* mp_expand links each slot of a new block once.                          *)
LEMMA NewSlotsAre ==
  ASSUME NEW b \in Bases
  PROVE  /\ NewSlots(b) \in Seq(AnySlot) /\ Len(NewSlots(b)) = SlotCount
         /\ Injective(NewSlots(b)) /\ Range(NewSlots(b)) = BlockOf(b)
<1> DEFINE f == NewSlots(b)
<1>1. /\ b \in Nat /\ SlotCount \in Nat \ {0} /\ SlotSize \in Nat \ {0}
      /\ BlockOf(b) \subseteq AnySlot /\ DOMAIN f = 1 .. SlotCount
      /\ \A k \in 1 .. SlotCount : f[k] = b + (SlotCount - k) * SlotSize
  BY Numbers DEF NewSlots, AnySlot
<1> HIDE DEF f
<1>2. \A k \in 1 .. SlotCount : f[k] \in BlockOf(b)
  <2> SUFFICES ASSUME NEW k \in 1 .. SlotCount PROVE f[k] \in BlockOf(b)
    OBVIOUS
  <2>1. SlotCount - k \in 0 .. SlotCount - 1
    BY <1>1
  <2> QED BY <1>1, <2>1 DEF BlockOf
<1>3. f \in Seq(AnySlot) /\ Len(f) = SlotCount
  <2>1. f = [k \in 1 .. SlotCount |-> f[k]]
    BY <1>1 DEF f, NewSlots
  <2>2. f \in [1 .. SlotCount -> AnySlot]
    BY <1>1, <1>2, <2>1
  <2> QED BY <1>1, <2>2
<1>4. ASSUME NEW i \in 1 .. SlotCount, NEW j \in 1 .. SlotCount, f[i] = f[j] PROVE i = j
  <2>1. PICK x \in Int : x = SlotCount - i
    BY <1>1
  <2>2. PICK y \in Int : y = SlotCount - j
    BY <1>1
  <2>3. /\ x * SlotSize \in Int /\ y * SlotSize \in Int
        /\ x * SlotSize = y * SlotSize => x = y
    BY <1>1, Multiples
  <2> QED BY <1>1, <1>4, <2>1, <2>2, <2>3
<1>5. ASSUME NEW s \in BlockOf(b) PROVE s \in Range(f)
  <2>1. PICK k \in 0 .. SlotCount - 1 : s = b + k * SlotSize
    BY DEF BlockOf
  <2>2. SlotCount - k \in 1 .. SlotCount /\ SlotCount - (SlotCount - k) = k
    BY <1>1
  <2> QED BY <1>1, <2>1, <2>2 DEF Range
<1>6. Range(f) = BlockOf(b)
  BY <1>1, <1>2, <1>5 DEF Range
<1> QED BY <1>1, <1>3, <1>4, <1>6 DEF f, Injective

-----------------------------------------------------------------------------
(* Sequences without repetitions.                                          *)
LEMMA TailOf ==
  ASSUME NEW S, NEW f \in Seq(S), f # <<>>, Injective(f)
  PROVE  /\ Tail(f) \in Seq(S) /\ Len(Tail(f)) = Len(f) - 1 /\ Injective(Tail(f))
         /\ Head(f) \in Range(f) /\ Head(f) \in S
         /\ Range(Tail(f)) = Range(f) \ {Head(f)}
<1>1. /\ Len(f) \in Nat \ {0} /\ DOMAIN f = 1 .. Len(f) /\ Head(f) = f[1]
      /\ Tail(f) \in Seq(S) /\ Len(Tail(f)) = Len(f) - 1
      /\ DOMAIN Tail(f) = 1 .. Len(f) - 1
      /\ \A i \in 1 .. Len(f) - 1 : Tail(f)[i] = f[i + 1]
  OBVIOUS
<1>2. 1 \in DOMAIN f /\ \A i \in DOMAIN Tail(f) : i + 1 \in DOMAIN f /\ i + 1 # 1
  BY <1>1
<1>3. Injective(Tail(f))
  BY <1>1, <1>2 DEF Injective
<1>4. \A i \in DOMAIN f : i # 1 => i - 1 \in DOMAIN Tail(f) /\ Tail(f)[i - 1] = f[i]
  BY <1>1
<1>5. Range(Tail(f)) = Range(f) \ {Head(f)}
  <2>1. \A x \in Range(Tail(f)) : x \in Range(f) /\ x # Head(f)
    BY <1>1, <1>2 DEF Range, Injective
  <2>2. \A x \in Range(f) : x # Head(f) => x \in Range(Tail(f))
    <3> SUFFICES ASSUME NEW i \in DOMAIN f, f[i] # Head(f) PROVE f[i] \in Range(Tail(f))
      BY DEF Range
    <3>1. i - 1 \in DOMAIN Tail(f) /\ Tail(f)[i - 1] = f[i]
      BY <1>1, <1>4
    <3> QED BY <3>1 DEF Range
  <2> QED BY <2>1, <2>2
<1>6. Head(f) \in Range(f) /\ Head(f) \in S
  BY <1>1, <1>2 DEF Range
<1> QED BY <1>1, <1>3, <1>5, <1>6

(* A new element in front keeps a sequence without repetitions.            *)
LEMMA PushOn ==
  ASSUME NEW S, NEW f \in Seq(S), Injective(f), NEW s \in S, s \notin Range(f)
  PROVE  /\ <<s>> \o f \in Seq(S) /\ Len(<<s>> \o f) = Len(f) + 1 /\ Injective(<<s>> \o f)
         /\ Range(<<s>> \o f) = Range(f) \cup {s}
<1> DEFINE g == <<s>> \o f
<1>1. /\ Len(f) \in Nat /\ DOMAIN f = 1 .. Len(f)
      /\ g \in Seq(S) /\ Len(g) = Len(f) + 1 /\ DOMAIN g = 1 .. Len(f) + 1
      /\ g[1] = s /\ \A i \in 1 .. Len(f) : g[i + 1] = f[i]
  OBVIOUS
<1> HIDE DEF g
<1>2. \A i \in DOMAIN g : i = 1 \/ (i - 1 \in DOMAIN f /\ g[i] = f[i - 1])
  BY <1>1
<1>3. Injective(g)
  <2>1. \A i \in DOMAIN g : i # 1 => i - 1 \in DOMAIN f /\ g[i] = f[i - 1] /\ g[i] # s
    BY <1>2 DEF Range
  <2>2. SUFFICES ASSUME NEW i \in DOMAIN g, NEW j \in DOMAIN g, g[i] = g[j]
                 PROVE  i = j
    BY DEF Injective
  <2>3. i = 1 <=> j = 1
    BY <1>1, <2>1, <2>2
  <2>4. ASSUME i # 1, j # 1 PROVE i = j
    <3>1. i - 1 = j - 1
      BY <2>1, <2>2, <2>4 DEF Injective
    <3> QED BY <1>1, <3>1
  <2> QED BY <2>3, <2>4
<1>4. Range(g) = Range(f) \cup {s}
  <2>1. \A x \in Range(g) : x = s \/ x \in Range(f)
    BY <1>1, <1>2 DEF Range
  <2>2. \A x \in Range(f) : x \in Range(g)
    <3>1. \A i \in DOMAIN f : i + 1 \in DOMAIN g /\ g[i + 1] = f[i]
      BY <1>1
    <3> QED BY <3>1 DEF Range
  <2>3. s \in Range(g)
    BY <1>1 DEF Range
  <2> QED BY <2>1, <2>2, <2>3
<1> QED BY <1>1, <1>3, <1>4 DEF g

(* A sequence without repetitions has as many elements as it is long.      *)
LEMMA RangeSize ==
  ASSUME NEW S, NEW f \in Seq(S), Injective(f)
  PROVE  Cardinality(Range(f)) = Len(f) /\ IsFiniteSet(Range(f))
<1>1. IsFiniteSet(1 .. Len(f)) /\ Cardinality(1 .. Len(f)) = Len(f)
  <2>1. Len(f) \in Nat /\ Len(f) \in Int /\ 1 \in Int
    OBVIOUS
  <2> QED BY <2>1, FS_Interval
<1>2. f \in Surjection(1 .. Len(f), Range(f)) /\ f \in Injection(1 .. Len(f), Range(f))
  BY DEF Surjection, Injection, IsInjective, Injective, Range
<1> QED BY <1>1, <1>2, FS_Surjection

-----------------------------------------------------------------------------
(* The first block.                                                        *)
LEMMA InitInv == Init => Inv
<1> SUFFICES ASSUME Init PROVE Inv
  OBVIOUS
<1>1. PICK b \in Bases :
        /\ memory = <<b>> /\ freelist = NewSlots(b) /\ blocks = SlotCount
        /\ used_slots = 0 /\ held = {} /\ rejected = {} /\ heap = {b} /\ destroyed = FALSE
  BY DEF Init
<1>2. Len(memory) = 1 /\ DOMAIN memory = {1} /\ memory[1] = b /\ Range(memory) = {b}
  BY <1>1 DEF Range
<1>3. TypeOK
  <2>1. memory \in Seq(Bases) /\ alloc_time <= MAX_EXP_TIME
    BY <1>1, <1>2, Numbers DEF alloc_time
  <2>2. freelist \in Seq(AnySlot) /\ blocks \in Nat
    BY <1>1, Numbers, NewSlotsAre
  <2> QED BY <1>1, <2>1, <2>2 DEF TypeOK
<1>4. BlocksInv
  BY <1>1, <1>2 DEF BlocksInv
<1>5. SlotsInv
  <2>1. AllSlots = BlockOf(b)
    BY <1>2 DEF AllSlots
  <2> QED BY <1>1, <2>1, NewSlotsAre DEF SlotsInv
<1>6. CountInv
  BY <1>1, <1>2, Numbers, NewSlotsAre, FS_EmptySet DEF CountInv, alloc_time
<1> QED BY <1>3, <1>4, <1>5, <1>6 DEF Inv

(* A slot is taken from the free list.                                     *)
LEMMA AllocFromListInv == Inv /\ AllocFromList => Inv'
<1> SUFFICES ASSUME Inv, AllocFromList PROVE Inv'
  OBVIOUS
<1> DEFINE s == Head(freelist)
<1>1. /\ ~destroyed /\ freelist # <<>> /\ freelist \in Seq(AnySlot)
      /\ held' = held \cup {s} /\ freelist' = Tail(freelist)
      /\ used_slots' = used_slots + 1 /\ blocks' = blocks - 1
      /\ UNCHANGED <<memory, rejected, heap, destroyed>>
      /\ TypeOK /\ BlocksInv /\ SlotsInv /\ CountInv
  BY DEF AllocFromList, Inv, TypeOK
<1>2. /\ freelist' \in Seq(AnySlot) /\ Len(freelist') = Len(freelist) - 1
      /\ Injective(freelist') /\ s \in Range(freelist) /\ s \in AnySlot
      /\ Range(freelist') = Range(freelist) \ {s}
  BY <1>1, TailOf DEF SlotsInv
<1>3. /\ Len(freelist) \in Nat \ {0} /\ alloc_time * SlotCount \in Int
      /\ used_slots \in Nat /\ blocks \in Nat
  <2>1. alloc_time \in Nat
    BY <1>1 DEF TypeOK, alloc_time
  <2> QED BY <1>1, <2>1, Numbers DEF TypeOK
<1>4. /\ IsFiniteSet(held') /\ Cardinality(held') = Cardinality(held) + 1
      /\ Cardinality(held) \in Nat /\ Cardinality(rejected) \in Nat
  <2>1. s \notin held
    BY <1>1, <1>2 DEF SlotsInv
  <2> QED BY <1>1, <2>1, FS_AddElement, FS_CardinalityType DEF CountInv
<1> HIDE DEF s
<1>5. TypeOK'
  BY <1>1, <1>2, <1>3 DEF TypeOK, CountInv, alloc_time
<1>6. BlocksInv'
  BY <1>1 DEF BlocksInv
<1>7. SlotsInv'
  BY <1>1, <1>2 DEF SlotsInv, AllSlots
<1>8. CountInv'
  <2>1. alloc_time' = alloc_time
    BY <1>1 DEF alloc_time
  <2>2. used_slots' + blocks' = alloc_time' * SlotCount
    BY <1>1, <1>3, <2>1 DEF CountInv
  <2>3. blocks' = Len(freelist')
    BY <1>1, <1>2 DEF CountInv
  <2>4. used_slots' = Cardinality(held') + Cardinality(rejected')
    BY <1>1, <1>4 DEF CountInv
  <2> QED BY <1>1, <1>4, <2>2, <2>3, <2>4 DEF CountInv
<1> QED BY <1>5, <1>6, <1>7, <1>8 DEF Inv

(* A new block, all of whose slots are new.                                *)
LEMMA AllocExpandingInv == ASSUME Inv, NEW b \in Bases, AllocExpanding(b) PROVE Inv'
<1> DEFINE f == NewSlots(b)
           s == Head(f)
           n == alloc_time
<1>1. /\ ~destroyed /\ freelist = <<>> /\ n < MAX_EXP_TIME
      /\ \A c \in heap : b + BlockSize <= c \/ c + BlockSize <= b
      /\ memory' = Append(memory, b) /\ heap' = heap \cup {b}
      /\ held' = held \cup {s} /\ freelist' = Tail(f)
      /\ used_slots' = used_slots + 1 /\ blocks' = blocks + SlotCount - 1
      /\ UNCHANGED <<rejected, destroyed>>
      /\ TypeOK /\ BlocksInv /\ SlotsInv /\ CountInv
  BY DEF AllocExpanding, MayExpand, malloc, Inv
<1>2. /\ f \in Seq(AnySlot) /\ Len(f) = SlotCount /\ SlotCount \in Nat \ {0}
      /\ Injective(f) /\ Range(f) = BlockOf(b)
  BY NewSlotsAre, Numbers
<1>3. f # <<>>
  BY <1>2
<1> HIDE DEF f
<1>4. /\ freelist' \in Seq(AnySlot) /\ Len(freelist') = SlotCount - 1
      /\ Injective(freelist') /\ s \in Range(f) /\ s \in AnySlot
      /\ Range(freelist') = Range(f) \ {s}
  BY <1>1, <1>2, <1>3, TailOf
<1> HIDE DEF s
<1>5. /\ n \in Nat /\ n = Len(memory) /\ memory \in Seq(Bases) /\ memory' \in Seq(Bases)
      /\ Len(memory') = n + 1 /\ DOMAIN memory = 1 .. n /\ DOMAIN memory' = 1 .. n + 1
      /\ memory'[n + 1] = b /\ \A i \in 1 .. n : memory'[i] = memory[i]
  BY <1>1 DEF TypeOK, alloc_time
<1> HIDE DEF n
<1>6. \A i \in 1 .. n : memory[i] \in heap /\ memory[i] \in Nat
  <2>1. \A i \in 1 .. n : memory[i] \in Bases
    BY <1>5
  <2>2. \A i \in 1 .. n : memory[i] \in Range(memory)
    BY <1>5 DEF Range
  <2> QED BY <1>1, <2>1, <2>2, Numbers DEF BlocksInv
<1>7. Range(memory') = Range(memory) \cup {b}
  <2>1. \A i \in 1 .. n + 1 : i = n + 1 \/ i \in 1 .. n
    BY <1>5
  <2>2. \A i \in 1 .. n : i \in 1 .. n + 1
    BY <1>5
  <2>3. \A x \in Range(memory') : x \in Range(memory) \cup {b}
    BY <1>5, <2>1 DEF Range
  <2>4. \A x \in Range(memory) : x \in Range(memory')
    BY <1>5, <2>2 DEF Range
  <2>5. b \in Range(memory')
    BY <1>5 DEF Range
  <2> QED BY <2>3, <2>4, <2>5
<1>8. AllSlots' = AllSlots \cup BlockOf(b) /\ AllSlots \cap BlockOf(b) = {}
  <2>1. AllSlots' = AllSlots \cup BlockOf(b)
    BY <1>7 DEF AllSlots
  <2>2. ASSUME NEW c \in Range(memory) PROVE BlockOf(c) \cap BlockOf(b) = {}
    <3>1. c \in Nat /\ b \in Nat /\ Apart(c, b)
      BY <1>1, <1>5, <1>6, Numbers DEF Range, Apart
    <3> QED BY <3>1, ApartSlots
  <2> QED BY <2>1, <2>2 DEF AllSlots
<1>9. BlocksInv'
  <2>1. ASSUME NEW i \in 1 .. n + 1, NEW j \in 1 .. n + 1, i # j
        PROVE  Apart(memory'[i], memory'[j])
    <3>1. CASE i \in 1 .. n /\ j \in 1 .. n
      BY <1>1, <1>5, <2>1, <3>1 DEF BlocksInv
    <3>2. CASE i = n + 1 /\ j \in 1 .. n
      BY <1>1, <1>5, <1>6, <3>2 DEF Apart
    <3>3. CASE j = n + 1 /\ i \in 1 .. n
      BY <1>1, <1>5, <1>6, <3>3 DEF Apart
    <3> QED BY <1>5, <2>1, <3>1, <3>2, <3>3
  <2> QED BY <1>1, <1>5, <1>7, <2>1 DEF BlocksInv, Apart, BlockSize
<1>10. Range(freelist) = {}
  BY <1>1 DEF Range
<1>11. SlotsInv'
  BY <1>1, <1>2, <1>4, <1>8, <1>10 DEF SlotsInv
<1>12. CountInv'
  <2>1. s \notin held
    BY <1>1, <1>2, <1>4, <1>8 DEF SlotsInv
  <2>2. /\ IsFiniteSet(held') /\ Cardinality(held') = Cardinality(held) + 1
        /\ Cardinality(held) \in Nat /\ Cardinality(rejected) \in Nat
    BY <1>1, <2>1, FS_AddElement, FS_CardinalityType DEF CountInv
  <2>3. (n + 1) * SlotCount = n * SlotCount + SlotCount /\ n * SlotCount \in Int
    BY <1>2, <1>5, Multiples
  <2>4. blocks = 0 /\ used_slots = n * SlotCount /\ used_slots \in Nat
    <3>1. blocks = 0
      BY <1>1 DEF CountInv
    <3>2. used_slots + blocks = n * SlotCount /\ used_slots \in Nat
      BY <1>1 DEF CountInv, TypeOK, n
    <3> QED BY <3>1, <3>2
  <2>5. alloc_time' = n + 1
    BY <1>5 DEF alloc_time
  <2>6. used_slots' + blocks' = alloc_time' * SlotCount
    BY <1>1, <1>2, <2>3, <2>4, <2>5
  <2>7. blocks' = Len(freelist')
    BY <1>1, <1>2, <1>4, <2>4
  <2>8. used_slots' = Cardinality(held') + Cardinality(rejected')
    BY <1>1, <2>2 DEF CountInv
  <2> QED BY <1>1, <2>2, <2>6, <2>7, <2>8 DEF CountInv
<1>13. TypeOK'
  <2>1. n + 1 <= MAX_EXP_TIME
    BY <1>1, <1>5, Numbers
  <2>2. used_slots' \in Nat /\ blocks' \in Nat
    BY <1>1, <1>2 DEF TypeOK, CountInv
  <2> QED BY <1>1, <1>4, <1>5, <2>1, <2>2 DEF TypeOK, alloc_time
<1> QED BY <1>9, <1>11, <1>12, <1>13 DEF Inv

(* What mp_free does with a slot: back on the list, or refused.            *)
LEMMA ReturnInv == ASSUME Inv, NEW s \in held, mp_free(s), Return(s) PROVE Inv'
<1>1. /\ ~destroyed /\ freelist \in Seq(AnySlot) /\ s \in AnySlot
      /\ held' = held \ {s} /\ freelist' = <<s>> \o freelist
      /\ blocks' = blocks + 1 /\ used_slots' = used_slots - 1
      /\ UNCHANGED <<memory, rejected, heap, destroyed>>
      /\ TypeOK /\ BlocksInv /\ SlotsInv /\ CountInv
  BY DEF mp_free, Return, Inv, TypeOK
<1>2. /\ freelist' \in Seq(AnySlot) /\ Len(freelist') = Len(freelist) + 1
      /\ Injective(freelist') /\ Range(freelist') = Range(freelist) \cup {s}
  <2>1. s \notin Range(freelist)
    BY <1>1 DEF SlotsInv
  <2> QED BY <1>1, <2>1, PushOn DEF SlotsInv
<1>3. /\ IsFiniteSet(held') /\ Cardinality(held') = Cardinality(held) - 1
      /\ Cardinality(held) \in Nat \ {0} /\ Cardinality(rejected) \in Nat
  BY <1>1, FS_RemoveElement, FS_CardinalityType, FS_EmptySet DEF CountInv
<1>4. /\ alloc_time' = alloc_time /\ used_slots \in Nat /\ blocks \in Nat
      /\ Len(freelist) \in Nat
  BY <1>1 DEF alloc_time, TypeOK
<1>5. CountInv'
  <2>1. used_slots' + blocks' = alloc_time' * SlotCount
    BY <1>1, <1>4 DEF CountInv
  <2>2. blocks' = Len(freelist')
    BY <1>1, <1>2 DEF CountInv
  <2>3. used_slots' = Cardinality(held') + Cardinality(rejected')
    BY <1>1, <1>3 DEF CountInv
  <2> QED BY <1>1, <1>3, <2>1, <2>2, <2>3 DEF CountInv
<1>6. TypeOK'
  <2>1. used_slots' \in Nat
    BY <1>1, <1>3 DEF CountInv
  <2> QED BY <1>1, <1>2, <1>4, <2>1 DEF TypeOK
<1>7. BlocksInv'
  BY <1>1 DEF BlocksInv
<1>8. SlotsInv'
  BY <1>1, <1>2 DEF SlotsInv, AllSlots
<1> QED BY <1>5, <1>6, <1>7, <1>8 DEF Inv

(* A slot that mp_free refuses leaves held for rejected.                   *)
LEMMA RefuseInv == ASSUME Inv, NEW s \in held, mp_free(s), Refuse(s) PROVE Inv'
<1>1. /\ ~destroyed /\ s \in AnySlot
      /\ held' = held \ {s} /\ rejected' = rejected \cup {s}
      /\ UNCHANGED <<memory, freelist, blocks, used_slots, heap, destroyed>>
      /\ TypeOK /\ BlocksInv /\ SlotsInv /\ CountInv
  BY DEF mp_free, Refuse, Inv, TypeOK
<1>2. /\ IsFiniteSet(held') /\ Cardinality(held') = Cardinality(held) - 1
      /\ IsFiniteSet(rejected') /\ Cardinality(rejected') = Cardinality(rejected) + 1
      /\ Cardinality(held) \in Nat /\ Cardinality(rejected) \in Nat
  <2>1. s \notin rejected
    BY <1>1 DEF SlotsInv
  <2> QED BY <1>1, <2>1, FS_AddElement, FS_RemoveElement, FS_CardinalityType DEF CountInv
<1>3. TypeOK'
  BY <1>1 DEF TypeOK, alloc_time
<1>4. BlocksInv'
  BY <1>1 DEF BlocksInv
<1>5. SlotsInv'
  BY <1>1 DEF SlotsInv, AllSlots
<1>6. CountInv'
  <2>1. alloc_time' = alloc_time
    BY <1>1 DEF alloc_time
  <2> QED BY <1>1, <1>2, <2>1 DEF CountInv
<1> QED BY <1>3, <1>4, <1>5, <1>6 DEF Inv

-----------------------------------------------------------------------------
(* Every step of the pool keeps the invariant.                             *)
LEMMA NextInv == Inv /\ [Next]_vars => Inv'
<1> SUFFICES ASSUME Inv, [Next]_vars PROVE Inv'
  OBVIOUS
<1>1. CASE \E s \in held : mp_free(s)
  BY <1>1, ReturnInv, RefuseInv DEF mp_free
<1>2. CASE mp_destroy
  BY <1>2, Numbers DEF mp_destroy, Inv, TypeOK, alloc_time
<1>3. CASE UNCHANGED vars
  BY <1>3 DEF vars, Inv, TypeOK, alloc_time, BlocksInv, SlotsInv, AllSlots, CountInv
<1> QED BY <1>1, <1>2, <1>3, AllocFromListInv, AllocExpandingInv DEF Next

(* The invariant holds in every behaviour.                                 *)
LEMMA SpecInv == Spec => []Inv
<1> QED BY InitInv, NextInv, PTL DEF Spec

-----------------------------------------------------------------------------
(* What the variables hold, always.                                        *)
THEOREM TypeCorrect == Spec => []TypeOK
<1>1. Inv => TypeOK
  BY DEF Inv
<1> QED BY <1>1, SpecInv, PTL

(* SlotsPartitioned: no slot is handed out twice or linked twice, and none *)
(* disappears, however often the pool is expanded.                         *)
THEOREM SlotsStayPartitioned == Spec => []SlotsPartitioned
<1>1. Inv => SlotsPartitioned
  <2> SUFFICES ASSUME Inv, ~destroyed PROVE SlotsPartitioned
    BY DEF SlotsPartitioned
  <2>1. SlotsInv /\ freelist \in Seq(AnySlot)
    BY DEF Inv, TypeOK
  <2>2. Cardinality(Range(freelist)) = Len(freelist)
    BY <2>1, RangeSize DEF SlotsInv
  <2> QED BY <2>1, <2>2 DEF SlotsInv, SlotsPartitioned
<1> QED BY <1>1, SpecInv, PTL

(* CountersAgree: blocks and used_slots count the free slots and the others*)
THEOREM CountersStayTrue == Spec => []CountersAgree
<1>1. Inv => CountersAgree
  BY DEF Inv, CountInv, CountersAgree
<1> QED BY <1>1, SpecInv, PTL

(* Where no difference of two addresses wraps, the closest block that      *)
(* mp_free finds for a slot other than the first is its own.               *)
LEMMA OwnBlockAccepts ==
  ASSUME NoWrap, Inv, ~destroyed, NEW s \in held, ~Accepts(s)
  PROVE  s \in Range(memory)
<1>1. PICK b \in Range(memory) : s \in BlockOf(b)
  BY DEF Inv, SlotsInv, AllSlots
<1>2. PICK k \in 0 .. SlotCount - 1 : s = b + k * SlotSize
  BY <1>1 DEF BlockOf
<1>3. PICK o \in 1 .. alloc_time : b = memory[o]
  BY <1>1 DEF Range, Inv, TypeOK, alloc_time
<1>4. \A i \in 1 .. alloc_time : memory[i] \in Bases /\ memory[i] \in Nat
  <2>1. \A i \in 1 .. alloc_time : memory[i] \in Bases
    BY DEF Inv, TypeOK, alloc_time
  <2> QED BY <2>1, Numbers
<1>5. s \in Nat /\ b \in Nat /\ b <= s /\ s < b + BlockSize /\ s \in AnySlot
  BY <1>1, <1>3, <1>4, SlotLies DEF Inv, TypeOK
<1>6. \A i \in 1 .. alloc_time : AsInt(AsInt(s) - AsInt(memory[i])) = s - memory[i]
  BY <1>4, <1>5, IntDifference DEF NoWrap
<1> SUFFICES ASSUME s # b PROVE FALSE
  BY <1>1
<1>7. s - b \in Offsets(s)
  BY <1>3, <1>5, <1>6 DEF Offsets
<1>8. ASSUME NEW d \in Offsets(s) PROVE s - b <= d
  <2>1. PICK i \in 1 .. alloc_time : d = s - memory[i] /\ d > 0
    BY <1>6 DEF Offsets
  <2>2. i = o \/ Apart(memory[i], memory[o])
    BY DEF Inv, BlocksInv, TypeOK, alloc_time
  <2> QED BY <1>3, <1>4, <1>5, <2>1, <2>2, Numbers DEF Apart
<1>9. (s - b) % SlotSize = 0
  <2>1. PICK x \in Int : x = k * SlotSize /\ x = s - b
    BY <1>2, <1>5, Numbers, Multiples
  <2>2. PICK q \in Int : x = q * SlotSize + (x % SlotSize)
    BY Numbers, Remainder
  <2>3. PICK r \in 0 .. SlotSize - 1 : r = x % SlotSize
    BY Numbers, Remainder
  <2>4. r - 0 = (k - q) * SlotSize
    BY <2>1, <2>2, <2>3, Numbers, Multiples
  <2>5. r = 0
    BY <2>4, Numbers, Congruent
  <2> QED BY <2>1, <2>3, <2>5
<1> QED BY <1>7, <1>8, <1>9 DEF Accepts

(* LosesOnlyFirstSlots: mp_free refuses no slot but the first of a block.  *)
THEOREM FirstSlotsAreLost == ASSUME NoWrap PROVE Spec => []LosesOnlyFirstSlots
<1>1. Init => LosesOnlyFirstSlots
  BY DEF Init, LosesOnlyFirstSlots
<1>2. Inv /\ LosesOnlyFirstSlots /\ [Next]_vars => LosesOnlyFirstSlots'
  <2> SUFFICES ASSUME Inv, LosesOnlyFirstSlots, [Next]_vars PROVE LosesOnlyFirstSlots'
    OBVIOUS
  <2>1. CASE \E b \in Bases : AllocExpanding(b)
    <3>1. PICK b \in Bases : memory' = Append(memory, b) /\ rejected' = rejected
      BY <2>1 DEF AllocExpanding
    <3>2. Range(memory) \subseteq Range(memory')
      BY <3>1 DEF Range, Inv, TypeOK
    <3> QED BY <3>1, <3>2 DEF LosesOnlyFirstSlots
  <2>2. CASE \E s \in held : mp_free(s)
    <3>1. PICK s \in held : mp_free(s)
      BY <2>2
    <3>2. memory' = memory /\ ~destroyed
      BY <3>1 DEF mp_free
    <3>3. \/ rejected' = rejected
          \/ ~Accepts(s) /\ rejected' = rejected \cup {s}
      BY <3>1 DEF mp_free, Return, Refuse
    <3>4. ~Accepts(s) => s \in Range(memory)
      BY <3>2, OwnBlockAccepts
    <3> QED BY <3>2, <3>3, <3>4 DEF LosesOnlyFirstSlots
  <2>3. CASE mp_destroy
    BY <2>3 DEF mp_destroy, LosesOnlyFirstSlots
  <2>4. CASE AllocFromList \/ UNCHANGED vars
    BY <2>4 DEF AllocFromList, vars, LosesOnlyFirstSlots
  <2> QED BY <2>1, <2>2, <2>3, <2>4 DEF Next
<1> QED BY <1>1, <1>2, SpecInv, PTL DEF Spec

-----------------------------------------------------------------------------
(***************************************************************************)
(* The check that records and raises violations: GeoFence, for any         *)
(* objects, beacons, settings, capacity of the violation list and packets. *)
(***************************************************************************)
Records == [mac : Objects, ts : 0 .. now]
Elems(s) == { s[i] : i \in 1 .. Len(s) }
Distinct(s) == \A i, j \in 1 .. Len(s) : s[i].mac = s[j].mac => i = j
Stamped == \A e \in Elems(violations) : e.ts = perimeter[e.mac]

FenceInv == FenceTypeOK /\ Distinct(violations) /\ Stamped

-----------------------------------------------------------------------------
(* A set of naturals has a least element.                                  *)
LEMMA Least == ASSUME NEW T \in SUBSET Nat, T # {} PROVE \E m \in T : \A n \in T : m <= n
<1> DEFINE R == OpToRel(<, Nat)
<1>1. IsWellFoundedOn(R, Nat)
  BY NatLessThanWellFounded
<1>2. PICK m \in T : \A n \in T : <<n, m>> \notin R
  <2> HIDE DEF R
  <2> QED BY <1>1, WFMin
<1>3. \A n \in T : ~(n < m)
  BY <1>2 DEF OpToRel
<1> QED BY <1>3

(* So what holds of 0, and of k when it holds of k - 1, holds up to any    *)
(* bound.                                                                  *)
LEMMA UpTo ==
  ASSUME NEW N \in Nat, NEW T, 0 \in T, \A k \in 1 .. N : k - 1 \in T => k \in T
  PROVE  0 .. N \subseteq T
<1> DEFINE B == (0 .. N) \ T
<1> SUFFICES ASSUME B # {} PROVE FALSE
  OBVIOUS
<1>1. PICK m \in B : \A n \in B : m <= n
  <2>1. B \in SUBSET Nat
    OBVIOUS
  <2> HIDE DEF B
  <2> QED BY <2>1, Least
<1>2. m \in 1 .. N /\ m - 1 \in 0 .. N /\ ~(m <= m - 1)
  OBVIOUS
<1> QED BY <1>1, <1>2

-----------------------------------------------------------------------------
(* Sequences of records, as sets.                                          *)
LEMMA ElemsIs ==
  ASSUME NEW s \in Seq(Records)
  PROVE  Elems(s) \subseteq Records /\ Len(s) \in Nat
BY LenProperties, ElementOfSeq DEF Elems

(* A list and one more record.                                             *)
LEMMA AppendedRecord ==
  ASSUME NEW s \in Seq(Records), NEW e \in Records
  PROVE  /\ Append(s, e) \in Seq(Records) /\ Len(Append(s, e)) = Len(s) + 1
         /\ Elems(Append(s, e)) = Elems(s) \cup {e}
         /\ Distinct(s) /\ (\A d \in Elems(s) : d.mac # e.mac) => Distinct(Append(s, e))
<1> DEFINE t == Append(s, e)
           last == Len(s) + 1
<1>1. /\ t \in Seq(Records) /\ Len(t) = last /\ Len(s) \in Nat
      /\ (\A i \in 1 .. Len(s) : t[i] = s[i]) /\ t[last] = e
  BY AppendProperties, LenProperties
<1>2. \A i \in 1 .. Len(t) : (i \in 1 .. Len(s) /\ t[i] = s[i]) \/ (i = last /\ t[i] = e)
  BY <1>1
<1>3. (\A i \in 1 .. Len(s) : i \in 1 .. Len(t) /\ s[i] = t[i]) /\ last \in 1 .. Len(t)
      /\ t[last] = e
  BY <1>1
<1> HIDE DEF t, last
<1>4. Elems(t) = Elems(s) \cup {e}
  BY <1>2, <1>3 DEF Elems
<1>5. ASSUME Distinct(s), \A d \in Elems(s) : d.mac # e.mac PROVE Distinct(t)
  <2>1. \A i \in 1 .. Len(s) : s[i].mac # e.mac
    BY <1>5 DEF Elems
  <2> QED BY <1>2, <1>5, <2>1 DEF Distinct
<1> QED BY <1>1, <1>4, <1>5 DEF t, last

(* Two lists in one.                                                       *)
LEMMA JoinedRecords ==
  ASSUME NEW s \in Seq(Records), NEW t \in Seq(Records)
  PROVE  /\ s \o t \in Seq(Records) /\ Len(s \o t) = Len(s) + Len(t)
         /\ Elems(s \o t) = Elems(s) \cup Elems(t)
         /\ Distinct(s) /\ Distinct(t) /\ (\A d \in Elems(s), e \in Elems(t) : d.mac # e.mac)
              => Distinct(s \o t)
<1> DEFINE u == s \o t
           len == Len(s)
<1>1. /\ u \in Seq(Records) /\ Len(u) = Len(s) + Len(t) /\ Len(s) \in Nat /\ Len(t) \in Nat
      /\ \A i \in 1 .. Len(s) + Len(t) : u[i] = IF i <= Len(s) THEN s[i] ELSE t[i - Len(s)]
  BY ConcatProperties, LenProperties
<1>2. \A i \in 1 .. Len(u) : \/ i \in 1 .. Len(s) /\ u[i] = s[i]
                             \/ i - len \in 1 .. Len(t) /\ u[i] = t[i - len] /\ i \in Nat
  BY <1>1
<1>3. /\ \A i \in 1 .. Len(s) : i \in 1 .. Len(u) /\ s[i] = u[i]
      /\ \A i \in 1 .. Len(t) : i + len \in 1 .. Len(u) /\ t[i] = u[i + len]
  <2>1. \A i \in 1 .. Len(s) : i \in 1 .. Len(u) /\ s[i] = u[i]
    BY <1>1
  <2>2. ASSUME NEW i \in 1 .. Len(t) PROVE i + len \in 1 .. Len(u) /\ t[i] = u[i + len]
    <3>1. i + len \in 1 .. Len(s) + Len(t) /\ ~(i + len <= len) /\ (i + len) - len = i
      BY <1>1
    <3> QED BY <1>1, <3>1
  <2> QED BY <2>1, <2>2
<1>4. len \in Nat
  BY <1>1
<1> HIDE DEF u, len
<1>5. Elems(u) = Elems(s) \cup Elems(t)
  BY <1>2, <1>3 DEF Elems
<1>6. ASSUME Distinct(s), Distinct(t), \A d \in Elems(s), e \in Elems(t) : d.mac # e.mac
      PROVE  Distinct(u)
  <2>1. \A i \in 1 .. Len(s), j \in 1 .. Len(t) : s[i].mac # t[j].mac /\ t[j].mac # s[i].mac
    BY <1>6 DEF Elems
  <2> SUFFICES ASSUME NEW i \in 1 .. Len(u), NEW j \in 1 .. Len(u), u[i].mac = u[j].mac PROVE i = j
    BY DEF Distinct
  <2>2. CASE i \in 1 .. Len(s) /\ u[i] = s[i]
    BY <1>2, <1>6, <2>1, <2>2 DEF Distinct
  <2>3. CASE i - len \in 1 .. Len(t) /\ u[i] = t[i - len] /\ i \in Nat
    <3>1. CASE j \in 1 .. Len(s) /\ u[j] = s[j]
      BY <2>1, <2>3, <3>1
    <3>2. CASE j - len \in 1 .. Len(t) /\ u[j] = t[j - len] /\ j \in Nat
      <4>1. i - len = j - len
        BY <1>6, <2>3, <3>2 DEF Distinct
      <4> QED BY <1>4, <2>3, <3>2, <4>1
    <3> QED BY <1>2, <3>1, <3>2
  <2> QED BY <1>2, <2>2, <2>3
<1> QED BY <1>1, <1>5, <1>6 DEF u

(* What lies before and after a record of a list.                          *)
Ahead(s, p) == SubSeq(s, 1, p - 1)
Past(s, p) == SubSeq(s, p + 1, Len(s))
Around(s, p, b, a) ==
  /\ b \in Seq(Records) /\ a \in Seq(Records) /\ Len(b) + 1 + Len(a) = Len(s)
  /\ Distinct(b) /\ Distinct(a)
  /\ Elems(s) = Elems(b) \cup {s[p]} \cup Elems(a)
  /\ \A d \in Elems(b) : d.mac # s[p].mac /\ \A e \in Elems(a) : d.mac # e.mac
  /\ \A e \in Elems(a) : e.mac # s[p].mac

(* They are parts of it.                                                   *)
LEMMA AroundIs ==
  ASSUME NEW s \in Seq(Records), Distinct(s), NEW p \in 1 .. Len(s),
         NEW b, b = Ahead(s, p), NEW a, a = Past(s, p)
  PROVE  Around(s, p, b, a)
<1>1. Len(s) \in Nat /\ p \in Nat /\ 1 <= p /\ p <= Len(s)
  BY LenProperties
<1>2. \A i \in 1 .. Len(s) : s[i] \in Records
  BY ElementOfSeq
<1>3. /\ b \in Seq(Records) /\ Len(b) = p - 1
      /\ \A i \in 1 .. p - 1 : b[i] = s[i]
  <2>1. \A i \in 1 .. p - 1 : s[i] \in Records
    BY <1>1, <1>2
  <2>2. /\ b \in Seq(Records) /\ Len(b) = IF 1 <= p - 1 THEN (p - 1) - 1 + 1 ELSE 0
        /\ \A i \in 1 .. (p - 1) - 1 + 1 : b[i] = s[1 + i - 1]
    BY <1>1, <2>1, SubSeqProperties DEF Ahead
  <2>3. Len(b) = p - 1
    BY <1>1, <2>2
  <2>4. ASSUME NEW i \in 1 .. p - 1 PROVE b[i] = s[i]
    <3>1. i \in 1 .. (p - 1) - 1 + 1 /\ 1 + i - 1 = i
      BY <1>1
    <3> QED BY <2>2, <3>1
  <2> QED BY <2>2, <2>3, <2>4
<1>4. /\ a \in Seq(Records) /\ Len(a) = Len(s) - p
      /\ \A i \in 1 .. Len(s) - p : a[i] = s[i + p]
  <2>1. \A i \in p + 1 .. Len(s) : s[i] \in Records
    BY <1>1, <1>2
  <2>2. /\ a \in Seq(Records)
        /\ Len(a) = IF p + 1 <= Len(s) THEN Len(s) - (p + 1) + 1 ELSE 0
        /\ \A i \in 1 .. Len(s) - (p + 1) + 1 : a[i] = s[(p + 1) + i - 1]
    BY <1>1, <2>1, SubSeqProperties DEF Past
  <2>3. Len(a) = Len(s) - p
    BY <1>1, <2>2
  <2>4. ASSUME NEW i \in 1 .. Len(s) - p PROVE a[i] = s[i + p]
    <3>1. i \in 1 .. Len(s) - (p + 1) + 1 /\ (p + 1) + i - 1 = i + p
      BY <1>1
    <3> QED BY <2>2, <3>1
  <2> QED BY <2>2, <2>3, <2>4
<1>5. \A i \in 1 .. Len(b) : i \in 1 .. Len(s) /\ i < p /\ b[i] = s[i]
  BY <1>1, <1>3
<1>6. \A i \in 1 .. Len(a) : i + p \in 1 .. Len(s) /\ i + p > p /\ a[i] = s[i + p] /\ i \in Nat
  BY <1>1, <1>4
<1>7. \A i \in 1 .. Len(s) : \/ i \in 1 .. Len(b) /\ s[i] = b[i]
                             \/ i = p
                             \/ i - p \in 1 .. Len(a) /\ s[i] = a[i - p]
  <2> SUFFICES ASSUME NEW i \in 1 .. Len(s), i # p
               PROVE  \/ i \in 1 .. Len(b) /\ s[i] = b[i]
                      \/ i - p \in 1 .. Len(a) /\ s[i] = a[i - p]
    OBVIOUS
  <2>1. CASE i < p
    <3>1. i \in 1 .. p - 1 /\ 1 .. p - 1 = 1 .. Len(b)
      BY <1>1, <1>3, <2>1
    <3> QED BY <1>3, <3>1
  <2>2. CASE i > p
    <3>1. i - p \in 1 .. Len(s) - p /\ (i - p) + p = i
      BY <1>1, <2>2
    <3> QED BY <1>4, <3>1
  <2> QED BY <1>1, <2>1, <2>2
<1>8. Len(b) + 1 + Len(a) = Len(s)
  <2>1. \A k, l \in Nat : (k - 1) + 1 + (l - k) = l
    OBVIOUS
  <2>2. (p - 1) + 1 + (Len(s) - p) = Len(s)
    BY <1>1, <2>1
  <2> QED BY <1>3, <1>4, <2>2
<1>9. b \in Seq(Records) /\ a \in Seq(Records)
  BY <1>3, <1>4
<1>10. Elems(s) = Elems(b) \cup {s[p]} \cup Elems(a)
  <2>1. \A e \in Elems(s) : e \in Elems(b) \/ e = s[p] \/ e \in Elems(a)
    BY <1>7 DEF Elems
  <2>2. Elems(b) \subseteq Elems(s) /\ Elems(a) \subseteq Elems(s) /\ s[p] \in Elems(s)
    BY <1>5, <1>6 DEF Elems
  <2> QED BY <2>1, <2>2
<1>11. Distinct(b)
  BY <1>5 DEF Distinct
<1>12. Distinct(a)
  <2> SUFFICES ASSUME NEW i \in 1 .. Len(a), NEW j \in 1 .. Len(a), a[i].mac = a[j].mac PROVE i = j
    BY DEF Distinct
  <2>1. i + p \in 1 .. Len(s) /\ j + p \in 1 .. Len(s) /\ s[i + p].mac = s[j + p].mac
    BY <1>6
  <2>2. i + p = j + p
    BY <2>1 DEF Distinct
  <2> QED BY <1>1, <1>6, <2>2
<1>13. \A i \in 1 .. Len(b) : b[i].mac # s[p].mac
  BY <1>1, <1>5 DEF Distinct
<1>14. \A i \in 1 .. Len(a) : a[i].mac # s[p].mac
  <2> SUFFICES ASSUME NEW i \in 1 .. Len(a), a[i].mac = s[p].mac PROVE FALSE
    OBVIOUS
  <2>1. i + p \in 1 .. Len(s) /\ s[i + p].mac = s[p].mac
    BY <1>6
  <2>2. i + p = p
    BY <1>1, <2>1 DEF Distinct
  <2>3. i \in Nat /\ i # 0 /\ p \in Nat
    BY <1>1, <1>3
  <2> QED BY <2>2, <2>3
<1>15. \A i \in 1 .. Len(b), j \in 1 .. Len(a) : b[i].mac # a[j].mac
  <2> SUFFICES ASSUME NEW i \in 1 .. Len(b), NEW j \in 1 .. Len(a), b[i].mac = a[j].mac PROVE FALSE
    OBVIOUS
  <2>1. i \in 1 .. Len(s) /\ j + p \in 1 .. Len(s) /\ s[i].mac = s[j + p].mac
    BY <1>5, <1>6
  <2>2. i = j + p
    BY <2>1 DEF Distinct
  <2>3. i < p
    BY <1>5
  <2>4. j + p > p
    BY <1>6
  <2>5. i \in Nat
    BY <1>1, <2>1
  <2> QED BY <1>1, <2>2, <2>3, <2>4, <2>5
<1>16. \A d \in Elems(b) : d.mac # s[p].mac /\ \A e \in Elems(a) : d.mac # e.mac
  <2>1. \A d \in Elems(b) : \E i \in 1 .. Len(b) : d = b[i]
    BY DEF Elems
  <2>2. \A e \in Elems(a) : \E j \in 1 .. Len(a) : e = a[j]
    BY DEF Elems
  <2> QED BY <1>13, <1>15, <2>1, <2>2
<1>17. \A e \in Elems(a) : e.mac # s[p].mac
  BY <1>14 DEF Elems
<1> QED BY <1>8, <1>9, <1>10, <1>11, <1>12, <1>16, <1>17 DEF Around

-----------------------------------------------------------------------------
(* The walk along a list of records.                                       *)
Filter(f, s, n) ==
  IF n = 0 THEN <<>>
  ELSE IF Expired(s[n]) THEN f[n - 1] ELSE Append(f[n - 1], s[n])

Filtered(s, n) ==
  \E g \in [0 .. n -> Seq(Records)] : \A k \in 0 .. n : g[k] = Filter(g, s, k)

(* Its recursion has a solution.                                           *)
LEMMA FilterIs ==
  ASSUME NEW s \in Seq(Records)
  PROVE  \E f \in [0 .. Len(s) -> Seq(Records)] :
           (\A n \in 0 .. Len(s) : f[n] = Filter(f, s, n)) /\ Unexpired(s) = f[Len(s)]
<1> DEFINE N == Len(s)
           T == { n \in 0 .. N : Filtered(s, n) }
<1>1. N \in Nat /\ \A n \in 1 .. N : s[n] \in Records
  BY LenProperties, ElementOfSeq
<1>2. 0 \in T
  <2> DEFINE g == [k \in 0 .. 0 |-> <<>>]
  <2>1. g \in [0 .. 0 -> Seq(Records)] /\ \A k \in 0 .. 0 : g[k] = Filter(g, s, k)
    BY EmptySeq DEF Filter
  <2> HIDE DEF g
  <2>2. Filtered(s, 0)
    BY <2>1 DEF Filtered
  <2> QED BY <1>1, <2>2
<1>3. ASSUME NEW n \in 1 .. N, n - 1 \in T PROVE n \in T
  <2>1. PICK g \in [0 .. n - 1 -> Seq(Records)] : \A k \in 0 .. n - 1 : g[k] = Filter(g, s, k)
    BY <1>3 DEF Filtered
  <2> DEFINE e == Filter(g, s, n)
             h == [k \in 0 .. n |-> IF k = n THEN e ELSE g[k]]
  <2>2. e \in Seq(Records)
    <3>1. g[n - 1] \in Seq(Records) /\ s[n] \in Records
      BY <1>1, <2>1
    <3>2. Append(g[n - 1], s[n]) \in Seq(Records)
      BY <3>1, AppendProperties
    <3> QED BY <3>1, <3>2 DEF Filter
  <2> HIDE DEF e
  <2>3. h \in [0 .. n -> Seq(Records)]
    BY <2>1, <2>2
  <2>4. ASSUME NEW k \in 0 .. n PROVE h[k] = Filter(h, s, k)
    <3>1. k # 0 => h[k - 1] = g[k - 1]
      OBVIOUS
    <3>2. Filter(h, s, k) = Filter(g, s, k)
      BY <3>1 DEF Filter
    <3>3. CASE k = n
      BY <3>2, <3>3 DEF e
    <3>4. CASE k # n
      <4>1. k \in 0 .. n - 1
        BY <3>4
      <4> QED BY <2>1, <3>2, <3>4, <4>1
    <3> QED BY <3>3, <3>4
  <2> HIDE DEF h
  <2>5. Filtered(s, n)
    BY <2>3, <2>4 DEF Filtered
  <2> QED BY <1>1, <2>5
<1>4. 0 .. N \subseteq T
  <2> HIDE DEF T, N
  <2> QED BY <1>1, <1>2, <1>3, UpTo
<1>5. PICK g \in [0 .. N -> Seq(Records)] : \A k \in 0 .. N : g[k] = Filter(g, s, k)
  <2>1. Filtered(s, N)
    BY <1>1, <1>4
  <2> QED BY <2>1 DEF Filtered
<1> DEFINE f == CHOOSE f : f = [n \in 0 .. N |-> Filter(f, s, n)]
<1>6. f = [n \in 0 .. N |-> Filter(f, s, n)]
  <2>1. g = [n \in 0 .. N |-> Filter(g, s, n)]
    BY <1>5
  <2> QED BY <2>1
<1>7. Unexpired(s) = f[N]
  BY DEF Unexpired, Filter
<1> HIDE DEF f
<1> DEFINE U == { n \in 0 .. N : f[n] = g[n] }
<1>8. 0 .. N \subseteq U
  <2>1. 0 \in U
    BY <1>1, <1>5, <1>6 DEF Filter
  <2>2. ASSUME NEW n \in 1 .. N, n - 1 \in U PROVE n \in U
    <3>1. n - 1 \in 0 .. N /\ n \in 0 .. N /\ n # 0 /\ f[n - 1] = g[n - 1]
      BY <1>1, <2>2
    <3>2. f[n] = Filter(f, s, n) /\ g[n] = Filter(g, s, n)
      BY <1>5, <1>6, <3>1
    <3>3. f[n] = g[n]
      BY <3>1, <3>2 DEF Filter
    <3> QED BY <3>1, <3>3
  <2> HIDE DEF U, N
  <2> QED BY <1>1, <2>1, <2>2, UpTo
<1>9. f = g
  BY <1>5, <1>6, <1>8
<1> QED BY <1>5, <1>7, <1>9

\* The first n records of a list.
First(s, n) == { s[i] : i \in 1 .. n }

(* The walk keeps the records that have not expired, each once.            *)
LEMMA UnexpiredIs ==
  ASSUME NEW s \in Seq(Records), Distinct(s)
  PROVE  /\ Unexpired(s) \in Seq(Records) /\ Len(Unexpired(s)) <= Len(s)
         /\ Distinct(Unexpired(s))
         /\ Elems(Unexpired(s)) = { e \in Elems(s) : ~Expired(e) }
<1> DEFINE N == Len(s)
<1>1. PICK f \in [0 .. N -> Seq(Records)] :
        (\A n \in 0 .. N : f[n] = Filter(f, s, n)) /\ Unexpired(s) = f[N]
  BY FilterIs
<1>2. N \in Nat /\ \A n \in 1 .. N : s[n] \in Records
  BY LenProperties, ElementOfSeq
<1> DEFINE Good(n) ==
             /\ Len(f[n]) <= n /\ Distinct(f[n])
             /\ Elems(f[n]) = { e \in First(s, n) : ~Expired(e) }
           T == { n \in 0 .. N : Good(n) }
<1>3. 0 \in T
  <2>1. f[0] = <<>>
    BY <1>1, <1>2 DEF Filter
  <2>2. Len(f[0]) = 0 /\ Elems(f[0]) = {} /\ First(s, 0) = {} /\ Distinct(f[0])
    BY <2>1 DEF Elems, First, Distinct
  <2> QED BY <1>2, <2>2
<1>4. ASSUME NEW n \in 1 .. N, n - 1 \in T PROVE n \in T
  <2>1. n - 1 \in 0 .. N /\ n \in 0 .. N /\ n # 0 /\ Good(n - 1)
    BY <1>2, <1>4
  <2>2. f[n - 1] \in Seq(Records) /\ s[n] \in Records /\ f[n] = Filter(f, s, n)
        /\ Len(f[n - 1]) \in Nat
    BY <1>1, <1>2, <2>1, LenProperties
  <2>3. First(s, n) = First(s, n - 1) \cup {s[n]}
    <3>1. 1 .. n = (1 .. n - 1) \cup {n}
      BY <1>2
    <3> QED BY <3>1 DEF First
  <2>4. CASE Expired(s[n])
    <3>1. f[n] = f[n - 1]
      BY <2>1, <2>2, <2>4 DEF Filter
    <3>2. Len(f[n]) <= n
      BY <2>1, <2>2, <3>1
    <3>3. Elems(f[n]) = { e \in First(s, n) : ~Expired(e) }
      BY <2>1, <2>3, <2>4, <3>1
    <3> QED BY <2>1, <3>1, <3>2, <3>3
  <2>5. CASE ~Expired(s[n])
    <3>1. f[n] = Append(f[n - 1], s[n])
      BY <2>1, <2>2, <2>5 DEF Filter
    <3>2. \A d \in Elems(f[n - 1]) : d.mac # s[n].mac
      <4>1. \A i \in 1 .. n - 1 : s[i].mac # s[n].mac
        BY <1>2 DEF Distinct
      <4>2. \A d \in First(s, n - 1) : d.mac # s[n].mac
        BY <4>1 DEF First
      <4> QED BY <2>1, <4>2
    <3>3. /\ Len(f[n]) = Len(f[n - 1]) + 1 /\ Distinct(f[n])
          /\ Elems(f[n]) = Elems(f[n - 1]) \cup {s[n]}
      <4>1. Distinct(f[n - 1])
        BY <2>1
      <4> QED BY <2>2, <3>1, <3>2, <4>1, AppendedRecord
    <3>4. Len(f[n]) <= n
      BY <2>1, <2>2, <3>3
    <3>5. Elems(f[n]) = { e \in First(s, n) : ~Expired(e) }
      BY <2>1, <2>3, <2>5, <3>3
    <3> QED BY <2>1, <3>3, <3>4, <3>5
  <2> QED BY <2>4, <2>5
<1>5. N \in T
  <2>1. 0 .. N \subseteq T
    <3> HIDE DEF T, N
    <3> QED BY <1>2, <1>3, <1>4, UpTo
  <2>2. N \in 0 .. N
    BY <1>2
  <2> HIDE DEF T, N
  <2> QED BY <2>1, <2>2
<1>6. First(s, N) = Elems(s)
  BY DEF First, Elems
<1>7. f[N] \in Seq(Records)
  <2>1. N \in 0 .. N
    BY <1>2
  <2> HIDE DEF N
  <2> QED BY <2>1
<1> QED BY <1>1, <1>5, <1>6, <1>7

-----------------------------------------------------------------------------
\* The check, the list and the rest, with their types.
Check == [packet : Seq(Readings), todo : Seq(Readings),
          work : Seq([setting : ActiveSettings, kind : Kinds]),
          time : 0 .. now, found : BOOLEAN]
ListOK ==
  /\ violations \in Seq(Records) /\ Len(violations) <= ViolationSlots
  /\ Distinct(violations) /\ Stamped
  /\ perimeter \in [Objects -> -1 .. now]
RestOK ==
  /\ settings \in [Areas -> Seq(ActiveSettings)] /\ monitored \subseteq Objects
  /\ leaked \in BOOLEAN /\ lost \in 0 .. FirstSlots
  /\ command \in [Commands -> {"idle", "settings", "objects"}]
  /\ scope \in [Commands -> SUBSET Areas]
  /\ now \in 0 .. MaxTime
  /\ alarm \in Objects \cup {NoObject}

(* The invariant in three parts.                                           *)
LEMMA InvIs ==
  /\ FenceInv <=> ListOK /\ check \in Check /\ RestOK
  /\ FenceInv' <=> ListOK' /\ check' \in Check' /\ RestOK'
BY DEF FenceInv, FenceTypeOK, ListOK, Check, RestOK, Records

(* What a load leaves out makes no other settings of the rest.             *)
LEMMA PartsAre ==
  ASSUME NEW S, NEW q \in Seq(S), NEW part \in Parts(q)
  PROVE  part \in Seq(S)
<1>1. Len(q) \in Nat /\ \A i \in 1 .. Len(q) : q[i] \in S
  BY LenProperties, ElementOfSeq
<1>2. PICK n \in 0 .. Len(q) : \E at \in [1 .. n -> 1 .. Len(q)] : part = [i \in 1 .. n |-> q[at[i]]]
  BY DEF Parts
<1>3. n \in Nat /\ part \in [1 .. n -> S]
  BY <1>1, <1>2
<1> QED BY <1>3, SeqDef

LEMMA LoadsAre ==
  ASSUME NEW found \in Loads
  PROVE  found \in [Areas -> Seq(ActiveSettings)]
<1>1. ASSUME NEW a \in Areas PROVE found[a] \in Seq(ActiveSettings)
  <2>1. found[a] \in Parts(Settings[a])
    BY DEF Loads
  <2>2. Settings[a] \in Seq(ActiveSettings)
    BY GeoFenceAssumption
  <2> QED BY <2>1, <2>2, PartsAre
<1>2. found \in [Areas -> UNION { Parts(Settings[a]) : a \in Areas }]
  BY DEF Loads
<1> HIDE DEF Areas
<1> QED BY <1>1, <1>2

(* At the start nothing is recorded.                                       *)
LEMMA FenceInitInv ==
  ASSUME FenceInit
  PROVE  FenceInv
<1>1. /\ settings \in Loads /\ monitored \subseteq Objects /\ violations = <<>> /\ check = NoCheck
      /\ leaked = FALSE /\ lost = 0 /\ command = [c \in Commands |-> "idle"]
      /\ scope = [c \in Commands |-> {}] /\ now = 0
      /\ alarm = NoObject /\ perimeter = [m \in Objects |-> -1]
  BY DEF FenceInit
<1>2. ViolationSlots \in Nat /\ FirstSlots \in Nat /\ MaxTime \in Nat
  BY GeoFenceAssumption
<1>3. ListOK
  <2>1. violations \in Seq(Records) /\ Len(violations) = 0
    BY <1>1, EmptySeq
  <2>2. Distinct(violations) /\ Stamped
    BY <1>1 DEF Distinct, Stamped, Elems
  <2>3. perimeter \in [Objects -> -1 .. now]
    BY <1>1
  <2> QED BY <1>2, <2>1, <2>2, <2>3 DEF ListOK
<1>4. check \in Check
  <2>1. <<>> \in Seq(Readings)
        /\ <<>> \in Seq([setting : ActiveSettings, kind : Kinds])
    BY EmptySeq
  <2> QED BY <1>1, <2>1 DEF NoCheck, Check
<1>5. RestOK
  <2>1. now \in 0 .. MaxTime /\ lost \in 0 .. FirstSlots
    BY <1>1, <1>2
  <2>2. /\ command \in [Commands -> {"idle", "settings", "objects"}]
        /\ scope \in [Commands -> SUBSET Areas]
    BY <1>1
  <2>3. settings \in [Areas -> Seq(ActiveSettings)]
    BY <1>1, LoadsAre
  <2> QED BY <1>1, <2>1, <2>2, <2>3 DEF RestOK
<1> QED BY <1>3, <1>4, <1>5, InvIs

(* The examinations a beacon calls for.                                    *)
Of(b, setting, kind) ==
  LET x == [setting |-> setting, kind |-> kind] IN
  IF b \in IF x.kind = "perimeter" THEN x.setting.perimeters ELSE x.setting.fences
  THEN <<x>> ELSE <<>>
ExamCollect(f, b, n) ==
  IF n = 0 THEN <<>>
  ELSE f[n - 1] \o Of(b, settings[AreaOf[b]][n], "perimeter") \o Of(b, settings[AreaOf[b]][n], "fence")
ExamCollected(b, n) ==
  \E g \in [0 .. n -> Seq([setting : ActiveSettings, kind : Kinds])] :
    \A k \in 0 .. n : g[k] = ExamCollect(g, b, k)

(* They are examinations of the settings.                                  *)
LEMMA ExaminationsAre ==
  ASSUME settings \in [Areas -> Seq(ActiveSettings)], NEW b \in Beacons
  PROVE  Examinations(b) \in Seq([setting : ActiveSettings, kind : Kinds])
<1> DEFINE N == Len(settings[AreaOf[b]])
           X == [setting : ActiveSettings, kind : Kinds]
           T == { n \in 0 .. N : ExamCollected(b, n) }
<1>1. N \in Nat /\ \A n \in 1 .. N : settings[AreaOf[b]][n] \in ActiveSettings
  <2>1. settings[AreaOf[b]] \in Seq(ActiveSettings)
    BY GeoFenceAssumption
  <2> QED BY <2>1, LenProperties, ElementOfSeq
<1>2. 0 \in T
  <2> DEFINE g == [k \in 0 .. 0 |-> <<>>]
  <2>1. g \in [0 .. 0 -> Seq(X)] /\ \A k \in 0 .. 0 : g[k] = ExamCollect(g, b, k)
    BY EmptySeq DEF ExamCollect
  <2> HIDE DEF g
  <2>2. ExamCollected(b, 0)
    BY <2>1 DEF ExamCollected
  <2> QED BY <1>1, <2>2
<1>3. ASSUME NEW n \in 1 .. N, n - 1 \in T PROVE n \in T
  <2>1. PICK g \in [0 .. n - 1 -> Seq(X)] : \A k \in 0 .. n - 1 : g[k] = ExamCollect(g, b, k)
    BY <1>3 DEF ExamCollected
  <2> DEFINE e == ExamCollect(g, b, n)
             h == [k \in 0 .. n |-> IF k = n THEN e ELSE g[k]]
  <2>2. e \in Seq(X)
    <3>1. g[n - 1] \in Seq(X) /\ settings[AreaOf[b]][n] \in ActiveSettings
      <4>1. n - 1 \in 0 .. n - 1
        BY <1>1
      <4> HIDE DEF X
      <4> QED BY <1>1, <2>1, <4>1
    <3>2. ASSUME NEW kind \in Kinds PROVE Of(b, settings[AreaOf[b]][n], kind) \in Seq(X)
      <4> DEFINE x == [setting |-> settings[AreaOf[b]][n], kind |-> kind]
      <4>1. x \in X
        BY <3>1
      <4>2. <<x>> \in Seq(X) /\ <<>> \in Seq(X)
        <5> HIDE DEF x, X
        <5> QED BY <4>1, EmptySeq
      <4>3. Of(b, settings[AreaOf[b]][n], kind) \in {<<x>>, <<>>}
        BY DEF Of
      <4> QED BY <4>2, <4>3
    <3>3. Of(b, settings[AreaOf[b]][n], "perimeter") \in Seq(X) /\ Of(b, settings[AreaOf[b]][n], "fence") \in Seq(X)
      BY <3>2 DEF Kinds
    <3>4. g[n - 1] \o Of(b, settings[AreaOf[b]][n], "perimeter") \in Seq(X)
      <4> HIDE DEF X
      <4> QED BY <3>1, <3>3, ConcatProperties
    <3>5. (g[n - 1] \o Of(b, settings[AreaOf[b]][n], "perimeter")) \o Of(b, settings[AreaOf[b]][n], "fence") \in Seq(X)
      <4> HIDE DEF X
      <4> QED BY <3>3, <3>4, ConcatProperties
    <3> QED BY <3>5 DEF ExamCollect
  <2> HIDE DEF e, X
  <2>3. h \in [0 .. n -> Seq(X)]
    BY <2>1, <2>2
  <2>4. ASSUME NEW k \in 0 .. n PROVE h[k] = ExamCollect(h, b, k)
    <3>1. k # 0 => h[k - 1] = g[k - 1]
      OBVIOUS
    <3>2. ExamCollect(h, b, k) = ExamCollect(g, b, k)
      BY <3>1 DEF ExamCollect
    <3>3. CASE k = n
      BY <3>2, <3>3 DEF e
    <3>4. CASE k # n
      <4>1. k \in 0 .. n - 1
        BY <3>4
      <4> QED BY <2>1, <3>2, <3>4, <4>1
    <3> QED BY <3>3, <3>4
  <2> HIDE DEF h
  <2>5. ExamCollected(b, n)
    BY <2>3, <2>4 DEF ExamCollected, X
  <2> QED BY <1>1, <2>5
<1>4. 0 .. N \subseteq T
  <2> HIDE DEF T, N
  <2> QED BY <1>1, <1>2, <1>3, UpTo
<1> HIDE DEF X
<1>5. PICK g \in [0 .. N -> Seq(X)] : \A k \in 0 .. N : g[k] = ExamCollect(g, b, k)
  <2>1. ExamCollected(b, N)
    BY <1>1, <1>4
  <2> QED BY <2>1 DEF ExamCollected, X
<1> DEFINE f == CHOOSE f : f = [n \in 0 .. N |-> ExamCollect(f, b, n)]
<1>6. f = [n \in 0 .. N |-> ExamCollect(f, b, n)]
  <2>1. g = [n \in 0 .. N |-> ExamCollect(g, b, n)]
    BY <1>5
  <2> QED BY <2>1
<1>7. Examinations(b) = f[N]
  BY DEF Examinations, ExamCollect, Of
<1> HIDE DEF f
<1> DEFINE U == { n \in 0 .. N : f[n] = g[n] }
<1>8. 0 .. N \subseteq U
  <2>1. 0 \in U
    <3>1. 0 \in 0 .. N
      BY <1>1
    <3>2. f[0] = ExamCollect(f, b, 0) /\ g[0] = ExamCollect(g, b, 0)
      BY <1>5, <1>6, <3>1
    <3> QED BY <3>1, <3>2 DEF ExamCollect
  <2>2. ASSUME NEW n \in 1 .. N, n - 1 \in U PROVE n \in U
    <3>1. n - 1 \in 0 .. N /\ n \in 0 .. N /\ n # 0 /\ f[n - 1] = g[n - 1]
      BY <1>1, <2>2
    <3>2. f[n] = ExamCollect(f, b, n) /\ g[n] = ExamCollect(g, b, n)
      BY <1>5, <1>6, <3>1
    <3>3. f[n] = g[n]
      BY <3>1, <3>2 DEF ExamCollect
    <3> QED BY <3>1, <3>3
  <2> HIDE DEF U, N
  <2> QED BY <1>1, <2>1, <2>2, UpTo
<1>9. N \in U /\ g[N] \in Seq(X)
  <2>1. N \in 0 .. N
    BY <1>1
  <2> HIDE DEF U, N
  <2> QED BY <1>8, <2>1
<1> QED BY <1>7, <1>9 DEF X

(* The next reading, or examination.                                       *)
LEMMA AdvanceOK ==
  ASSUME check \in Check, now \in Nat, NEW found \in BOOLEAN, Advance(found)
  PROVE  check' \in Check
<1> DEFINE X == [setting : ActiveSettings, kind : Kinds]
<1>1. /\ check.packet \in Seq(Readings) /\ check.todo \in Seq(Readings)
      /\ check.work \in Seq(X)
      /\ check.time \in 0 .. now
  BY DEF Check
<1>2. CASE Len(check.todo) > 1
  <2>1. Tail(check.todo) \in Seq(Readings)
    BY <1>1, <1>2, HeadTailProperties, EmptySeq
  <2>2. check' = [check EXCEPT !.todo = Tail(@), !.found = found]
    BY <1>2 DEF Advance
  <2> QED BY <2>1, <2>2 DEF Check
<1>3. CASE ~(Len(check.todo) > 1) /\ Len(check.work) > 1
  <2>1. Tail(check.work) \in Seq(X)
    <3> HIDE DEF X
    <3> QED BY <1>1, <1>3, HeadTailProperties, EmptySeq
  <2>2. check' = [check EXCEPT !.work = Tail(@), !.todo = check.packet,
                               !.time = now, !.found = FALSE]
    BY <1>3 DEF Advance
  <2>3. now \in 0 .. now
    OBVIOUS
  <2>4. check' = [packet |-> check.packet, todo |-> check.packet, work |-> Tail(check.work),
                  time |-> now, found |-> FALSE]
    BY <2>2 DEF Check
  <2> HIDE DEF X
  <2> QED BY <1>1, <2>1, <2>3, <2>4 DEF Check, X
<1>4. CASE ~(Len(check.todo) > 1) /\ ~(Len(check.work) > 1)
  <2>1. check' = NoCheck
    BY <1>4 DEF Advance
  <2>2. <<>> \in Seq(Readings) /\ <<>> \in Seq(X)
    BY EmptySeq
  <2> QED BY <2>1, <2>2 DEF Check, NoCheck
<1> QED BY <1>2, <1>3, <1>4

-----------------------------------------------------------------------------
(* The node of an object.                                                  *)
LEMMA PlaceIs ==
  ASSUME Distinct(violations), NEW m, Listed(m)
  PROVE  Place(m) \in 1 .. Len(violations) /\ violations[Place(m)].mac = m
<1>1. PICK i \in 1 .. Len(violations) : violations[i].mac = m
  BY DEF Listed
<1>2. \A j \in 1 .. i - 1 : violations[j].mac # m
  <2> SUFFICES ASSUME NEW j \in 1 .. i - 1, violations[j].mac = m PROVE FALSE
    OBVIOUS
  <2>1. i \in Int /\ j \in Int /\ j # i
    OBVIOUS
  <2>2. j \in 1 .. Len(violations)
    BY <2>1
  <2> QED BY <1>1, <2>1, <2>2 DEF Distinct
<1> QED BY <1>1, <1>2 DEF Place

(* Who is recorded.                                                        *)
LEMMA ListedIs ==
  /\ \A m : Listed(m) <=> \E e \in Elems(violations) : e.mac = m
  /\ \A m : Listed(m)' <=> \E e \in Elems(violations)' : e.mac = m
BY DEF Listed, Elems

(* What a walk leaves of the list.                                         *)
LEMMA WalkIs ==
  ASSUME ListOK, check \in Check, now \in Nat, NEW m \in Objects, NEW kind, NEW sql_ok,
         NEW w, w = Walk(kind, m, sql_ok)
  PROVE  /\ w \in Seq(Records) /\ Len(w) <= Len(violations) /\ Distinct(w)
         /\ \A e \in Elems(w) :
              \/ /\ e \in Elems(violations)
                 /\ e.mac = m => Listed(m) /\ kind # "perimeter" /\ ~Raises(kind, m)
              \/ e = [mac |-> m, ts |-> Stamp] /\ kind = "perimeter"
         /\ \A e \in Elems(w) : e.mac = m => Listed(m) /\ ~Raises(kind, m)
         /\ \A e \in Elems(violations) : e.mac # m /\ ~Expired(e) => e \in Elems(w)
         /\ Listed(m) /\ ~Raises(kind, m) => \E e \in Elems(w) : e.mac = m
<1>1. violations \in Seq(Records) /\ Distinct(violations) /\ Len(violations) \in Nat
  BY LenProperties DEF ListOK
<1>2. CASE ~Listed(m)
  <2>1. w = Unexpired(violations)
    BY <1>2 DEF Walk
  <2>2. /\ w \in Seq(Records) /\ Len(w) <= Len(violations) /\ Distinct(w)
        /\ Elems(w) = { e \in Elems(violations) : ~Expired(e) }
    BY <1>1, <2>1, UnexpiredIs
  <2>3. \A e \in Elems(violations) : e.mac # m
    BY <1>2, ListedIs
  <2> QED BY <1>2, <2>2, <2>3
<1>3. CASE Listed(m)
  <2> DEFINE b == Before(m)
             a == After(m)
             ub == Unexpired(b)
             o == AtObject(kind, m)
             ua == IF Raises(kind, m) /\ ~sql_ok THEN Unexpired(a) ELSE a
             p == Place(m)
  <2>1. p \in 1 .. Len(violations) /\ violations[p].mac = m
    BY <1>1, <1>3, PlaceIs
  <2>2. w = (ub \o o) \o ua
    BY <1>3 DEF Walk
  <2>3. b = Ahead(violations, p) /\ a = Past(violations, p)
    BY DEF Before, After, Ahead, Past
  <2>4. /\ b \in Seq(Records) /\ a \in Seq(Records) /\ Len(b) + 1 + Len(a) = Len(violations)
        /\ Distinct(b) /\ Distinct(a)
        /\ Elems(violations) = Elems(b) \cup {violations[p]} \cup Elems(a)
        /\ \A d \in Elems(b) : d.mac # m /\ \A e \in Elems(a) : d.mac # e.mac
        /\ \A e \in Elems(a) : e.mac # m
    <3> HIDE DEF a, b, p
    <3>1. Around(violations, p, b, a)
      BY <1>1, <2>1, <2>3, AroundIs
    <3> QED BY <2>1, <3>1 DEF Around
  <2> HIDE DEF b, a
  <2>5. /\ ub \in Seq(Records) /\ Len(ub) <= Len(b) /\ Distinct(ub)
        /\ Elems(ub) = { e \in Elems(b) : ~Expired(e) }
    BY <2>4, UnexpiredIs
  <2>6. /\ ua \in Seq(Records) /\ Len(ua) <= Len(a) /\ Distinct(ua)
        /\ Elems(ua) \subseteq Elems(a)
        /\ \A e \in Elems(a) : ~Expired(e) => e \in Elems(ua)
    <3>1. Len(a) \in Nat
      BY <2>4, LenProperties
    <3> QED BY <2>4, <3>1, UnexpiredIs
  <2>7. /\ o \in Seq(Records) /\ Len(o) <= 1 /\ Distinct(o)
        /\ \A e \in Elems(o) :
             /\ e.mac = m /\ ~Raises(kind, m)
             /\ IF kind = "perimeter" THEN e = [mac |-> m, ts |-> Stamp]
                ELSE e = violations[p]
        /\ ~Raises(kind, m) => Elems(o) # {}
    <3>1. /\ <<>> \in Seq(Records) /\ Len(<<>>) = 0
          /\ Elems(<<>>) = {} /\ Distinct(<<>>)
      BY EmptySeq DEF Elems, Distinct
    <3>2. ASSUME NEW e \in Records
          PROVE  <<e>> \in Seq(Records) /\ Len(<<e>>) = 1 /\ Elems(<<e>>) = {e} /\ Distinct(<<e>>)
      <4>1. /\ <<e>> = Append(<<>>, e)
        OBVIOUS
      <4> QED BY <3>1, <4>1, AppendedRecord
    <3>3. CASE Raises(kind, m)
      BY <3>1, <3>3 DEF AtObject
    <3>4. CASE ~Raises(kind, m) /\ kind = "perimeter"
      <4> DEFINE e == [mac |-> m, ts |-> Stamp]
      <4>1. e \in Records /\ e.mac = m
        BY DEF Records, Stamp, Check
      <4>2. o = <<e>>
        BY <3>4 DEF AtObject
      <4> HIDE DEF e, o
      <4>3. o \in Seq(Records) /\ Len(o) = 1 /\ Elems(o) = {e} /\ Distinct(o)
        BY <3>2, <4>1, <4>2
      <4> QED BY <3>4, <4>1, <4>3 DEF e
    <3>5. CASE ~Raises(kind, m) /\ kind # "perimeter"
      <4>1. o = <<violations[p]>> /\ violations[p] \in Records
        BY <1>1, <2>1, <3>5, ElementOfSeq DEF AtObject
      <4> HIDE DEF o, p
      <4>2. o \in Seq(Records) /\ Len(o) = 1 /\ Elems(o) = {violations[p]} /\ Distinct(o)
        BY <3>2, <4>1
      <4> QED BY <2>1, <3>5, <4>2
    <3> QED BY <3>3, <3>4, <3>5
  <2> HIDE DEF ub, o, ua, p
  <2>8. /\ ub \o o \in Seq(Records) /\ Len(ub \o o) = Len(ub) + Len(o)
        /\ Elems(ub \o o) = Elems(ub) \cup Elems(o) /\ Distinct(ub \o o)
    <3>1. \A d \in Elems(ub), e \in Elems(o) : d.mac # e.mac
      BY <2>4, <2>5, <2>7
    <3> QED BY <2>5, <2>7, <3>1, JoinedRecords
  <2>9. /\ w \in Seq(Records) /\ Len(w) = Len(ub) + Len(o) + Len(ua)
        /\ Elems(w) = Elems(ub) \cup Elems(o) \cup Elems(ua) /\ Distinct(w)
    <3>1. \A d \in Elems(ub \o o), e \in Elems(ua) : d.mac # e.mac
      BY <2>4, <2>5, <2>6, <2>7, <2>8
    <3> DEFINE uo == ub \o o
    <3> HIDE DEF uo
    <3>2. /\ w = uo \o ua /\ uo \in Seq(Records) /\ Distinct(uo)
          /\ \A d \in Elems(uo), e \in Elems(ua) : d.mac # e.mac
      BY <2>2, <2>8, <3>1 DEF uo
    <3>3. /\ w \in Seq(Records) /\ Len(w) = Len(uo) + Len(ua)
          /\ Elems(w) = Elems(uo) \cup Elems(ua) /\ Distinct(w)
      BY <2>6, <3>2, JoinedRecords
    <3> QED BY <2>8, <3>3 DEF uo
  <2>10. Len(w) <= Len(violations)
    <3>1. Len(ub) \in Nat /\ Len(o) \in Nat /\ Len(ua) \in Nat /\ Len(b) \in Nat /\ Len(a) \in Nat
      BY <2>4, <2>5, <2>6, <2>7, LenProperties
    <3> QED BY <1>1, <2>4, <2>5, <2>6, <2>7, <2>9, <3>1
  <2>11. \A e \in Elems(w) :
           /\ \/ /\ e \in Elems(violations)
                 /\ e.mac = m => Listed(m) /\ kind # "perimeter" /\ ~Raises(kind, m)
              \/ e = [mac |-> m, ts |-> Stamp] /\ kind = "perimeter"
           /\ e.mac = m => Listed(m) /\ ~Raises(kind, m)
    <3>1. \A e \in Elems(ub) \cup Elems(ua) : e \in Elems(violations) /\ e.mac # m
      BY <2>4, <2>5, <2>6
    <3>2. violations[p] \in Elems(violations)
      BY <2>4
    <3> QED BY <1>3, <2>7, <2>9, <3>1, <3>2
  <2>12. \A e \in Elems(violations) : e.mac # m /\ ~Expired(e) => e \in Elems(w)
    BY <2>1, <2>4, <2>5, <2>6, <2>9
  <2>13. ~Raises(kind, m) => \E e \in Elems(w) : e.mac = m
    BY <2>7, <2>9
  <2> QED BY <2>9, <2>10, <2>11, <2>12, <2>13
<1> QED BY <1>2, <1>3

(* The list after an examination, in full.                                 *)
LEMMA ExamineIs ==
  ASSUME FenceInv, NEW sql_ok \in BOOLEAN, ExamineRelevant(sql_ok)
  PROVE  /\ FenceInv'
         /\ alarm' # NoObject =>
              alarm' = Reading.mac /\ Raises(Examination.kind, Reading.mac)
         /\ Raises(Examination.kind, Reading.mac) /\ sql_ok => alarm' = Reading.mac
         /\ \A e \in Elems(violations) :
              e.mac # Reading.mac /\ ~Expired(e) => e \in Elems(violations)'
         /\ \A o \in Objects :
              o = Reading.mac /\ Listed(o) /\ ~Raises(Examination.kind, o) => Listed(o)'
<1> DEFINE m == Reading.mac
           kind == Examination.kind
           w == Walk(kind, m, sql_ok)
           new == kind = "perimeter" /\ ~Found(m)
           full == Len(w) + lost' >= ViolationSlots
           raises == Raises(kind, m)
           r == [mac |-> m, ts |-> Stamp]
<1>1. ListOK /\ check \in Check /\ RestOK /\ now \in Nat /\ m \in Objects
  BY InvIs DEF RestOK, ExamineRelevant, Relevant
<1>2. /\ violations' = IF new /\ ~full THEN Append(w, r) ELSE w
      /\ leaked' = (new /\ full)
      /\ alarm' = IF raises /\ sql_ok THEN m ELSE NoObject
      /\ lost' \in 0 .. FirstSlots
      /\ perimeter' = IF raises /\ sql_ok THEN [perimeter EXCEPT ![m] = -1]
                      ELSE IF kind = "perimeter" THEN [perimeter EXCEPT ![m] = check.time]
                      ELSE perimeter
      /\ Advance(Found(m))
      /\ UNCHANGED <<settings, monitored, command, scope, now>>
  BY DEF ExamineRelevant, LeavesLocked, Freed
<1>3. check.time \in 0 .. now /\ check.found \in BOOLEAN /\ r \in Records /\ r.mac = m
      /\ r.ts = check.time
  BY <1>1 DEF Check, Records, Stamp
<1>4. /\ w \in Seq(Records) /\ Len(w) <= Len(violations) /\ Distinct(w)
      /\ \A e \in Elems(w) :
           \/ /\ e \in Elems(violations)
              /\ e.mac = m => Listed(m) /\ kind # "perimeter" /\ ~raises
           \/ e = r /\ kind = "perimeter"
      /\ \A e \in Elems(w) : e.mac = m => Listed(m) /\ ~raises
      /\ \A e \in Elems(violations) : e.mac # m /\ ~Expired(e) => e \in Elems(w)
      /\ Listed(m) /\ ~raises => \E e \in Elems(w) : e.mac = m
  <2> DEFINE mm == Reading.mac
  <2> HIDE DEF m, kind
  <2> QED BY <1>1, WalkIs
<1>5. raises => kind = "fence"
  BY DEF Raises
<1>6. Found(m) \in BOOLEAN /\ (Listed(m) => Found(m))
  BY <1>3 DEF Found, Listed
<1> HIDE DEF m, kind, w, raises, r
<1>7. check' \in Check' /\ Records' = Records
  <2>1. check' \in Check
    BY <1>1, <1>2, <1>6, AdvanceOK
  <2> QED BY <1>2, <2>1 DEF Check, Records
<1>8. perimeter \in [Objects -> -1 .. now] /\ \A e \in Elems(violations) :
      e.ts = perimeter[e.mac]
  BY <1>1 DEF ListOK, Stamped
<1>9. /\ perimeter' \in [Objects -> -1 .. now]
      /\ \A o \in Objects : o # m => perimeter'[o] = perimeter[o]
      /\ perimeter'[m] = IF raises /\ sql_ok THEN -1 ELSE IF kind = "perimeter" THEN check.time
         ELSE perimeter[m]
  <2>1. -1 \in -1 .. now /\ check.time \in -1 .. now
    BY <1>1, <1>3
  <2> QED BY <1>1, <1>2, <1>8, <2>1
<1>10. \A e \in Elems(w) : e.ts = perimeter'[e.mac]
  <2> SUFFICES ASSUME NEW e \in Elems(w) PROVE e.ts = perimeter'[e.mac]
    OBVIOUS
  <2>1. e.mac \in Objects
    BY <1>4, ElemsIs DEF Records
  <2>2. CASE e.mac = m
    BY <1>3, <1>4, <1>8, <1>9, <2>2
  <2>3. CASE e.mac # m
    BY <1>3, <1>4, <1>8, <1>9, <2>1, <2>3
  <2> QED BY <2>2, <2>3
<1>11. Len(w) \in Nat /\ Len(violations) \in Nat /\ ViolationSlots \in Nat
       /\ Len(violations) <= ViolationSlots /\ lost' \in Nat
  BY <1>1, <1>2, <1>4, LenProperties, GeoFenceAssumption DEF ListOK
<1>12. ASSUME new, ~full PROVE ListOK'
  <2>1. violations' = Append(w, r)
    BY <1>2, <1>12
  <2>2. \A e \in Elems(w) : e.mac # r.mac
    BY <1>3, <1>4, <1>6, <1>12
  <2>3. /\ violations' \in Seq(Records) /\ Len(violations') = Len(w) + 1
        /\ Elems(violations') = Elems(w) \cup {r} /\ Distinct(violations')
    BY <1>3, <1>4, <2>1, <2>2, AppendedRecord
  <2>4. r.ts = perimeter'[r.mac]
    BY <1>3, <1>5, <1>9, <1>12
  <2>5. Len(violations') <= ViolationSlots
    BY <1>11, <1>12, <2>3
  <2>6. ListOK'
    <3>1. Stamped'
      BY <1>10, <2>3, <2>4 DEF Stamped, Elems
    <3>2. Distinct(violations)'
      BY <2>3 DEF Distinct
    <3> QED BY <1>2, <1>7, <1>9, <2>3, <2>5, <3>1, <3>2 DEF ListOK
  <2> QED BY <2>6
<1>13. ASSUME ~(new /\ ~full) PROVE ListOK'
  <2>1. violations' = w
    BY <1>2, <1>13
  <2>2. Len(violations') <= ViolationSlots
    BY <1>4, <1>11, <2>1
  <2>3. ListOK'
    <3>1. Stamped'
      BY <1>10, <2>1 DEF Stamped, Elems
    <3>2. Distinct(violations)'
      BY <1>4, <2>1 DEF Distinct
    <3> QED BY <1>2, <1>4, <1>7, <1>9, <2>1, <2>2, <3>1, <3>2 DEF ListOK
  <2> QED BY <2>3
<1>14. ListOK' /\ \A e \in Elems(w) : e \in Elems(violations)'
  <2>1. CASE new /\ ~full
    <3>1. Elems(violations') = Elems(w) \cup {r}
      BY <1>2, <1>3, <1>4, <2>1, AppendedRecord
    <3> QED BY <1>12, <2>1, <3>1 DEF Elems
  <2>2. CASE ~(new /\ ~full)
    <3>1. violations' = w
      BY <1>2, <2>2
    <3> QED BY <1>13, <2>2, <3>1 DEF Elems
  <2> QED BY <2>1, <2>2
<1>15. RestOK'
  BY <1>1, <1>2 DEF RestOK
<1>16. FenceInv'
  BY <1>7, <1>14, <1>15, InvIs
<1>17. \A o \in Objects : o = m /\ Listed(o) /\ ~raises => Listed(o)'
  BY <1>4, <1>14, ListedIs
<1> QED BY <1>2, <1>4, <1>14, <1>16, <1>17 DEF m, kind, raises

(* Steps that leave the list and the check as they are.                    *)
LEMMA RestInv ==
  ASSUME FenceInv, UNCHANGED <<violations, check, perimeter>>,
         now' \in {now, now + 1}, RestOK'
  PROVE  FenceInv'
<1>1. ListOK /\ check \in Check /\ now \in Nat
  BY InvIs DEF RestOK
<1>2. Elems(violations)' = Elems(violations)
  BY DEF Elems
<1>3. Records \subseteq Records' /\ -1 .. now \subseteq -1 .. now'
      /\ 0 .. now \subseteq 0 .. now'
  BY <1>1 DEF Records
<1>4. violations' \in Seq(Records')
  <2>1. violations \in Seq(Records) /\ violations' = violations
    BY <1>1 DEF ListOK
  <2> QED BY <1>3, <2>1, SeqMonotonic
<1>5. ListOK'
  <2>1. Distinct(violations)' /\ Stamped' /\ Len(violations') <= ViolationSlots
    BY <1>1, <1>2 DEF ListOK, Stamped, Distinct
  <2>2. perimeter' \in [Objects -> -1 .. now']
    BY <1>1, <1>3 DEF ListOK
  <2> QED BY <1>4, <2>1, <2>2 DEF ListOK
<1>6. check' \in Check'
  BY <1>1, <1>3 DEF Check
<1> QED BY <1>5, <1>6, InvIs

(* Every step keeps the invariant.                                         *)
LEMMA FenceNextInv ==
  FenceInv /\ [FenceNext]_fenceVars => FenceInv'
<1> SUFFICES ASSUME FenceInv, [FenceNext]_fenceVars PROVE FenceInv'
  OBVIOUS
<1>1. ListOK /\ check \in Check /\ RestOK /\ now \in Nat /\ now \in 0 .. MaxTime
      /\ MaxTime \in Nat
  BY InvIs, GeoFenceAssumption DEF RestOK
<1>2. CASE UNCHANGED fenceVars
  <2>1. UNCHANGED <<violations, check, perimeter, now>> /\ RestOK'
    BY <1>1, <1>2 DEF fenceVars, checkVars, RestOK
  <2> QED BY <2>1, RestInv
<1>3. CASE Tick
  <2>1. UNCHANGED <<violations, check, perimeter, settings, monitored, leaked, lost, command, scope,
                  alarm>>
    BY <1>3 DEF Tick, checkVars
  <2>2. now' = now + 1 /\ now' \in 0 .. MaxTime
    BY <1>1, <1>3 DEF Tick
  <2>3. RestOK'
    BY <1>1, <2>1, <2>2 DEF RestOK
  <2> QED BY <2>1, <2>2, <2>3, RestInv
<1>4. ASSUME NEW c \in Commands, Reload(c) PROVE FenceInv'
  <2>1. UNCHANGED <<violations, check, perimeter, leaked, lost, alarm, now>>
    BY <1>4 DEF Reload, DestroySettings, DestroyObjects, ConstructSettings,
                ConstructObjects, ConstructFails, checkVars
  <2>2. settings' \in [Areas -> Seq(ActiveSettings)]
    <3>1. settings \in [Areas -> Seq(ActiveSettings)]
      BY <1>1 DEF RestOK
    <3>2. CASE \E areas \in Scopes : DestroySettings(c, areas)
      <4>1. PICK areas \in Scopes :
              settings' = [a \in Areas |-> IF a \in areas THEN <<>> ELSE settings[a]]
        BY <3>2 DEF DestroySettings
      <4>2. <<>> \in Seq(ActiveSettings)
        BY EmptySeq
      <4> HIDE DEF Areas, ActiveSettings
      <4> QED BY <3>1, <4>1, <4>2
    <3>3. CASE ConstructSettings(c)
      <4>1. PICK found \in Loads :
              settings' = [a \in Areas |->
                             IF a \in scope[c] THEN settings[a] \o found[a] ELSE settings[a]]
        BY <3>3 DEF ConstructSettings
      <4>2. found \in [Areas -> Seq(ActiveSettings)]
        BY LoadsAre
      <4> HIDE DEF Areas, ActiveSettings
      <4>3. ASSUME NEW a \in Areas PROVE settings[a] \o found[a] \in Seq(ActiveSettings)
        BY <3>1, <4>2, ConcatProperties
      <4> QED BY <3>1, <4>1, <4>3
    <3>4. CASE UNCHANGED settings
      BY <3>1, <3>4
    <3> QED BY <1>4, <3>2, <3>3, <3>4
        DEF Reload, DestroyObjects, ConstructObjects, ConstructFails
  <2>3. monitored' \subseteq Objects
    <3>1. monitored \subseteq Objects
      BY <1>1 DEF RestOK
    <3> QED BY <1>4, <3>1 DEF Reload, DestroySettings, DestroyObjects, ConstructSettings,
                              ConstructObjects, ConstructFails
  <2>4. \E v \in {"idle", "settings", "objects"}, areas \in SUBSET Areas :
          /\ command' = [command EXCEPT ![c] = v]
          /\ scope' = [scope EXCEPT ![c] = areas]
    <3>1. {} \in SUBSET Areas /\ \A areas \in Scopes : areas \in SUBSET Areas
      BY DEF Scopes
    <3> HIDE DEF Areas
    <3>2. CASE \E areas \in Scopes : DestroySettings(c, areas) \/ DestroyObjects(c, areas)
      BY <3>1, <3>2 DEF DestroySettings, DestroyObjects, Begin
    <3>3. CASE ConstructSettings(c) \/ ConstructObjects(c)
               \/ \E what \in {"settings", "objects"} : ConstructFails(c, what)
      BY <3>1, <3>3 DEF ConstructSettings, ConstructObjects, ConstructFails, End
    <3> QED BY <1>4, <3>2, <3>3 DEF Reload
  <2>5. RestOK'
    <3> HIDE DEF Areas
    <3> QED BY <1>1, <2>1, <2>2, <2>3, <2>4 DEF RestOK
  <2> QED BY <2>1, <2>5, RestInv
<1>5. ASSUME NEW b \in Beacons, NEW packet \in Packets, CheckStart(b, packet)
      PROVE  FenceInv'
  <2>1. /\ check' = [packet |-> packet, work |-> Examinations(b), todo |-> packet,
                     time |-> now, found |-> FALSE]
        /\ UNCHANGED <<settings, monitored, violations, leaked, lost, alarm, perimeter, command,
                       scope, now>>
    BY <1>5 DEF CheckStart
  <2>2. packet \in Seq(Readings)
    <3>1. PICK n \in 1 .. MaxReadings : packet \in [1 .. n -> Readings]
      BY DEF Packets
    <3>2. n \in Nat
      BY GeoFenceAssumption
    <3> QED BY <3>1, <3>2, SeqDef
  <2>3. Examinations(b) \in Seq([setting : ActiveSettings, kind : Kinds])
    BY <1>1, ExaminationsAre DEF RestOK
  <2>4. check' \in Check'
    BY <1>1, <2>1, <2>2, <2>3 DEF Check
  <2>5. ListOK' /\ RestOK'
    BY <1>1, <2>1 DEF ListOK, RestOK, Stamped, Distinct, Elems, Records
  <2> QED BY <2>4, <2>5, InvIs
<1>6. CASE ExamineIrrelevant
  <2>1. /\ Advance(check.found) /\ alarm' = NoObject
        /\ UNCHANGED <<settings, monitored, violations, leaked, lost, perimeter, command, scope, now>>
    BY <1>6 DEF ExamineIrrelevant
  <2>2. check' \in Check'
    <3>1. check.found \in BOOLEAN
      BY <1>1 DEF Check
    <3>2. check' \in Check
      BY <1>1, <2>1, <3>1, AdvanceOK
    <3> QED BY <2>1, <3>2 DEF Check
  <2>3. ListOK' /\ RestOK'
    BY <1>1, <2>1 DEF ListOK, RestOK, Stamped, Distinct, Elems, Records
  <2> QED BY <2>2, <2>3, InvIs
<1>7. ASSUME NEW sql_ok \in BOOLEAN, ExamineRelevant(sql_ok) PROVE FenceInv'
  BY <1>7, ExamineIs
<1> QED BY <1>2, <1>3, <1>4, <1>5, <1>6, <1>7 DEF FenceNext, CheckStep

(* So it holds always.                                                     *)
LEMMA FenceSpecInv == FenceSpec => []FenceInv
<1>1. FenceInit => FenceInv
  BY FenceInitInv
<1> QED BY <1>1, FenceNextInv, PTL DEF FenceSpec

-----------------------------------------------------------------------------
(* What the variables hold, always.                                        *)
THEOREM GeoFenceTypeCorrect == FenceSpec => []FenceTypeOK
<1>1. FenceInv => FenceTypeOK
  BY DEF FenceInv
<1> QED BY <1>1, FenceSpecInv, PTL

(* RecordsSound: examine_object_tracking_data leaves one record per object *)
(* in the violation list, with the time of its last reading at a           *)
(* perimeter, however the objects of a packet follow one another.          *)
THEOREM RecordsStaySound == FenceSpec => []RecordsSound
<1>1. FenceInv => RecordsSound
  <2> SUFFICES ASSUME FenceInv, NEW i \in 1 .. Len(violations)
               PROVE  /\ violations[i].ts = perimeter[violations[i].mac]
                      /\ \A j \in 1 .. i - 1 : violations[j].mac # violations[i].mac
    BY DEF RecordsSound
  <2>1. Distinct(violations) /\ Stamped
    BY DEF FenceInv
  <2>2. violations[i].ts = perimeter[violations[i].mac]
    BY <2>1 DEF Stamped, Elems
  <2>3. ASSUME NEW j \in 1 .. i - 1 PROVE violations[j].mac # violations[i].mac
    <3>1. j \in 1 .. Len(violations) /\ j # i
      <4>1. violations \in Seq(Records)
        BY InvIs DEF ListOK
      <4>2. Len(violations) \in Nat
        BY <4>1, LenProperties
      <4> QED BY <4>2
    <3> QED BY <2>1, <3>1 DEF Distinct
  <2> QED BY <2>2, <2>3
<1> QED BY <1>1, FenceSpecInv, PTL

(* AlarmJustified: the update of geofence_violation_timestamp follows a    *)
(* reading of that object at a perimeter, recent enough and not answered   *)
(* by an alarm yet, whatever the commands reload meanwhile.                *)
THEOREM AlarmsAreJustified == FenceSpec => AlarmJustified
<1> DEFINE A == CheckStep /\ alarm' # NoObject =>
                  /\ perimeter[alarm'] >= 0
                  /\ check.time - perimeter[alarm'] < perimeter_valid_duration_in_sec
<1>1. FenceInv /\ [FenceNext]_fenceVars => [A]_fenceVars
  <2> SUFFICES ASSUME FenceInv, CheckStep, alarm' # NoObject
               PROVE  /\ perimeter[alarm'] >= 0
                      /\ check.time - perimeter[alarm'] < perimeter_valid_duration_in_sec
    OBVIOUS
  <2>1. PICK sql_ok \in BOOLEAN : ExamineRelevant(sql_ok)
    BY DEF CheckStep, ExamineIrrelevant
  <2>2. alarm' = Reading.mac /\ Raises(Examination.kind, Reading.mac)
    BY <2>1, ExamineIs
  <2> DEFINE m == Reading.mac
  <2>3. Listed(m) /\ Recent(violations[Place(m)])
    BY <2>2 DEF Raises
  <2>4. ListOK /\ check \in Check /\ now \in Nat
    BY InvIs DEF RestOK
  <2> HIDE DEF m
  <2>5. Place(m) \in 1 .. Len(violations) /\ violations[Place(m)].mac = m
    BY <2>3, <2>4, PlaceIs DEF ListOK
  <2> DEFINE e == violations[Place(m)]
  <2>6. e \in Records /\ e.mac = m /\ e.ts = perimeter[m]
    BY <2>4, <2>5, ElementOfSeq DEF ListOK, Stamped, Elems
  <2>7. perimeter_valid_duration_in_sec > check.time - e.ts
    BY <2>3 DEF Recent
  <2> HIDE DEF e
  <2>8. e.ts \in Nat /\ check.time \in Nat /\ perimeter_valid_duration_in_sec \in Nat
    BY <2>4, <2>6, GeoFenceAssumption DEF Records, Check
  <2>9. perimeter[m] >= 0 /\ check.time - perimeter[m] < perimeter_valid_duration_in_sec
    BY <2>6, <2>7, <2>8
  <2> QED BY <2>2, <2>9 DEF m
<1> QED BY <1>1, FenceSpecInv, PTL DEF FenceSpec, AlarmJustified

(* RecordsKept: a record leaves the violation list with the alarm of its   *)
(* object, when it has expired, or with an alarm of its object that the    *)
(* database refuses, never with the examination of another object.         *)
THEOREM RecordsAreKept == FenceSpec => RecordsKept
<1> DEFINE A == \A m \in Objects :
                  Leaves(m) => alarm' = m \/ HasExpired(m) \/ AlarmRefused(m)
<1>1. FenceInv /\ [FenceNext]_fenceVars => [A]_fenceVars
  <2> SUFFICES ASSUME FenceInv, [FenceNext]_fenceVars, NEW m \in Objects, Listed(m),
                      ~Listed(m)'
               PROVE  alarm' = m \/ HasExpired(m) \/ AlarmRefused(m)
    BY DEF Leaves
  <2>1. violations' # violations
    BY DEF Listed
  <2>2. PICK sql_ok \in BOOLEAN : ExamineRelevant(sql_ok)
    BY <2>1 DEF FenceNext, CheckStep, CheckStart, ExamineIrrelevant,
                Reload, DestroySettings, DestroyObjects, ConstructSettings,
                ConstructObjects, ConstructFails, Tick, fenceVars, checkVars
  <2>3. CASE m = Reading.mac
    <3>1. Raises(Examination.kind, m)
      BY <2>2, <2>3, ExamineIs
    <3>2. CASE sql_ok = TRUE
      BY <2>2, <2>3, <3>1, <3>2, ExamineIs
    <3>3. CASE sql_ok = FALSE
      BY <2>2, <2>3, <3>1, <3>3 DEF AlarmRefused
    <3> QED BY <3>2, <3>3
  <2>4. CASE m # Reading.mac
    <3>1. PICK e \in Elems(violations) : e.mac = m
      BY ListedIs
    <3>2. Expired(e)
      BY <2>2, <2>4, <3>1, ExamineIs, ListedIs
    <3>3. ListOK /\ check \in Check
      BY InvIs
    <3>4. e.ts = perimeter[m] /\ e \in Records
      BY <3>1, <3>3, ElemsIs DEF ListOK, Stamped
    <3>5. e.ts \in Int /\ check.time \in Int /\ perimeter_valid_duration_in_sec \in Nat
      <4>1. now \in Nat
        BY InvIs DEF RestOK
      <4> QED BY <3>3, <3>4, <4>1, GeoFenceAssumption DEF Records, Check
    <3>6. e.ts < check.time - perimeter_valid_duration_in_sec
      BY <3>2 DEF Expired
    <3>7. check.time - e.ts >= perimeter_valid_duration_in_sec
      BY <3>5, <3>6
    <3> QED BY <3>4, <3>7 DEF HasExpired
  <2> QED BY <2>3, <2>4
<1> QED BY <1>1, FenceSpecInv, PTL DEF FenceSpec, RecordsKept
=============================================================================
