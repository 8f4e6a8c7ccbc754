------------------------------ MODULE Mempool ------------------------------
(***************************************************************************)
(* The memory pools of src/import/Mempool.c: slots of one size, cut from at*)
(* most MAX_EXP_TIME malloc'ed blocks and linked into a free list. Every   *)
(* operation runs under the pool's mutex and is one step; callers pass to  *)
(* mp_free what they hold.                                                 *)
(*                                                                         *)
(* Addresses are numbers, because mp_free does arithmetic on them: it casts*)
(* the pointers to int, so an address is known to it modulo IntSpan (2^32).*)
(***************************************************************************)
EXTENDS Integers, Sequences, FiniteSets, Functions

CONSTANTS
  SlotSize, SlotCount,   \* mp->size in bytes, mp->slots per block
  MAX_EXP_TIME,
  Bases,                 \* the addresses malloc may return
  IntSpan                \* the number of values of an int

ASSUME MempoolAssumption ==
  /\ SlotSize \in Nat \ {0, 1} /\ SlotCount \in Nat \ {0}
  /\ MAX_EXP_TIME \in Nat \ {0}
  /\ Bases \subseteq Nat
  /\ IntSpan \in Nat /\ IntSpan > 1 /\ IntSpan % 2 = 0

VARIABLES
  memory,       \* memory[0] .. memory[alloc_time - 1]
  freelist,     \* the slots linked from head, in order
  blocks,       \* mp->blocks
  used_slots,   \* mp->used_slots
  held,         \* the slots callers hold
  rejected,     \* ghost: the slots mp_free was given and refused
  heap,         \* ghost: the blocks malloc'ed and not freed
  destroyed

vars == <<memory, freelist, blocks, used_slots, held, rejected, heap, destroyed>>

alloc_time == Len(memory)
BlockSize == SlotSize * SlotCount
BlockOf(b) == { b + k * SlotSize : k \in 0 .. SlotCount - 1 }
AllSlots == UNION { BlockOf(b) : b \in Range(memory) }
AnySlot == UNION { BlockOf(b) : b \in Bases }

TypeOK ==
  /\ memory \in Seq(Bases) /\ alloc_time <= MAX_EXP_TIME
  /\ freelist \in Seq(AnySlot)
  /\ blocks \in Nat /\ used_slots \in Nat
  /\ held \subseteq AnySlot /\ rejected \subseteq AnySlot
  /\ heap \subseteq Bases
  /\ destroyed \in BOOLEAN

-----------------------------------------------------------------------------
(* Wrong variants of definitions below, one plausible bug each; only the   *)
(* mutation tests of the properties use them.                              *)

Mutant_NewSlots(b) ==
  [k \in 1 .. SlotCount + 1 |-> b + (SlotCount + 1 - k) * SlotSize]
Mutant_Refuse(s) ==
  /\ held' = held \ {s}
  /\ rejected' = rejected \cup {s}
  /\ used_slots' = used_slots - 1
  /\ UNCHANGED <<freelist, blocks>>
Mutant_Offsets(s) == { s - memory[i] : i \in 1 .. alloc_time }
Mutant_Accepts(s) == s > memory[1] /\ (s - memory[1]) % SlotSize = 0

-----------------------------------------------------------------------------
(* External: malloc returns a block that overlaps none that is in use.     *)
malloc(b) ==
  /\ b \in Bases
  /\ \A c \in heap : b + BlockSize <= c \/ c + BlockSize <= b

\* mp_expand: every slot is pushed on the free list in ascending order, so
\* the last slot of the block ends up at its head.
MayExpand == alloc_time < MAX_EXP_TIME
NewSlots(b) == [k \in 1 .. SlotCount |-> b + (SlotCount - k) * SlotSize]

Init ==
  \E b \in Bases :
    /\ memory = <<b>>
    /\ freelist = NewSlots(b)
    /\ blocks = SlotCount
    /\ used_slots = 0
    /\ held = {} /\ rejected = {}
    /\ heap = {b}
    /\ destroyed = FALSE

\* mp_alloc takes the slot at the head of the free list ...
AllocFromList ==
  /\ ~destroyed /\ freelist # <<>>
  /\ held' = held \cup {Head(freelist)}
  /\ freelist' = Tail(freelist)
  /\ used_slots' = used_slots + 1
  /\ blocks' = blocks - 1
  /\ UNCHANGED <<memory, rejected, heap, destroyed>>

\* ... or expands the pool by a block first. (When it cannot, at the limit or
\* because malloc fails, it returns NULL and changes nothing.)
AllocExpanding(b) ==
  /\ ~destroyed /\ freelist = <<>>
  /\ MayExpand /\ malloc(b)
  /\ memory' = Append(memory, b)
  /\ heap' = heap \cup {b}
  /\ held' = held \cup {Head(NewSlots(b))}
  /\ freelist' = Tail(NewSlots(b))
  /\ used_slots' = used_slots + 1
  /\ blocks' = blocks + SlotCount - 1
  /\ UNCHANGED <<rejected, destroyed>>

-----------------------------------------------------------------------------
(* mp_free                                                                 *)

AsInt(x) == ((x + IntSpan \div 2) % IntSpan) - IntSpan \div 2

\* The positive differenceinbyte values of the loop over the blocks; the
\* least of them is "closest".
Offsets(s) ==
  { d \in { AsInt(AsInt(s) - AsInt(memory[i])) : i \in 1 .. alloc_time } : d > 0 }

\* closest % size = 0; with no positive offset closest is -1, which is not.
Accepts(s) ==
  \E closest \in Offsets(s) :
    /\ \A d \in Offsets(s) : closest <= d
    /\ closest % SlotSize = 0

Return(s) ==
  /\ held' = held \ {s}
  /\ freelist' = <<s>> \o freelist
  /\ blocks' = blocks + 1
  /\ used_slots' = used_slots - 1
  /\ UNCHANGED rejected

\* MEMORY_POOL_ERROR, which no caller looks at: the slot is neither free nor
\* in use any more.
Refuse(s) ==
  /\ held' = held \ {s}
  /\ rejected' = rejected \cup {s}
  /\ UNCHANGED <<freelist, blocks, used_slots>>

mp_free(s) ==
  /\ ~destroyed
  /\ s \in held
  /\ \/ Accepts(s) /\ Return(s)
     \/ ~Accepts(s) /\ Refuse(s)
  /\ UNCHANGED <<memory, heap, destroyed>>

\* mp_destroy sets each memory[i] to NULL before it passes it to free.
mp_destroy ==
  /\ ~destroyed
  /\ destroyed' = TRUE
  /\ memory' = <<>>
  /\ freelist' = <<>>
  /\ blocks' = 0
  /\ held' = {} /\ rejected' = {} /\ used_slots' = used_slots
  /\ UNCHANGED heap

Next ==
  \/ AllocFromList
  \/ \E b \in Bases : AllocExpanding(b)
  \/ \E s \in held : mp_free(s)
  \/ mp_destroy

Spec == Init /\ [][Next]_vars

-----------------------------------------------------------------------------
(* Properties.                                                             *)

\* No slot is handed out twice or linked twice, and none disappears: while
\* the pool exists each slot of each block is in the free list once, or held
\* by one caller, or was refused by mp_free.
SlotsPartitioned ==
  ~destroyed =>
    /\ Cardinality(Range(freelist)) = Len(freelist)
    /\ Range(freelist) \cap (held \cup rejected) = {}
    /\ held \cap rejected = {}
    /\ Range(freelist) \cup held \cup rejected = AllSlots

\* Both counters tell the truth: blocks is the length of the free list, and
\* used_slots counts what cannot be handed out, held or lost.
CountersAgree ==
  ~destroyed =>
    /\ blocks = Len(freelist)
    /\ used_slots = Cardinality(held) + Cardinality(rejected)
    /\ used_slots + blocks = alloc_time * SlotCount

\* The comment in mp_free: the offset it tests is that to "the closest and
\* most relevant mem_head", the block the slot is in. (Of the first slot of
\* a block that offset is 0 and is not considered at all.)
ClosestBlockIsOwn ==
  \A s \in held : \A b \in Range(memory) :
    s \in BlockOf(b) \ {b} =>
      s - b \in Offsets(s) /\ \A d \in Offsets(s) : s - b <= d

\* However long it is used, the pool loses at most one slot per block.
LosesOnlyFirstSlots == rejected \subseteq Range(memory)

\* Mempool.h: mp_free "releases a slot back to the memory pool".
FreeReturnsSlot == rejected = {}
=============================================================================
