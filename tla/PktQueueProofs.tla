--------------------------- MODULE PktQueueProofs ---------------------------
(***************************************************************************)
(* For every queue length and every set of packets: the ring buffer stays  *)
(* consistent, and it implements the bounded first-in first-out queue.     *)
(***************************************************************************)
EXTENDS PktQueue, SequenceTheorems, TLAPS

N == MAX_QUEUE_LENGTH

RingInv == TypeOK /\ RingConsistent

LEMMA NType == N \in Nat /\ N # 0
BY QueueAssumption DEF N

LEMMA InitRing == Init => RingInv
BY NType, QueueAssumption
DEF Init, RingInv, TypeOK, RingConsistent, Occupied, Slots, N, addpkt_msg_oversize

-----------------------------------------------------------------------------
(* The two operations on the ring.                                         *)

LEMMA AddRing ==
  ASSUME RingInv, NEW p \in Pkts, addpkt(p)
  PROVE  /\ Queue' \in [Slots -> Pkts \cup {NullPkt}]
         /\ front' \in Slots \cup {-1} /\ rear' \in Slots \cup {-1}
         /\ RingConsistent'
<1> USE DEF Slots, N, RingInv, TypeOK
<1>1. CASE is_null
  <2>1. front = -1 /\ front' = 0 /\ rear' = 0 /\ Queue' = [Queue EXCEPT ![0] = p]
    BY <1>1 DEF addpkt, is_null
  <2>2. \A i \in Slots : Queue[i] = NullPkt
    BY <2>1 DEF RingConsistent, Occupied
  <2>3. QED
    BY <2>1, <2>2, NType, QueueAssumption DEF RingConsistent, Occupied
<1>2. CASE ~is_null
  <2>1. /\ front \in Slots /\ rear \in Slots /\ ~is_full
        /\ front' = front /\ rear' = NextSlot(rear)
        /\ Queue' = [Queue EXCEPT ![rear'] = p]
    BY <1>2 DEF addpkt, is_null, RingConsistent
  <2>2. rear' \in Slots /\ (IF rear = N - 1 THEN rear' = 0 ELSE rear' = rear + 1)
    BY <2>1, NType DEF NextSlot
  <2>3. Queue' \in [Slots -> Pkts \cup {NullPkt}]
    BY <2>1, <2>2
  <2>4. p # NullPkt
    BY QueueAssumption
  <2>5. \A i \in Slots : Occupied(i)' <=> (Occupied(i) \/ i = rear')
    BY <2>1, <2>2, NType DEF Occupied, is_full
  <2>6. \A i \in Slots : Queue'[i] # NullPkt <=> Occupied(i)'
    BY <2>1, <2>2, <2>4, <2>5 DEF RingConsistent
  <2>7. QED
    BY <2>1, <2>2, <2>3, <2>6, NType DEF RingConsistent
<1>3. QED
  BY <1>1, <1>2

LEMMA DelRing ==
  ASSUME RingInv, ~is_null, delpkt
  PROVE  /\ Queue' \in [Slots -> Pkts \cup {NullPkt}]
         /\ front' \in Slots \cup {-1} /\ rear' \in Slots \cup {-1}
         /\ RingConsistent'
         /\ Queue[front] \in Pkts
<1> USE DEF Slots, N, RingInv, TypeOK
<1>1. front \in Slots /\ rear \in Slots /\ Queue' = [Queue EXCEPT ![front] = NullPkt]
  BY DEF delpkt, is_null, RingConsistent
<1>2. Occupied(front) /\ Queue[front] \in Pkts
  BY <1>1, NType DEF RingConsistent, Occupied
<1>3. Queue' \in [Slots -> Pkts \cup {NullPkt}]
  BY <1>1
<1>4. CASE front = rear
  <2>1. front' = -1 /\ rear' = -1
    BY <1>4 DEF delpkt
  <2>2. \A i \in Slots : i # front => ~Occupied(i)
    BY <1>1, <1>4 DEF Occupied
  <2>3. QED
    BY <1>1, <1>2, <1>3, <2>1, <2>2 DEF RingConsistent, Occupied
<1>5. CASE front # rear
  <2>1. front' = NextSlot(front) /\ rear' = rear
    BY <1>5 DEF delpkt
  <2>2. front' \in Slots /\ (IF front = N - 1 THEN front' = 0 ELSE front' = front + 1)
    BY <1>1, <2>1, NType DEF NextSlot
  <2>3. \A i \in Slots : Occupied(i)' <=> (Occupied(i) /\ i # front)
    BY <1>1, <1>5, <2>1, <2>2, NType DEF Occupied
  <2>4. \A i \in Slots : Queue'[i] # NullPkt <=> Occupied(i)'
    BY <1>1, <2>3 DEF RingConsistent
  <2>5. QED
    BY <1>1, <1>2, <1>3, <2>1, <2>2, <2>4 DEF RingConsistent
<1>6. QED
  BY <1>4, <1>5

-----------------------------------------------------------------------------
(* The inductive invariant.                                                *)

LEMMA NextRing == RingInv /\ [Next]_vars => RingInv'
<1> SUFFICES ASSUME RingInv, [Next]_vars PROVE RingInv'
  OBVIOUS
<1> USE DEF RingInv
<1>1. CASE \E p \in Pkts : UdpAddPkt(p)
  <2>1. PICK p \in Pkts : UdpAddPkt(p)
    BY <1>1
  <2>2. CASE UdpAddTaken(p)
    <3>1. addpkt(p)
      BY <2>2 DEF UdpAddTaken
    <3>2. QED
      BY <2>2, <3>1, AddRing DEF UdpAddTaken, LockMutex, TypeOK, addpkt_msg_oversize, Slots
  <2>3. CASE UdpAddOversize(p) \/ UdpAddDropped(p)
    BY <2>3
    DEF UdpAddOversize, UdpAddDropped, LockMutex, queueVars, TypeOK, RingConsistent,
        Occupied, Slots
  <2>4. QED
    BY <2>1, <2>2, <2>3 DEF UdpAddPkt
<1>2. CASE SenderPeek
  BY <1>2 DEF SenderPeek, queueVars, TypeOK, RingConsistent, Occupied, Slots
<1>3. CASE SenderGet
  <2>1. CASE is_null
    BY <1>3, <2>1 DEF SenderGet, LockMutex, TypeOK, RingConsistent, Occupied, Slots
  <2>2. CASE ~is_null
    <3>1. delpkt /\ got' = Queue[front]
      BY <1>3, <2>2 DEF SenderGet
    <3>2. QED
      BY <1>3, <2>2, <3>1, DelRing DEF SenderGet, LockMutex, TypeOK, Slots
  <2>3. QED
    BY <2>1, <2>2
<1>4. CASE ReleaseShutdown
  BY <1>4 DEF ReleaseShutdown, queueVars, TypeOK, RingConsistent, Occupied, Slots
<1>5. CASE FreePacketQueue
  BY <1>5 DEF FreePacketQueue, TypeOK, RingConsistent, Occupied, Slots
<1>6. CASE DestroyMutex
  BY <1>6 DEF DestroyMutex, queueVars, TypeOK, RingConsistent, Occupied, Slots
<1>7. CASE UNCHANGED vars
  BY <1>7 DEF vars, queueVars, TypeOK, RingConsistent, Occupied, Slots
<1>8. QED
  BY <1>1, <1>2, <1>3, <1>4, <1>5, <1>6, <1>7 DEF Next

LEMMA RingAlways == Spec => []RingInv
BY InitRing, NextRing, PTL DEF Spec

(* Every variable of the packet queue keeps its type: the indices stay     *)
(* within the array or are -1, whatever the length of the array.           *)
THEOREM TypeCorrect == Spec => []TypeOK
BY RingAlways, PTL DEF RingInv

(* addpkt and delpkt keep the ring consistent: the slots from front to     *)
(* rear hold packets, no other slot does, and the indices are unset        *)
(* together (pkt_Queue.c).                                                 *)
THEOREM RingStaysConsistent == Spec => []RingConsistent
BY RingAlways, PTL DEF RingInv

-----------------------------------------------------------------------------
(* Sequences given by their elements.                                      *)

LEMMA AppendIs ==
  ASSUME NEW S, NEW q \in Seq(S), NEW r \in Seq(S), NEW x \in S,
         Len(r) = Len(q) + 1, r[Len(q) + 1] = x,
         \A k \in 1 .. Len(q) : r[k] = q[k]
  PROVE  r = Append(q, x)
<1>1. Append(q, x) \in Seq(S) /\ Len(Append(q, x)) = Len(r)
  BY AppendProperties
<1>2. \A k \in 1 .. Len(r) : r[k] = Append(q, x)[k]
  BY AppendProperties, LenProperties
<1>3. QED
  BY <1>1, <1>2, SeqEqual

LEMMA TailIs ==
  ASSUME NEW S, NEW q \in Seq(S), NEW r \in Seq(S), q # <<>>,
         Len(r) = Len(q) - 1,
         \A k \in 1 .. Len(r) : r[k] = q[k + 1]
  PROVE  r = Tail(q)
<1>1. Tail(q) \in Seq(S) /\ Len(Tail(q)) = Len(r)
  BY HeadTailProperties
<1>2. \A k \in 1 .. Len(r) : r[k] = Tail(q)[k]
  BY HeadTailProperties
<1>3. QED
  BY <1>1, <1>2, SeqEqual

LEMMA EmptyIs ==
  ASSUME NEW S, NEW q \in Seq(S)
  PROVE  q = <<>> <=> Len(q) = 0
BY EmptySeq

-----------------------------------------------------------------------------
(* The ring as a sequence.                                                 *)

LEMMA QueueLen ==
  ASSUME RingInv
  PROVE  /\ queue_len \in 0 .. N
         /\ is_null <=> queue_len = 0
         /\ ~is_full => queue_len < N
BY NType
DEF RingInv, TypeOK, RingConsistent, Slots, N, queue_len, is_null, is_full

LEMMA SlotsOccupied ==
  ASSUME RingInv, NEW k \in 1 .. queue_len
  PROVE  SlotAt(k) \in Slots /\ Queue[SlotAt(k)] \in Pkts
<1>1. k \in Nat /\ front \in Slots /\ rear \in Slots
  BY QueueLen, NType DEF RingInv, TypeOK, RingConsistent, Slots, N, is_null, queue_len
<1>2. SlotAt(k) \in Slots /\ Occupied(SlotAt(k))
  BY <1>1, NType DEF SlotAt, Occupied, queue_len, is_null, Slots, N
<1>3. QED
  BY <1>2 DEF RingInv, TypeOK, RingConsistent

LEMMA ContentsSeq ==
  RingInv => Contents \in Seq(Pkts) /\ Len(Contents) = queue_len
<1> SUFFICES ASSUME RingInv
             PROVE  Contents \in Seq(Pkts) /\ Len(Contents) = queue_len
  OBVIOUS
<1>1. queue_len \in Nat
  BY QueueLen, NType
<1>2. \A k \in 1 .. queue_len : Queue[SlotAt(k)] \in Pkts
  BY SlotsOccupied
<1>3. QED
  BY <1>1, <1>2, IsASeq DEF Contents

LEMMA ContentsSeqNext ==
  (RingInv => Contents \in Seq(Pkts) /\ Len(Contents) = queue_len)'
BY ContentsSeq, PTL

LEMMA AddContents ==
  ASSUME RingInv, RingInv', NEW p \in Pkts, addpkt(p)
  PROVE  Contents' = Append(Contents, p) /\ Len(Contents) < N
<1>1. queue_len \in Nat /\ queue_len < N /\ ~is_full
  BY QueueLen, NType DEF addpkt
<1>2. queue_len' = queue_len + 1 /\ SlotAt(queue_len)' = rear'
  <2>1. CASE is_null
    BY <2>1, NType
    DEF addpkt, is_null, queue_len, SlotAt, N
  <2>2. CASE ~is_null
    <3>1. /\ front \in Slots /\ rear \in Slots /\ ~is_full
          /\ front' = front /\ rear' = NextSlot(rear)
      BY <1>1, <2>2 DEF addpkt, is_null, RingInv, TypeOK, RingConsistent
    <3>2. rear' \in Slots /\ (IF rear = N - 1 THEN rear' = 0 ELSE rear' = rear + 1)
      BY <3>1, NType DEF NextSlot, Slots, N
    <3>3. queue_len' = queue_len + 1
      BY <3>1, <3>2, NType DEF queue_len, is_null, is_full, Slots, N
    <3>4. SlotAt(queue_len)' = rear'
      BY <3>1, <3>2, NType DEF SlotAt, queue_len, is_null, is_full, Slots, N
    <3>5. QED
      BY <3>3, <3>4
  <2>3. QED
    BY <2>1, <2>2
<1>3. ASSUME NEW k \in 1 .. queue_len
      PROVE  Queue'[SlotAt(k)'] = Queue[SlotAt(k)]
  <2>1. ~is_null
    BY <1>3, QueueLen
  <2>2. front' = front /\ SlotAt(k)' = SlotAt(k)
    BY <2>1 DEF addpkt, SlotAt
  <2>3. SlotAt(k) # rear'
    BY <1>1, <1>3, <2>1, NType
    DEF addpkt, is_null, is_full, queue_len, SlotAt, NextSlot, N,
        RingInv, TypeOK, RingConsistent, Slots
  <2>4. QED
    BY <2>2, <2>3, SlotsOccupied DEF addpkt, RingInv, TypeOK
<1>4. Queue'[rear'] = p
  BY AddRing, NType, <1>2, <1>1 DEF addpkt, RingInv, TypeOK, is_null, NextSlot, Slots, N, RingConsistent
<1>5. Contents' \in Seq(Pkts) /\ Len(Contents') = queue_len + 1
  BY <1>2, ContentsSeqNext
<1>6. Contents'[queue_len + 1] = p
  BY <1>1, <1>2, <1>4 DEF Contents
<1>7. \A k \in 1 .. queue_len : Contents'[k] = Contents[k]
  BY <1>1, <1>2, <1>3 DEF Contents
<1>8. QED
  BY <1>1, <1>5, <1>6, <1>7, ContentsSeq, AppendIs

LEMMA DelContents ==
  ASSUME RingInv, RingInv', ~is_null, delpkt
  PROVE  /\ Contents # <<>>
         /\ Queue[front] = Head(Contents)
         /\ Contents' = Tail(Contents)
<1>1. queue_len \in Nat /\ queue_len >= 1 /\ front \in Slots /\ rear \in Slots
  BY QueueLen, NType DEF is_null, RingInv, TypeOK, RingConsistent
<1>2. SlotAt(1) = front
  BY <1>1, NType DEF SlotAt, Slots, N
<1>3. Contents # <<>> /\ Head(Contents) = Queue[front]
  <2>1. Contents # <<>>
    BY <1>1, ContentsSeq, EmptyIs
  <2>2. Head(Contents) = Contents[1]
    OBVIOUS
  <2>3. QED
    BY <1>1, <1>2, <2>1, <2>2 DEF Contents
<1>4. queue_len' = queue_len - 1
  BY <1>1, NType DEF delpkt, is_null, queue_len, NextSlot, Slots, N
<1>5. ASSUME NEW k \in 1 .. queue_len - 1
      PROVE  Queue'[SlotAt(k)'] = Queue[SlotAt(k + 1)]
  <2>1. front # rear /\ front' = NextSlot(front) /\ rear' = rear
    BY <1>1, <1>5 DEF delpkt, queue_len, is_null, Slots
  <2>2. SlotAt(k)' = SlotAt(k + 1) /\ SlotAt(k + 1) # front
    BY <1>1, <1>5, <2>1, NType
    DEF SlotAt, NextSlot, Slots, N, queue_len, is_null
  <2>3. k + 1 \in 1 .. queue_len
    BY <1>1, <1>5
  <2>4. QED
    BY <2>2, <2>3, SlotsOccupied DEF delpkt, RingInv, TypeOK
<1>6. Contents' \in Seq(Pkts) /\ Len(Contents') = queue_len - 1
  BY <1>4, ContentsSeqNext
<1>7. \A k \in 1 .. queue_len - 1 : Contents'[k] = Contents[k + 1]
  BY <1>1, <1>4, <1>5 DEF Contents
<1>8. QED
  BY <1>1, <1>3, <1>6, <1>7, ContentsSeq, TailIs

-----------------------------------------------------------------------------
(* The refinement.                                                         *)

LEMMA InitFifo == Init => Fifo!Init
<1> SUFFICES ASSUME Init PROVE Contents = <<>> /\ is_free = FALSE /\ got = NullPkt
  BY DEF Fifo!Init
<1>1. RingInv /\ is_null
  BY InitRing DEF Init, is_null
<1>2. QED
  BY <1>1, QueueLen, ContentsSeq, EmptyIs DEF Init

LEMMA NextFifo ==
  ASSUME RingInv, RingInv', [Next]_vars
  PROVE  [Fifo!Next]_Fifo!fifoVars
<1>1. ASSUME UNCHANGED queueVars PROVE UNCHANGED <<Contents, is_free>>
  BY <1>1 DEF queueVars, Contents, queue_len, is_null, SlotAt
<1>2. CASE \E p \in Pkts : UdpAddPkt(p)
  <2>1. PICK p \in Pkts : UdpAddPkt(p)
    BY <1>2
  <2>2. CASE UdpAddTaken(p)
    <3>1. addpkt(p) /\ ~is_free /\ UNCHANGED <<is_free, got>>
      BY <2>2 DEF UdpAddTaken, addpkt, MayAdd
    <3>2. Fifo!Put(p)
      BY <3>1, AddContents DEF Fifo!Put, N
    <3>3. QED
      BY <3>2 DEF Fifo!Next
  <2>3. CASE UdpAddOversize(p) \/ UdpAddDropped(p)
    BY <1>1, <2>3 DEF UdpAddOversize, UdpAddDropped, Fifo!fifoVars
  <2>4. QED
    BY <2>1, <2>2, <2>3 DEF UdpAddPkt
<1>3. CASE SenderPeek
  BY <1>1, <1>3 DEF SenderPeek, Fifo!fifoVars
<1>4. CASE SenderGet
  <2>1. CASE is_null
    <3>1. Contents = <<>>
      BY <2>1, QueueLen, ContentsSeq, EmptyIs
    <3>2. Fifo!TakeNothing
      BY <1>1, <1>4, <2>1, <3>1 DEF SenderGet, Fifo!TakeNothing, queueVars
    <3>3. QED
      BY <3>2 DEF Fifo!Next
  <2>2. CASE ~is_null
    <3>1. delpkt /\ got' = Queue[front] /\ UNCHANGED is_free
      BY <1>4, <2>2 DEF SenderGet
    <3>2. Fifo!Take
      BY <2>2, <3>1, DelContents DEF Fifo!Take
    <3>3. QED
      BY <3>2 DEF Fifo!Next
  <2>3. QED
    BY <2>1, <2>2
<1>5. CASE ReleaseShutdown
  BY <1>1, <1>5 DEF ReleaseShutdown, Fifo!fifoVars
<1>6. CASE FreePacketQueue
  <2>1. Contents' = <<>>
    <3>1. queue_len' = 0
      BY <1>6 DEF FreePacketQueue, queue_len, is_null
    <3>2. Contents' \in Seq(Pkts) /\ Len(Contents') = 0
      BY <3>1, ContentsSeqNext
    <3>3. QED
      BY <3>2, EmptyIs
  <2>2. Fifo!Close
    BY <1>6, <2>1 DEF FreePacketQueue, Fifo!Close
  <2>3. QED
    BY <2>2 DEF Fifo!Next
<1>7. CASE DestroyMutex
  BY <1>1, <1>7 DEF DestroyMutex, Fifo!fifoVars
<1>8. CASE UNCHANGED vars
  BY <1>1, <1>8 DEF vars, queueVars, Fifo!fifoVars
<1>9. QED
  BY <1>2, <1>3, <1>4, <1>5, <1>6, <1>7, <1>8 DEF Next

(* The ring buffer of pkt_Queue.c, with its wrap-around and its two        *)
(* indices, is a bounded first-in first-out queue: packets leave in the    *)
(* order in which they came, none twice, none but those a full or freed    *)
(* queue refuses is dropped, and a freed queue takes no more.              *)
THEOREM RingImplementsFifo == Spec => ImplementsFifo
<1>1. Init => Fifo!Init
  BY InitFifo
<1>2. RingInv /\ RingInv' /\ [Next]_vars => [Fifo!Next]_Fifo!fifoVars
  BY NextFifo
<1>3. QED
  BY <1>1, <1>2, RingAlways, PTL DEF Spec, ImplementsFifo, Fifo!Spec
=============================================================================
