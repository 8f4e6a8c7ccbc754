------------------------------ MODULE PktQueue ------------------------------
(***************************************************************************)
(* The send queue of the UDP layer (src/import/pkt_Queue.c and UDP_API.c): *)
(* a ring buffer of MAX_QUEUE_LENGTH packets, filled by udp_addpkt from any*)
(* worker thread, emptied by the send thread, and freed by udp_release     *)
(* while both may still be running.                                        *)
(*                                                                         *)
(* Each operation runs under the queue's mutex and is one step, except the *)
(* send thread's own test of is_null, which it makes without the mutex     *)
(* before it calls get_pkt, and the end of Free_Packet_Queue, which        *)
(* destroys the mutex once it has released it. A call that comes later     *)
(* locks a destroyed mutex. That is undefined; what the pthread libraries  *)
(* of the build make of it is one and the same here: the lock is taken as  *)
(* before, or is refused with an error nobody looks at, and the call then  *)
(* runs without it and finds is_free set and the ring empty for good.      *)
(***************************************************************************)
EXTENDS Integers, Sequences

CONSTANTS
  MAX_QUEUE_LENGTH,
  Pkts,             \* the packets a worker may pass to udp_addpkt
  Oversize,         \* those of more than MESSAGE_LENGTH bytes
  NullPkt           \* a slot, or a result, whose is_null flag is set

ASSUME QueueAssumption ==
  /\ MAX_QUEUE_LENGTH \in Nat \ {0}
  /\ Oversize \subseteq Pkts
  /\ NullPkt \notin Pkts

VARIABLES
  Queue, front, rear, is_free,   \* the spkt_ptr structure
  mutex,                         \* the mutex of that structure
  shutdown,                      \* udp_config.shutdown
  sender,                        \* where the send thread is
  got,                           \* the packet get_pkt last returned
  ret,                           \* what udp_addpkt last returned
  taken,                         \* ghost: did that call queue its packet?
  misused                        \* ghost: a destroyed mutex has been locked

queueVars == <<Queue, front, rear, is_free>>
vars == <<queueVars, mutex, shutdown, sender, got, ret, taken, misused>>

Slots == 0 .. MAX_QUEUE_LENGTH - 1
addpkt_msg_oversize == -6

TypeOK ==
  /\ Queue \in [Slots -> Pkts \cup {NullPkt}]
  /\ front \in Slots \cup {-1}
  /\ rear \in Slots \cup {-1}
  /\ is_free \in BOOLEAN
  /\ mutex \in {"live", "destroyed"}
  /\ shutdown \in BOOLEAN
  /\ sender \in {"idle", "get", "stopped"}
  /\ got \in Pkts \cup {NullPkt}
  /\ ret \in {0, addpkt_msg_oversize}
  /\ taken \in BOOLEAN
  /\ misused \in BOOLEAN

Init ==
  /\ Queue = [i \in Slots |-> NullPkt]
  /\ front = -1
  /\ rear = -1
  /\ is_free = FALSE
  /\ mutex = "live"
  /\ shutdown = FALSE
  /\ sender = "idle"
  /\ got = NullPkt
  /\ ret = 0
  /\ taken = TRUE
  /\ misused = FALSE

-----------------------------------------------------------------------------
(* Wrong variants of definitions below, one plausible bug each; only the   *)
(* mutation tests of the properties use them.                              *)

Mutant_is_full == front = rear + 1
Mutant_delpkt ==
  /\ Queue' = [Queue EXCEPT ![front] = NullPkt]
  /\ UNCHANGED <<front, rear>>
Mutant_MayAdd == TRUE

-----------------------------------------------------------------------------
(* pkt_Queue.c *)

is_null == front = -1 /\ rear = -1

is_full ==
  \/ front = rear + 1
  \/ front = 0 /\ rear = MAX_QUEUE_LENGTH - 1

\* The number of packets, as queue_len computes it from the two indices.
queue_len ==
  IF is_null THEN 0
  ELSE IF rear >= front THEN rear - front + 1
  ELSE MAX_QUEUE_LENGTH - front + rear + 1

NextSlot(i) == IF i = MAX_QUEUE_LENGTH - 1 THEN 0 ELSE i + 1

MayAdd == ~is_free

\* pthread_mutex_lock at the head of addpkt and get_pkt.
LockMutex ==
  /\ misused' = (misused \/ mutex = "destroyed")
  /\ UNCHANGED mutex

addpkt(p) ==
  /\ MayAdd /\ ~is_full
  /\ IF is_null THEN front' = 0 /\ rear' = 0
                ELSE front' = front /\ rear' = NextSlot(rear)
  /\ Queue' = [Queue EXCEPT ![rear'] = p]

\* The removal of the oldest packet, in get_pkt.
delpkt ==
  /\ Queue' = [Queue EXCEPT ![front] = NullPkt]
  /\ IF front = rear THEN front' = -1 /\ rear' = -1
                     ELSE front' = NextSlot(front) /\ rear' = rear

-----------------------------------------------------------------------------
(* UDP_API.c *)

\* udp_addpkt refuses an oversized packet; otherwise it calls addpkt and
\* returns 0 whatever addpkt returned.
UdpAddOversize(p) ==
  /\ p \in Oversize
  /\ ret' = addpkt_msg_oversize
  /\ taken' = FALSE
  /\ UNCHANGED <<queueVars, mutex, misused, shutdown, sender, got>>

UdpAddTaken(p) ==
  /\ p \notin Oversize
  /\ LockMutex
  /\ addpkt(p)
  /\ ret' = 0
  /\ taken' = TRUE
  /\ UNCHANGED <<is_free, shutdown, sender, got>>

UdpAddDropped(p) ==
  /\ p \notin Oversize
  /\ LockMutex
  /\ ~MayAdd \/ is_full
  /\ ret' = 0
  /\ taken' = FALSE
  /\ UNCHANGED <<queueVars, shutdown, sender, got>>

UdpAddPkt(p) == UdpAddOversize(p) \/ UdpAddTaken(p) \/ UdpAddDropped(p)

\* One round of udp_send_pkt_routine: the loop test, and is_null, unlocked.
SenderPeek ==
  /\ sender = "idle"
  /\ \/ ~shutdown /\ ~is_null /\ sender' = "get"
     \/ shutdown /\ sender' = "stopped"
  /\ UNCHANGED <<queueVars, mutex, misused, shutdown, got, ret, taken>>

\* get_pkt, then sendto when it returned a packet.
SenderGet ==
  /\ sender = "get"
  /\ sender' = "idle"
  /\ LockMutex
  /\ IF is_null THEN got' = NullPkt /\ UNCHANGED <<Queue, front, rear>>
                ELSE got' = Queue[front] /\ delpkt
  /\ UNCHANGED <<is_free, shutdown, ret, taken>>

\* udp_release: stop the threads, without waiting for them, ...
ReleaseShutdown ==
  /\ ~shutdown
  /\ shutdown' = TRUE
  /\ UNCHANGED <<queueVars, mutex, misused, sender, got, ret, taken>>

\* ... and free the queue: Free_Packet_Queue deletes every packet under the
\* mutex, ...
FreePacketQueue ==
  /\ shutdown
  /\ ~is_free
  /\ is_free' = TRUE
  /\ Queue' = [i \in Slots |-> NullPkt]
  /\ front' = -1
  /\ rear' = -1
  /\ UNCHANGED <<mutex, misused, shutdown, sender, got, ret, taken>>

\* ... releases it and destroys it.
DestroyMutex ==
  /\ is_free
  /\ mutex = "live"
  /\ mutex' = "destroyed"
  /\ UNCHANGED <<queueVars, shutdown, sender, got, ret, taken, misused>>

Next ==
  \/ \E p \in Pkts : UdpAddPkt(p)
  \/ SenderPeek
  \/ SenderGet
  \/ ReleaseShutdown
  \/ FreePacketQueue
  \/ DestroyMutex

Spec == Init /\ [][Next]_vars

\* The send thread polls the queue for as long as it runs, and udp_release
\* runs to its end.
FairSpec ==
  /\ Spec
  /\ WF_vars(SenderPeek \/ SenderGet)
  /\ WF_vars(FreePacketQueue \/ DestroyMutex)

-----------------------------------------------------------------------------
(* Properties.                                                             *)

\* The slots that hold packets: from front to rear around the ring, and the
\* k-th of them.
Occupied(i) ==
  /\ front # -1
  /\ IF rear >= front THEN i \in front .. rear ELSE i >= front \/ i <= rear

SlotAt(k) ==
  IF front + k - 1 < MAX_QUEUE_LENGTH
  THEN front + k - 1
  ELSE front + k - 1 - MAX_QUEUE_LENGTH

Contents == [k \in 1 .. queue_len |-> Queue[SlotAt(k)]]

\* The ring is consistent: both indices are unset or none is, and the slots
\* between them, and no others, hold packets.
RingConsistent ==
  /\ front = -1 <=> rear = -1
  /\ \A i \in Slots : Queue[i] # NullPkt <=> Occupied(i)

\* The ring buffer, wrapping around, is a bounded first-in first-out queue
\* that stays closed once it has been freed.
Fifo == INSTANCE BoundedFifo
          WITH Capacity <- MAX_QUEUE_LENGTH, fifo <- Contents,
               closed <- is_free

ImplementsFifo == Fifo!Spec

\* A full queue does not stay full while the send thread runs.
FullQueueDrains == is_full ~> ~is_full

\* UDP_API.h: udp_addpkt returns 0 when everything worked.
ZeroMeansQueued == ret = 0 => taken

\* POSIX pthread_mutex_destroy: a destroyed mutex is not locked again. The
\* workers and the detached threads of the layer outlive udp_release.
NoLockAfterDestroy == ~misused
=============================================================================
