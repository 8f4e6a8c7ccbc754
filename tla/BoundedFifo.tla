----------------------------- MODULE BoundedFifo -----------------------------
(***************************************************************************)
(* What a packet queue of src/import/pkt_Queue.c promises its users: a     *)
(* first-in first-out buffer of bounded capacity that drops what does not  *)
(* fit, and that takes nothing more once it has been closed.               *)
(***************************************************************************)
EXTENDS Naturals, Sequences

CONSTANTS Capacity, Pkts, NullPkt

VARIABLES
  fifo,     \* the packets held, oldest first
  closed,
  got       \* the packet last handed out, NullPkt for "none there"

fifoVars == <<fifo, closed, got>>

Init ==
  /\ fifo = <<>>
  /\ closed = FALSE
  /\ got = NullPkt

Put(p) ==
  /\ ~closed
  /\ Len(fifo) < Capacity
  /\ fifo' = Append(fifo, p)
  /\ UNCHANGED <<closed, got>>

Take ==
  /\ fifo # <<>>
  /\ got' = Head(fifo)
  /\ fifo' = Tail(fifo)
  /\ UNCHANGED closed

TakeNothing ==
  /\ fifo = <<>>
  /\ got' = NullPkt
  /\ UNCHANGED <<fifo, closed>>

Close ==
  /\ closed' = TRUE
  /\ fifo' = <<>>
  /\ UNCHANGED got

Next == (\E p \in Pkts : Put(p)) \/ Take \/ TakeNothing \/ Close

Spec == Init /\ [][Next]_fifoVars
=============================================================================
