----------------------------- MODULE BoundedFifo -----------------------------
(***************************************************************************)
(* What a bounded queue promises its callers: the items come out in the     *)
(* order they went in, each once, and never more than Capacity are inside.  *)
(***************************************************************************)
EXTENDS Naturals, Sequences

CONSTANTS Items, Capacity

VARIABLES
  fifo,   \* the items inside, the oldest first
  got     \* the item that was taken out last, as a sequence of at most one

fifoVars == <<fifo, got>>

FifoInit == fifo = <<>> /\ got = <<>>

Push(x) ==
  /\ Len(fifo) < Capacity
  /\ fifo' = Append(fifo, x)
  /\ UNCHANGED got

Pop ==
  /\ fifo # <<>>
  /\ got' = <<Head(fifo)>>
  /\ fifo' = Tail(fifo)

FifoNext == Pop \/ \E x \in Items : Push(x)

FifoSpec == FifoInit /\ [][FifoNext]_fifoVars
=============================================================================
