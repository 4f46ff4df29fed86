------------------------------ MODULE NrL2Fifo ------------------------------
(***************************************************************************)
(* What the queues between PDCP and RLC promise: a bounded FIFO.           *)
(***************************************************************************)
EXTENDS Naturals, Sequences

CONSTANTS Items, Size, None

VARIABLES
    chan,       \* the items put and not yet handed over
    handed      \* the item handed over last

FifoInit == chan = <<>> /\ handed = None

FifoPut(item) ==
    /\ Len(chan) < Size
    /\ chan' = Append(chan, item)
    /\ UNCHANGED handed

FifoGet ==
    /\ chan # <<>>
    /\ handed' = Head(chan)
    /\ chan' = Tail(chan)

FifoNext == FifoGet \/ \E item \in Items : FifoPut(item)

FifoSpec == FifoInit /\ [][FifoNext]_<<chan, handed>>

=============================================================================
