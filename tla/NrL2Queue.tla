------------------------------ MODULE NrL2Queue -----------------------------
(***************************************************************************)
(* The bounded queue with one consumer thread that lies between PDCP and   *)
(* RLC, in both directions (nr_pdcp_oai_api.c: `q' of rlc_data_req_thread, *)
(* `pq' of pdcp_data_ind_thread).  Producers and consumer wait on the same *)
(* condition variable, and pthread_cond_signal wakes one of them.          *)
(*                                                                         *)
(* A stretch of code between taking the mutex and giving it back, or       *)
(* waiting, is one step.  The consumer reads its slot outside the mutex.   *)
(***************************************************************************)
EXTENDS Integers, FiniteSets

CONSTANTS
    Producers,  \* threads that call enqueue_...
    Consumer,   \* the thread that empties the queue
    Items,
    None,
    Size        \* RLC_DATA_REQ_QUEUE_SIZE, PDCP_DATA_IND_QUEUE_SIZE

ASSUME QueueConstants == /\ Size \in Nat \ {0}
                         /\ IsFiniteSet(Producers)
                         /\ Consumer \notin Producers
                         /\ None \notin Items

(***************************************************************************)
(* 10000 slots are more than there are threads.  Fewer would not do: see   *)
(* NoLostWakeup.                                                           *)
(***************************************************************************)
ASSUME SizeAssumption == Cardinality(Producers) <= Size

VARIABLES
    slots,      \* q.q
    start,      \* q.start
    length,     \* q.length
    waiting,    \* threads in pthread_cond_wait(&q.c), not woken yet
    calling,    \* calling[p]: the item producer p is enqueueing
    cpc,        \* where the consumer is: "take", "handle" or "release"
    handed      \* the item the consumer handed over last

queueVars == <<slots, start, length, waiting, calling, cpc, handed>>

Slots == 0 .. Size - 1

(* The queue is a static variable, hence all zero.                         *)
Init ==
    /\ slots = [i \in Slots |-> None]
    /\ start = 0
    /\ length = 0
    /\ waiting = {}
    /\ calling = [p \in Producers |-> None]
    /\ cpc = "take"
    /\ handed = None

-----------------------------------------------------------------------------
(* pthread_cond_signal: one waiting thread, if there is one, is woken.     *)
Signal ==
    IF waiting = {} THEN waiting' = {}
    ELSE \E t \in waiting : waiting' = waiting \ {t}

(* A thread may also return from pthread_cond_wait without a signal.       *)
SpuriousWakeup(t) ==
    /\ t \in waiting
    /\ waiting' = waiting \ {t}
    /\ UNCHANGED <<slots, start, length, calling, cpc, handed>>

(* Producer p calls enqueue_rlc_data_req or enqueue_pdcp_data_ind.         *)
Call(p, item) ==
    /\ calling[p] = None
    /\ calling' = [calling EXCEPT ![p] = item]
    /\ UNCHANGED <<slots, start, length, waiting, cpc, handed>>

(* The loop of enqueue_...: the queue is full, wait.                       *)
EnqueueWaits(p) ==
    /\ calling[p] # None
    /\ p \notin waiting
    /\ length = Size
    /\ waiting' = waiting \cup {p}
    /\ UNCHANGED <<slots, start, length, calling, cpc, handed>>

(* Bug: no signal.                                                         *)
EnqueueAsSilent(p) ==
    /\ calling[p] # None
    /\ p \notin waiting
    /\ length # Size
    /\ slots' = [slots EXCEPT ![(start + length) % Size] = calling[p]]
    /\ length' = length + 1
    /\ calling' = [calling EXCEPT ![p] = None]
    /\ UNCHANGED <<start, waiting, cpc, handed>>

(* The rest of enqueue_..., with room in the queue.                        *)
Enqueue(p) ==
    /\ calling[p] # None
    /\ p \notin waiting
    /\ length # Size
    /\ slots' = [slots EXCEPT ![(start + length) % Size] = calling[p]]
    /\ length' = length + 1
    /\ Signal
    /\ calling' = [calling EXCEPT ![p] = None]
    /\ UNCHANGED <<start, cpc, handed>>

(* The consumer finds the queue empty, and waits.                          *)
TakeWaits ==
    /\ cpc = "take"
    /\ Consumer \notin waiting
    /\ length = 0
    /\ waiting' = waiting \cup {Consumer}
    /\ UNCHANGED <<slots, start, length, calling, cpc, handed>>

(* Bug: the slot is given back before it has been read.                    *)
TakeAsRelease ==
    /\ cpc = "take"
    /\ Consumer \notin waiting
    /\ length # 0
    /\ length' = length - 1
    /\ Signal
    /\ cpc' = "handle"
    /\ UNCHANGED <<slots, start, calling, handed>>

(* i = q.start                                                             *)
Take ==
    /\ cpc = "take"
    /\ Consumer \notin waiting
    /\ length # 0
    /\ cpc' = "handle"
    /\ UNCHANGED <<slots, start, length, waiting, calling, handed>>

(* nr_rlc_data_req, do_pdcp_data_ind: called without the mutex.            *)
Handle ==
    /\ cpc = "handle"
    /\ handed' = slots[start]
    /\ cpc' = "release"
    /\ UNCHANGED <<slots, start, length, waiting, calling>>

(* q.length--, q.start moves on.                                           *)
Release ==
    /\ cpc = "release"
    /\ length' = length - 1
    /\ start' = (start + 1) % Size
    /\ Signal
    /\ cpc' = "take"
    /\ UNCHANGED <<slots, calling, handed>>

Next ==
    \/ \E p \in Producers :
          \/ \E item \in Items : Call(p, item)
          \/ EnqueueWaits(p)
          \/ Enqueue(p)
    \/ TakeWaits
    \/ Take
    \/ Handle
    \/ Release
    \/ \E t \in Producers \cup {Consumer} : SpuriousWakeup(t)

Spec == Init /\ [][Next]_queueVars

-----------------------------------------------------------------------------
(* Types of the state.                                                     *)
QueueTypeOK ==
    /\ slots \in [Slots -> Items \cup {None}]
    /\ start \in Slots
    /\ length \in 0 .. Size
    /\ waiting \subseteq Producers \cup {Consumer}
    /\ calling \in [Producers -> Items \cup {None}]
    /\ cpc \in {"take", "handle", "release"}
    /\ handed \in Items \cup {None}

(***************************************************************************)
(* No wake-up is lost although one condition variable serves both sides:   *)
(* the consumer never sleeps over an item, and while a producer sleeps     *)
(* there is an item, so that the consumer will give back a slot and signal.*)
(* The code relies on this for every enqueue to return.                    *)
(***************************************************************************)
NoLostWakeup ==
    /\ Consumer \in waiting => length = 0
    /\ waiting \cap Producers # {} => length # 0

(* The item at the head of the queue has been handed over already.         *)
Done == IF cpc = "release" THEN 1 ELSE 0

(* The items in the queue that have not been handed over, in order.        *)
Pending == [k \in 1 .. length - Done |-> slots[(start + Done + k - 1) % Size]]

Fifo == INSTANCE NrL2Fifo WITH chan <- Pending, handed <- handed

(* Every item that was enqueued is handed over once, in the order in which *)
(* the producers got the mutex: the queue implements a bounded FIFO.       *)
ImplementsFifo == Fifo!FifoSpec

=============================================================================
