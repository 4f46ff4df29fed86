--------------------------- MODULE NrL2QueueProofs --------------------------
(***************************************************************************)
(* The queue between PDCP and RLC, for any number of slots and any finite  *)
(* set of producers that is no larger: no wake-up is lost, and the queue   *)
(* implements a bounded FIFO.                                              *)
(***************************************************************************)
EXTENDS NrL2Queue, FiniteSetTheorems, SequenceTheorems, TLAPS

Asleep == waiting \cap Producers

(***************************************************************************)
(* NoLostWakeup is not inductive: that the queue is not empty while a      *)
(* producer sleeps must survive the consumer taking item after item.  Each *)
(* slot it gives back wakes a producer, and producers fall asleep only     *)
(* when the queue is full: hence the free slots are at most the producers  *)
(* that are awake.                                                         *)
(***************************************************************************)
Inv ==
    /\ QueueTypeOK
    /\ cpc # "take" => length # 0 /\ Consumer \notin waiting
    /\ Consumer \in waiting => length = 0 /\ Asleep = {}
    /\ Asleep # {} =>
          Size - length <= Cardinality(Producers) - Cardinality(Asleep)

-----------------------------------------------------------------------------
(* The sleeping producers are counted by a natural number.                 *)
LEMMA AsleepCount ==
  ASSUME NEW W \in SUBSET Producers
  PROVE  /\ IsFiniteSet(W)
         /\ Cardinality(W) \in Nat /\ Cardinality(Producers) \in Nat
         /\ Cardinality(W) <= Cardinality(Producers)
         /\ W # {} => Cardinality(W) >= 1
         /\ \A t \in W : Cardinality(W \ {t}) = Cardinality(W) - 1
<1>1. IsFiniteSet(Producers)
  BY QueueConstants
<1>2. IsFiniteSet(W) /\ Cardinality(W) <= Cardinality(Producers)
  BY <1>1, FS_Subset
<1>3. Cardinality(W) \in Nat /\ Cardinality(Producers) \in Nat
  BY <1>1, <1>2, FS_CardinalityType
<1>4. Cardinality(W) = 0 <=> W = {}
  BY <1>2, FS_EmptySet
<1>5. \A t \in W : Cardinality(W \ {t}) = Cardinality(W) - 1
  BY <1>2, FS_RemoveElement
<1> QED
  BY <1>2, <1>3, <1>4, <1>5

(* An index into the circular buffer.                                      *)
LEMMA InSlots ==
  ASSUME NEW n \in Nat
  PROVE  (n % Size) \in Slots
BY QueueConstants DEF Slots

(* A signal wakes the consumer, if it sleeps, or else a producer.          *)
LEMMA SignalWakes ==
  ASSUME Inv, Signal
  PROVE  /\ waiting' \subseteq Producers \cup {Consumer}
         /\ Consumer \notin waiting'
         /\ Asleep' \subseteq Asleep
         /\ Asleep # {} => Cardinality(Asleep') = Cardinality(Asleep) - 1
<1>1. CASE waiting = {}
  BY <1>1 DEF Signal, Inv, QueueTypeOK, Asleep
<1>2. CASE waiting # {}
  <2>1. PICK t \in waiting : waiting' = waiting \ {t}
    BY <1>2 DEF Signal
  <2>2. waiting \subseteq Producers \cup {Consumer} /\ Consumer \notin Producers
    BY QueueConstants DEF Inv, QueueTypeOK
  <2>3. CASE Consumer \in waiting
    <3>1. Asleep = {} /\ t = Consumer
      BY <2>1, <2>2, <2>3 DEF Inv, Asleep
    <3> QED
      BY <2>1, <2>2, <3>1 DEF Asleep
  <2>4. CASE Consumer \notin waiting
    <3>1. t \in Asleep /\ Asleep' = Asleep \ {t}
      BY <2>1, <2>2, <2>4 DEF Asleep
    <3>2. Asleep \in SUBSET Producers
      BY DEF Asleep
    <3>3. Cardinality(Asleep \ {t}) = Cardinality(Asleep) - 1
      BY <3>1, <3>2, AsleepCount
    <3> QED
      BY <2>1, <2>2, <2>4, <3>1, <3>3
  <2> QED
    BY <2>3, <2>4
<1> QED
  BY <1>1, <1>2

(* Fewer sleeping producers, or a longer queue, keep the bound.            *)
LEMMA BoundKept ==
  ASSUME Inv, NEW W \in SUBSET Asleep, NEW n \in Nat, W # {}, n >= length
  PROVE  Size - n <= Cardinality(Producers) - Cardinality(W)
<1>1. Asleep \in SUBSET Producers /\ Asleep # {}
  BY DEF Asleep
<1>2. IsFiniteSet(Asleep) /\ Cardinality(Asleep) \in Nat /\ Cardinality(Producers) \in Nat
  BY <1>1, AsleepCount
<1>3. Cardinality(W) <= Cardinality(Asleep)
  BY <1>2, FS_Subset
<1>4. W \in SUBSET Producers
  BY <1>1
<1>5. Cardinality(W) \in Nat
  BY <1>4, AsleepCount
<1>6. Size - length <= Cardinality(Producers) - Cardinality(Asleep)
  BY <1>1 DEF Inv
<1>7. Size \in Nat /\ length \in Nat
  BY QueueConstants DEF Inv, QueueTypeOK
<1> QED
  BY <1>2, <1>3, <1>5, <1>6, <1>7

(* Nobody sleeps on the producers' side when the queue is empty.           *)
LEMMA EmptyNoneAsleep ==
  ASSUME Inv, length = 0
  PROVE  Asleep = {}
<1>1. SUFFICES ASSUME Asleep # {} PROVE FALSE
  OBVIOUS
<1>2. Asleep \in SUBSET Producers
  BY DEF Asleep
<1>3. /\ Cardinality(Asleep) \in Nat /\ Cardinality(Asleep) >= 1
      /\ Cardinality(Producers) \in Nat
  BY <1>1, <1>2, AsleepCount
<1>4. Size - 0 <= Cardinality(Producers) - Cardinality(Asleep)
  BY <1>1 DEF Inv
<1>5. Size \in Nat /\ Cardinality(Producers) <= Size
  BY QueueConstants, SizeAssumption
<1> QED
  BY <1>3, <1>4, <1>5

-----------------------------------------------------------------------------
(* The steps of a producer keep the invariant.                             *)
LEMMA ProducerInv ==
  ASSUME Inv, NEW p \in Producers,
         \/ \E item \in Items : Call(p, item)
         \/ EnqueueWaits(p)
         \/ Enqueue(p)
  PROVE  Inv'
<1>1. Size \in Nat /\ Size >= 1 /\ Consumer \notin Producers
  BY QueueConstants
<1>2. CASE \E item \in Items : Call(p, item)
  <2>1. PICK item \in Items : Call(p, item)
    BY <1>2
  <2>2. UNCHANGED <<slots, start, length, waiting, cpc, handed>>
    BY <2>1 DEF Call
  <2>3. calling' \in [Producers -> Items \cup {None}]
    BY <2>1 DEF Call, Inv, QueueTypeOK
  <2> QED
    BY <2>2, <2>3 DEF Inv, QueueTypeOK, Asleep
<1>3. CASE EnqueueWaits(p)
  <2>1. /\ waiting' = waiting \cup {p} /\ length = Size
        /\ UNCHANGED <<slots, start, length, calling, cpc, handed>>
    BY <1>3 DEF EnqueueWaits
  <2>2. QueueTypeOK'
    BY <2>1 DEF Inv, QueueTypeOK
  <2>3. Consumer \notin waiting'
    BY <1>1, <2>1 DEF Inv
  <2>4. Asleep' \in SUBSET Producers
    BY DEF Asleep
  <2>5. Cardinality(Asleep') <= Cardinality(Producers)
    BY <2>4, AsleepCount
  <2>6. Cardinality(Asleep') \in Nat /\ Cardinality(Producers) \in Nat
    BY <2>4, AsleepCount
  <2>7. Size - length' <= Cardinality(Producers) - Cardinality(Asleep')
    BY <1>1, <2>1, <2>5, <2>6
  <2>8. cpc' # "take" => length' # 0
    BY <2>1 DEF Inv
  <2> QED
    BY <2>2, <2>3, <2>7, <2>8 DEF Inv
<1>4. CASE Enqueue(p)
  <2>1. /\ length \in Nat /\ length <= Size /\ length # Size
        /\ length' = length + 1 /\ Signal
        /\ slots' = [slots EXCEPT ![(start + length) % Size] = calling[p]]
        /\ calling' = [calling EXCEPT ![p] = None]
        /\ UNCHANGED <<start, cpc, handed>>
    BY <1>1, <1>4 DEF Enqueue, Inv, QueueTypeOK
  <2>2. start \in Nat
    BY <1>1 DEF Inv, QueueTypeOK, Slots
  <2>3. ((start + length) % Size) \in Slots
    BY <2>1, <2>2, InSlots
  <2>4. slots' \in [Slots -> Items \cup {None}]
    BY <2>1, <2>3 DEF Inv, QueueTypeOK
  <2>5. calling' \in [Producers -> Items \cup {None}]
    BY <2>1 DEF Inv, QueueTypeOK
  <2>6. length' \in 0 .. Size /\ length' # 0 /\ length' >= length
    BY <1>1, <2>1
  <2>7. /\ waiting' \subseteq Producers \cup {Consumer} /\ Consumer \notin waiting'
        /\ Asleep' \subseteq Asleep
    BY <2>1, SignalWakes
  <2>8. QueueTypeOK'
    BY <2>1, <2>4, <2>5, <2>6, <2>7 DEF Inv, QueueTypeOK
  <2>9. Asleep' # {} =>
           Size - length' <= Cardinality(Producers) - Cardinality(Asleep')
    BY <2>6, <2>7, BoundKept
  <2> QED
    BY <2>6, <2>7, <2>8, <2>9 DEF Inv
<1> QED
  BY <1>2, <1>3, <1>4

(* The steps of the consumer, and spurious wake-ups, keep it.              *)
LEMMA ConsumerInv ==
  ASSUME Inv,
         \/ TakeWaits \/ Take \/ Handle \/ Release
         \/ \E t \in Producers \cup {Consumer} : SpuriousWakeup(t)
  PROVE  Inv'
<1>1. Size \in Nat /\ Size >= 1 /\ Consumer \notin Producers
  BY QueueConstants
<1>2. length \in Nat /\ length <= Size /\ start \in Nat /\ start \in Slots
  BY <1>1 DEF Inv, QueueTypeOK, Slots
<1>3. CASE TakeWaits
  <2>1. /\ waiting' = waiting \cup {Consumer} /\ length = 0 /\ cpc = "take"
        /\ UNCHANGED <<slots, start, length, calling, cpc, handed>>
    BY <1>3 DEF TakeWaits
  <2>2. Asleep' = {}
    BY <1>1, <2>1, EmptyNoneAsleep DEF Asleep
  <2> QED
    BY <2>1, <2>2 DEF Inv, QueueTypeOK
<1>4. CASE Take
  BY <1>4 DEF Take, Inv, QueueTypeOK, Asleep
<1>5. CASE Handle
  <2>1. slots[start] \in Items \cup {None}
    BY <1>2 DEF Inv, QueueTypeOK
  <2> QED
    BY <1>5, <2>1 DEF Handle, Inv, QueueTypeOK, Asleep
<1>6. CASE Release
  <2>1. /\ length # 0 /\ length' = length - 1 /\ Signal /\ cpc' = "take"
        /\ start' = (start + 1) % Size /\ UNCHANGED <<slots, calling, handed>>
    BY <1>6 DEF Release, Inv
  <2>2. start' \in Slots
    BY <1>2, <2>1, InSlots
  <2>3. length' \in 0 .. Size
    BY <1>1, <1>2, <2>1
  <2>4. /\ waiting' \subseteq Producers \cup {Consumer} /\ Consumer \notin waiting'
        /\ Asleep' \subseteq Asleep
        /\ Asleep # {} => Cardinality(Asleep') = Cardinality(Asleep) - 1
    BY <2>1, SignalWakes
  <2>5. QueueTypeOK'
    BY <2>1, <2>2, <2>3, <2>4 DEF Inv, QueueTypeOK
  <2>6. ASSUME Asleep' # {}
        PROVE  Size - length' <= Cardinality(Producers) - Cardinality(Asleep')
    <3>1. Asleep # {} /\ Asleep \in SUBSET Producers
      BY <2>4, <2>6 DEF Asleep
    <3>2. Cardinality(Asleep) \in Nat /\ Cardinality(Producers) \in Nat
      BY <3>1, AsleepCount
    <3>3. Size - length <= Cardinality(Producers) - Cardinality(Asleep)
      BY <3>1 DEF Inv
    <3> QED
      BY <1>1, <1>2, <2>1, <2>4, <3>1, <3>2, <3>3
  <2> QED
    BY <2>1, <2>4, <2>5, <2>6 DEF Inv
<1>7. CASE \E t \in Producers \cup {Consumer} : SpuriousWakeup(t)
  <2>1. PICK t \in waiting : /\ waiting' = waiting \ {t}
                             /\ UNCHANGED <<slots, start, length, calling, cpc, handed>>
    BY <1>7 DEF SpuriousWakeup
  <2>2. Asleep' \in SUBSET Asleep /\ waiting' \subseteq waiting
    BY <2>1 DEF Asleep
  <2>3. Asleep' # {} =>
           Size - length' <= Cardinality(Producers) - Cardinality(Asleep')
    BY <1>2, <2>1, <2>2, BoundKept
  <2>4. QueueTypeOK'
    BY <2>1, <2>2 DEF Inv, QueueTypeOK
  <2> QED
    BY <2>1, <2>2, <2>3, <2>4 DEF Inv
<1> QED
  BY <1>3, <1>4, <1>5, <1>6, <1>7

(* The invariant holds at all times.                                       *)
THEOREM QueueInvariant == Spec => []Inv
<1>1. Init => Inv
  <2>1. Size \in Nat /\ Size >= 1 /\ 0 \in Slots
    BY QueueConstants DEF Slots
  <2> QED
    BY <2>1 DEF Init, Inv, QueueTypeOK, Asleep
<1>2. Inv /\ [Next]_queueVars => Inv'
  <2>1. CASE UNCHANGED queueVars
    BY <2>1 DEF queueVars, Inv, QueueTypeOK, Asleep
  <2>2. CASE Next
    BY <2>2, ProducerInv, ConsumerInv DEF Next
  <2> QED
    BY <2>1, <2>2
<1> QED
  BY <1>1, <1>2, PTL DEF Spec

(***************************************************************************)
(* With at least as many slots as producers no wake-up is lost, although   *)
(* enqueue_... and the consumer thread share a condition variable and      *)
(* signal without knowing whom they wake.                                  *)
(***************************************************************************)
THEOREM QueueSafety == Spec => [](QueueTypeOK /\ NoLostWakeup)
<1>1. Inv => QueueTypeOK /\ NoLostWakeup
  BY EmptyNoneAsleep DEF Inv, NoLostWakeup, Asleep
<1> QED
  BY <1>1, QueueInvariant, PTL

-----------------------------------------------------------------------------
(* The circular buffer as a sequence.                                      *)
LEMMA WrapAround ==
  ASSUME NEW n \in Nat, n < 2 * Size
  PROVE  (n % Size) = IF n < Size THEN n ELSE n - Size
<1>1. Size \in Nat /\ Size >= 1
  BY QueueConstants
<1>2. CASE n < Size
  BY <1>1, <1>2
<1>3. CASE n >= Size
  <2>1. n - Size \in Nat /\ n - Size < Size
    BY <1>1, <1>3
  <2>2. ((n - Size) + Size * 1) % Size = (n - Size) % Size
    BY <1>1, <2>1
  <2> QED
    BY <1>1, <1>3, <2>1, <2>2
<1> QED
  BY <1>1, <1>2, <1>3

(* The numbers that index it.                                              *)
LEMMA QueueNumbers ==
  ASSUME Inv
  PROVE  /\ Size \in Nat /\ Size >= 1
         /\ start \in Nat /\ start < Size
         /\ length \in Nat /\ length <= Size
         /\ Done \in {0, 1} /\ Done <= length
         /\ length - Done \in Nat
<1>1. Size \in Nat /\ Size >= 1
  BY QueueConstants
<1>2. start \in Nat /\ start < Size /\ length \in Nat /\ length <= Size
  BY <1>1 DEF Inv, QueueTypeOK, Slots
<1>3. cpc = "release" => length # 0
  BY DEF Inv
<1> QED
  BY <1>1, <1>2, <1>3 DEF Done

(* Pending is a sequence of what is in the slots.                          *)
LEMMA PendingIsSeq ==
  ASSUME Inv
  PROVE  /\ Pending \in Seq(Items \cup {None})
         /\ Len(Pending) = length - Done
         /\ \A k \in 1 .. length - Done :
               Pending[k] = slots[(start + Done + k - 1) % Size]
<1>1. length - Done \in Nat /\ start + Done \in Nat
  BY QueueNumbers
<1>2. \A k \in 1 .. length - Done :
         slots[(start + Done + k - 1) % Size] \in Items \cup {None}
  <2> TAKE k \in 1 .. length - Done
  <2>1. start + Done + k - 1 \in Nat
    BY <1>1
  <2>2. ((start + Done + k - 1) % Size) \in Slots
    BY <2>1, InSlots
  <2> QED
    BY <2>2 DEF Inv, QueueTypeOK
<1> QED
  BY <1>1, <1>2 DEF Pending

(* The same after a step.                                                  *)
LEMMA PendingIsSeqNext ==
  Inv' => /\ Pending' \in Seq(Items \cup {None})
          /\ Len(Pending') = length' - Done'
          /\ \A k \in 1 .. length' - Done' :
                Pending'[k] = slots'[(start' + Done' + k - 1) % Size]
<1> DEFINE P == /\ Pending \in Seq(Items \cup {None})
                /\ Len(Pending) = length - Done
                /\ \A k \in 1 .. length - Done :
                      Pending[k] = slots[(start + Done + k - 1) % Size]
<1>1. Inv => P
  BY PendingIsSeq
<1> HIDE DEF P
<1>2. Inv' => P'
  BY <1>1, PTL
<1> QED
  BY <1>2 DEF P

(* A producer that puts its item appends it.                               *)
LEMMA EnqueueAppends ==
  ASSUME Inv, Inv', NEW p \in Producers, Enqueue(p)
  PROVE  Pending' = Append(Pending, calling[p])
<1> DEFINE n == length - Done
<1>1. /\ length' = length + 1 /\ start' = start /\ Done' = Done /\ length < Size
      /\ slots' = [slots EXCEPT ![(start + length) % Size] = calling[p]]
      /\ slots \in [Slots -> Items \cup {None}]
      /\ calling[p] \in Items \cup {None}
  BY QueueNumbers DEF Enqueue, Done, Inv, QueueTypeOK
<1>2. /\ Size \in Nat /\ Size >= 1 /\ start \in Nat /\ start < Size
      /\ length \in Nat /\ Done \in {0, 1} /\ n \in Nat
  BY QueueNumbers
<1>3. Pending \in Seq(Items \cup {None}) /\ Len(Pending) = n
  BY PendingIsSeq
<1>4. Pending' \in Seq(Items \cup {None}) /\ Len(Pending') = n + 1
  BY <1>1, <1>2, PendingIsSeqNext
<1>5. /\ Append(Pending, calling[p]) \in Seq(Items \cup {None})
      /\ Len(Append(Pending, calling[p])) = n + 1
      /\ \A i \in 1 .. n : Append(Pending, calling[p])[i] = Pending[i]
      /\ Append(Pending, calling[p])[n + 1] = calling[p]
  BY <1>1, <1>3, AppendProperties
<1>6. \A i \in 1 .. n + 1 : Pending'[i] = slots'[(start + Done + i - 1) % Size]
  <2>1. n + 1 = length' - Done'
    BY <1>1, <1>2
  <2>2. \A i \in 1 .. length' - Done' :
          Pending'[i] = slots'[(start' + Done' + i - 1) % Size]
    BY PendingIsSeqNext
  <2> HIDE DEF n
  <2>3. \A i \in 1 .. n + 1 : Pending'[i] = slots'[(start' + Done' + i - 1) % Size]
    BY <2>1, <2>2
  <2>4. start' = start /\ Done' = Done
    BY <1>1
  <2> QED
    BY <2>3, <2>4
<1>7. ASSUME NEW i \in 1 .. n PROVE Pending'[i] = Pending[i]
  <2>1. /\ start + Done + i - 1 \in Nat /\ start + length \in Nat
        /\ start + Done + i - 1 < start + length
        /\ start + length < 2 * Size
        /\ start + length - (start + Done + i - 1) < Size
    BY <1>1, <1>2
  <2>2. start + Done + i - 1 < 2 * Size
    BY <1>2, <2>1
  <2>3. (start + Done + i - 1) % Size # (start + length) % Size
    BY <1>2, <2>1, <2>2, WrapAround
  <2>4. ((start + Done + i - 1) % Size) \in Slots
    BY <2>1, InSlots
  <2>5. slots'[(start + Done + i - 1) % Size] = slots[(start + Done + i - 1) % Size]
    BY <1>1, <2>3, <2>4
  <2>6. Pending[i] = slots[(start + Done + i - 1) % Size]
    BY PendingIsSeq
  <2> QED
    BY <1>2, <1>6, <2>5, <2>6
<1>8. Pending'[n + 1] = calling[p]
  <2>1. start + Done + (n + 1) - 1 = start + length /\ start + length \in Nat
    BY <1>2
  <2>2. ((start + length) % Size) \in Slots
    BY <2>1, InSlots
  <2>3. Pending'[n + 1] = slots'[(start + length) % Size]
    BY <1>2, <1>6, <2>1
  <2> QED
    BY <1>1, <2>2, <2>3
<1>9. \A i \in 1 .. n + 1 : Pending'[i] = Append(Pending, calling[p])[i]
  BY <1>2, <1>5, <1>7, <1>8
<1> HIDE DEF n
<1> QED
  BY <1>4, <1>5, <1>9, SeqEqual

(* Handing an item over removes the head.                                  *)
LEMMA HandleGets ==
  ASSUME Inv, Inv', Handle
  PROVE  Pending # <<>> /\ handed' = Head(Pending) /\ Pending' = Tail(Pending)
<1>1. /\ length' = length /\ start' = start /\ slots' = slots /\ length # 0
      /\ Done = 0 /\ Done' = 1 /\ handed' = slots[start]
  BY DEF Handle, Done, Inv
<1>2. /\ Size \in Nat /\ start \in Nat /\ start < Size /\ length \in Nat
  BY QueueNumbers
<1>3. /\ Pending \in Seq(Items \cup {None}) /\ Len(Pending) = length
      /\ \A k \in 1 .. length : Pending[k] = slots[(start + k - 1) % Size]
  BY <1>1, <1>2, PendingIsSeq
<1>4. Pending # <<>>
  BY <1>1, <1>3
<1>5. start + 1 - 1 = start /\ start % Size = start
  BY <1>2
<1>6. handed' = Head(Pending)
  BY <1>1, <1>2, <1>3, <1>4, <1>5
<1>7. /\ Pending' \in Seq(Items \cup {None}) /\ Len(Pending') = length - 1
      /\ \A k \in 1 .. length - 1 : Pending'[k] = slots[(start + 1 + k - 1) % Size]
  BY <1>1, PendingIsSeqNext
<1>8. /\ Tail(Pending) \in Seq(Items \cup {None}) /\ Len(Tail(Pending)) = length - 1
      /\ \A k \in 1 .. length - 1 : Tail(Pending)[k] = Pending[k + 1]
  BY <1>3, <1>4, HeadTailProperties
<1>9. ASSUME NEW k \in 1 .. length - 1 PROVE Pending'[k] = Tail(Pending)[k]
  <2>1. k + 1 \in 1 .. length /\ start + (k + 1) - 1 = start + 1 + k - 1
    BY <1>2
  <2>2. Pending[k + 1] = slots[(start + (k + 1) - 1) % Size]
    BY <1>3, <2>1
  <2> QED
    BY <1>7, <1>8, <2>1, <2>2
<1> QED
  BY <1>4, <1>6, <1>7, <1>8, <1>9, SeqEqual

(* Giving the slot back changes nothing to what is pending.                *)
LEMMA ReleaseKeeps ==
  ASSUME Inv, Inv', Release
  PROVE  Pending' = Pending
<1> DEFINE n == length - 1
<1>1. /\ length' = n /\ start' = (start + 1) % Size /\ slots' = slots
      /\ Done = 1 /\ Done' = 0
  BY DEF Release, Done, Inv
<1>2. /\ Size \in Nat /\ Size >= 1 /\ start \in Nat /\ start < Size
      /\ length \in Nat /\ length <= Size /\ n \in Nat
  BY <1>1, QueueNumbers
<1>3. /\ Pending \in Seq(Items \cup {None}) /\ Len(Pending) = n
      /\ \A k \in 1 .. n : Pending[k] = slots[(start + 1 + k - 1) % Size]
  BY <1>1, PendingIsSeq
<1>4. /\ Pending' \in Seq(Items \cup {None}) /\ Len(Pending') = n
      /\ \A k \in 1 .. n : Pending'[k] = slots[(start' + 0 + k - 1) % Size]
  <2>1. length' - Done' = n
    BY <1>1, <1>2
  <2> HIDE DEF n
  <2> QED
    BY <1>1, <2>1, PendingIsSeqNext
<1>5. ASSUME NEW k \in 1 .. n PROVE Pending'[k] = Pending[k]
  <2>1. start' = IF start + 1 < Size THEN start + 1 ELSE 0
    BY <1>1, <1>2, WrapAround
  <2>2. /\ start + 1 + k - 1 \in Nat /\ start + 1 + k - 1 < 2 * Size
        /\ start' + 0 + k - 1 \in Nat /\ start' + 0 + k - 1 < 2 * Size
    BY <1>2, <2>1
  <2>3. (start' + 0 + k - 1) % Size = (start + 1 + k - 1) % Size
    BY <1>2, <2>1, <2>2, WrapAround
  <2> QED
    BY <1>3, <1>4, <2>3
<1> HIDE DEF n
<1> QED
  BY <1>3, <1>4, <1>5, SeqEqual

(* Every step of the queue is a step of the FIFO, or leaves it alone.      *)
LEMMA StepRefines ==
  ASSUME Inv, Inv', [Next]_queueVars
  PROVE  [Fifo!FifoNext]_<<Pending, handed>>
<1>1. ASSUME NEW p \in Producers, Enqueue(p) PROVE Fifo!FifoNext
  <2>1. calling[p] \in Items /\ UNCHANGED handed /\ length # Size
    BY <1>1 DEF Enqueue, Inv, QueueTypeOK
  <2>2. Pending' = Append(Pending, calling[p])
    BY <1>1, EnqueueAppends
  <2>3. Len(Pending) < Size
    BY <2>1, PendingIsSeq, QueueNumbers
  <2> QED
    BY <2>1, <2>2, <2>3 DEF Fifo!FifoNext, Fifo!FifoPut
<1>2. ASSUME Handle PROVE Fifo!FifoNext
  BY <1>2, HandleGets DEF Fifo!FifoNext, Fifo!FifoGet
<1>3. ASSUME Release PROVE UNCHANGED <<Pending, handed>>
  <2>1. handed' = handed
    BY <1>3 DEF Release
  <2> QED
    BY <1>3, <2>1, ReleaseKeeps
<1>4. ASSUME UNCHANGED <<slots, start, length, handed>>, Done' = Done
      PROVE  UNCHANGED <<Pending, handed>>
  BY <1>4 DEF Pending
<1>5. ASSUME NEW p \in Producers, EnqueueWaits(p) \/ \E item \in Items : Call(p, item)
      PROVE  UNCHANGED <<Pending, handed>>
  BY <1>4, <1>5 DEF EnqueueWaits, Call, Done
<1>6. ASSUME TakeWaits \/ Take PROVE UNCHANGED <<Pending, handed>>
  BY <1>4, <1>6 DEF TakeWaits, Take, Done
<1>7. ASSUME NEW t \in Producers \cup {Consumer}, SpuriousWakeup(t)
      PROVE  UNCHANGED <<Pending, handed>>
  BY <1>4, <1>7 DEF SpuriousWakeup, Done
<1>8. ASSUME UNCHANGED queueVars PROVE UNCHANGED <<Pending, handed>>
  BY <1>4, <1>8 DEF queueVars, Done
<1> QED
  BY <1>1, <1>2, <1>3, <1>5, <1>6, <1>7, <1>8 DEF Next

(***************************************************************************)
(* The ring buffer with its mutex, its one condition variable and the read *)
(* outside the mutex implements a bounded FIFO: no item enqueued towards   *)
(* RLC or PDCP is lost, repeated, overtaken or overwritten while the       *)
(* consumer reads it, for every number of producers and slots.             *)
(***************************************************************************)
THEOREM QueueImplementsFifo == Spec => ImplementsFifo
<1>1. Init => Fifo!FifoInit
  BY DEF Init, Fifo!FifoInit, Pending, Done
<1>2. Inv /\ Inv' /\ [Next]_queueVars => [Fifo!FifoNext]_<<Pending, handed>>
  BY StepRefines
<1> QED
  BY <1>1, <1>2, QueueInvariant, PTL DEF Spec, ImplementsFifo, Fifo!FifoSpec

=============================================================================
