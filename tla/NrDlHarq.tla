------------------------------ MODULE NrDlHarq ------------------------------
(* Downlink HARQ of one connected UE in the gNB MAC: the three lists of HARQ *)
(* processes (available, waiting for feedback, waiting for retransmission),  *)
(* the ring of PUCCH occasions on which the UE answers, and the UCI          *)
(* indications that bring the answers back.  The MAC can tell which process  *)
(* a feedback bit belongs to only from the slot the bit came in              *)
(* (find_harq), so the order of the feedback list, the ring and the frame    *)
(* counter, which wraps, must agree.                                         *)
(*                                                                           *)
(* A slot is one step: gNB_dlsch_ulsch_scheduler() runs under sched_lock.    *)
(* A UCI handler also runs under sched_lock; its loop is one step per        *)
(* iteration, and while it runs (hand.bits is not empty) nothing else does.  *)
EXTENDS NrHarqList

CONSTANTS
  Pids,           \* HARQ process numbers
  NoFeedbackSets, \* the choices of downlinkHARQ-FeedbackDisabled
  RoundMax,       \* dl_bler.harq_round_max
  Frames,         \* MAX_FRAME_NUMBER, 1024 in the code
  SlotsPerFrame,
  UlSlots,        \* the uplink slots of a frame, the others are downlink
  FbTimes,        \* pdsch_to_harq_feedback, in the order it is searched
  MinFb,          \* minRXTXTIME
  PucchSize,      \* sched_pucch_size
  CsiTimes,       \* slots (of the whole frame range) of the periodic CSI report
  Simultaneous,   \* simultaneousHARQ-ACK-CSI
  Busy,           \* uplink slots whose PUCCH resources other UEs have taken
  MaxLate,        \* bound: slots after its own at which a UCI is still handled
  MaxFaults       \* bound: UCIs that never reach the MAC and resets of the lists

ASSUME DlAssumption ==
  /\ Pids \subseteq Nat /\ Cardinality(Pids) \in Nat /\ Pids # {}
  /\ RoundMax \in Nat /\ Frames \in Nat \ {0} /\ SlotsPerFrame \in Nat \ {0}
  /\ FbTimes \in Seq(Nat)

VARIABLES
  noFeedback, \* the processes whose feedback is disabled, fixed
  now,       \* the slot the scheduler handles next, counted over all frames
  available, feedback, retrans,   \* available_dl_harq, feedback_dl_harq, retrans_dl_harq
  harq,      \* harq_processes
  pucch,     \* sched_pucch
  uci,       \* PUCCHs received and not yet indicated to the MAC, in order
  hand,      \* the UCI in the handler: its slot and the bits still to apply
  ue,        \* what the UE holds for each process: last NDI, decoded or not
  got,       \* history: the UE decoded the block the process carries
  lost, resets, aged

dlVars == <<noFeedback, now, available, feedback, retrans, harq, pucch, uci, hand, ue, got, lost, resets, aged>>

Times == 0 .. Frames * SlotsPerFrame - 1
FrameOf(t) == t \div SlotsPerFrame
SlotOf(t) == t % SlotsPerFrame
Later(t, k) == (t + k) % (Frames * SlotsPerFrame)
IsUl(t) == SlotOf(t) \in UlSlots
FbIndexes == DOMAIN FbTimes
MaxFb == CHOOSE k \in {FbTimes[f] : f \in FbIndexes} : \A f \in FbIndexes : FbTimes[f] <= k

NoTime == -1
Idle == [round |-> 0, ndi |-> 0, waiting |-> FALSE, at |-> NoTime]
UnknownBlock == [ndi |-> 2, ok |-> FALSE]
NoPucch == [at |-> NoTime, csi |-> FALSE, bits |-> <<>>]

-----------------------------------------------------------------------------
(* The ring of PUCCH occasions *)

(* get_pucch_index *)
PucchIndex(t) ==
  (FrameOf(t) * Cardinality(UlSlots) + Cardinality({s \in UlSlots : s < SlotOf(t)})) % PucchSize

(* set_sched_pucch_list: the uplink slots up to the longest feedback time    *)
(* ahead have entries of their own, so an entry of another slot is never met *)
ASSUME RingAssumption ==
  \A t \in Times : \A j, k \in 0 .. MaxFb :
    j # k /\ IsUl(Later(t, j)) /\ IsUl(Later(t, k)) => PucchIndex(Later(t, j)) # PucchIndex(Later(t, k))

FbTime(f) == Later(now, FbTimes[f])
Eligible(f) == FbTimes[f] >= MinFb /\ IsUl(FbTime(f))

(* One occasion of the search in nr_acknack_scheduling: shared if it is this *)
(* slot's and has room, taken if it is free.                                 *)
Usable(ring, f) ==
  LET t == FbTime(f)
      p == ring[PucchIndex(t)]
  IN /\ Eligible(f)
     /\ \/ /\ p.at = t
           /\ IF p.csi THEN Simultaneous /\ Len(p.bits) < 3 ELSE Len(p.bits) # 2
        \/ p.at = NoTime /\ t \notin Busy

NoOccasion == 0
Occasion(ring) ==
  IF \E f \in FbIndexes : Usable(ring, f)
  THEN CHOOSE f \in FbIndexes : Usable(ring, f) /\ \A g \in 1 .. f - 1 : ~Usable(ring, g)
  ELSE NoOccasion

(* nr_acknack_scheduling with its result f: one more bit (dai_c++) *)
WithBit(ring, f, ack) ==
  LET t == FbTime(f)
  IN [ring EXCEPT ![PucchIndex(t)] = [@ EXCEPT !.at = t, !.bits = Append(@, ack)]]

(* nr_csi_meas_reporting: max_fb_time ahead; given up if its PRBs are taken *)
CsiRings ==
  LET t == Later(now, MaxFb)
      i == PucchIndex(t)
  IN IF t \in CsiTimes
     THEN {[pucch EXCEPT ![i] = [at |-> t, csi |-> TRUE, bits |-> <<>>]], [pucch EXCEPT ![i] = NoPucch]}
     ELSE {pucch}

-----------------------------------------------------------------------------
DlInit ==
  /\ noFeedback \in NoFeedbackSets
  /\ now = 0
  /\ available \in FullLists(Pids)
  /\ feedback = <<>> /\ retrans = <<>>
  /\ harq = [p \in Pids |-> Idle]
  /\ pucch = [i \in 0 .. PucchSize - 1 |-> NoPucch]
  /\ uci = <<>>
  /\ hand = [at |-> NoTime, bits |-> <<>>]
  /\ ue = [p \in Pids |-> UnknownBlock]
  /\ got = [p \in Pids |-> FALSE]
  /\ lost = 0 /\ resets = 0 /\ aged = FALSE

(* sched_lock is free *)
Unlocked == hand.bits = <<>>

(* A UCI is indicated at most MaxLate slots after its own *)
UciInTime == uci # <<>> => (now - Head(uci).at) % (Frames * SlotsPerFrame) < MaxLate

(* The next slot.  A process whose feedback is half the frame range old can  *)
(* no longer be placed in time: behaviours are followed up to there.         *)
NextSlot ==
  /\ ~aged
  /\ now' = Later(now, 1)
  /\ UNCHANGED noFeedback
  /\ aged' = (aged \/ \E p \in Entries(feedback) :
                         (FrameOf(now) - FrameOf(harq[p].at)) % Frames = Frames \div 2)

(* finish_nr_dl_harq *)
Finished(h) == [h EXCEPT !.ndi = 1 - @, !.round = 0]

(* What the UE makes of a transmission of process p (external): it may miss  *)
(* the DCI, fail to decode, or decode; a block with the NDI of the one it    *)
(* already has is a retransmission.  It misses no more than RoundMax - 1     *)
(* DCIs of a block: a 1-bit NDI cannot survive that.  After a reset of the   *)
(* lists it may answer anything.                                             *)
Receptions(p) == {rx \in {"miss", "fail", "ok"} :
                    rx = "miss" => harq[p].round < RoundMax - 1 \/ ue[p].ndi = harq[p].ndi}
New(p) == ue[p].ndi # harq[p].ndi
UeAfter(p, rx) ==
  IF rx = "miss" \/ resets > 0 THEN ue[p] ELSE [ndi |-> harq[p].ndi, ok |-> rx = "ok" \/ (~New(p) /\ ue[p].ok)]
Ack(p, rx) == IF resets > 0 THEN rx = "ok" ELSE rx # "miss" /\ UeAfter(p, rx).ok
GotAfter(p, rx) ==
  /\ resets = 0
  /\ (rx = "ok" /\ (New(p) \/ ~ue[p].ok)) \/ (harq[p].round > 0 /\ got[p])

(* One transmission of process p, the head of retrans or, if that is empty,  *)
(* of available: pf_dl (or allocate_dl_retransmission), post_process_dlsch   *)
Chosen == IF retrans # <<>> THEN Head(retrans) ELSE Head(available)
AvailableLeft(p) == IF harq[p].round = 0 THEN Tail(available) ELSE available
RetransLeft(p) == IF harq[p].round = 0 THEN retrans ELSE Tail(retrans)

Transmit(ring, p, rx) ==
  LET f == Occasion(ring)
  IN /\ f # NoOccasion
     /\ available' = AvailableLeft(p)
     /\ retrans' = RetransLeft(p)
     /\ feedback' = AddTail(feedback, p)
     /\ harq' = [harq EXCEPT ![p].waiting = TRUE, ![p].at = FbTime(f)]
     /\ pucch' = WithBit(ring, f, Ack(p, rx))
     /\ ue' = [ue EXCEPT ![p] = UeAfter(p, rx)]
     /\ got' = [got EXCEPT ![p] = GotAfter(p, rx)]

(* Without feedback the process is finished at once; the UE's side of it is  *)
(* of no consequence                                                         *)
TransmitOnly(ring, p) ==
  /\ available' = AddTail(AvailableLeft(p), p)
  /\ retrans' = RetransLeft(p)
  /\ harq' = [harq EXCEPT ![p] = Finished(@)]
  /\ pucch' = ring
  /\ UNCHANGED <<feedback, ue, got>>

(* A downlink slot: the scheduler transmits to the UE, or does not (no data, *)
(* no CCE, no PUCCH occasion).                                               *)
DlSlotTransmit ==
  /\ Unlocked /\ UciInTime /\ ~IsUl(now)
  /\ retrans # <<>> \/ available # <<>>
  /\ \E ring \in CsiRings :
       IF Chosen \in noFeedback
       THEN TransmitOnly(ring, Chosen)
       ELSE \E rx \in Receptions(Chosen) : Transmit(ring, Chosen, rx)
  /\ NextSlot
  /\ UNCHANGED <<uci, hand, lost, resets>>

DlSlotIdle ==
  /\ Unlocked /\ UciInTime /\ ~IsUl(now)
  /\ pucch' \in CsiRings
  /\ NextSlot
  /\ UNCHANGED <<available, feedback, retrans, harq, uci, hand, ue, got, lost, resets>>

(* An uplink slot: nr_schedule_pucch asks the PHY for the PUCCH of this slot *)
UlSlot ==
  /\ Unlocked /\ UciInTime /\ IsUl(now)
  /\ \E ring \in CsiRings :
       LET p == ring[PucchIndex(now)]
       IN /\ uci' = IF p.at = now THEN Append(uci, [at |-> now, bits |-> p.bits]) ELSE uci
          /\ pucch' = [ring EXCEPT ![PucchIndex(now)] = NoPucch]
  /\ NextSlot
  /\ UNCHANGED <<available, feedback, retrans, harq, hand, ue, got, lost, resets>>

-----------------------------------------------------------------------------
(* handle_nr_uci_pucch_0_1 and handle_nr_uci_pucch_2_3_4 *)

(* Bug: the frame number is compared without its wrap around.                *)
MissedAsNoWrap(p, t) ==
  \/ FrameOf(harq[p].at) < FrameOf(t)
  \/ FrameOf(harq[p].at) = FrameOf(t) /\ SlotOf(harq[p].at) < SlotOf(t)

(* find_harq: the feedback of process p was due before, or is due after, the *)
(* slot t of the UCI                                                         *)
Missed(p, t) ==
  \/ (FrameOf(harq[p].at) - FrameOf(t)) % Frames > Frames \div 2
  \/ FrameOf(harq[p].at) = FrameOf(t) /\ SlotOf(harq[p].at) < SlotOf(t)
NotYet(p, t) ==
  \/ (FrameOf(t) - FrameOf(harq[p].at)) % Frames > Frames \div 2
  \/ FrameOf(harq[p].at) = FrameOf(t) /\ SlotOf(harq[p].at) > SlotOf(t)

(* handle_dl_harq, after remove_front_nr_list of the feedback list; others   *)
(* is the retransmission list without p                                      *)
HandleDlHarq(p, success, others) ==
  LET h == [harq[p] EXCEPT !.waiting = FALSE, !.at = NoTime]
      again == ~success /\ h.round < RoundMax - 1
  IN /\ feedback' = Tail(feedback)
     /\ harq' = [harq EXCEPT ![p] = IF again THEN [h EXCEPT !.round = @ + 1] ELSE Finished(h)]
     /\ retrans' = IF again THEN AddTail(others, p) ELSE others
     /\ available' = IF again THEN available ELSE AddTail(available, p)
     /\ got' = [got EXCEPT ![p] = again /\ @]

UciArrives ==
  /\ Unlocked /\ uci # <<>>
  /\ hand' = Head(uci)
  /\ uci' = Tail(uci)
  /\ UNCHANGED <<noFeedback, now, available, feedback, retrans, harq, pucch, ue, got, lost, resets, aged>>

UciLost ==
  /\ Unlocked /\ uci # <<>> /\ lost + resets < MaxFaults
  /\ uci' = Tail(uci)
  /\ lost' = lost + 1
  /\ UNCHANGED <<noFeedback, now, available, feedback, retrans, harq, pucch, hand, ue, got, resets, aged>>

(* find_harq: a feedback that was missed is a NACK *)
SkipMissed ==
  /\ ~Unlocked /\ feedback # <<>> /\ Missed(Head(feedback), hand.at)
  /\ HandleDlHarq(Head(feedback), FALSE, retrans)
  /\ UNCHANGED <<noFeedback, now, pucch, uci, hand, ue, lost, resets, aged>>

(* Bug: only the first bit of a UCI is handled.                              *)
ApplyBitAsFirstOnly ==
  /\ ~Unlocked /\ feedback # <<>>
  /\ ~Missed(Head(feedback), hand.at) /\ ~NotYet(Head(feedback), hand.at)
  /\ HandleDlHarq(Head(feedback), Head(hand.bits), retrans)
  /\ hand' = [hand EXCEPT !.bits = <<>>]
  /\ UNCHANGED <<noFeedback, now, pucch, uci, ue, lost, resets, aged>>

(* The next bit goes to the process find_harq returned *)
ApplyBit ==
  /\ ~Unlocked /\ feedback # <<>>
  /\ ~Missed(Head(feedback), hand.at) /\ ~NotYet(Head(feedback), hand.at)
  /\ HandleDlHarq(Head(feedback), Head(hand.bits), retrans)
  /\ hand' = [hand EXCEPT !.bits = Tail(@)]
  /\ UNCHANGED <<noFeedback, now, pucch, uci, ue, lost, resets, aged>>

(* find_harq returned NULL: the rest of the bits is dropped *)
NoProcess ==
  /\ ~Unlocked
  /\ feedback # <<>> => ~Missed(Head(feedback), hand.at) /\ NotYet(Head(feedback), hand.at)
  /\ hand' = [hand EXCEPT !.bits = <<>>]
  /\ UNCHANGED <<noFeedback, now, available, feedback, retrans, harq, pucch, uci, ue, got, lost, resets, aged>>

(* reset_dl_harq_list, when the UE comes back with a random access that      *)
(* carries its C-RNTI: the processes are free again, the PUCCHs asked for    *)
(* and the NDIs stay as they are.                                            *)
ResetDlHarqList ==
  /\ Unlocked /\ lost + resets < MaxFaults
  /\ available' = available \o feedback \o retrans
  /\ feedback' = <<>> /\ retrans' = <<>>
  /\ harq' = [p \in Pids |-> [harq[p] EXCEPT !.round = 0, !.waiting = FALSE, !.at = NoTime]]
  /\ resets' = resets + 1
  /\ ue' = [p \in Pids |-> UnknownBlock] /\ got' = [p \in Pids |-> FALSE]
  /\ UNCHANGED <<noFeedback, now, pucch, uci, hand, lost, aged>>

-----------------------------------------------------------------------------
DlUci == UciArrives \/ SkipMissed \/ ApplyBit \/ NoProcess
DlNext ==
  \/ DlSlotTransmit \/ DlSlotIdle \/ UlSlot
  \/ DlUci \/ UciLost
  \/ ResetDlHarqList

DlSpec == DlInit /\ [][DlNext]_dlVars

-----------------------------------------------------------------------------
(* Every HARQ process is in exactly one of the three lists, once, and it is  *)
(* marked as waiting exactly when it is in the feedback list: no process     *)
(* leaks or is used twice (the DevAsserts of post_process_dlsch and of the   *)
(* UCI handlers).                                                            *)
HarqListsConsistent ==
  /\ Partition(available, feedback, retrans, Pids)
  /\ \A p \in Pids : harq[p].waiting <=> p \in Entries(feedback)

(* A process that the MAC finishes on an ACK carries a block the UE decoded: *)
(* find_harq gives each bit to the process the UE answered for, and a new    *)
(* block never goes out with the NDI of the block before.  Holds until the   *)
(* lists are reset with answers or NDIs outstanding, or a feedback is half   *)
(* the frame range late.                                                     *)
AckMeansReceived ==
  [][ApplyBit /\ Head(hand.bits) /\ resets = 0 /\ ~aged => got[Head(feedback)]]_dlVars
=============================================================================
