-------------------------------- MODULE NrRa --------------------------------
(* Random access of one UE at the gNB, up to the connection and the downlink *)
(* HARQ that follows on the same lists: four-step and two-step contention    *)
(* based access, contention-free access, the contention resolution timer and *)
(* the HARQ of Msg4/MsgB.                                                    *)
EXTENDS NrDlHarq

CONSTANTS
  RaWindow,      \* ra-ResponseWindow in slots
  CrTimer,       \* contention resolution timer in slots
  Msg3RoundMax   \* ul_bler.harq_round_max

ASSUME RaAssumption == CrTimer \in Nat

VARIABLES
  ra,        \* UE->ra; its state is "connected" or "released" when the UE left the access list
  cellgroup, \* UE->CellGroup is set: RRC did not reject the UE
  release    \* the DU asked the CU to release the UE

raVars == <<ra, cellgroup, release>>
macVars == <<dlVars, raVars>>

Ended(state) == [type |-> 4, cfra |-> FALSE, state |-> state, round |-> 0, timer |-> 0, pusch |-> FALSE]
InRa == ra.state \notin {"connected", "released"}

(* nr_initiate_ra_proc, for a preamble in slot 0 *)
RaInit ==
  /\ DlInit
  /\ \E type \in {2, 4}, cfra \in BOOLEAN :
       /\ type = 2 => ~cfra
       /\ ra = [type |-> type, cfra |-> cfra, round |-> 0, timer |-> 0,
                state |-> IF type = 2 THEN "WAIT_MsgA_PUSCH" ELSE "Msg2",
                pusch |-> type = 2]
  /\ cellgroup \in BOOLEAN /\ (ra.cfra => cellgroup)
  /\ release = FALSE

-----------------------------------------------------------------------------
(* nr_schedule_RA: the contention resolution timer *)
Counting == ra.type = 4 /\ ra.state \in {"Msg3_retransmission", "Msg4", "WAIT_Msg4_MsgB_ACK"} /\ ra.timer > 0
Counted == IF Counting THEN [ra EXCEPT !.timer = @ - 1] ELSE ra
Expires == Counting /\ ra.timer = 1
TimerExpires ==
  \/ cellgroup /\ release' = TRUE /\ ra' = Counted
  \/ release' = release /\ ra' = Ended("released")

RaLock == InRa /\ Unlocked /\ UciInTime

(* A downlink slot in which nothing is sent to the UE, or the timer expires; *)
(* past the response window the RA process is given up.                      *)
RaSlotIdle ==
  /\ RaLock /\ ~IsUl(now)
  /\ IF Expires
     THEN TimerExpires
     ELSE /\ ra' = IF ra.state = "Msg2" /\ now > RaWindow THEN Ended("released") ELSE Counted
          /\ UNCHANGED release
  /\ NextSlot
  /\ UNCHANGED <<available, feedback, retrans, harq, pucch, uci, hand, ue, got, lost, resets, cellgroup>>

(* Bug: the contention resolution timer is not started.                      *)
GenerateMsg2OrMsg3RetransmissionAsUntimed ==
  /\ RaLock /\ ~IsUl(now) /\ ~Expires
  /\ \/ ra.state = "Msg2" /\ now <= RaWindow
     \/ ra.state = "Msg3_retransmission"
  /\ ra' = [ra EXCEPT !.state = "WAIT_Msg3", !.pusch = TRUE]
  /\ NextSlot
  /\ UNCHANGED <<available, feedback, retrans, harq, pucch, uci, hand, ue, got, lost, resets, cellgroup, release>>

(* nr_generate_Msg2, nr_generate_Msg3_retransmission: both start the timer *)
GenerateMsg2OrMsg3Retransmission ==
  /\ RaLock /\ ~IsUl(now) /\ ~Expires
  /\ \/ ra.state = "Msg2" /\ now <= RaWindow
     \/ ra.state = "Msg3_retransmission"
  /\ ra' = [ra EXCEPT !.state = "WAIT_Msg3", !.timer = CrTimer, !.pusch = TRUE]
  /\ NextSlot
  /\ UNCHANGED <<available, feedback, retrans, harq, pucch, uci, hand, ue, got, lost, resets, cellgroup, release>>

(* nr_generate_Msg4_MsgB: a retransmission stays in the retransmission list  *)
(* until it is acknowledged or given up                                      *)
GenerateMsg4MsgB ==
  /\ RaLock /\ ~IsUl(now) /\ ~Expires
  /\ ra.state = "Msg4"
  /\ LET p == Chosen
         f == Occasion(pucch)
     IN /\ f # NoOccasion
        /\ \E rx \in Receptions(p) :
             /\ pucch' = WithBit(pucch, f, Ack(p, rx))
             /\ ue' = [ue EXCEPT ![p] = UeAfter(p, rx)]
             /\ got' = [got EXCEPT ![p] = GotAfter(p, rx)]
        /\ available' = IF retrans = <<>> THEN Tail(available) ELSE available
        /\ feedback' = AddTail(feedback, p)
        /\ harq' = [harq EXCEPT ![p].waiting = TRUE, ![p].at = FbTime(f)]
  /\ ra' = [Counted EXCEPT !.state = "WAIT_Msg4_MsgB_ACK"]
  /\ NextSlot
  /\ UNCHANGED <<retrans, uci, hand, lost, resets, cellgroup, release>>

(* An uplink slot: the timer, then nr_schedule_pucch *)
RaUlSlot ==
  /\ RaLock /\ IsUl(now)
  /\ IF Expires THEN TimerExpires ELSE ra' = Counted /\ UNCHANGED release
  /\ IF ra'.state = "WAIT_Msg4_MsgB_ACK" /\ pucch[PucchIndex(now)].at = now
     THEN /\ uci' = Append(uci, [at |-> now, bits |-> pucch[PucchIndex(now)].bits])
          /\ pucch' = [pucch EXCEPT ![PucchIndex(now)] = NoPucch]
     ELSE UNCHANGED <<uci, pucch>>
  /\ NextSlot
  /\ UNCHANGED <<available, feedback, retrans, harq, hand, ue, got, lost, resets, cellgroup>>

-----------------------------------------------------------------------------
(* nr_rx_ra_sdu: the PUSCH of Msg3 or MsgA is decoded, fails its CRC, or has *)
(* no signal                                                                 *)

(* handle_msg3_failed_rx *)
Msg3Failed ==
  ra' = IF ra.round >= Msg3RoundMax - 1
        THEN Ended("released")
        ELSE [ra EXCEPT !.round = @ + 1, !.state = "Msg3_retransmission", !.pusch = FALSE]

(* Contention-free: whatever came, the lists are reset and the UE is         *)
(* connected, or dropped if the gNB has no room for it                       *)
CfraCompletes ==
  /\ InRa /\ Unlocked /\ ra.pusch /\ ra.cfra
  /\ ra' \in {Ended("connected"), Ended("released")}
  /\ available' = available \o feedback \o retrans
  /\ feedback' = <<>> /\ retrans' = <<>>
  /\ harq' = [p \in Pids |-> [harq[p] EXCEPT !.round = 0, !.waiting = FALSE, !.at = NoTime]]
  /\ UNCHANGED <<noFeedback, now, pucch, uci, hand, ue, got, lost, resets, aged, cellgroup, release>>

RxRaSdu(outcome) ==
  /\ InRa /\ Unlocked /\ ra.pusch /\ ~ra.cfra
  /\ \/ outcome = "ccch" /\ ra' = [ra EXCEPT !.state = "Msg4", !.pusch = FALSE]
     \/ outcome = "crnti" /\ ra' = Ended("released")
     \/ outcome = "crc" /\ ra.state # "WAIT_Msg3" /\ ra' = [ra EXCEPT !.pusch = FALSE]
     \/ outcome = "crc" /\ ra.state = "WAIT_Msg3" /\ Msg3Failed
     \/ outcome = "no_signal" /\ Msg3Failed
  /\ UNCHANGED <<dlVars, cellgroup, release>>

(* nr_check_Msg4_MsgB_Ack: NACK, ACK, or given up, which sets ul_failure,    *)
(* whose timer does not count for a UE in the access list                    *)
CheckMsg4MsgBAck(h, ack) ==
  IF h.round > 0 THEN [ra EXCEPT !.state = "Msg4"]
  ELSE IF ack THEN Ended(IF cellgroup THEN "connected" ELSE "released")
  ELSE ra

(* Bug: Msg4 is left in the retransmission list.                             *)
RaApplyBitAsKept ==
  /\ InRa /\ ~Unlocked /\ feedback # <<>>
  /\ ~Missed(Head(feedback), hand.at) /\ ~NotYet(Head(feedback), hand.at)
  /\ LET p == Head(feedback)
         ack == Head(hand.bits)
     IN /\ HandleDlHarq(p, ack, retrans)
        /\ ra' = CheckMsg4MsgBAck(harq'[p], ack)
  /\ hand' = [hand EXCEPT !.bits = Tail(@)]
  /\ UNCHANGED <<noFeedback, now, pucch, uci, ue, lost, resets, aged, cellgroup, release>>

(* A feedback bit for a UE in the access list: handle_dl_harq, then          *)
(* nr_check_Msg4_MsgB_Ack                                                    *)
RaApplyBit ==
  /\ InRa /\ ~Unlocked /\ feedback # <<>>
  /\ ~Missed(Head(feedback), hand.at) /\ ~NotYet(Head(feedback), hand.at)
  /\ LET p == Head(feedback)
         ack == Head(hand.bits)
     IN /\ HandleDlHarq(p, ack, Without(retrans, p))
        /\ ra' = CheckMsg4MsgBAck(harq'[p], ack)
  /\ hand' = [hand EXCEPT !.bits = Tail(@)]
  /\ UNCHANGED <<noFeedback, now, pucch, uci, ue, lost, resets, aged, cellgroup, release>>

(* The CU answers the release request *)
CuReleases ==
  /\ Unlocked /\ release /\ ra.state # "released"
  /\ ra' = Ended("released")
  /\ UNCHANGED <<dlVars, cellgroup, release>>

-----------------------------------------------------------------------------
RaSlot == RaSlotIdle \/ RaUlSlot
RxPusch == CfraCompletes \/ \E outcome \in {"ccch", "crnti", "crc", "no_signal"} : RxRaSdu(outcome)
RaUci == (UciArrives /\ InRa /\ UNCHANGED raVars) \/ RaApplyBit

RaNext ==
  \/ RaSlot \/ GenerateMsg2OrMsg3Retransmission \/ GenerateMsg4MsgB
  \/ RxPusch \/ RaUci \/ CuReleases
  \/ (InRa /\ UciLost /\ UNCHANGED raVars)
  \/ (ra.state = "connected" /\ DlNext /\ UNCHANGED raVars)

RaSpec == RaInit /\ [][RaNext]_macVars

-----------------------------------------------------------------------------
(* Once the UE is connected, its HARQ lists are those of HarqListsConsistent, *)
(* although Msg4 is retransmitted from the retransmission list without being *)
(* taken out of it.                                                          *)
ConnectedListsConsistent == ra.state = "connected" => HarqListsConsistent

(* A four-step random access ends: the UE is connected, its RA process is    *)
(* released, or the CU was asked to release it, whatever is lost or fails    *)
(* after Msg2.  (A two-step access whose MsgA fails its CRC has no timer and *)
(* stays in the access list.)                                                *)
RaEnds == []<>(ra.type = 4 => ~InRa \/ release \/ aged)

(* Every process that waits for feedback gets it, unless a UCI was lost, the *)
(* lists were reset or the UE was released: the slots of the feedback list   *)
(* grow from head to tail, so no answer finds another process in front of    *)
(* its own.                                                                  *)
FeedbackComes ==
  \A p \in Pids : []<>(p \notin Entries(feedback) \/ lost + resets > 0 \/ ra.state = "released")
=============================================================================
