------------------------------ MODULE NrUlHarq ------------------------------
(* Uplink HARQ of one connected UE in the gNB MAC, together with the uplink  *)
(* failure it may end in: the three lists of processes, the PUSCHs in        *)
(* flight, and the CRC and data indications of the PHY, which name their     *)
(* process.  The UE's side (external) follows the NDI of the grants: the     *)
(* same NDI sends the same transport block again.                            *)
EXTENDS NrUeRelease, NrHarqList

CONSTANTS
  UlPids,        \* uplink HARQ process numbers
  UlRoundMax,    \* ul_bler.harq_round_max
  DtxThreshold,  \* pusch_failure_thres
  MaxInFlight,   \* bound: PUSCHs granted and not yet indicated; generations to tell blocks apart
  MaxUlFaults    \* bound: indications lost and resets of the lists

ASSUME UlAssumption ==
  UlPids \subseteq Nat /\ Cardinality(UlPids) \in Nat /\ UlRoundMax \in Nat /\ MaxInFlight \in Nat \ {0}

VARIABLES
  disableHarq,   \* radio_config.disable_harq, fixed
  ulAvailable, ulFeedback, ulRetrans,  \* available_ul_harq, feedback_ul_harq, retrans_ul_harq
  ulHarq,        \* ul_harq_processes: round, ndi, is_waiting
  pusch,         \* the PUSCHs in flight, in order: the process and the block, or NoBlock
  crc,           \* the indication in handle_nr_ul_harq: its process and result
  dtx,           \* pusch_consecutive_dtx_cnt
  ulUe,          \* the UE: last NDI of each process and the generation of its block
  processed,     \* history: the blocks that reached nr_process_mac_pdu, until a reset
  twice,         \* history: a block reached it again
  ulLost, ulResets

harqVars == <<disableHarq, ulAvailable, ulFeedback, ulRetrans, ulHarq, pusch, crc, dtx, ulUe, processed, twice, ulLost, ulResets>>
ulVars == <<relVars, harqVars>>

NoBlock == -1
NoCrc == [pid |-> -1, ok |-> FALSE]

UlInit ==
  /\ RelInit
  /\ disableHarq \in BOOLEAN
  /\ ulAvailable \in FullLists(UlPids)
  /\ ulFeedback = <<>> /\ ulRetrans = <<>>
  /\ ulHarq = [p \in UlPids |-> [round |-> 0, ndi |-> 0, waiting |-> FALSE]]
  /\ pusch = <<>> /\ crc = NoCrc /\ dtx = 0
  /\ ulUe = [p \in UlPids |-> [ndi |-> 2, block |-> 0]]
  /\ processed = {} /\ twice = FALSE
  /\ ulLost = 0 /\ ulResets = 0

-----------------------------------------------------------------------------
(* Bug: the NDI is not toggled.                                              *)
UlFinishedAsSameNdi(h) == [h EXCEPT !.round = 0]

(* finish_nr_ul_harq; abort_nr_ul_harq only counts and corrects estimates *)
UlFinished(h) == [h EXCEPT !.ndi = 1 - @, !.round = 0]

UlFree == conn = "up" /\ crc = NoCrc    \* sched_lock can be taken
Active == ~failure'                     \* nr_mac_ue_is_active, after the timers

(* pf_ul selects the head of the retransmission list, else of the available  *)
(* one                                                                       *)
UlChosen == IF ulRetrans # <<>> THEN Head(ulRetrans) ELSE Head(ulAvailable)

(* The UE gets the grant for p or misses it; as in the downlink, it does not *)
(* miss all the grants of a block.                                           *)
UeNew(p) == ulUe[p].ndi # ulHarq[p].ndi
UeBlock(p) == IF UeNew(p) THEN (ulUe[p].block + 1) % MaxInFlight ELSE ulUe[p].block
MayMiss(p) == ~disableHarq /\ (ulHarq[p].round < UlRoundMax - 1 \/ ~UeNew(p))

UeReceivesGrant(p) ==
  /\ processed' = IF UeNew(p) THEN processed \ {<<p, UeBlock(p)>>} ELSE processed
  /\ ulUe' = [ulUe EXCEPT ![p] = [ndi |-> ulHarq[p].ndi, block |-> UeBlock(p)]]
  /\ pusch' = Append(pusch, [pid |-> p, block |-> UeBlock(p)])
UeMissesGrant(p) ==
  /\ MayMiss(p)
  /\ pusch' = Append(pusch, [pid |-> p, block |-> NoBlock])
  /\ UNCHANGED <<processed, ulUe>>

(* A slot: the timers, then a grant: pf_ul, post_process_ulsch *)
UlSlotGrant ==
  /\ UlFree /\ Len(pusch) < MaxInFlight
  /\ TimersTick(FALSE) /\ conn' = "up" /\ Active
  /\ ulRetrans # <<>> \/ ulAvailable # <<>>
  /\ LET p == UlChosen
         available == IF ulHarq[p].round = 0 THEN Tail(ulAvailable) ELSE ulAvailable
     IN /\ ulRetrans' = IF ulHarq[p].round = 0 THEN ulRetrans ELSE Tail(ulRetrans)
        /\ IF disableHarq
           THEN /\ ulHarq' = [ulHarq EXCEPT ![p] = UlFinished(@)]
                /\ ulAvailable' = AddTail(available, p)
                /\ UNCHANGED ulFeedback
           ELSE /\ ulHarq' = [ulHarq EXCEPT ![p].waiting = TRUE]
                /\ ulAvailable' = available
                /\ ulFeedback' = AddTail(ulFeedback, p)
        /\ UeReceivesGrant(p) \/ UeMissesGrant(p)
  /\ UNCHANGED <<disableHarq, crc, dtx, twice, ulLost, ulResets>>

UlSlotIdle ==
  /\ UlFree
  /\ \/ \E timeout \in BOOLEAN : TimersTick(timeout)
     \/ RelSlot
  /\ UNCHANGED harqVars

-----------------------------------------------------------------------------
(* _nr_rx_sdu: a decoded block is processed before its process is looked up; *)
(* dtx says that the power was below the threshold.                          *)
RxSdu(ok, low) ==
  /\ UlFree /\ pusch # <<>>
  /\ LET ind == Head(pusch)
         count == IF ok THEN 0 ELSE IF low THEN dtx + 1 ELSE dtx
     IN /\ ok => ind.block # NoBlock
        /\ ind.block = NoBlock => low
        /\ processed' = IF ok /\ ulResets = 0 THEN processed \cup {<<ind.pid, ind.block>>} ELSE processed
        /\ twice' = (twice \/ (ok /\ <<ind.pid, ind.block>> \in processed))
        /\ dtx' = IF count > DtxThreshold THEN DtxThreshold ELSE count
        /\ PuschReported(~ok /\ count >= DtxThreshold)
        /\ crc' = IF disableHarq THEN NoCrc ELSE [pid |-> ind.pid, ok |-> ok]
  /\ pusch' = Tail(pusch)
  /\ UNCHANGED <<disableHarq, ulAvailable, ulFeedback, ulRetrans, ulHarq, ulUe, ulLost, ulResets>>

(* A process at the head of the feedback list gets its result *)
UlResult(p, ok) ==
  LET h == [ulHarq[p] EXCEPT !.waiting = FALSE]
      again == ~ok /\ h.round < UlRoundMax - 1
  IN /\ ulFeedback' = Tail(ulFeedback)
     /\ ulHarq' = [ulHarq EXCEPT ![p] = IF again THEN [h EXCEPT !.round = @ + 1] ELSE UlFinished(h)]
     /\ ulRetrans' = IF again THEN AddTail(ulRetrans, p) ELSE ulRetrans
     /\ ulAvailable' = IF again THEN ulAvailable ELSE AddTail(ulAvailable, p)

(* handle_nr_ul_harq: processes in front of the indicated one are taken as   *)
(* failed, one per iteration of its loop; the list may run empty             *)
SkipProcess ==
  /\ crc # NoCrc /\ ulFeedback # <<>> /\ Head(ulFeedback) # crc.pid
  /\ UlResult(Head(ulFeedback), FALSE)
  /\ UNCHANGED <<relVars, disableHarq, pusch, crc, dtx, ulUe, processed, twice, ulLost, ulResets>>

HandleUlHarq ==
  /\ crc # NoCrc /\ ulFeedback # <<>> /\ Head(ulFeedback) = crc.pid
  /\ UlResult(crc.pid, crc.ok)
  /\ crc' = NoCrc
  /\ UNCHANGED <<relVars, disableHarq, pusch, dtx, ulUe, processed, twice, ulLost, ulResets>>

UnexpectedProcess ==
  /\ crc # NoCrc /\ ulFeedback = <<>>
  /\ crc' = NoCrc
  /\ UNCHANGED <<relVars, disableHarq, ulAvailable, ulFeedback, ulRetrans, ulHarq, pusch, dtx, ulUe, processed, twice, ulLost, ulResets>>

(* The indication of a PUSCH never reaches the MAC *)
IndicationLost ==
  /\ UlFree /\ pusch # <<>> /\ ulLost + ulResets < MaxUlFaults
  /\ pusch' = Tail(pusch)
  /\ ulLost' = ulLost + 1
  /\ UNCHANGED <<relVars, disableHarq, ulAvailable, ulFeedback, ulRetrans, ulHarq, crc, dtx, ulUe, processed, twice, ulResets>>

(* nr_rx_ra_sdu with the C-RNTI of this UE: nr_mac_reset_ul_failure and      *)
(* reset_ul_harq_list; NDIs and PUSCHs in flight stay                        *)
ResetUlHarqList ==
  /\ UlFree /\ ulLost + ulResets < MaxUlFaults
  /\ UeComesBack /\ dtx' = 0
  /\ ulAvailable' = ulAvailable \o ulFeedback \o ulRetrans
  /\ ulFeedback' = <<>> /\ ulRetrans' = <<>>
  /\ ulHarq' = [p \in UlPids |-> [ulHarq[p] EXCEPT !.round = 0, !.waiting = FALSE]]
  /\ ulResets' = ulResets + 1
  /\ processed' = {}
  /\ UNCHANGED <<disableHarq, pusch, crc, ulUe, twice, ulLost>>

-----------------------------------------------------------------------------
UlCrc == SkipProcess \/ HandleUlHarq \/ UnexpectedProcess
UlPhy == UlCrc \/ \E ok, low \in BOOLEAN : RxSdu(ok, low)
UlNext ==
  \/ UlSlotGrant \/ UlSlotIdle
  \/ UlPhy \/ IndicationLost \/ ResetUlHarqList

-----------------------------------------------------------------------------
(* Every uplink process is in exactly one list, once, and waits exactly when *)
(* it is in the feedback list, whatever indications are lost or come for     *)
(* processes that do not expect them (the DevAsserts of post_process_ulsch   *)
(* and handle_nr_ul_harq).                                                   *)
UlListsConsistent ==
  /\ Partition(ulAvailable, ulFeedback, ulRetrans, UlPids)
  /\ \A p \in UlPids : ulHarq[p].waiting <=> p \in Entries(ulFeedback)

(* No transport block reaches nr_process_mac_pdu twice, unless the lists     *)
(* were reset: a process is never granted again with the NDI of a block that *)
(* was decoded, even when indications are lost.                              *)
UlOncePerBlock == ulResets = 0 => ~twice

(* An uplink failure ends: the UE comes back with a random access, or it is  *)
(* removed, with or without an answer from the CU.                           *)
UlFailureEnds == []<>(~failure \/ conn = "gone")
=============================================================================
