---------------------------- MODULE NrPdcpEntity ----------------------------
(***************************************************************************)
(* One NR PDCP entity (openair2/LAYER2/nr_pdcp/nr_pdcp_entity.c): the      *)
(* COUNT bookkeeping of the transmitting side, and of the receiving side   *)
(* the COUNT reconstruction, the reordering list, t-Reordering, suspend,   *)
(* re-establishment, release and the COUNT transfer of a handover.         *)
(*                                                                         *)
(* Every entry point runs under the PDCP manager lock, so a handler is one *)
(* action.  Early returns that only bump a statistics counter (suspended   *)
(* entity, short PDU, integrity failure, duplicate) leave the state alone  *)
(* and are stuttering steps.  Payloads, ciphering and rx_size (written,    *)
(* never read) are abstracted away: an SDU is its COUNT.                   *)
(***************************************************************************)
EXTENDS Integers, FiniteSets

CONSTANTS
    Window,     \* window_size; sn_max + 1 is twice that
    HfnMod,     \* number of hyper frame numbers, 2^(32 - sn_size)
    MaxTx,      \* bound on the COUNTs of the transmitting side
    EarlyPdu    \* may a PDU arrive before the first set_time of the entity?

ASSUME PdcpConstants == /\ Window \in Nat \ {0}
                        /\ HfnMod \in Nat \ {0}
                        /\ MaxTx \in 0 .. 2 * Window * HfnMod - 1
                        /\ EarlyPdu \in BOOLEAN

SnMod == 2 * Window
CountMod == SnMod * HfnMod
COUNT == 0 .. CountMod - 1

EntityTypes == {"NR_PDCP_DRB_AM", "NR_PDCP_DRB_UM", "NR_PDCP_SRB"}

VARIABLES
    type,               \* entity->type, fixed at creation
    infinite,           \* t_reordering = -1 (configured "infinity")
    alive,              \* the entity exists in the UE's srb[]/drb[] array
    tx_next,
    rx_next,
    rx_deliv,
    rx_reord,
    rx_list,            \* COUNTs of the buffered SDUs (the list is sorted)
    t_current,          \* 0 until the first set_time, then nonzero
    t_reordering_start, \* 0 means not active
    entity_suspended,
    out,                \* history: COUNTs given to deliver_sdu by the last step
    delivered_to        \* history: one past the highest COUNT delivered since
                        \* the COUNTs were reset

config == <<type, infinite>>
rxState == <<rx_next, rx_deliv, rx_reord, rx_list, t_reordering_start>>
vars == <<config, alive, tx_next, rxState, t_current, entity_suspended,
          out, delivered_to>>

(***************************************************************************)
(* new_nr_pdcp_entity: calloc, then the configuration.  t_current is 0     *)
(* until the timer thread first reaches the entity.                        *)
(***************************************************************************)
Init ==
    /\ type \in EntityTypes
    /\ infinite \in BOOLEAN
    /\ alive = TRUE
    /\ tx_next = 0
    /\ rx_next = 0
    /\ rx_deliv = 0
    /\ rx_reord = 0
    /\ rx_list = {}
    /\ t_current = 0
    /\ t_reordering_start = 0
    /\ entity_suspended = FALSE
    /\ out = {}
    /\ delivered_to = 0

-----------------------------------------------------------------------------
(* deliver_sdu is called for the COUNTs of `batch', in list order.         *)
Deliver(batch) ==
    /\ out' = batch
    /\ delivered_to' \in
          IF batch = {} THEN {delivered_to}
          ELSE {c + 1 : c \in {b \in batch : \A d \in batch : d <= b}}

(* The same, in a handler that also resets the COUNTs.                     *)
DeliverAndReset(batch) ==
    /\ out' = batch
    /\ delivered_to' = 0

(* Bug: the upper comparison is strict.                                    *)
RcvdHfnAsNonStrict(sn) ==
    LET rx_deliv_sn  == rx_deliv % SnMod
        rx_deliv_hfn == rx_deliv \div SnMod
    IN  IF sn < rx_deliv_sn - Window THEN (rx_deliv_hfn + 1) % HfnMod
        ELSE IF sn > rx_deliv_sn + Window THEN (rx_deliv_hfn - 1) % HfnMod
        ELSE rx_deliv_hfn

(***************************************************************************)
(* The HFN guess of nr_pdcp_entity_recv_pdu, in 32 bits: the guess above   *)
(* the last HFN and the guess below HFN 0 wrap.                            *)
(***************************************************************************)
RcvdHfn(sn) ==
    LET rx_deliv_sn  == rx_deliv % SnMod
        rx_deliv_hfn == rx_deliv \div SnMod
    IN  IF sn < rx_deliv_sn - Window THEN (rx_deliv_hfn + 1) % HfnMod
        ELSE IF sn >= rx_deliv_sn + Window THEN (rx_deliv_hfn - 1) % HfnMod
        ELSE rx_deliv_hfn

RcvdCount(sn) == RcvdHfn(sn) * SnMod + sn

(* Bug: the loop does not look for a discontinuity.                        *)
PopRunAsSkipGap(list, n, m) ==
    /\ n <= m
    /\ \A c \in list : c < m
    /\ m - 1 \in list

(***************************************************************************)
(* The delivery loop: from the head of the sorted list, pop n, n+1, ... up *)
(* to a discontinuity; `m' is the COUNT where the loop stops.  A head      *)
(* below n stops the loop at once.                                         *)
(***************************************************************************)
PopRun(list, n, m) ==
    /\ n <= m
    /\ n .. m - 1 \subseteq list
    /\ IF \E c \in list : c < n THEN m = n ELSE m \notin list

(* Bug: a timer stopped by the reception is not started for the next gap.  *)
UpdateReorderingAsNoRestart ==
    LET running == t_reordering_start # 0 /\ rx_deliv' < rx_reord
        start   == t_reordering_start = 0 /\ rx_deliv' < rx_next'
    IN  /\ rx_reord' = IF start THEN rx_next' ELSE rx_reord
        /\ t_reordering_start' = IF running THEN t_reordering_start
                                 ELSE IF start THEN t_current ELSE 0

(* The two trailing t-Reordering blocks of recv_pdu, on the new values.    *)
UpdateReordering ==
    LET running == t_reordering_start # 0 /\ rx_deliv' < rx_reord
        start   == ~running /\ rx_deliv' < rx_next'
    IN  /\ rx_reord' = IF start THEN rx_next' ELSE rx_reord
        /\ t_reordering_start' = IF running THEN t_reordering_start
                                 ELSE IF start THEN t_current ELSE 0

(* COUNT exhaustion is left to RRC (a key change); the code has no check.  *)
NotExhausted(count) == count + 1 < CountMod

(* Bug: only the list is searched for a duplicate.                        *)
AcceptPduAsNoDuplicateCheck(count) == count \notin rx_list

AcceptPdu(count) ==
    /\ count >= rx_deliv
    /\ count \notin rx_list

RecvPdu(sn) ==
    LET rcvd_count == RcvdCount(sn)
        list       == rx_list \cup {rcvd_count}
    IN  /\ alive /\ ~entity_suspended
        /\ EarlyPdu \/ t_current # 0
        /\ NotExhausted(rcvd_count)
        /\ AcceptPdu(rcvd_count)
        /\ rx_next' = IF rcvd_count >= rx_next THEN rcvd_count + 1 ELSE rx_next
        /\ \/ /\ rcvd_count # rx_deliv
              /\ rx_list' = list
              /\ rx_deliv' = rx_deliv
              /\ Deliver({})
           \/ /\ rcvd_count = rx_deliv
              /\ \E m \in COUNT :
                    /\ PopRun(list, rx_deliv, m)
                    /\ rx_list' = list \ (rx_deliv .. m - 1)
                    /\ rx_deliv' = m
                    /\ Deliver(list \cap (rx_deliv .. m - 1))
        /\ UpdateReordering
        /\ UNCHANGED <<config, alive, tx_next, t_current, entity_suspended>>

(***************************************************************************)
(* nr_pdcp_entity_set_time.  Only the comparison in check_t_reordering     *)
(* looks at the distance between t_current and the start time, so the      *)
(* clock is 0 or nonzero and a running timer may have expired or not.      *)
(***************************************************************************)
SetTime ==
    /\ alive
    /\ t_current' = 1
    /\ Deliver({})
    /\ UNCHANGED <<config, alive, tx_next, rxState, entity_suspended>>

(* Bug: rx_deliv is not moved past the run delivered after rx_reord.       *)
ReorderedAsStuckDeliv(m) ==
    LET rest == {c \in rx_list : c >= rx_reord}
    IN  /\ PopRun(rest, rx_reord, m)
        /\ rx_list' = rest \ (rx_reord .. m - 1)
        /\ rx_deliv' = rx_reord
        /\ Deliver({c \in rx_list : c < m})
        /\ rx_reord' = IF m < rx_next THEN rx_next ELSE rx_reord
        /\ t_reordering_start' = IF m < rx_next THEN 1 ELSE 0

(* What check_t_reordering leaves: the reordering point, the rest of the   *)
(* list from there on, and a restarted timer if a gap remains.             *)
Reordered(m) ==
    LET rest == {c \in rx_list : c >= rx_reord}
    IN  /\ PopRun(rest, rx_reord, m)
        /\ rx_list' = rest \ (rx_reord .. m - 1)
        /\ rx_deliv' = m
        /\ Deliver({c \in rx_list : c < m})
        /\ rx_reord' = IF m < rx_next THEN rx_next ELSE rx_reord
        /\ t_reordering_start' = IF m < rx_next THEN 1 ELSE 0

SetTimeExpired ==
    /\ alive
    /\ ~infinite
    /\ t_reordering_start # 0
    /\ t_current' = 1
    /\ \E m \in COUNT : Reordered(m)
    /\ UNCHANGED <<config, alive, tx_next, rx_next, entity_suspended>>

(* nr_pdcp_entity_process_sdu: the PDU gets COUNT tx_next.                 *)
ProcessSdu ==
    /\ alive /\ ~entity_suspended
    /\ tx_next < MaxTx
    /\ tx_next' = tx_next + 1
    /\ Deliver({})
    /\ UNCHANGED <<config, alive, rxState, t_current, entity_suspended>>

-----------------------------------------------------------------------------
(* TX_NEXT, RX_NEXT and RX_DELIV to their initial value, timer stopped.    *)
ResetCounts ==
    /\ tx_next' = 0
    /\ rx_next' = 0
    /\ rx_deliv' = 0
    /\ t_reordering_start' = 0

(* Bug: the timer is stopped before it is looked at.                       *)
DeliverAllIfRunningAsStopped ==
    DeliverAndReset({}) /\ rx_list' = rx_list

(* deliver_all_sdus, behind "if t-Reordering is running".                  *)
DeliverAllIfRunning ==
    IF t_reordering_start # 0
    THEN DeliverAndReset(rx_list) /\ rx_list' = {}
    ELSE DeliverAndReset({}) /\ rx_list' = rx_list

Suspend ==
    /\ alive
    /\ ResetCounts
    /\ DeliverAllIfRunning
    /\ entity_suspended' = TRUE
    /\ UNCHANGED <<config, alive, rx_reord, t_current>>

ReestablishDrbAm ==
    /\ alive
    /\ type = "NR_PDCP_DRB_AM"
    /\ entity_suspended' = FALSE
    /\ Deliver({})
    /\ UNCHANGED <<config, alive, tx_next, rxState, t_current>>

ReestablishDrbUm ==
    /\ alive
    /\ type = "NR_PDCP_DRB_UM"
    /\ ResetCounts
    /\ DeliverAllIfRunning
    /\ entity_suspended' = FALSE
    /\ UNCHANGED <<config, alive, rx_reord, t_current>>

(* free_rx_list: the buffered SDUs are dropped.                            *)
ReestablishSrb ==
    /\ alive
    /\ type = "NR_PDCP_SRB"
    /\ ResetCounts
    /\ rx_list' = {}
    /\ DeliverAndReset({})
    /\ entity_suspended' = FALSE
    /\ UNCHANGED <<config, alive, rx_reord, t_current>>

(* nr_pdcp_release_drb: release_entity, delete_entity, the slot is NULL.   *)
Release ==
    /\ alive
    /\ alive' = FALSE
    /\ DeliverAndReset(rx_list)
    /\ rx_list' = {}
    /\ UNCHANGED <<config, tx_next, rx_next, rx_deliv, rx_reord,
                   t_reordering_start, t_current, entity_suspended>>

(* nr_pdcp_add_drb and the like: a new entity in the empty slot.           *)
Add ==
    /\ ~alive
    /\ alive' = TRUE
    /\ tx_next' = 0 /\ rx_next' = 0 /\ rx_deliv' = 0 /\ rx_reord' = 0
    /\ rx_list' = {}
    /\ t_current' = 0 /\ t_reordering_start' = 0
    /\ entity_suspended' = FALSE
    /\ DeliverAndReset({})
    /\ UNCHANGED config

(***************************************************************************)
(* nr_pdcp_count_update: set_pdcp_count_dl then set_pdcp_count_ul, on the  *)
(* DRB just set up in the target CU-UP of a handover.                      *)
(***************************************************************************)
SetCount(dl, ul) ==
    /\ alive
    /\ type # "NR_PDCP_SRB"
    /\ tx_next = 0 /\ rx_next = 0
    /\ NotExhausted(dl)
    /\ rx_next' = dl + 1
    /\ rx_deliv' = dl
    /\ tx_next' = ul
    /\ Deliver({})
    /\ UNCHANGED <<config, alive, rx_reord, rx_list, t_reordering_start,
                   t_current, entity_suspended>>

Next ==
    \/ \E sn \in 0 .. SnMod - 1 : RecvPdu(sn)
    \/ SetTime
    \/ SetTimeExpired
    \/ ProcessSdu
    \/ Suspend
    \/ ReestablishDrbAm
    \/ ReestablishDrbUm
    \/ ReestablishSrb
    \/ Release
    \/ Add
    \/ \E dl \in COUNT, ul \in 0 .. MaxTx : SetCount(dl, ul)

(* The timer thread keeps ticking, so a running finite timer expires.      *)
Spec == Init /\ [][Next]_vars
FairSpec == Spec /\ WF_vars(SetTimeExpired)

-----------------------------------------------------------------------------
(* The type invariant of the entity's fields.                              *)
TypeOK ==
    /\ type \in EntityTypes
    /\ infinite \in BOOLEAN
    /\ alive \in BOOLEAN
    /\ tx_next \in COUNT
    /\ rx_next \in COUNT
    /\ rx_deliv \in COUNT
    /\ rx_reord \in COUNT
    /\ rx_list \subseteq COUNT
    /\ t_current \in {0, 1}
    /\ t_reordering_start \in {0, 1}
    /\ entity_suspended \in BOOLEAN
    /\ out \subseteq COUNT
    /\ delivered_to \in COUNT

(* The reception variables stay ordered: what is buffered lies strictly    *)
(* between rx_deliv and rx_next, what was delivered lies below rx_deliv,   *)
(* and a running t-Reordering guards a gap below rx_reord.  The delivery   *)
(* loops rely on it: a buffered SDU at or below rx_deliv would stay at the *)
(* head of the list and stop every later in-order delivery.                *)
RxOrdered ==
    alive => /\ rx_deliv <= rx_next
             /\ \A c \in rx_list : rx_deliv < c /\ c < rx_next
             /\ delivered_to <= rx_deliv
             /\ t_reordering_start # 0 => rx_deliv < rx_reord /\ rx_reord <= rx_next

(* SDUs wait in the list only while t-Reordering runs, so that they are    *)
(* delivered by the missing PDU or by the timer.                           *)
BufferedOnlyWithTimer ==
    alive /\ rx_list # {} => t_reordering_start # 0

(* Upper layers get SDUs in COUNT order and none twice: every SDU that a   *)
(* step delivers is above all those delivered since the last COUNT reset.  *)
InOrderDelivery ==
    [][\A c \in out' : delivered_to <= c]_vars

(* A COUNT is skipped, that is, given up as lost, only when t-Reordering   *)
(* expires (or when the COUNTs are set anew), never on a reception.        *)
SkipOnlyOnExpiry ==
    [][\A c \in COUNT :
          /\ rx_deliv <= c /\ c < rx_deliv'
          /\ c \notin out'
          => SetTimeExpired \/ \E dl \in COUNT, ul \in 0 .. MaxTx : SetCount(dl, ul)]_vars

(* A buffered SDU does not stay forever when t-Reordering is finite.       *)
BufferedIsDelivered ==
    \A c \in COUNT : (~infinite /\ alive /\ c \in rx_list) ~> (c \notin rx_list)

=============================================================================
