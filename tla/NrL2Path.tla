------------------------------ MODULE NrL2Path ------------------------------
(***************************************************************************)
(* The threads that move data between PDCP and RLC of a monolithic gNB or  *)
(* of the UE, the two big locks and the two queues.                        *)
(*                                                                         *)
(*   data_req threads  lock(pdcp), process_sdu, unlock(pdcp), enqueue to q *)
(*   RLC queue thread  takes from q, lock(rlc), recv_sdu, unlock(rlc)      *)
(*   MAC threads       lock(rlc), recv_pdu, whose deliver_sdu enqueues to  *)
(*                     pq, unlock(rlc)                                     *)
(*   PDCP data ind     takes from pq, lock(pdcp), recv_pdu, unlock(pdcp)   *)
(*   pdcp_timer        lock(pdcp), set_time, unlock(pdcp)                  *)
(*                                                                         *)
(* The last two deliver SDUs to SDAP inside lock(pdcp).  In the UE, SDAP   *)
(* answers a reflective mapping with a control PDU: nr_pdcp_data_req_drb   *)
(* in the same thread, the lock being recursive.                           *)
(*                                                                         *)
(* Code that holds a lock and cannot block is one step, taken when the     *)
(* lock is free.  What is queued does not matter here.                     *)
(***************************************************************************)
EXTENDS Naturals, FiniteSets

CONSTANTS
    ReqThreads,     \* threads that call nr_pdcp_data_req_drb or _srb: GTP-U,
                    \* SDAP, RRC
    MacThreads,     \* threads that call nr_mac_rlc_data_ind
    RlcThread,      \* rlc_data_req_thread
    IndThread,      \* pdcp_data_ind_thread
    TimerThread,    \* nr_pdcp_timer_thread
    Free,           \* no thread
    Item, None,
    Size

VARIABLES
    pdcp,           \* the thread that holds the lock of nr_pdcp_ue_manager
    rlc,            \* the thread that holds the lock of nr_rlc_ue_manager
    q_slots, q_start, q_length, q_waiting, q_calling, q_cpc, q_handed,
    pq_slots, pq_start, pq_length, pq_waiting, pq_calling, pq_cpc, pq_handed

qVars == <<q_slots, q_start, q_length, q_waiting, q_calling, q_cpc, q_handed>>
pqVars == <<pq_slots, pq_start, pq_length, pq_waiting, pq_calling, pq_cpc,
            pq_handed>>
pathVars == <<pdcp, rlc, qVars, pqVars>>

(* The queue to RLC; the two threads that hold the PDCP lock use it too.   *)
Q == INSTANCE NrL2Queue WITH
        Producers <- ReqThreads \cup {IndThread, TimerThread},
        Consumer <- RlcThread, Items <- {Item},
        slots <- q_slots, start <- q_start, length <- q_length,
        waiting <- q_waiting, calling <- q_calling, cpc <- q_cpc,
        handed <- q_handed

(* The queue to PDCP.                                                      *)
PQ == INSTANCE NrL2Queue WITH
        Producers <- MacThreads, Consumer <- IndThread, Items <- {Item},
        slots <- pq_slots, start <- pq_start, length <- pq_length,
        waiting <- pq_waiting, calling <- pq_calling, cpc <- pq_cpc,
        handed <- pq_handed

PathInit == pdcp = Free /\ rlc = Free /\ Q!Init /\ PQ!Init

-----------------------------------------------------------------------------
(* Bug: enqueue_rlc_data_req is called inside the lock, as it once was.    *)
DataReqAsLocked(t) ==
    /\ pdcp = Free
    /\ pdcp' = t
    /\ Q!Call(t, Item)
    /\ UNCHANGED <<rlc, pqVars>>

(* nr_pdcp_data_req_drb, _srb: process_sdu inside the lock, then enqueue.  *)
DataReq(t) ==
    /\ pdcp = Free
    /\ Q!Call(t, Item)
    /\ UNCHANGED <<pdcp, rlc, pqVars>>

(* Steps of enqueue_rlc_data_req, and of rlc_data_req_thread with the      *)
(* mutex.                                                                  *)
QStep ==
    /\ \/ \E t \in ReqThreads \cup {IndThread, TimerThread} :
             Q!EnqueueWaits(t) \/ Q!Enqueue(t)
       \/ Q!TakeWaits \/ Q!Take \/ Q!Release
    /\ UNCHANGED <<pdcp, rlc, pqVars>>

(* nr_rlc_data_req in rlc_data_req_thread.                                 *)
RlcDataReq ==
    /\ rlc = Free
    /\ Q!Handle
    /\ UNCHANGED <<pdcp, rlc, pqVars>>

(* nr_mac_rlc_data_ind takes the lock; the PDU completes an SDU.           *)
MacDataInd(t) ==
    /\ rlc = Free
    /\ rlc' = t
    /\ PQ!Call(t, Item)
    /\ UNCHANGED <<pdcp, qVars>>

(* The same PDU completes another SDU.                                     *)
MacDeliversMore(t) ==
    /\ rlc = t
    /\ PQ!Call(t, Item)
    /\ UNCHANGED <<pdcp, rlc, qVars>>

MacUnlock(t) ==
    /\ rlc = t
    /\ pq_calling[t] = None
    /\ rlc' = Free
    /\ UNCHANGED <<pdcp, qVars, pqVars>>

PqStep ==
    /\ \/ \E t \in MacThreads : PQ!EnqueueWaits(t) \/ PQ!Enqueue(t)
       \/ PQ!TakeWaits \/ PQ!Take
    /\ UNCHANGED <<pdcp, rlc, qVars>>

(* do_pdcp_data_ind takes the lock and calls recv_pdu.                     *)
PdcpDataInd ==
    /\ pdcp = Free
    /\ pdcp' = IndThread
    /\ PQ!Handle
    /\ UNCHANGED <<rlc, qVars>>

(* nr_pdcp_timer_thread takes the lock and calls set_time.                 *)
TimerTick ==
    /\ pdcp = Free
    /\ pdcp' = TimerThread
    /\ UNCHANGED <<rlc, qVars, pqVars>>

(***************************************************************************)
(* An SDU delivered inside the lock has RDI set: nr_sdap_rx_entity submits *)
(* a control PDU to PDCP, and its enqueue_rlc_data_req runs with the lock  *)
(* still held by the outer call.                                           *)
(***************************************************************************)
SubmitCtrlPdu(t) ==
    /\ pdcp = t
    /\ Q!Call(t, Item)
    /\ UNCHANGED <<pdcp, rlc, pqVars>>

PdcpUnlock(t) ==
    /\ pdcp = t
    /\ q_calling[t] = None
    /\ pdcp' = Free
    /\ UNCHANGED <<rlc, qVars, pqVars>>

(* pdcp_data_ind_thread goes on after do_pdcp_data_ind.                    *)
PqRelease ==
    /\ pdcp # IndThread
    /\ PQ!Release
    /\ UNCHANGED <<pdcp, rlc, qVars>>

Arrivals ==
    \/ \E t \in ReqThreads : DataReq(t)
    \/ \E t \in MacThreads : MacDataInd(t) \/ MacDeliversMore(t)
    \/ \E t \in {IndThread, TimerThread} : SubmitCtrlPdu(t)
    \/ TimerTick

MacUnlocks == \E t \in MacThreads : MacUnlock(t)
PdcpUnlocks ==
    \E t \in ReqThreads \cup {IndThread, TimerThread} : PdcpUnlock(t)

PathNext ==
    \/ Arrivals \/ MacUnlocks \/ PdcpUnlocks
    \/ QStep \/ RlcDataReq \/ PqStep \/ PdcpDataInd \/ PqRelease

(***************************************************************************)
(* A thread that can run does run; a thread that waits for a lock that     *)
(* becomes free again and again gets it; a call that holds a lock delivers *)
(* finitely many SDUs.                                                     *)
(***************************************************************************)
PathSpec ==
    /\ PathInit /\ [][PathNext]_pathVars
    /\ WF_pathVars(QStep) /\ WF_pathVars(PqStep) /\ WF_pathVars(PqRelease)
    /\ SF_pathVars(MacUnlocks) /\ SF_pathVars(PdcpUnlocks)
    /\ SF_pathVars(RlcDataReq) /\ SF_pathVars(PdcpDataInd)

-----------------------------------------------------------------------------
(* The cycle of waits that remains: a thread that holds the PDCP lock      *)
(* waits for room in q, the RLC queue thread for the RLC lock, the MAC     *)
(* thread that holds it for room in pq, and nobody empties pq.             *)
CircularWait ==
    /\ pdcp \in {IndThread, TimerThread} /\ pdcp \in q_waiting
    /\ q_length = Size /\ q_cpc = "handle"
    /\ rlc \in MacThreads /\ rlc \in pq_waiting
    /\ pq_length = Size
    /\ pq_cpc = IF pdcp = IndThread THEN "release" ELSE "handle"

(***************************************************************************)
(* "To avoid the resulting deadlock it is enough to ensure that a call to  *)
(* lock(pdcp) will never be followed by a call to lock(rlc)": the threads  *)
(* never all block, but for the cycle in which a control PDU of SDAP waits *)
(* for room in q inside the lock.                                          *)
(***************************************************************************)
NoDeadlock ==
    \/ ENABLED (\/ MacUnlocks \/ PdcpUnlocks
                \/ QStep \/ RlcDataReq \/ PqStep \/ PdcpDataInd \/ PqRelease)
    \/ q_length = 0 /\ pq_length = 0 /\ pdcp = Free /\ rlc = Free
    \/ CircularWait

(* What has been queued in either direction is handed over in the end,     *)
(* unless the threads are caught in that cycle.                            *)
QueuesDrain ==
    /\ q_length # 0 ~> q_cpc = "release" \/ CircularWait
    /\ pq_length # 0 ~> pq_cpc = "release" \/ CircularWait

=============================================================================
