-------------------------------- MODULE NrL2 --------------------------------
(***************************************************************************)
(* The queue between PDCP and RLC alone, with items that can be told       *)
(* apart, and the threads, locks and the two queues together.              *)
(***************************************************************************)
EXTENDS NrL2Queue

CONSTANTS ReqThreads, MacThreads, RlcThread, IndThread, TimerThread, Free, Item

VARIABLES
    part,
    pdcp, rlc,
    q_slots, q_start, q_length, q_waiting, q_calling, q_cpc, q_handed,
    pq_slots, pq_start, pq_length, pq_waiting, pq_calling, pq_cpc, pq_handed

Path == INSTANCE NrL2Path

threadsVars == <<pdcp, rlc,
    q_slots, q_start, q_length, q_waiting, q_calling, q_cpc, q_handed,
    pq_slots, pq_start, pq_length, pq_waiting, pq_calling, pq_cpc, pq_handed>>
l2Vars == <<part, queueVars, threadsVars>>

L2Init == part \in {"queue", "path"} /\ Init /\ Path!PathInit

QueueMoves == part = "queue" /\ Next /\ UNCHANGED <<part, threadsVars>>

PathMoves == part = "path" /\ Path!PathNext /\ UNCHANGED <<part, queueVars>>

L2Next == QueueMoves \/ PathMoves

(* The fairness of NrL2Path, for its part.                                 *)
L2Spec ==
    /\ L2Init /\ [][L2Next]_l2Vars
    /\ WF_threadsVars(part = "path" /\ Path!QStep)
    /\ WF_threadsVars(part = "path" /\ Path!PqStep)
    /\ WF_threadsVars(part = "path" /\ Path!PqRelease)
    /\ SF_threadsVars(part = "path" /\ Path!MacUnlocks)
    /\ SF_threadsVars(part = "path" /\ Path!PdcpUnlocks)
    /\ SF_threadsVars(part = "path" /\ Path!RlcDataReq)
    /\ SF_threadsVars(part = "path" /\ Path!PdcpDataInd)

(* NoDeadlock of NrL2Path: the threads never all block, but for the cycle  *)
(* in which a control PDU of SDAP waits for room inside the PDCP lock.     *)
NoDeadlock == Path!NoDeadlock

(* QueuesDrain of NrL2Path: what is queued in either direction is handed   *)
(* over in the end, unless the threads are caught in that cycle.           *)
QueuesDrain == Path!QueuesDrain

=============================================================================
