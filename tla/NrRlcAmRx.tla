----------------------------- MODULE NrRlcAmRx ------------------------------
(***************************************************************************)
(* The receiving side of an RLC AM entity (nr_rlc_entity_am.c and          *)
(* nr_rlc_rx_manager.c): reception window, reassembly, t-Reassembly and    *)
(* the construction of STATUS PDUs.                                        *)
(*                                                                         *)
(* Every entry point first sets the time and runs under the RLC manager    *)
(* lock, so a handler is one action, and the expiry of a timer is a step   *)
(* of its own before it.  Timers are Booleans: running or not.             *)
(***************************************************************************)
EXTENDS NrRlcBase, Lists

CONSTANT RxMax      \* rx_maxsize, in bytes

ASSUME RxConstants == RxMax \in Nat

VARIABLES
    rx_next,
    rx_next_status_trigger,
    rx_highest_status,
    rx_next_highest,
    status_triggered,
    t_reassembly,       \* t_reassembly_start # 0
    t_status_prohibit,  \* t_status_prohibit_start # 0 and not expired
    rx,                 \* the circular buffer of the rx manager
    rx_size,
    hung,               \* a loop of reception_actions does not end
    out                 \* history: SDUs delivered by the last step, each the
                        \* set of the SDUs its bytes come from

rxVars == <<rx_next, rx_next_status_trigger, rx_highest_status,
            rx_next_highest, status_triggered, t_reassembly,
            t_status_prohibit, rx, rx_size, hung, out>>

(* `data' of the segments of a delivered SDU; they are kept as one.        *)
NULL == -1
Delivered == <<[so |-> 0, size |-> SduSize, data |-> NULL]>>

(***************************************************************************)
(* nr_rlc_rx_manager_get_pdu_from_sn: the buffer has Window entries; start *)
(* and sn_start move together, so the entry of an SN is its rest modulo    *)
(* Window, also for an SN that is not in the reception window.             *)
(***************************************************************************)
Pos(sn) == sn % Window

RxInit ==
    /\ rx_next = 0
    /\ rx_next_status_trigger = 0
    /\ rx_highest_status = 0
    /\ rx_next_highest = 0
    /\ status_triggered = FALSE
    /\ t_reassembly = FALSE
    /\ t_status_prohibit = FALSE
    /\ rx = [i \in 0 .. Window - 1 |-> <<>>]
    /\ rx_size = 0
    /\ hung = FALSE
    /\ out = <<>>

-----------------------------------------------------------------------------
(* nr_rlc_rx_manager_add_pdu: the PDU goes in front of the first one with  *)
(* a greater `so', the n segments before that one stay where they are.     *)
AddPdu(list, seg) ==
    LET n == CHOOSE n \in 0 .. Len(list) :
                /\ \A i \in 1 .. n : list[i].so <= seg.so
                /\ n < Len(list) => list[n + 1].so > seg.so
    IN  InsertAfter(list, n, seg)

(* Bug: a segment that starts in a received one counts as received.        *)
AlreadyReceivedAsHeadOnly(list, seg) ==
    \E i \in DOMAIN list : list[i].so <= seg.so /\ seg.so <= LastByte(list[i])

(***************************************************************************)
(* segment_already_received: each segment of the list cuts what it covers  *)
(* from the head or else from the tail of what is left.                    *)
(***************************************************************************)
Cut(left, l) ==
    IF left.size > 0 /\ l.so <= left.so /\ left.so <= LastByte(l)
    THEN [so   |-> LastByte(l) + 1,
          size |-> left.size - (LastByte(l) + 1 - left.so)]
    ELSE IF left.size > 0 /\ l.so <= left.so + left.size - 1
                          /\ left.so + left.size - 1 <= LastByte(l)
    THEN [so |-> left.so, size |-> l.so - left.so]
    ELSE left

LeftOf(list, seg) ==
    LET left[n \in 0 .. Len(list)] ==
          IF n = 0 THEN [so |-> seg.so, size |-> seg.size]
          ELSE Cut(left[n - 1], list[n])
    IN  left

AlreadyReceived(list, seg) == LeftOf(list, seg)[Len(list)].size <= 0

(* The first n segments leave no byte out before the last one they have.   *)
Contiguous(list, n) ==
    \A i \in 1 .. n :
       list[i].so = 0 \/ \E j \in 1 .. i - 1 : list[i].so <= LastByte(list[j]) + 1

SduFull(list) ==
    /\ list # Delivered
    /\ \E n \in DOMAIN list : IsLast(list[n]) /\ Contiguous(list, n)

SduHasMissingBytes(list) == list # Delivered /\ ~Contiguous(list, Len(list))

(* Number of entries from sn on that are delivered, Window if all are.     *)
DeliveredRun(buf, sn) ==
    CHOOSE n \in 0 .. Window :
       /\ \A k \in 0 .. n - 1 : buf[Pos(sn + k)] = Delivered
       /\ n < Window => buf[Pos(sn + n)] # Delivered

BufferedBytes(list) ==
    Total([i \in DOMAIN list |-> IF list[i].data = NULL THEN 0 ELSE list[i].size])

(* Bug: the window is not checked.                                         *)
InRecvWindowAsAlways(base, sn) == TRUE

(* sn_in_recv_window.                                                      *)
InRecvWindow(base, sn) == Modulus(base, sn) < Window

AcceptData(pdu) ==
    /\ rx_size + pdu.size <= RxMax
    /\ InRecvWindow(rx_next, pdu.sn)
    /\ ~AlreadyReceived(rx[Pos(pdu.sn)], pdu)

Discard(pdu) ==
    /\ ~AcceptData(pdu)
    /\ status_triggered' = (status_triggered \/ pdu.p)
    /\ out' = <<>>
    /\ UNCHANGED <<rx_next, rx_next_status_trigger, rx_highest_status,
                   rx_next_highest, t_reassembly, t_status_prohibit, rx,
                   rx_size, hung>>

(* Bug: t-Reassembly is not stopped when its SDU is complete.              *)
UpdateReassemblyAsNeverStopped ==
    LET missing == SduHasMissingBytes(rx'[Pos(rx_next')])
        start   == /\ ~t_reassembly
                   /\ \/ SnCompare(rx_next', rx_next_highest', Plus(rx_next', 1)) > 0
                      \/ rx_next_highest' = Plus(rx_next', 1) /\ missing
    IN  /\ t_reassembly' = (t_reassembly \/ start)
        /\ rx_next_status_trigger' =
              IF start THEN rx_next_highest' ELSE rx_next_status_trigger

(* The two trailing t-Reassembly blocks, on the new values.                *)
UpdateReassembly ==
    LET trigger == rx_next_status_trigger
        missing == SduHasMissingBytes(rx'[Pos(rx_next')])
        stop    == \/ trigger = rx_next'
                   \/ trigger = Plus(rx_next', 1) /\ ~missing
                   \/ /\ ~InRecvWindow(rx_next', trigger)
                      /\ trigger # Plus(rx_next', Window)
        running == t_reassembly /\ ~stop
        start   == /\ ~running
                   /\ \/ SnCompare(rx_next', rx_next_highest', Plus(rx_next', 1)) > 0
                      \/ rx_next_highest' = Plus(rx_next', 1) /\ missing
    IN  /\ t_reassembly' = (running \/ start)
        /\ rx_next_status_trigger' = IF start THEN rx_next_highest' ELSE trigger

(* The list of pdu.sn with the data of pdu.                                *)
Stored(pdu) ==
    AddPdu(rx[Pos(pdu.sn)],
           [so |-> pdu.so, size |-> pdu.size, data |-> pdu.data])

(* The buffer after reassemble_and_deliver.                                *)
Reassembled(pdu) == [rx EXCEPT ![Pos(pdu.sn)] = Delivered]

(***************************************************************************)
(* When the SN just delivered is rx_highest_status and every entry of the  *)
(* buffer is a delivered SDU, the loop that moves rx_highest_status finds  *)
(* them again and again.                                                   *)
(***************************************************************************)
LoopsForever(pdu) ==
    /\ SduFull(Stored(pdu))
    /\ pdu.sn = rx_highest_status
    /\ DeliveredRun(Reassembled(pdu), pdu.sn) = Window

NextHighest(x) ==
    IF SnCompare(rx_next, x, rx_next_highest) >= 0 THEN Plus(x, 1)
    ELSE rx_next_highest

(* Bug: only the last segment of the SDU leaves rx_size.                   *)
DeliverAsLeak(pdu) ==
    /\ out' = <<{Stored(pdu)[i].data : i \in DOMAIN Stored(pdu)}>>
    /\ rx_size' = rx_size

(* reassemble_and_deliver: the payload, and rx_size.                       *)
Deliver(pdu) ==
    /\ out' = <<{Stored(pdu)[i].data : i \in DOMAIN Stored(pdu)}>>
    /\ rx_size' = rx_size + pdu.size - BufferedBytes(Stored(pdu))

(* recv_pdu with a segment that leaves its SDU incomplete.                 *)
RecvSegment(pdu) ==
    /\ AcceptData(pdu)
    /\ ~SduFull(Stored(pdu))
    /\ rx' = [rx EXCEPT ![Pos(pdu.sn)] = Stored(pdu)]
    /\ rx_size' = rx_size + pdu.size
    /\ out' = <<>>
    /\ rx_next_highest' = NextHighest(pdu.sn)
    /\ UNCHANGED <<rx_next, rx_highest_status, t_status_prohibit, hung>>
    /\ UpdateReassembly
    /\ status_triggered' = (status_triggered \/ pdu.p)

(***************************************************************************)
(* recv_pdu with the data that completes an SDU: it is delivered, and      *)
(* rx_highest_status and rx_next move over the delivered SDUs.             *)
(***************************************************************************)
RecvSdu(pdu) ==
    LET buf   == Reassembled(pdu)
        run   == DeliveredRun(buf, pdu.sn)
        freed == IF pdu.sn = rx_next THEN run ELSE 0
    IN  /\ AcceptData(pdu)
        /\ SduFull(Stored(pdu))
        /\ ~LoopsForever(pdu)
        /\ Deliver(pdu)
        /\ rx_next_highest' = NextHighest(pdu.sn)
        /\ rx_highest_status' = IF pdu.sn = rx_highest_status
                                THEN Plus(pdu.sn, run) ELSE rx_highest_status
        /\ rx_next' = Plus(rx_next, freed)
        /\ rx' = [i \in DOMAIN buf |->
                    IF \E k \in 0 .. freed - 1 : i = Pos(rx_next + k)
                    THEN <<>> ELSE buf[i]]
        /\ UpdateReassembly
        /\ status_triggered' = (status_triggered \/ pdu.p)
        /\ UNCHANGED <<t_status_prohibit, hung>>

(* The same when the handler never returns, with the RLC lock held.        *)
RecvSduForever(pdu) ==
    /\ AcceptData(pdu)
    /\ LoopsForever(pdu)
    /\ hung' = TRUE
    /\ Deliver(pdu)
    /\ rx' = Reassembled(pdu)
    /\ rx_next_highest' = NextHighest(pdu.sn)
    /\ UNCHANGED <<rx_next, rx_next_status_trigger, rx_highest_status,
                   status_triggered, t_reassembly, t_status_prohibit>>

RecvPdu(pdu) ==
    Discard(pdu) \/ RecvSegment(pdu) \/ RecvSdu(pdu) \/ RecvSduForever(pdu)

(* Bug: t-Reassembly is not started again for a newer gap.                 *)
ReassemblyExpiredAsLast ==
    /\ t_reassembly
    /\ rx_highest_status' = Plus(rx_next_status_trigger,
                                 DeliveredRun(rx, rx_next_status_trigger))
    /\ status_triggered' = TRUE
    /\ t_reassembly' = FALSE
    /\ out' = <<>>
    /\ UNCHANGED <<rx_next, rx_next_status_trigger, rx_next_highest,
                   t_status_prohibit, rx, rx_size, hung>>

(* check_t_reassembly, t-Reassembly having expired.                        *)
ReassemblyExpired ==
    LET status == Plus(rx_next_status_trigger,
                       DeliveredRun(rx, rx_next_status_trigger))
        start  == \/ SnCompare(rx_next, rx_next_highest, Plus(status, 1)) > 0
                  \/ /\ rx_next_highest = Plus(status, 1)
                     /\ SduHasMissingBytes(rx[Pos(status)])
    IN  /\ t_reassembly
        /\ rx_highest_status' = status
        /\ status_triggered' = TRUE
        /\ t_reassembly' = start
        /\ rx_next_status_trigger' = IF start THEN rx_next_highest
                                     ELSE rx_next_status_trigger
        /\ out' = <<>>
        /\ UNCHANGED <<rx_next, rx_next_highest, t_status_prohibit, rx,
                       rx_size, hung>>

ProhibitExpired ==
    /\ t_status_prohibit
    /\ t_status_prohibit' = FALSE
    /\ out' = <<>>
    /\ UNCHANGED <<rx_next, rx_next_status_trigger, rx_highest_status,
                   rx_next_highest, status_triggered, t_reassembly, rx,
                   rx_size, hung>>

-----------------------------------------------------------------------------
StatusToReport == status_triggered /\ ~t_status_prohibit

(* generate_pdu, status part: the trigger is reset, t-StatusProhibit set.  *)
GenerateStatus ==
    /\ StatusToReport
    /\ status_triggered' = FALSE
    /\ t_status_prohibit' = TRUE
    /\ out' = <<>>
    /\ UNCHANGED <<rx_next, rx_next_status_trigger, rx_highest_status,
                   rx_next_highest, t_reassembly, rx, rx_size, hung>>

(* reestablishment: clear_entity, receiving part.                          *)
RxReestablish ==
    /\ rx_next' = 0
    /\ rx_next_status_trigger' = 0
    /\ rx_highest_status' = 0
    /\ rx_next_highest' = 0
    /\ status_triggered' = FALSE
    /\ t_reassembly' = FALSE
    /\ t_status_prohibit' = FALSE
    /\ rx' = [i \in 0 .. Window - 1 |-> <<>>]
    /\ rx_size' = 0
    /\ out' = <<>>
    /\ hung' = hung

-----------------------------------------------------------------------------
(* Any data PDU the peer may have built.                                   *)
DataPdus ==
    {[sn |-> sn, so |-> so, size |-> size, data |-> 0, p |-> p] :
        sn \in SN, so \in 0 .. SduSize - 1, size \in 1 .. SduSize, p \in BOOLEAN}

RxNext ==
    /\ ~hung
    /\ \/ \E pdu \in DataPdus : LastByte(pdu) < SduSize /\ RecvPdu(pdu)
       \/ ReassemblyExpired
       \/ ProhibitExpired
       \/ GenerateStatus
       \/ RxReestablish

RxSpec == RxInit /\ [][RxNext]_rxVars

-----------------------------------------------------------------------------
Segments == [so : 0 .. SduSize - 1, size : 1 .. SduSize, data : Int]

(* Types of the receiving side's state.                                    *)
RxTypeOK ==
    /\ {rx_next, rx_next_status_trigger, rx_highest_status, rx_next_highest} \subseteq SN
    /\ {status_triggered, t_reassembly, t_status_prohibit, hung} \subseteq BOOLEAN
    /\ rx \in [0 .. Window - 1 -> Seq(Segments)]
    /\ rx_size \in 0 .. RxMax
    /\ Len(out) <= 1

(***************************************************************************)
(* The state variables of the window keep the order                        *)
(*    rx_next <= rx_highest_status <= rx_next_highest <= rx_next + Window  *)
(* modulo the SN space; a running t-Reassembly has its trigger in there;   *)
(* rx_next and rx_highest_status are not delivered, and nothing is stored  *)
(* at rx_next_highest or above, where an entry would be taken for the SN a *)
(* window below.                                                           *)
(***************************************************************************)
RxOrdered ==
    LET M(sn) == Modulus(rx_next, sn)
    IN  ~hung =>
          /\ M(rx_highest_status) <= M(rx_next_highest)
          /\ M(rx_next_highest) <= Window
          /\ t_reassembly => /\ 0 < M(rx_next_status_trigger)
                             /\ M(rx_next_status_trigger) <= M(rx_next_highest)
          /\ rx[Pos(rx_next)] # Delivered
          /\ rx[Pos(rx_highest_status)] # Delivered
          /\ \A k \in M(rx_next_highest) .. Window - 1 : rx[Pos(rx_next + k)] = <<>>

(***************************************************************************)
(* A gap nobody has reported yet is timed: when an SN above                *)
(* rx_highest_status was received, or rx_highest_status itself lacks       *)
(* bytes, t-Reassembly runs.  Otherwise the peer would hear of the gap     *)
(* only by polling.                                                        *)
(***************************************************************************)
GapTimed ==
    LET unreported ==
          \/ SnCompare(rx_next, rx_next_highest, Plus(rx_highest_status, 1)) > 0
          \/ /\ rx_next_highest = Plus(rx_highest_status, 1)
             /\ SduHasMissingBytes(rx[Pos(rx_highest_status)])
    IN  unreported /\ ~hung => t_reassembly

ReceivedBytes(list) == UNION {Bytes(list[i]) : i \in DOMAIN list}

(* segment_already_received never discards a byte that is not there.       *)
NothingNewDiscarded ==
    \A k \in 0 .. Window - 1, so \in 0 .. SduSize - 1, size \in 1 .. SduSize :
       LET list == rx[Pos(rx_next + k)]
           seg  == [so |-> so, size |-> size]
       IN  so + size <= SduSize /\ AlreadyReceived(list, seg)
             => Bytes(seg) \subseteq ReceivedBytes(list)

(* rx_size, which decides whether a PDU is discarded, counts the bytes of  *)
(* the SDUs not delivered yet: it neither leaks nor underflows.            *)
RxSizeExact ==
    rx_size = Total([i \in 1 .. Window |-> BufferedBytes(rx[i - 1])])

(* The receiving side as a whole: the order of the window that             *)
(* reception_actions keeps, the timer for every gap, and the exact count.  *)
RxConsistent == RxTypeOK /\ RxOrdered /\ GapTimed /\ RxSizeExact

(* reception_actions ends: sdu_delivered "checks that an SDU has already   *)
(* been delivered", so a walk over the delivered SDUs comes to an end.     *)
ReceptionReturns == ~hung

=============================================================================
