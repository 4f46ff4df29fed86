------------------------------ MODULE NrRlcUm -------------------------------
(***************************************************************************)
(* RLC UM (nr_rlc_entity_um.c): the transmitting side of one entity, the   *)
(* receiving side of its peer, and MAC/PHY between them, which loses and   *)
(* reorders.  Only an SDU sent in segments has an SN.                      *)
(***************************************************************************)
EXTENDS NrRlcBase, SequencesExt

CONSTANTS
    Sn12,       \* is sn_field_length 12 (else 6)?
    RxMax,      \* rx_maxsize, in bytes
    TxMax,      \* tx_maxsize, in bytes
    MaxSdus,    \* bound: number of SDUs the upper layer hands over
    Grants,     \* sizes of the PDUs that MAC asks for
    ChanMax     \* bound: PDUs in flight

VARIABLES
    tx_next,
    tx_list,            \* segments [so, size, data]
    tx_size,
    bstatus,            \* common.bstatus.tx_size
    handed,             \* number of SDUs handed over so far
    air,                \* PDUs in flight; none is ever sent twice
    rx_next_highest,
    rx_next_reassembly,
    rx_timer_trigger,
    t_reassembly,       \* t_reassembly_start # 0
    rx_list,            \* segments [sn, so, size, data]
    rx_size,
    delivered           \* history: the bag of the SDUs delivered, each the
                        \* set of the SDUs its bytes come from

txVars == <<tx_next, tx_list, tx_size, bstatus, handed>>
rxVars == <<rx_next_highest, rx_next_reassembly, rx_timer_trigger,
            t_reassembly, rx_list, rx_size>>
vars == <<txVars, rxVars, air, delivered>>

Init ==
    /\ tx_next = 0
    /\ tx_list = <<>>
    /\ tx_size = 0
    /\ bstatus = 0
    /\ handed = 0
    /\ air = {}
    /\ rx_next_highest = 0
    /\ rx_next_reassembly = 0
    /\ rx_timer_trigger = 0
    /\ t_reassembly = FALSE
    /\ rx_list = <<>>
    /\ rx_size = 0
    /\ delivered = EmptyBag

-----------------------------------------------------------------------------
(* compute_pdu_header_size of a whole SDU, and of a segment.               *)
SegmentHeader(so) == (IF Sn12 THEN 2 ELSE 1) + (IF so = 0 THEN 0 ELSE 2)
HeaderSize(seg) ==
    IF IsFirst(seg) /\ IsLast(seg) THEN 1 ELSE SegmentHeader(seg.so)

PduSize(seg) == HeaderSize(seg) + seg.size

(* recv_sdu: the SDU is rejected when the buffer is full.                  *)
RecvSdu ==
    LET sdu == [so |-> 0, size |-> SduSize, data |-> handed]
    IN  /\ handed < MaxSdus
        /\ handed' = handed + 1
        /\ IF tx_size + SduSize > TxMax
           THEN UNCHANGED <<tx_list, tx_size, bstatus>>
           ELSE /\ tx_list' = Append(tx_list, sdu)
                /\ tx_size' = tx_size + SduSize
                /\ bstatus' = bstatus + PduSize(sdu)
        /\ UNCHANGED <<tx_next, rxVars, air, delivered>>

(* The head of tx_list as it is sent when it fits into `size'.             *)
GenerateWhole(size) ==
    LET seg == Head(tx_list)
    IN  /\ tx_list # <<>>
        /\ HeaderSize(seg) + 1 <= size
        /\ PduSize(seg) <= size
        /\ tx_list' = Tail(tx_list)
        /\ bstatus' = bstatus - PduSize(seg)
        /\ tx_size' = tx_size - seg.size
        /\ tx_next' = IF IsFirst(seg) THEN tx_next ELSE Plus(tx_next, 1)
        /\ air' = air \cup {[sn |-> tx_next, so |-> seg.so, size |-> seg.size,
                             data |-> seg.data]}
        /\ UNCHANGED <<handed, rxVars, delivered>>

(***************************************************************************)
(* External: what MAC delays or loses at a stretch stays within a window.  *)
(***************************************************************************)
Recent ==
    /\ \A p \in air : Modulus(p.sn, tx_next) < Window
    /\ Modulus(rx_next_highest, tx_next) < Window

(* Bug: the rest has the header of the part sent.                          *)
GenerateSegmentAsSameHeader(size) ==
    LET seg  == Head(tx_list)
        n    == size - SegmentHeader(seg.so)
        rest == [seg EXCEPT !.so = @ + n, !.size = @ - n]
    IN  /\ tx_list # <<>>
        /\ HeaderSize(seg) + 1 <= size
        /\ PduSize(seg) > size
        /\ n >= 1
        /\ IsFirst(seg) => Recent
        /\ tx_list' = <<rest>> \o Tail(tx_list)
        /\ bstatus' = bstatus - n
        /\ tx_size' = tx_size - n
        /\ air' = air \cup {[sn |-> tx_next, so |-> seg.so, size |-> n,
                             data |-> seg.data]}
        /\ UNCHANGED <<tx_next, handed, rxVars, delivered>>

(* resegment: only a part of it fits.                                      *)
GenerateSegment(size) ==
    LET seg  == Head(tx_list)
        n    == size - SegmentHeader(seg.so)
        rest == [seg EXCEPT !.so = @ + n, !.size = @ - n]
    IN  /\ tx_list # <<>>
        /\ HeaderSize(seg) + 1 <= size
        /\ PduSize(seg) > size
        /\ n >= 1
        /\ IsFirst(seg) => Recent
        /\ tx_list' = <<rest>> \o Tail(tx_list)
        /\ bstatus' = bstatus - PduSize(seg) + PduSize(rest)
        /\ tx_size' = tx_size - n
        /\ air' = air \cup {[sn |-> tx_next, so |-> seg.so, size |-> n,
                             data |-> seg.data]}
        /\ UNCHANGED <<tx_next, handed, rxVars, delivered>>

(***************************************************************************)
(* Room for the short header of a whole SDU and a byte, but not for the    *)
(* longer header of its first segment: the SDU has left the list, resegment*)
(* returns NULL, and nothing is sent.                                      *)
(***************************************************************************)
GenerateNothing(size) ==
    LET seg == Head(tx_list)
    IN  /\ tx_list # <<>>
        /\ HeaderSize(seg) + 1 <= size
        /\ PduSize(seg) > size
        /\ SegmentHeader(seg.so) + 1 > size
        /\ tx_list' = Tail(tx_list)
        /\ bstatus' = bstatus - PduSize(seg)
        /\ UNCHANGED <<tx_next, tx_size, handed, rxVars, air, delivered>>

GeneratePdu(size) ==
    /\ Cardinality(air) < ChanMax
    /\ GenerateWhole(size) \/ GenerateSegment(size) \/ GenerateNothing(size)

(* discard_sdu: only an SDU of which nothing has been sent; tx_size stays. *)
DiscardSdu(d) ==
    LET Is(s) == s.data = d
    IN  /\ \E s \in ToSet(tx_list) : Is(s) /\ IsFirst(s) /\ IsLast(s)
        /\ tx_list' = SelectSeq(tx_list, LAMBDA s : ~Is(s))
        /\ bstatus' = bstatus - PduSize(SelectSeq(tx_list, Is)[1])
        /\ UNCHANGED <<tx_next, tx_size, handed, rxVars, air, delivered>>

-----------------------------------------------------------------------------
NULL == -1

(* sn_compare_rx: the modulus base is rx_next_highest - window_size.       *)
Compare(highest, a, b) == SnCompare(highest - Window, a, b)

Of(list, sn) == SelectSeq(list, LAMBDA s : s.sn = sn)

SduDelivered(list, sn) == Of(list, sn) # <<>> /\ Of(list, sn)[1].data = NULL

(* The first n segments leave no byte out before the last one they have.   *)
Contiguous(segs, n) ==
    \A i \in 1 .. n :
       segs[i].so = 0 \/ \E j \in 1 .. i - 1 : segs[i].so <= LastByte(segs[j]) + 1

SduFull(list, sn) ==
    /\ ~SduDelivered(list, sn)
    /\ \E n \in DOMAIN Of(list, sn) :
          IsLast(Of(list, sn)[n]) /\ Contiguous(Of(list, sn), n)

SduHasMissingBytes(list, sn) ==
    ~SduDelivered(list, sn) /\ ~Contiguous(Of(list, sn), Len(Of(list, sn)))

(* The first SN from sn on that is not delivered.                          *)
NotDelivered(list, sn) ==
    Plus(sn, CHOOSE n \in 0 .. SnMod - 1 :
               /\ ~SduDelivered(list, Plus(sn, n))
               /\ \A k \in 0 .. n - 1 : SduDelivered(list, Plus(sn, k)))

(* nr_rlc_pdu_list_add: by sn, then by so.                                 *)
ListAdd(list, pdu) ==
    LET After(s) == \/ Compare(rx_next_highest, s.sn, pdu.sn) > 0
                    \/ s.sn = pdu.sn /\ s.so > pdu.so
        k == SelectInSeq(list, After)
    IN  IF k = 0 THEN Append(list, pdu) ELSE InsertAt(list, k, pdu)

BytesIn(list) == FoldLeft(LAMBDA n, s : n + s.size, 0, list)

(* Bug: the window is one SN too large.                                    *)
InWindowAsOffByOne(list, highest) ==
    LET k == SelectInSeq(list, LAMBDA s : Compare(highest, s.sn, highest) <= 0)
    IN  IF k = 0 THEN <<>> ELSE SubSeq(list, k, Len(list))

(* The list from the first segment on that is in the reassembly window.    *)
InWindow(list, highest) ==
    LET k == SelectInSeq(list, LAMBDA s : Compare(highest, s.sn, highest) < 0)
    IN  IF k = 0 THEN <<>> ELSE SubSeq(list, k, Len(list))

AcceptPdu(pdu) ==
    /\ rx_size + pdu.size <= RxMax
    /\ Compare(rx_next_highest, pdu.sn, rx_next_reassembly) >= 0

(* Bug: t-Reassembly runs on when nothing is missing any more.             *)
UpdateReassemblyAsNeverStopped ==
    LET start == /\ ~t_reassembly
                 /\ \/ Compare(rx_next_highest', rx_next_highest',
                               Plus(rx_next_reassembly', 1)) > 0
                    \/ /\ rx_next_highest' = Plus(rx_next_reassembly', 1)
                       /\ SduHasMissingBytes(rx_list', rx_next_reassembly')
    IN  /\ t_reassembly' = (t_reassembly \/ start)
        /\ rx_timer_trigger' = IF start THEN rx_next_highest' ELSE rx_timer_trigger

(* The two trailing t-Reassembly blocks of reception_actions.              *)
UpdateReassembly ==
    LET Cmp(a, b) == Compare(rx_next_highest', a, b)
        next      == rx_next_highest' = Plus(rx_next_reassembly', 1)
        missing   == SduHasMissingBytes(rx_list', rx_next_reassembly')
        stop      == \/ Cmp(rx_timer_trigger, rx_next_reassembly') <= 0
                     \/ Cmp(rx_timer_trigger, rx_next_highest') > 0
                     \/ next /\ ~missing
        running   == t_reassembly /\ ~stop
        start     == /\ ~running
                     /\ \/ Cmp(rx_next_highest', Plus(rx_next_reassembly', 1)) > 0
                        \/ next /\ missing
    IN  /\ t_reassembly' = (running \/ start)
        /\ rx_timer_trigger' = IF start THEN rx_next_highest' ELSE rx_timer_trigger

(* recv_pdu with a whole SDU: delivered without more ado.                  *)
RecvWhole(pdu) ==
    /\ IsFirst(pdu) /\ IsLast(pdu)
    /\ delivered' = delivered (+) SetToBag({{pdu.data}})
    /\ UNCHANGED rxVars

Discard(pdu) ==
    /\ ~(IsFirst(pdu) /\ IsLast(pdu))
    /\ ~AcceptPdu(pdu)
    /\ UNCHANGED <<rxVars, delivered>>

(* recv_pdu with the segment that completes an SDU.                        *)
RecvLast(pdu) ==
    LET list == ListAdd(rx_list, pdu)
        done == Of(list, pdu.sn)
    IN  /\ ~(IsFirst(pdu) /\ IsLast(pdu))
        /\ AcceptPdu(pdu)
        /\ SduFull(list, pdu.sn)
        /\ delivered' = delivered (+) SetToBag({{s.data : s \in ToSet(done)}})
        /\ rx_size' = rx_size + pdu.size - BytesIn(done)
        /\ rx_list' = [i \in DOMAIN list |->
                         IF list[i].sn = pdu.sn
                         THEN [list[i] EXCEPT !.size = 0, !.data = NULL]
                         ELSE list[i]]
        /\ rx_next_reassembly' = IF pdu.sn = rx_next_reassembly
                                 THEN NotDelivered(rx_list', pdu.sn)
                                 ELSE rx_next_reassembly
        /\ UNCHANGED rx_next_highest
        /\ UpdateReassembly

(* Bug: what falls out of the window stays counted.                        *)
MoveWindowAsLeak(pdu) ==
    LET list    == ListAdd(rx_list, pdu)
        highest == Plus(pdu.sn, 1)
        kept    == InWindow(list, highest)
    IN  /\ rx_next_highest' = highest
        /\ rx_list' = kept
        /\ rx_size' = rx_size + pdu.size
        /\ rx_next_reassembly' =
              IF Compare(highest, rx_next_reassembly, highest) >= 0
              THEN NotDelivered(kept, Plus(highest, -Window))
              ELSE rx_next_reassembly

(* An SN at rx_next_highest or above moves the reassembly window.          *)
MoveWindow(pdu) ==
    LET list    == ListAdd(rx_list, pdu)
        highest == Plus(pdu.sn, 1)
        kept    == InWindow(list, highest)
    IN  /\ rx_next_highest' = highest
        /\ rx_list' = kept
        /\ rx_size' = rx_size + pdu.size - (BytesIn(list) - BytesIn(kept))
        /\ rx_next_reassembly' =
              IF Compare(highest, rx_next_reassembly, highest) >= 0
              THEN NotDelivered(kept, Plus(highest, -Window))
              ELSE rx_next_reassembly

(* recv_pdu with a segment that leaves its SDU incomplete.                 *)
RecvSegment(pdu) ==
    /\ ~(IsFirst(pdu) /\ IsLast(pdu))
    /\ AcceptPdu(pdu)
    /\ ~SduFull(ListAdd(rx_list, pdu), pdu.sn)
    /\ IF Compare(rx_next_highest, pdu.sn, rx_next_highest) >= 0
       THEN MoveWindow(pdu)
       ELSE /\ rx_list' = ListAdd(rx_list, pdu)
            /\ rx_size' = rx_size + pdu.size
            /\ UNCHANGED <<rx_next_highest, rx_next_reassembly>>
    /\ UpdateReassembly
    /\ UNCHANGED delivered

RecvPdu(pdu) ==
    RecvWhole(pdu) \/ Discard(pdu) \/ RecvLast(pdu) \/ RecvSegment(pdu)

Arrives(pdu) ==
    /\ air' = air \ {pdu}
    /\ RecvPdu(pdu)
    /\ UNCHANGED txVars

Lost(pdu) == air' = air \ {pdu} /\ UNCHANGED <<txVars, rxVars, delivered>>

(* Bug: t-Reassembly is not started again for a newer gap.                 *)
ReassemblyExpiredAsLast ==
    LET next == NotDelivered(rx_list, rx_timer_trigger)
        k    == SelectInSeq(rx_list,
                            LAMBDA s : Compare(rx_next_highest, s.sn, next) >= 0)
    IN  /\ t_reassembly
        /\ t_reassembly' = FALSE
        /\ rx_next_reassembly' = next
        /\ rx_list' = IF k = 0 THEN <<>> ELSE SubSeq(rx_list, k, Len(rx_list))
        /\ UNCHANGED <<txVars, air, rx_next_highest, rx_size, rx_timer_trigger,
                       delivered>>

(***************************************************************************)
(* check_t_reassembly, t-Reassembly having expired: SDUs below the trigger *)
(* are given up.  rx_size still counts their bytes, and the last test adds *)
(* one to rx_next_reassembly without the modulus.                          *)
(***************************************************************************)
ReassemblyExpired ==
    LET next  == NotDelivered(rx_list, rx_timer_trigger)
        k     == SelectInSeq(rx_list,
                             LAMBDA s : Compare(rx_next_highest, s.sn, next) >= 0)
        start == \/ Compare(rx_next_highest, rx_next_highest, Plus(next, 1)) > 0
                 \/ rx_next_highest = next + 1 /\ SduHasMissingBytes(rx_list', next)
    IN  /\ t_reassembly
        /\ rx_next_reassembly' = next
        /\ rx_list' = IF k = 0 THEN <<>> ELSE SubSeq(rx_list, k, Len(rx_list))
        /\ t_reassembly' = start
        /\ rx_timer_trigger' = IF start THEN rx_next_highest ELSE rx_timer_trigger
        /\ UNCHANGED <<txVars, air, rx_next_highest, rx_size, delivered>>

(* reestablishment of both ends; MAC is reset.                             *)
Reestablish ==
    /\ tx_next' = 0
    /\ tx_list' = <<>>
    /\ tx_size' = 0
    /\ bstatus' = 0
    /\ air' = {}
    /\ rx_next_highest' = 0
    /\ rx_next_reassembly' = 0
    /\ rx_timer_trigger' = 0
    /\ t_reassembly' = FALSE
    /\ rx_list' = <<>>
    /\ rx_size' = 0
    /\ UNCHANGED <<handed, delivered>>

Next ==
    \/ RecvSdu
    \/ \E size \in Grants : GeneratePdu(size)
    \/ \E d \in 0 .. MaxSdus - 1 : DiscardSdu(d)
    \/ \E pdu \in air : Arrives(pdu) \/ Lost(pdu)
    \/ ReassemblyExpired
    \/ Reestablish

Spec == Init /\ [][Next]_vars

-----------------------------------------------------------------------------
(* Types of the state.                                                     *)
UmTypeOK ==
    /\ {tx_next, rx_next_highest, rx_next_reassembly, rx_timer_trigger} \subseteq SN
    /\ t_reassembly \in BOOLEAN
    /\ tx_size \in 0 .. TxMax
    /\ rx_size \in 0 .. RxMax
    /\ bstatus \in Nat
    /\ handed \in 0 .. MaxSdus
    /\ tx_list \in Seq([so : 0 .. SduSize - 1, size : 1 .. SduSize,
                        data : 0 .. MaxSdus - 1])
    /\ rx_list \in Seq([sn : SN, so : 0 .. SduSize - 1, size : 0 .. SduSize,
                        data : -1 .. MaxSdus - 1])

(***************************************************************************)
(* Every SDU is delivered at most once, and a reassembled one is made of   *)
(* the segments of one SDU although SNs are used again and segments of     *)
(* SDUs that were given up may still be in flight.                         *)
(***************************************************************************)
UmDeliveredIntact ==
    \A s \in BagToSet(delivered) : Cardinality(s) = 1 /\ CopiesIn(s, delivered) = 1

(***************************************************************************)
(* rx_next_reassembly lies in the reassembly window or is rx_next_highest, *)
(* and is not delivered; the list is sorted and within the window, which   *)
(* the walks from its head rely on; a running timer has its trigger above  *)
(* rx_next_reassembly.                                                     *)
(***************************************************************************)
UmRxOrdered ==
    LET Cmp(a, b) == Compare(rx_next_highest, a, b)
    IN  /\ Cmp(rx_next_reassembly, rx_next_highest) <= 0
        /\ ~SduDelivered(rx_list, rx_next_reassembly)
        /\ \A i \in DOMAIN rx_list : Cmp(rx_list[i].sn, rx_next_highest) < 0
        /\ \A i, j \in DOMAIN rx_list : i < j =>
              \/ Cmp(rx_list[i].sn, rx_list[j].sn) < 0
              \/ rx_list[i].sn = rx_list[j].sn /\ rx_list[i].so < rx_list[j].so
        /\ t_reassembly => /\ Cmp(rx_next_reassembly, rx_timer_trigger) < 0
                           /\ Cmp(rx_timer_trigger, rx_next_highest) <= 0

(***************************************************************************)
(* A gap is timed: when an SN above rx_next_reassembly was received, or    *)
(* rx_next_reassembly itself lacks bytes, t-Reassembly runs, so that the   *)
(* SDUs held back by the gap are given up in the end.  The exception is    *)
(* the SN before the wrap-around, whose timer is not restarted.            *)
(***************************************************************************)
UmGapTimed ==
    \/ t_reassembly
    \/ Compare(rx_next_highest, rx_next_highest, Plus(rx_next_reassembly, 1)) < 0
    \/ /\ rx_next_highest = Plus(rx_next_reassembly, 1)
       /\ \/ ~SduHasMissingBytes(rx_list, rx_next_reassembly)
          \/ rx_next_reassembly = SnMod - 1

(* The buffer status given to the scheduler is the size of the PDUs that   *)
(* tx_list makes up, after any segmentation or discard.                    *)
UmBufferStatusExact == bstatus = FoldLeft(LAMBDA n, s : n + PduSize(s), 0, tx_list)

(***************************************************************************)
(* rx_size, on which "RX buffer full" is decided, follows the bytes in the *)
(* list through reception, delivery, window moves and re-establishment.    *)
(* Only the segments given up at an expiry of t-Reassembly stay counted.   *)
(***************************************************************************)
UmRxSizeFollows ==
    [][ \/ rx_size' - BytesIn(rx_list') = rx_size - BytesIn(rx_list)
        \/ rx_size' = 0 /\ rx_list' = <<>>
        \/ t_reassembly /\ rx_size' = rx_size /\ UNCHANGED <<air, tx_list>> ]_vars

(* The entity as a whole: the reassembly window that reception_actions     *)
(* keeps in order, the timer for every gap, and the exact buffer status.   *)
UmConsistent == UmTypeOK /\ UmRxOrdered /\ UmGapTimed /\ UmBufferStatusExact

=============================================================================
