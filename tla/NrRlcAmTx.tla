----------------------------- MODULE NrRlcAmTx ------------------------------
(***************************************************************************)
(* The transmitting side of an RLC AM entity (nr_rlc_entity_am.c): the     *)
(* lists of SDU segments to send, sent and waiting for an acknowledgement, *)
(* and to send again; the transmission window; polling; t-PollRetransmit;  *)
(* the processing of STATUS PDUs; the buffer status reported to MAC.       *)
(*                                                                         *)
(* A segment here is [sn, so, size, data]; sn is -1 until the first byte   *)
(* of the SDU is sent.  ref_count - free_count of an SDU is the number of  *)
(* its segments in the three lists.  wait_end and tx_end are the last      *)
(* elements of their lists.  Left out: retx_count and max_retx_reached     *)
(* (radio link failure, no effect on the entity), byte_without_poll        *)
(* (poll_byte is configured infinite) and statistics.                      *)
(***************************************************************************)
EXTENDS NrRlcBase, Lists, Functions

CONSTANTS
    TxMax,      \* tx_maxsize, in bytes
    MaxSdus,    \* bound: number of SDUs the upper layer hands over
    Grants,     \* sizes of the PDUs that MAC asks for
    PollPdu     \* poll_pdu, 0 stands for infinity (-1 in the code)

ASSUME TxConstants == /\ TxMax \in Nat
                      /\ MaxSdus \in Nat
                      /\ Grants \subseteq Nat
                      /\ PollPdu \in Nat

VARIABLES
    tx_next,
    tx_next_ack,
    poll_sn,
    pdu_without_poll,
    force_poll,
    t_poll_retransmit,  \* t_poll_retransmit_start # 0
    tx_list,
    wait_list,
    retransmit_list,
    tx_size,
    bstatus,            \* common.bstatus.tx_size and .retx_size
    handed,             \* number of SDUs handed over so far
    acked,              \* history: SDUs reported by sdu_successful_delivery
    null_wait_list      \* t-PollRetransmit expired with an empty wait list

txVars == <<tx_next, tx_next_ack, poll_sn, pdu_without_poll, force_poll,
            t_poll_retransmit, tx_list, wait_list, retransmit_list, tx_size,
            bstatus, handed, acked, null_wait_list>>

pollVars == <<poll_sn, pdu_without_poll, force_poll, t_poll_retransmit>>

TxInit ==
    /\ tx_next = 0
    /\ tx_next_ack = 0
    /\ poll_sn = 0
    /\ pdu_without_poll = 0
    /\ force_poll = FALSE
    /\ t_poll_retransmit = FALSE
    /\ tx_list = <<>>
    /\ wait_list = <<>>
    /\ retransmit_list = <<>>
    /\ tx_size = 0
    /\ bstatus = [tx |-> 0, retx |-> 0]
    /\ handed = 0
    /\ acked = {}
    /\ null_wait_list = FALSE

-----------------------------------------------------------------------------
(* compute_pdu_header_size with a 12 bit SN: the SO field takes two bytes. *)
HeaderSize(seg) == IF IsFirst(seg) THEN 2 ELSE 4

PduSize(seg) == HeaderSize(seg) + seg.size

(* Order of the wait and the retransmit list: by sn, then by so.           *)
Before(a, b) ==
    \/ SnCompare(tx_next_ack, a.sn, b.sn) < 0
    \/ a.sn = b.sn /\ a.so < b.so

(* nr_rlc_tx_sdu_segment_list_add, and the append that short-cuts it: the  *)
(* segment goes in front of the first one that it is before.               *)
ListAdd(list, seg) ==
    LET n == CHOOSE n \in 0 .. Len(list) :
                /\ \A i \in 1 .. n : ~Before(seg, list[i])
                /\ n < Len(list) => Before(seg, list[n + 1])
    IN  InsertAfter(list, n, seg)

(* The list with the first n of segs added one by one, for every n.        *)
AddedTo(list, segs) ==
    LET added[n \in 0 .. Len(segs)] ==
          IF n = 0 THEN list ELSE ListAdd(added[n - 1], segs[n])
    IN  added
ListAddAll(list, segs) == AddedTo(list, segs)[Len(segs)]

(* Bug: one SN too many.                                                   *)
StallingAsOffByOne(next) == Modulus(tx_next_ack, next) > Window

(* tx_next is not in tx_next_ack .. tx_next_ack + window_size - 1.         *)
Stalling(next) == Modulus(tx_next_ack, next) >= Window

(* Bug: no poll with the last PDU.                                         *)
PollAfterAssemblyAsStalling(txl, retxl, next) == Stalling(next)

(* check_poll_after_pdu_assembly.                                          *)
PollAfterAssembly(txl, retxl, next) == (txl = <<>> /\ retxl = <<>>) \/ Stalling(next)

(* Bug: the buffer status leaves out the header.                           *)
RecvSduFromUpperAsPayload ==
    LET sdu == [sn |-> -1, so |-> 0, size |-> SduSize, data |-> handed]
    IN  /\ handed < MaxSdus
        /\ tx_size + SduSize <= TxMax
        /\ handed' = handed + 1
        /\ tx_size' = tx_size + SduSize
        /\ tx_list' = Append(tx_list, sdu)
        /\ bstatus' = [bstatus EXCEPT !.tx = @ + SduSize]
        /\ UNCHANGED <<tx_next, tx_next_ack, pollVars, wait_list,
                       retransmit_list, acked, null_wait_list>>

(* recv_sdu: the SDU is rejected when the buffer is full.                  *)
RecvSduFromUpper ==
    LET sdu == [sn |-> -1, so |-> 0, size |-> SduSize, data |-> handed]
    IN  /\ handed < MaxSdus
        /\ tx_size + SduSize <= TxMax
        /\ handed' = handed + 1
        /\ tx_size' = tx_size + SduSize
        /\ tx_list' = Append(tx_list, sdu)
        /\ bstatus' = [bstatus EXCEPT !.tx = @ + PduSize(sdu)]
        /\ UNCHANGED <<tx_next, tx_next_ack, pollVars, wait_list,
                       retransmit_list, acked, null_wait_list>>

(* resegment: the bytes of seg that fit into `size', and the others.       *)
Fits(seg, size) == HeaderSize(seg) + 1 <= size
Sent(seg, size) ==
    [seg EXCEPT !.size = IF PduSize(seg) > size THEN size - HeaderSize(seg) ELSE @]
Left(seg, size) ==
    IF PduSize(seg) <= size THEN <<>>
    ELSE LET n == size - HeaderSize(seg)
         IN  <<[seg EXCEPT !.so = @ + n, !.size = @ - n]>>

(* The SDUs that have a segment in one of the lists.                       *)
SdusIn(lists) == {s.data : s \in UNION {Range(lists[l]) : l \in DOMAIN lists}}

BytesOf(segs) == Total([i \in DOMAIN segs |-> PduSize(segs[i])])

(* force_poll, then include_poll when the PDU carries the poll bit.        *)
Polling(p, count) ==
    IF p
    THEN /\ pdu_without_poll' = 0
         /\ poll_sn' = Plus(tx_next', -1)
         /\ t_poll_retransmit' = TRUE
         /\ force_poll' = FALSE
    ELSE /\ pdu_without_poll' = count
         /\ UNCHANGED <<poll_sn, t_poll_retransmit, force_poll>>

DataPdu(seg, p) ==
    [sn |-> seg.sn, so |-> seg.so, size |-> seg.size, data |-> seg.data, p |-> p]

CanRetransmit(size) ==
    retransmit_list # <<>> /\ Fits(Head(retransmit_list), size)

(* The retransmit list after generate_retx_pdu, and the poll bit.          *)
RetxLeft(size) == Left(Head(retransmit_list), size) \o Tail(retransmit_list)
RetxPoll(size) == force_poll \/ PollAfterAssembly(tx_list, RetxLeft(size), tx_next)

GenerateRetx(size) ==
    LET seg == Head(retransmit_list)
    IN  /\ CanRetransmit(size)
        /\ retransmit_list' = RetxLeft(size)
        /\ bstatus' = [bstatus EXCEPT
                         !.retx = @ - PduSize(seg) + BytesOf(Left(seg, size))]
        /\ wait_list' = ListAdd(wait_list, Sent(seg, size))
        /\ UNCHANGED <<tx_next, tx_next_ack, tx_list, tx_size, handed, acked,
                       null_wait_list>>
        /\ Polling(RetxPoll(size), pdu_without_poll)

(* The head of tx_list with its SN; the state after generate_tx_pdu.       *)
TxSeg == [Head(tx_list) EXCEPT !.sn = IF @ = -1 THEN tx_next ELSE @]
TxLeft(size) == Left(TxSeg, size) \o Tail(tx_list)
TxNextAfter == IF Head(tx_list).sn = -1 THEN Plus(tx_next, 1) ELSE tx_next
TxPoll(size) ==
    \/ force_poll
    \/ PollPdu # 0 /\ pdu_without_poll + 1 >= PollPdu
    \/ PollAfterAssembly(TxLeft(size), retransmit_list, TxNextAfter)

(***************************************************************************)
(* generate_tx_pdu: new data, unless the window stalls.  generate_pdu also *)
(* comes here when the head of the retransmit list does not fit.           *)
(***************************************************************************)
GenerateTx(size) ==
    /\ ~CanRetransmit(size)
    /\ ~Stalling(tx_next)
    /\ tx_list # <<>>
    /\ Fits(TxSeg, size)
    /\ tx_list' = TxLeft(size)
    /\ bstatus' = [bstatus EXCEPT
                     !.tx = @ - PduSize(TxSeg) + BytesOf(Left(TxSeg, size))]
    /\ tx_next' = TxNextAfter
    /\ wait_list' = ListAdd(wait_list, Sent(TxSeg, size))
    /\ UNCHANGED <<tx_next_ack, retransmit_list, tx_size, handed, acked,
                   null_wait_list>>
    /\ Polling(TxPoll(size), IF PollPdu = 0 THEN 0 ELSE pdu_without_poll + 1)

(* generate_pdu, data part, for a PDU of `size' bytes, and the PDU.        *)
GeneratePdu(size) == GenerateRetx(size) \/ GenerateTx(size)

GeneratedPdu(size) ==
    IF CanRetransmit(size)
    THEN DataPdu(Sent(Head(retransmit_list), size), RetxPoll(size))
    ELSE DataPdu(Sent(TxSeg, size), TxPoll(size))

-----------------------------------------------------------------------------
(***************************************************************************)
(* process_control_pdu.  A NACK is [sn, so_start, sn_end, so_end], END the *)
(* end of an SDU; only the first SN of a range starts at so_start and only *)
(* the last one ends at so_end.                                            *)
(***************************************************************************)
Range_(nack) == Modulus(nack.sn, nack.sn_end) + 1

(* The NACKs of one SN each, in the order in which the loop meets them.    *)
Unfold(nack) ==
    [i \in 1 .. Range_(nack) |->
       [sn       |-> Plus(nack.sn, i - 1),
        so_start |-> IF i = 1 THEN nack.so_start ELSE 0,
        so_end   |-> IF i = Range_(nack) THEN nack.so_end ELSE END]]

AllNacks(st) == UNION {Range(Unfold(st.nacks[n])) : n \in DOMAIN st.nacks}

(***************************************************************************)
(* The first pass: the whole PDU is dropped when ack_sn is not in          *)
(* tx_next_ack .. tx_next or a NACK lies above ack_sn.  (The order of the  *)
(* NACKs is not checked: prev_nack_sn keeps its initial value.)            *)
(***************************************************************************)
ValidStatus(st) ==
    /\ SnCompare(tx_next_ack, st.ack_sn, tx_next) <= 0
    /\ \A nack \in AllNacks(st) : SnCompare(tx_next_ack, nack.sn, st.ack_sn) <= 0

(* Bug: a NACK that starts before the segment is overlooked.               *)
OverlapsAsInside(nack, seg) == nack.so_start \in Bytes(seg)

(* so_overlap with the segment.                                            *)
Overlaps(nack, seg) ==
    IF nack.so_start < seg.so THEN nack.so_end = END \/ nack.so_end >= seg.so
    ELSE nack.so_start <= LastByte(seg)

Nacked(st, seg) ==
    \E nack \in AllNacks(st) : nack.sn = seg.sn /\ Overlaps(nack, seg)

(* Bug: ack_sn itself counts as acknowledged.                              *)
BelowAsUpTo(seg, sn) == SnCompare(tx_next_ack, seg.sn, sn) <= 0

Below(seg, sn) == SnCompare(tx_next_ack, seg.sn, sn) < 0

(* Bug: any STATUS PDU stops t-PollRetransmit.                             *)
PollAnsweredAsAny(st) == TRUE

(* t-PollRetransmit stops when poll_sn is acknowledged, positively or not. *)
PollAnswered(st) ==
    \/ SnCompare(tx_next_ack, poll_sn, st.ack_sn) < 0
    \/ \E n \in DOMAIN st.nacks :
          LET nack == st.nacks[n]
          IN  /\ SnCompare(tx_next_ack, nack.sn, poll_sn) <= 0
              /\ SnCompare(tx_next_ack, poll_sn, Plus(nack.sn, Range_(nack))) < 0

(* The smallest, from tx_next_ack on.                                      *)
Lowest(sns) ==
    CHOOSE sn \in sns : \A other \in sns : SnCompare(tx_next_ack, sn, other) <= 0

(* Bug: the lists are not looked at.                                       *)
HeadsAsNone(list) == {}

Heads(list) == IF list = <<>> THEN {} ELSE {list[1].sn}

(***************************************************************************)
(* The second pass walks the wait and the retransmit list side by side,    *)
(* both in the order of the NACKs.  A NACKed segment goes to, or stays in, *)
(* the retransmit list; any other one below ack_sn is acknowledged and     *)
(* freed, and an SDU with no segment left is reported as delivered.        *)
(***************************************************************************)
RecvStatus(st) ==
    LET sent   == Range(wait_list) \cup Range(retransmit_list)
        nacked == {s \in sent : Nacked(st, s)}
        above  == {s \in sent : ~Below(s, st.ack_sn)}
        again  == Keep(wait_list, nacked)
        keep   == Keep(retransmit_list, nacked \cup above)
        gone   == {s.data : s \in sent \ (nacked \cup above)}
        freed  == gone \ SdusIn(<<tx_list, wait_list', retransmit_list'>>)
    IN  /\ ValidStatus(st)
        /\ wait_list' = Keep(wait_list, above \ nacked)
        /\ retransmit_list' = ListAddAll(keep, again)
        /\ bstatus' = [bstatus EXCEPT !.retx = @ + BytesOf(again)
                           - (BytesOf(retransmit_list) - BytesOf(keep))]
        /\ acked' = acked \cup freed
        /\ tx_size' = tx_size - SduSize * Cardinality(freed)
        /\ t_poll_retransmit' = (t_poll_retransmit /\ ~PollAnswered(st))
        /\ tx_next_ack' = Lowest({tx_next, st.ack_sn} \cup Heads(wait_list')
                                    \cup Heads(retransmit_list'))
        /\ UNCHANGED <<tx_next, poll_sn, pdu_without_poll, force_poll, tx_list,
                       handed, null_wait_list>>

DropStatus(st) == ~ValidStatus(st) /\ UNCHANGED txVars

-----------------------------------------------------------------------------
(* check_t_poll_retransmit, expired, nothing to send again.                *)
PollExpiredBusy ==
    /\ t_poll_retransmit
    /\ ~PollAfterAssembly(tx_list, retransmit_list, tx_next)
    /\ t_poll_retransmit' = FALSE
    /\ force_poll' = TRUE
    /\ UNCHANGED <<tx_next, tx_next_ack, poll_sn, pdu_without_poll, tx_list,
                   wait_list, retransmit_list, tx_size, bstatus, handed, acked,
                   null_wait_list>>

(* Bug: the segments also stay in the wait list.                           *)
PollExpiredRetransmitAsCopy ==
    LET ofFirst == {s \in Range(wait_list) : s.sn = wait_list[1].sn}
        first   == Keep(wait_list, ofFirst)
    IN  /\ t_poll_retransmit
        /\ PollAfterAssembly(tx_list, retransmit_list, tx_next)
        /\ wait_list # <<>>
        /\ t_poll_retransmit' = FALSE
        /\ force_poll' = TRUE
        /\ retransmit_list' = ListAddAll(retransmit_list, first)
        /\ bstatus' = [bstatus EXCEPT !.retx = @ + BytesOf(first)]
        /\ UNCHANGED <<tx_next, tx_next_ack, poll_sn, pdu_without_poll, tx_list,
                       wait_list, tx_size, handed, acked, null_wait_list>>

(* The same when all segments of the first SDU that waits are sent again.  *)
PollExpiredRetransmit ==
    LET ofFirst == {s \in Range(wait_list) : s.sn = wait_list[1].sn}
        first   == Keep(wait_list, ofFirst)
    IN  /\ t_poll_retransmit
        /\ PollAfterAssembly(tx_list, retransmit_list, tx_next)
        /\ wait_list # <<>>
        /\ t_poll_retransmit' = FALSE
        /\ force_poll' = TRUE
        /\ wait_list' = Keep(wait_list, Range(wait_list) \ ofFirst)
        /\ retransmit_list' = ListAddAll(retransmit_list, first)
        /\ bstatus' = [bstatus EXCEPT !.retx = @ + BytesOf(first)]
        /\ UNCHANGED <<tx_next, tx_next_ack, poll_sn, pdu_without_poll, tx_list,
                       tx_size, handed, acked, null_wait_list>>

(* The same when no SDU waits: the code uses the head of the empty list.   *)
PollExpiredNoSdu ==
    /\ t_poll_retransmit
    /\ PollAfterAssembly(tx_list, retransmit_list, tx_next)
    /\ wait_list = <<>>
    /\ null_wait_list' = TRUE
    /\ UNCHANGED <<tx_next, tx_next_ack, pollVars, tx_list, wait_list,
                   retransmit_list, tx_size, bstatus, handed, acked>>

PollExpired == PollExpiredBusy \/ PollExpiredRetransmit \/ PollExpiredNoSdu

(* Bug: tx_size still counts the SDU.                                      *)
DiscardSduAsUncounted(d) ==
    LET of == {s \in Range(tx_list) : s.data = d}
    IN  /\ \E s \in of : IsFirst(s) /\ IsLast(s)
        /\ tx_list' = Keep(tx_list, Range(tx_list) \ of)
        /\ bstatus' = [bstatus EXCEPT !.tx = @ - BytesOf(Keep(tx_list, of))]
        /\ UNCHANGED <<tx_next, tx_next_ack, pollVars, wait_list,
                       retransmit_list, handed, acked, tx_size, null_wait_list>>

(* discard_sdu: only an SDU of which nothing has been sent.                *)
DiscardSdu(d) ==
    LET of == {s \in Range(tx_list) : s.data = d}
    IN  /\ \E s \in of : IsFirst(s) /\ IsLast(s)
        /\ tx_list' = Keep(tx_list, Range(tx_list) \ of)
        /\ bstatus' = [bstatus EXCEPT !.tx = @ - BytesOf(Keep(tx_list, of))]
        /\ tx_size' = tx_size - SduSize
        /\ UNCHANGED <<tx_next, tx_next_ack, pollVars, wait_list,
                       retransmit_list, handed, acked, null_wait_list>>

(* reestablishment: clear_entity, transmitting part.                       *)
TxReestablish ==
    /\ tx_next' = 0
    /\ tx_next_ack' = 0
    /\ poll_sn' = 0
    /\ pdu_without_poll' = 0
    /\ force_poll' = FALSE
    /\ t_poll_retransmit' = FALSE
    /\ tx_list' = <<>>
    /\ wait_list' = <<>>
    /\ retransmit_list' = <<>>
    /\ tx_size' = 0
    /\ bstatus' = [tx |-> 0, retx |-> 0]
    /\ UNCHANGED <<handed, acked, null_wait_list>>

-----------------------------------------------------------------------------
(***************************************************************************)
(* A peer that may report anything about the SDUs sent completely so far:  *)
(* any ack_sn, stale ones included, and at most one NACK below it.  (What  *)
(* happens when it reports on an SDU still in tx_list: NrRlcAmLink.)       *)
(***************************************************************************)
Statuses ==
    LET nacks == [sn : SN, so_start : 0 .. SduSize - 1,
                  sn_end : SN, so_end : {END} \cup 0 .. SduSize - 2]
        Sane(ack, n) ==
          /\ SnCompare(tx_next_ack, n.sn, n.sn_end) <= 0
          /\ SnCompare(tx_next_ack, n.sn_end, ack) < 0
          /\ n.sn = n.sn_end /\ n.so_end # END => n.so_start <= n.so_end
        acks == {ack \in SN : \A s \in Range(tx_list) :
                    s.sn # -1 => SnCompare(tx_next_ack, ack, s.sn) <= 0}
    IN  UNION {{[ack_sn |-> ack, nacks |-> l] :
                   l \in {<<>>} \cup {<<n>> : n \in {m \in nacks : Sane(ack, m)}}}
               : ack \in acks}

TxNext ==
    /\ ~null_wait_list
    /\ \/ RecvSduFromUpper
       \/ \E size \in Grants : GeneratePdu(size)
       \/ \E st \in Statuses : RecvStatus(st) \/ DropStatus(st)
       \/ PollExpired
       \/ \E d \in 0 .. MaxSdus - 1 : DiscardSdu(d)
       \/ TxReestablish

TxSpec == TxInit /\ [][TxNext]_txVars

-----------------------------------------------------------------------------
TxSegments == [sn : SN \cup {-1}, so : 0 .. SduSize - 1, size : 1 .. SduSize,
               data : 0 .. MaxSdus - 1]

(* Types of the transmitting side's state.                                 *)
TxTypeOK ==
    /\ {tx_next, tx_next_ack, poll_sn} \subseteq SN
    /\ pdu_without_poll \in Nat
    /\ {force_poll, t_poll_retransmit, null_wait_list} \subseteq BOOLEAN
    /\ {tx_list, wait_list, retransmit_list} \subseteq Seq(TxSegments)
    /\ tx_size \in 0 .. TxMax
    /\ handed \in 0 .. MaxSdus
    /\ acked \subseteq 0 .. MaxSdus - 1

(* No byte of an SDU is in two segments: segments move between the lists,  *)
(* they are never copied, however often they are cut in two.               *)
NoByteTwice ==
    LET all == tx_list \o wait_list \o retransmit_list
    IN  \A i, j \in DOMAIN all :
           i # j /\ all[i].data = all[j].data => Bytes(all[i]) \cap Bytes(all[j]) = {}

(***************************************************************************)
(* Every SN in use lies in the window tx_next_ack .. tx_next - 1, at most  *)
(* Window SNs, so that the comparisons modulo the SN space are meaningful; *)
(* an SN belongs to one SDU; both lists are in increasing order, which     *)
(* process_control_pdu relies on.                                          *)
(***************************************************************************)
TxWindow ==
    LET sent == Range(wait_list) \cup Range(retransmit_list)
    IN  /\ Modulus(tx_next_ack, tx_next) <= Window
        /\ \A s \in sent : SnCompare(tx_next_ack, s.sn, tx_next) < 0
        /\ \A s, t \in sent : s.sn = t.sn <=> s.data = t.data
        /\ \A list \in {wait_list, retransmit_list} :
              \A i, j \in DOMAIN list : i < j => Before(list[i], list[j])

(* The buffer status given to the scheduler is the size of the PDUs that   *)
(* the two lists make up, after any segmentation, NACK or discard.         *)
BufferStatusExact ==
    /\ bstatus.tx = BytesOf(tx_list)
    /\ bstatus.retx = BytesOf(retransmit_list)

(* tx_size, which decides whether an SDU is rejected, counts the SDUs that *)
(* still have a segment in some list.                                      *)
TxSizeExact ==
    tx_size = SduSize * Cardinality(SdusIn(<<tx_list, wait_list, retransmit_list>>))

(* The transmitting side as a whole: every SN in use is in the window, on  *)
(* which is_window_stalling and process_control_pdu rely, and the counters *)
(* kept through segmentation, NACK, expiry and discard are exact.          *)
TxConsistent == TxTypeOK /\ TxWindow /\ BufferStatusExact /\ TxSizeExact

=============================================================================
