---------------------------- MODULE NrRlcAmStatus ---------------------------
(***************************************************************************)
(* The construction of STATUS PDUs by the receiving side of an RLC AM      *)
(* entity (generate_status of nr_rlc_entity_am.c), from its state.         *)
(***************************************************************************)
EXTENDS NrRlcAmRx, SequencesExt

(***************************************************************************)
(* STATUS PDU.  A NACK covers [sn, so_start] to [sn_end, so_end]; END is   *)
(* the so_end 0xffff, "to the end of the SDU".  The limit of 255 SNs in    *)
(* one range, and its splitting, is left out.                              *)
(***************************************************************************)

(* The entry of rx_highest_status is that of rx_next, and not empty.       *)
WalkWraps ==
    /\ rx_highest_status = Plus(rx_next, Window)
    /\ rx[Pos(rx_next)] # <<>>

(***************************************************************************)
(* The received PDUs in the order of get_first_rx_pdu / get_next_rx_pdu,   *)
(* from rx_next to rx_highest_status, "SN <= rx_highest_status": when the  *)
(* walk wraps it meets the head of rx_next once more.                      *)
(***************************************************************************)

Walk ==
    LET dist  == Modulus(rx_next, rx_highest_status)
        Of(k) == LET l == rx[Pos(rx_next + k)]
                 IN  [i \in DOMAIN l |->
                        [sn |-> Plus(rx_next, k), so |-> l[i].so, size |-> l[i].size]]
        upto  == IF dist < Window THEN dist ELSE Window - 1
    IN  FlattenSeq([k \in 1 .. upto + 1 |-> Of(k - 1)])
          \o IF WalkWraps THEN SubSeq(Of(0), 1, 1) ELSE <<>>

(***************************************************************************)
(* next_missing: what is missing between the i-th and the next PDU of the  *)
(* walk, before the first one (i = 0) and after the last one.              *)
(***************************************************************************)
MaxSo(walk, i) ==
    Max({LastByte(walk[j]) : j \in {j \in 1 .. i : walk[j].sn = walk[i].sn}})

LastReached(walk, i) ==
    \E j \in 1 .. i : walk[j].sn = walk[i].sn /\ IsLast(walk[j])

Continues(walk, i) ==
    /\ i < Len(walk)
    /\ IF i = 0 THEN walk[1].sn = rx_next /\ IsFirst(walk[1])
       ELSE \/ walk[i+1].sn = walk[i].sn /\ MaxSo(walk, i) >= walk[i+1].so - 1
            \/ /\ walk[i+1].sn = Plus(walk[i].sn, 1)
               /\ LastReached(walk, i)
               /\ IsFirst(walk[i+1])

MissingStart(walk, i) ==
    IF i = 0 THEN [sn |-> rx_next, so |-> 0]
    ELSE IF LastReached(walk, i) THEN [sn |-> Plus(walk[i].sn, 1), so |-> 0]
    ELSE [sn |-> walk[i].sn, so |-> MaxSo(walk, i) + 1]

MissingEnd(walk, i) ==
    IF i = Len(walk) THEN [sn |-> Plus(rx_highest_status, -1), so |-> END]
    ELSE IF IsFirst(walk[i+1]) THEN [sn |-> Plus(walk[i+1].sn, -1), so |-> END]
    ELSE [sn |-> walk[i+1].sn, so |-> walk[i+1].so - 1]

BelowHighestStatus(sn) == SnCompare(rx_next, rx_highest_status, sn) > 0

(***************************************************************************)
(* The loop of generate_status: it ends at a gap that starts, or after one *)
(* that ends, at rx_highest_status or above (which is then clamped).  When *)
(* the walk met rx_next again the code goes on from there until the PDU is *)
(* full; the first of the repeated NACKs stands for them.                  *)
(***************************************************************************)
Nacks ==
    LET walk == Walk
        end  == IF WalkWraps THEN Len(walk) - 1 ELSE Len(walk)
        gaps == {i \in 0 .. end : walk # <<>> /\ ~Continues(walk, i)}
        reported == {i \in gaps : \A j \in gaps : j <= i =>
                       /\ BelowHighestStatus(MissingStart(walk, j).sn)
                       /\ j < i => BelowHighestStatus(MissingEnd(walk, j).sn)}
        Nack(i) ==
          LET from == MissingStart(walk, i)
              to   == IF BelowHighestStatus(MissingEnd(walk, i).sn)
                      THEN MissingEnd(walk, i)
                      ELSE [sn |-> Plus(rx_highest_status, -1), so |-> END]
          IN  [sn |-> from.sn, so_start |-> from.so, sn_end |-> to.sn, so_end |-> to.so]
        order == SetToSortSeq(reported, <)
    IN  [n \in DOMAIN order |-> Nack(order[n])]

(* Bug: a truncated STATUS PDU keeps the SOs of its last NACK.             *)
StatusPduAsCut(n) ==
    LET nacks == SubSeq(Nacks, 1, n)
    IN  [ack_sn |-> IF n = 0 THEN rx_next ELSE Plus(nacks[n].sn_end, 1),
         nacks  |-> nacks]

(***************************************************************************)
(* The STATUS PDU when there is room for n of the NACKs: ack_sn is one     *)
(* past the last of them.  Truncated after a NACK with SOs, that NACK is   *)
(* extended to the end of its SDU.                                         *)
(***************************************************************************)
StatusPdu(n) ==
    LET nacks == SubSeq(Nacks, 1, n)
        cut   == /\ 0 < n /\ n < Len(Nacks)
                 /\ ~(nacks[n].so_start = 0 /\ nacks[n].so_end = END)
    IN  [ack_sn |-> IF n = 0 THEN rx_next ELSE Plus(nacks[n].sn_end, 1),
         nacks  |-> IF cut THEN [nacks EXCEPT ![n].so_end = END] ELSE nacks]

-----------------------------------------------------------------------------
(* Bytes of the SDUs at a distance from rx_next that a NACK covers.        *)
NackCovers(nack, k, b) ==
    LET from == Modulus(rx_next, nack.sn)
        to   == Modulus(rx_next, nack.sn_end)
    IN  /\ from <= k /\ k <= to
        /\ k = from => nack.so_start <= b
        /\ k = to => nack.so_end = END \/ b <= nack.so_end

(* The NACKs are in increasing order and below ack_sn, as the peer checks. *)
StatusWellFormed(st) ==
    \A n \in DOMAIN st.nacks :
       LET M(sn) == Modulus(rx_next, sn)
       IN  /\ M(st.nacks[n].sn) <= M(st.nacks[n].sn_end)
           /\ M(st.nacks[n].sn_end) < M(st.ack_sn)
           /\ n > 1 => M(st.nacks[n-1].sn_end) <= M(st.nacks[n].sn)

(***************************************************************************)
(* A STATUS PDU of any length passes the peer's checks; what lies below    *)
(* ack_sn and is not NACKed has been received (the peer frees it); and one *)
(* that is not truncated NACKs exactly the bytes missing below             *)
(* rx_highest_status.  Not so when the walk met rx_next twice: then NACKs  *)
(* are repeated and the peer discards the STATUS PDU.                      *)
(***************************************************************************)
StatusExact ==
    \A n \in 0 .. Len(Nacks) :
       LET st == StatusPdu(n)
           Nacked(k, b) == \E i \in DOMAIN st.nacks : NackCovers(st.nacks[i], k, b)
           Has(k, b) == b \in ReceivedBytes(rx[Pos(rx_next + k)])
       IN  ~hung /\ ~WalkWraps =>
             /\ StatusWellFormed(st)
             /\ \A k \in 0 .. Modulus(rx_next, st.ack_sn) - 1, b \in 0 .. SduSize - 1 :
                   Nacked(k, b) \/ Has(k, b)
             /\ n = Len(Nacks) =>
                  \A k \in 0 .. Modulus(rx_next, rx_highest_status) - 1,
                     b \in 0 .. SduSize - 1 : Nacked(k, b) <=> ~Has(k, b)

=============================================================================
