---------------------------- MODULE NrRlcAmLink -----------------------------
(***************************************************************************)
(* Two RLC AM entities and the MAC/PHY between them, data flowing one way: *)
(* the transmitting side of one, the receiving side of the other, a        *)
(* channel for data PDUs and one back for STATUS PDUs.  The two sides of   *)
(* one entity share no state but the time, and a STATUS PDU goes before    *)
(* data, so the other direction adds nothing but another copy.             *)
(***************************************************************************)
EXTENDS NrRlcAmTx, NrRlcAmStatus

CONSTANTS
    ChanMax,    \* bound: data PDUs in flight
    CtrlMax,    \* bound: STATUS PDUs in flight
    MaxLoss,    \* bound: PDUs lost
    Reorder,    \* can a PDU overtake another one?
    LongPoll,   \* is t-PollRetransmit longer than any round trip?
    LongReassembly \* is t-Reassembly longer than it takes to send an SDU?

ASSUME LinkConstants == /\ {ChanMax, CtrlMax} \subseteq Nat \ {0}
                        /\ MaxLoss \in Nat
                        /\ {Reorder, LongPoll, LongReassembly} \subseteq BOOLEAN

VARIABLES
    data,       \* data PDUs in flight, a sequence
    ctrl,       \* STATUS PDUs in flight, a sequence
    losses,     \* number of PDUs lost so far
    delivered   \* history: how often each SDU was delivered, and mixtures

linkVars == <<txVars, rxVars, data, ctrl, losses, delivered>>

(* All but `out', which no step reads.                                     *)
LinkView == <<txVars, rx_next, rx_next_status_trigger, rx_highest_status,
              rx_next_highest, status_triggered, t_reassembly,
              t_status_prohibit, rx, rx_size, hung, data, ctrl, losses,
              delivered>>

LinkInit ==
    /\ TxInit
    /\ RxInit
    /\ data = <<>>
    /\ ctrl = <<>>
    /\ losses = 0
    /\ delivered = <<>>

(* Positions of the channel from which a PDU can arrive next.              *)
Arrivals(chan) == IF Reorder THEN DOMAIN chan ELSE DOMAIN chan \cap {1}

-----------------------------------------------------------------------------
UpperSends ==
    /\ RecvSduFromUpper
    /\ UNCHANGED <<rxVars, data, ctrl, losses, delivered>>

(***************************************************************************)
(* External: the delay of a PDU in MAC is bounded (HARQ), and small enough *)
(* that the SNs do not move on by a window meanwhile.                      *)
(***************************************************************************)
Recent ==
    /\ \A i \in DOMAIN data : Modulus(data[i].sn, tx_next) < Window
    /\ \A i \in DOMAIN ctrl : Modulus(ctrl[i].ack_sn, tx_next) < Window

MacSends(size) ==
    /\ Len(data) < ChanMax
    /\ GeneratePdu(size)
    /\ data' = Append(data, GeneratedPdu(size))
    /\ tx_next' # tx_next => Recent
    /\ UNCHANGED <<rxVars, ctrl, losses, delivered>>

(* A STATUS PDU with room for all NACKs or for only some of them.          *)
MacSendsStatus(n) ==
    /\ Len(ctrl) < CtrlMax
    /\ n <= Len(Nacks)
    /\ ctrl' = Append(ctrl, StatusPdu(n))
    /\ GenerateStatus
    /\ UNCHANGED <<txVars, data, losses, delivered>>

DataArrives(i) ==
    /\ data' = RemoveAt(data, i)
    /\ RecvPdu(data[i])
    /\ delivered' = delivered \o out'
    /\ UNCHANGED <<txVars, ctrl, losses>>

StatusArrives(i) ==
    /\ ctrl' = RemoveAt(ctrl, i)
    /\ RecvStatus(ctrl[i]) \/ DropStatus(ctrl[i])
    /\ UNCHANGED <<rxVars, data, losses, delivered>>

DataLost(i) ==
    /\ losses < MaxLoss
    /\ losses' = losses + 1
    /\ data' = RemoveAt(data, i)
    /\ UNCHANGED <<txVars, rxVars, ctrl, delivered>>

StatusLost(i) ==
    /\ losses < MaxLoss
    /\ losses' = losses + 1
    /\ ctrl' = RemoveAt(ctrl, i)
    /\ UNCHANGED <<txVars, rxVars, data, delivered>>

(* The exchange that t-PollRetransmit guards is going on: a PDU can be     *)
(* sent, or the poll or its answer is on its way.                          *)
ExchangeGoesOn ==
    \/ ctrl # <<>>
    \/ status_triggered
    \/ data # <<>>
    \/ retransmit_list # <<>>
    \/ tx_list # <<>> /\ ~Stalling(tx_next)

TxTimer ==
    /\ LongPoll => ~ExchangeGoesOn
    /\ PollExpired
    /\ UNCHANGED <<rxVars, data, ctrl, losses, delivered>>

PartlySent == \E s \in ToSet(tx_list) : s.sn # -1

RxTimer ==
    /\ \/ (LongReassembly => ~PartlySent) /\ ReassemblyExpired
       \/ ProhibitExpired
    /\ UNCHANGED <<txVars, data, ctrl, losses, delivered>>

Receive == \E i \in Arrivals(data) : DataArrives(i)
ReceiveStatus == \E i \in Arrivals(ctrl) : StatusArrives(i)
Send == \E size \in Grants : MacSends(size)
SendStatus == \E n \in 0 .. Window * SduSize : MacSendsStatus(n)

LinkNext ==
    /\ ~hung /\ ~null_wait_list
    /\ \/ UpperSends \/ Send \/ SendStatus \/ Receive \/ ReceiveStatus
       \/ TxTimer \/ RxTimer
       \/ \E i \in DOMAIN data : DataLost(i)
       \/ \E i \in DOMAIN ctrl : StatusLost(i)

LinkSpec == LinkInit /\ [][LinkNext]_linkVars

(***************************************************************************)
(* MAC asks for PDUs as long as there are any, with room for a segment or  *)
(* for the whole status; PDUs in flight arrive; timers expire: as long as  *)
(* one of these can happen, one of them does.                              *)
(***************************************************************************)
Progress ==
    /\ ~hung /\ ~null_wait_list
    /\ \/ Receive \/ ReceiveStatus \/ TxTimer \/ RxTimer
       \/ MacSends(SduSize + 4) \/ MacSendsStatus(Len(Nacks))

LinkFairSpec == LinkSpec /\ WF_linkVars(Progress)

-----------------------------------------------------------------------------
(* Every SDU reaches the upper layer at most once and intact: a delivered  *)
(* SDU is made of the bytes of one SDU that was handed over.               *)
DeliveredOnceIntact ==
    /\ \A i \in DOMAIN delivered : \E d \in 0 .. handed - 1 : delivered[i] = {d}
    /\ \A i, j \in DOMAIN delivered : i # j => delivered[i] # delivered[j]

(* An SDU is reported as successfully delivered only after the peer has    *)
(* delivered it.                                                           *)
AckedIsDelivered == \A d \in acked : {d} \in ToSet(delivered)

(* No byte is lost for good: as long as the peer lacks a byte of an SDU,   *)
(* the byte is in a segment of one of the three lists.                     *)
NoByteLost ==
    \A d \in 0 .. handed - 1 :
       {d} \in ToSet(delivered)
       \/ \A b \in 0 .. SduSize - 1 :
             \/ \E s \in ToSet(tx_list \o wait_list \o retransmit_list) :
                   s.data = d /\ b \in Bytes(s)
             \/ \E k \in DOMAIN rx : \E s \in ToSet(rx[k]) :
                   s.data = d /\ b \in Bytes(s)

(***************************************************************************)
(* The windows of the two sides overlap as they should:                    *)
(*   tx_next_ack <= rx_next <= rx_next_highest <= tx_next                  *)
(* modulo the SN space, counted from tx_next_ack.                          *)
(***************************************************************************)
WindowsAligned ==
    /\ Modulus(tx_next_ack, rx_next) + Modulus(rx_next, rx_next_highest)
         <= Modulus(tx_next_ack, tx_next)
    /\ Modulus(tx_next_ack, tx_next) <= Window

(***************************************************************************)
(* Somebody will act: when sent SDUs wait for an acknowledgement and       *)
(* nothing can be transmitted, t-PollRetransmit runs.                      *)
(***************************************************************************)
NoSilentWait ==
    wait_list # <<>> /\ retransmit_list = <<>> /\ (tx_list = <<>> \/ Stalling(tx_next))
      => t_poll_retransmit

(* "It seems that no, the wait list should not be empty here"              *)
(* (check_t_poll_retransmit).                                              *)
WaitListNotEmpty == ~null_wait_list

(***************************************************************************)
(* TX_Next_Ack is "the SN of the RLC SDU with the smallest SN ... for      *)
(* which a positive acknowledgment has not been received yet"              *)
(* (process_control_pdu): no SDU with an SN is left behind by it.          *)
(***************************************************************************)
TxNextAckIsLowest ==
    \A s \in ToSet(tx_list \o wait_list \o retransmit_list) :
       s.sn # -1 => SnCompare(tx_next_ack, s.sn, tx_next) < 0

(* An SDU handed over is in the end delivered by the peer and acknowledged *)
(* when the channel loses finitely many PDUs.                              *)
AllAcked ==
    \A d \in 0 .. MaxSdus - 1 :
       (d < handed) ~> (d \in acked \/ hung \/ null_wait_list)

=============================================================================
