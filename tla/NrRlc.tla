------------------------------- MODULE NrRlc --------------------------------
(***************************************************************************)
(* The RLC entities one by one: the receiving and the transmitting side of *)
(* an AM entity, and the UM transmitter and receiver, each with a peer     *)
(* that may send it anything.  (NrRlcAmLink has both ends of an AM bearer.)*)
(***************************************************************************)
EXTENDS NrRlcAmStatus, NrRlcAmTx

CONSTANTS
    Sn12,           \* is sn_field_length 12 (else 6) in UM?
    UmRxMax,        \* RxMax of the UM entity
    UmTxMax,        \* its TxMax
    UmMaxSdus,      \* its MaxSdus
    UmGrants,       \* its Grants
    ChanMax         \* bound: UM PDUs in flight

ASSUME UmConstants == /\ Sn12 \in BOOLEAN
                      /\ {UmRxMax, UmTxMax, UmMaxSdus, ChanMax} \subseteq Nat
                      /\ UmGrants \subseteq Nat

VARIABLES
    part,
    um_tx_next, um_tx_list, um_tx_size, um_bstatus, um_handed, um_air,
    um_rx_next_highest, um_rx_next_reassembly, um_rx_timer_trigger,
    um_t_reassembly, um_rx_list, um_rx_size, um_delivered

umVars == <<um_tx_next, um_tx_list, um_tx_size, um_bstatus, um_handed, um_air,
    um_rx_next_highest, um_rx_next_reassembly, um_rx_timer_trigger,
    um_t_reassembly, um_rx_list, um_rx_size, um_delivered>>

rlcVars == <<part, rxVars, txVars, umVars>>

Um == INSTANCE NrRlcUm WITH
    RxMax <- UmRxMax, TxMax <- UmTxMax, MaxSdus <- UmMaxSdus,
    Grants <- UmGrants,
    tx_next <- um_tx_next, tx_list <- um_tx_list, tx_size <- um_tx_size,
    bstatus <- um_bstatus, handed <- um_handed, air <- um_air,
    rx_next_highest <- um_rx_next_highest,
    rx_next_reassembly <- um_rx_next_reassembly,
    rx_timer_trigger <- um_rx_timer_trigger, t_reassembly <- um_t_reassembly,
    rx_list <- um_rx_list, rx_size <- um_rx_size, delivered <- um_delivered

RlcInit == part \in {"um", "rx", "tx"} /\ RxInit /\ TxInit /\ Um!Init

RxMoves == part = "rx" /\ RxNext /\ UNCHANGED <<part, txVars, umVars>>

TxMoves == part = "tx" /\ TxNext /\ UNCHANGED <<part, rxVars, umVars>>

UmMoves == part = "um" /\ Um!Next /\ UNCHANGED <<part, rxVars, txVars>>

RlcNext == RxMoves \/ TxMoves \/ UmMoves

RlcSpec == RlcInit /\ [][RlcNext]_rlcVars

-----------------------------------------------------------------------------
(* UmConsistent of NrRlcUm: the reassembly window stays in order, every    *)
(* gap is timed and the buffer status is exact.                            *)
UmConsistent == Um!UmConsistent

(* UmDeliveredIntact of NrRlcUm: UM delivers an SDU at most once, and      *)
(* never one put together from the segments of two.                        *)
UmDeliveredIntact == Um!UmDeliveredIntact

(* UmRxSizeFollows of NrRlcUm: only an expiry of t-Reassembly leaves bytes *)
(* in rx_size that are no longer in the list.                              *)
UmRxSizeFollows == Um!UmRxSizeFollows

=============================================================================
