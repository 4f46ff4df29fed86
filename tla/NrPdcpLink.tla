----------------------------- MODULE NrPdcpLink -----------------------------
(***************************************************************************)
(* A transmitting PDCP entity, the RLC channel below it and the receiving  *)
(* entity at the other end.  The channel loses, delays, reorders and       *)
(* duplicates PDUs; a PDU carries only the SN, and the receiver has to     *)
(* find the COUNT it was ciphered with.                                    *)
(*                                                                         *)
(* The variables of NrPdcpEntity are those of the receiving entity.        *)
(***************************************************************************)
EXTENDS NrPdcpEntity

VARIABLES
    peer_tx_next,   \* tx_next of the transmitting entity
    net             \* PDUs in the RLC entities and queues, by their COUNT

linkVars == <<vars, peer_tx_next, net>>

LinkInit ==
    /\ Init
    /\ peer_tx_next = 0
    /\ net = {}

(***************************************************************************)
(* What the layers below promise (external): a PDU enters the channel only *)
(* less than a window above the oldest PDU still in it (the RLC AM window  *)
(* is not larger than PDCP's), and less than a window above what the       *)
(* receiver waits for (t-Reordering gives a lost PDU up in time).          *)
(***************************************************************************)
InWindow(count) ==
    /\ count < rx_deliv + Window
    /\ \A p \in net : count < p + Window

(* process_sdu of the transmitting entity, and the PDU goes to RLC.        *)
PeerSend ==
    /\ InWindow(peer_tx_next)
    /\ NotExhausted(peer_tx_next)
    /\ peer_tx_next' = peer_tx_next + 1
    /\ net' = net \cup {peer_tx_next}
    /\ UNCHANGED vars

(* The receiving entity handles a PDU; a copy may still come later.        *)
NetDeliver(p) ==
    /\ p \in net
    /\ net' \in {net, net \ {p}}
    /\ \/ RecvPdu(p % SnMod)
       \/ ~AcceptPdu(RcvdCount(p % SnMod)) /\ UNCHANGED vars
    /\ UNCHANGED peer_tx_next

NetLose(p) ==
    /\ p \in net
    /\ net' = net \ {p}
    /\ UNCHANGED <<vars, peer_tx_next>>

Tick ==
    /\ SetTime \/ SetTimeExpired
    /\ UNCHANGED <<peer_tx_next, net>>

LinkNext ==
    \/ PeerSend
    \/ \E p \in net : NetDeliver(p) \/ NetLose(p)
    \/ Tick

LinkSpec == LinkInit /\ [][LinkNext]_linkVars

-----------------------------------------------------------------------------
(* The receiver reconstructs, for every PDU in flight, the very COUNT it   *)
(* was ciphered and integrity protected with, across SN wrap-around and    *)
(* whatever was lost, reordered or skipped by t-Reordering before.         *)
DecodeExact == \A p \in net : RcvdCount(p % SnMod) = p

(* The receiver never runs ahead of the sender: an HFN guessed one too     *)
(* high would jump rx_next, and with it rx_deliv at the next expiry, past  *)
(* every COUNT still to come.                                              *)
NotAheadOfSender ==
    /\ rx_next <= peer_tx_next
    /\ delivered_to <= peer_tx_next
    /\ \A c \in rx_list : c < peer_tx_next

=============================================================================
