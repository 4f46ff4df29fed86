------------------------------- MODULE NrPdcp -------------------------------
(***************************************************************************)
(* The PDCP entity alone, fed with any SN and managed at any time, and the *)
(* entity at the end of a channel from its peer.                           *)
(***************************************************************************)
EXTENDS NrPdcpLink

VARIABLE part

pdcpVars == <<part, linkVars>>

PdcpInit == part \in {"entity", "link"} /\ LinkInit

EntityMoves == part = "entity" /\ Next /\ UNCHANGED <<part, peer_tx_next, net>>

LinkMoves == part = "link" /\ LinkNext /\ UNCHANGED part

PdcpNext == EntityMoves \/ LinkMoves

(* The timer thread keeps ticking, so a running finite timer expires.      *)
PdcpSpec == PdcpInit /\ [][PdcpNext]_pdcpVars /\ WF_vars(SetTimeExpired)

=============================================================================
