-------------------------------- MODULE NrMac --------------------------------
(* The MAC of one UE at the gNB.  Random access with downlink HARQ, uplink   *)
(* HARQ with uplink failure, and the release at the CU's command share no    *)
(* state but the UE's existence, so each behaviour follows one of the three, *)
(* or one of the linked lists in which the HARQ processes are kept.          *)
EXTENDS NrRa, NrUlHarq, NrList

VARIABLE part   \* "dl", "ul", "release" or "list", fixed

vars == <<macVars, ulVars, list, part>>

(* pdsch_to_harq_feedback and downlinkHARQ-FeedbackDisabled of the instance *)
FeedbackTimes == <<1, 2, 3>>
DisabledSets == {{}, {1}}

(* A UE that is connected *)
Connected ==
  /\ DlInit /\ noFeedback = {}
  /\ ra = Ended("connected") /\ cellgroup = TRUE /\ release = FALSE

MacInit ==
  /\ ListInit
  /\ \/ /\ part = "dl"
        /\ RaInit /\ UlInit
        /\ disableHarq = FALSE /\ f1data = TRUE /\ command = "never"
     \/ /\ part = "ul"
        /\ Connected /\ UlInit
        /\ f1data = TRUE /\ command = "never"
     \/ /\ part = "release"
        /\ Connected /\ UlInit
        /\ disableHarq = FALSE /\ command = "none"
     \/ /\ part = "list"
        /\ Connected /\ UlInit
        /\ disableHarq = FALSE /\ f1data = TRUE /\ command = "never"

(* The release without uplink traffic: timers, a UE that comes back, and F1 *)
ReleaseSlot == UlSlotIdle
ReleaseF1 == RelF1 /\ UNCHANGED harqVars
ReleaseNext == ReleaseSlot \/ ReleaseF1 \/ (CuSendsCommand /\ UNCHANGED harqVars) \/ ResetUlHarqList

MacNext ==
  /\ UNCHANGED part
  /\ \/ part = "dl" /\ RaNext /\ UNCHANGED <<ulVars, list>>
     \/ part = "ul" /\ UlNext /\ UNCHANGED <<macVars, list>>
     \/ part = "release" /\ ReleaseNext /\ UNCHANGED <<macVars, list>>
     \/ part = "list" /\ ListNext /\ UNCHANGED <<macVars, ulVars>>

(* Fairness: slots go on, the PHY indicates the UCIs, and reports on the     *)
(* PUSCHs, that it has, and the F1 thread handles what it gets.              *)
Slots ==
  \/ /\ part = "dl"
     /\ RaSlot \/ (ra.state = "connected" /\ (DlSlotIdle \/ UlSlot) /\ UNCHANGED raVars)
     /\ UNCHANGED <<ulVars, list, part>>
  \/ part \in {"ul", "release"} /\ UlSlotIdle /\ UNCHANGED <<macVars, list, part>>
Indications ==
  \/ /\ part = "dl"
     /\ RaUci \/ (ra.state = "connected" /\ DlUci /\ UNCHANGED raVars)
     /\ UNCHANGED <<ulVars, list, part>>
  \/ part = "ul" /\ UlPhy /\ UNCHANGED <<macVars, list, part>>
RandomAccessOrF1 ==
  \/ part = "dl" /\ RxPusch /\ UNCHANGED <<ulVars, list, part>>
  \/ part = "release" /\ ReleaseF1 /\ UNCHANGED <<macVars, list, part>>

MacSpec ==
  /\ MacInit /\ [][MacNext]_vars
  /\ WF_vars(Slots) /\ WF_vars(Indications) /\ WF_vars(RandomAccessOrF1)

(* HarqListsConsistent of the connected UE and its uplink counterpart *)
ListsConsistent == ConnectedListsConsistent /\ UlListsConsistent
=============================================================================
