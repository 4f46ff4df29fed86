----------------------------- MODULE NrUeRelease -----------------------------
(* The end of a connected UE at the DU: uplink failure with its two          *)
(* timeouts, the release request to the CU, the CU's release command and the *)
(* release complete.  The scheduler thread and the F1 thread share           *)
(* sched_lock, which the scheduler gives up while it sends the complete.     *)
EXTENDS Integers

CONSTANTS
  FailTimeout, FailGrace,  \* UL_FAILURE_TIMEOUT, UL_FAILURE_REQ_GRACE, in ms
  RelDelay,                \* the 100 of nr_mac_trigger_release_timer, in ms
  SlotsPerMs               \* slots in a millisecond, 1 << scs

ASSUME ReleaseAssumption ==
  /\ {FailTimeout, FailGrace, RelDelay, SlotsPerMs} \subseteq Nat \ {0}
  /\ RelDelay < FailTimeout

VARIABLES
  conn,       \* "up", or "gone" once the UE was removed from the list
  f1data,     \* du_exists_f1_ue_data()
  failure, failTimer,  \* ul_failure, ul_failure_timer
  relTimer,   \* release_timer
  releasing,  \* where nr_mac_update_timers is in the release of the UE
  command,    \* the CU's release command: "none" yet or "never", "sent", "handled"
  asked,      \* history: release requests sent to the CU since the failure was triggered
  completes   \* release completes sent to the CU

relVars == <<conn, f1data, failure, failTimer, relTimer, releasing, command, asked, completes>>

RelInit ==
  /\ conn = "up" /\ f1data \in BOOLEAN
  /\ failure = FALSE /\ failTimer = 0 /\ relTimer = 0
  /\ releasing = "no" /\ command \in {"none", "never"}
  /\ asked = 0 /\ completes = 0

(* nr_mac_trigger_ul_failure, nr_mac_reset_ul_failure *)
TriggerUlFailure(on) ==
  /\ failure' = (failure \/ on)
  /\ failTimer' = IF on /\ ~failure THEN (FailGrace + FailTimeout) * SlotsPerMs ELSE failTimer
  /\ asked' = IF on /\ ~failure THEN 0 ELSE asked

ResetUlFailure == failure' = FALSE /\ failTimer' = 0 /\ asked' = 0

-----------------------------------------------------------------------------
(* nr_mac_update_timers at the start of a slot *)

(* Bug: the timer is not counted down.                                       *)
DecrementedAsKept(t) == t
Decremented(t) == IF t > 0 THEN t - 1 ELSE 0
Locked == conn = "up" /\ releasing = "no"   \* the scheduler has the lock and the UE exists

(* Bug: the release complete is not sent.                                    *)
ReleaseTimerExpiresAsSilent ==
  /\ Locked /\ relTimer = 1
  /\ relTimer' = 0
  /\ releasing' = "remove"
  /\ UNCHANGED <<conn, f1data, failure, failTimer, command, asked, completes>>

(* nr_mac_check_release: the delay of a release command is over *)
ReleaseTimerExpires ==
  /\ Locked /\ relTimer = 1
  /\ relTimer' = 0
  /\ releasing' = IF f1data THEN "complete" ELSE "remove"
  /\ UNCHANGED <<conn, f1data, failure, failTimer, command, asked, completes>>

(* nr_mac_trigger_release_complete: without the lock *)
SendReleaseComplete ==
  /\ releasing = "complete"
  /\ completes' = completes + 1
  /\ f1data' = FALSE
  /\ releasing' = "remove"
  /\ UNCHANGED <<conn, failure, failTimer, relTimer, command, asked>>

(* nr_mac_release_ue, with the lock again *)
ReleaseUe ==
  /\ releasing = "remove"
  /\ conn' = "gone" /\ releasing' = "no"
  /\ UNCHANGED <<f1data, failure, failTimer, relTimer, command, asked, completes>>

(* nr_mac_check_ul_failure, then transm_timeout, which may expire *)
TimersTick(timeout) ==
  LET t == Decremented(failTimer)
      request == failure /\ t = FailGrace
      left == IF request /\ ~f1data THEN 0 ELSE t
  IN /\ Locked /\ relTimer # 1
     /\ relTimer' = Decremented(relTimer)
     /\ IF failure
        THEN /\ failTimer' = left
             /\ asked' = IF request /\ f1data THEN asked + 1 ELSE asked
             /\ conn' = IF left = 0 THEN "gone" ELSE "up"
             /\ UNCHANGED failure
        ELSE TriggerUlFailure(timeout) /\ UNCHANGED conn
     /\ UNCHANGED <<f1data, releasing, command, completes>>

-----------------------------------------------------------------------------
(* The CU releases the UE, on its own or after a request (external) *)
CuSendsCommand ==
  /\ command = "none" /\ f1data
  /\ command' = "sent"
  /\ UNCHANGED <<conn, f1data, failure, failTimer, relTimer, releasing, asked, completes>>

(* ue_context_release_command; an RRC container comes with its srb_id *)
CommandUnknownUe ==
  /\ command = "sent" /\ conn = "gone"
  /\ completes' = completes + 1
  /\ command' = "handled"
  /\ UNCHANGED <<conn, f1data, failure, failTimer, relTimer, releasing, asked>>

CommandReleasesNow(container) ==
  /\ command = "sent" /\ conn = "up" /\ (failure \/ ~container)
  /\ conn' = "gone"
  /\ f1data' = FALSE
  /\ completes' = IF f1data THEN completes + 1 ELSE completes
  /\ command' = "handled"
  /\ UNCHANGED <<failure, failTimer, relTimer, releasing, asked>>

CommandStartsTimer ==
  /\ command = "sent" /\ conn = "up" /\ ~failure
  /\ relTimer' = RelDelay * SlotsPerMs
  /\ command' = "handled"
  /\ UNCHANGED <<conn, f1data, failure, failTimer, releasing, asked, completes>>

-----------------------------------------------------------------------------
(* What the uplink does to the UE: a PUSCH is reported, which may be one     *)
(* failure too many, and the UE comes back with a random access.             *)
PuschReported(on) ==
  /\ conn = "up" /\ TriggerUlFailure(on)
  /\ UNCHANGED <<conn, f1data, relTimer, releasing, command, completes>>

UeComesBack ==
  /\ conn = "up" /\ ResetUlFailure
  /\ UNCHANGED <<conn, f1data, relTimer, releasing, command, completes>>

RelSlot == ReleaseTimerExpires \/ SendReleaseComplete \/ ReleaseUe
RelF1 == CommandUnknownUe \/ (\E container \in BOOLEAN : CommandReleasesNow(container)) \/ CommandStartsTimer
RelNext ==
  \/ RelSlot \/ (\E timeout \in BOOLEAN : TimersTick(timeout))
  \/ (\E on \in BOOLEAN : PuschReported(on)) \/ UeComesBack
  \/ RelF1 \/ CuSendsCommand

RelSpec == RelInit /\ [][RelNext]_relVars

-----------------------------------------------------------------------------
(* The CU is told what becomes of a UE it knows, although uplink failure,    *)
(* the release timer and the command race: a release command is answered by  *)
(* exactly one release complete (none comes without a command, or twice, and *)
(* a handled command either was answered or still has its timer or its       *)
(* release running), and a UE that is dropped for uplink failure was         *)
(* reported with exactly one release request, though the grace that triggers *)
(* it is not scaled with the subcarrier spacing as the timer is.             *)
CuInformed ==
  /\ completes <= IF command = "handled" THEN 1 ELSE 0
  /\ command = "handled" /\ completes = 0 => conn = "up" /\ f1data /\ (relTimer > 0 \/ releasing = "complete")
  /\ asked <= 1
  /\ conn = "gone" /\ f1data => asked = 1
=============================================================================
