---------------------------- MODULE ShmIqChannel ----------------------------
(* The clock of the shared memory IQ channel: one process produces samples,  *)
(* which moves the timestamp on, another waits for a timestamp, with or      *)
(* without timeout, and either end may abort its channel.                    *)
(*                                                                           *)
(* shm_td_iq_channel_wait reads the timestamp before it takes the mutex and  *)
(* does not read it again before it first sleeps.                            *)
EXTENDS Integers

CONSTANTS
  Produced,       \* num_samples of shm_td_iq_channel_produce_samples
  MaxTimestamp    \* bound: samples produced

ASSUME ShmAssumption == Produced \subseteq Nat /\ MaxTimestamp \in Nat

VARIABLES
  timestamp,      \* data->timestamp
  abort,          \* channel->abort of the process that waits
  wpc,            \* where shm_td_iq_channel_wait is
  target, timed,  \* its arguments
  current,        \* its current_timestamp
  slept,          \* it has slept and been woken since it was called
  result

shmVars == <<timestamp, abort, wpc, target, timed, current, slept, result>>

ShmInit ==
  /\ timestamp = 0 /\ abort = FALSE
  /\ wpc = "out" /\ target = 0 /\ timed = FALSE /\ current = 0 /\ slept = FALSE /\ result = 0

Broadcast == IF wpc = "asleep" THEN "woken" ELSE wpc

(* Bug: no condbroadcast.                                                    *)
ProduceSamplesAsSilent(n) ==
  /\ timestamp + n <= MaxTimestamp
  /\ timestamp' = timestamp + n
  /\ UNCHANGED <<abort, wpc, target, timed, current, slept, result>>

ProduceSamples(n) ==
  /\ timestamp + n <= MaxTimestamp
  /\ timestamp' = timestamp + n
  /\ wpc' = Broadcast
  /\ UNCHANGED <<abort, target, timed, current, slept, result>>

AbortChannel ==
  /\ ~abort
  /\ abort' = TRUE
  /\ wpc' = Broadcast
  /\ UNCHANGED <<timestamp, target, timed, current, slept, result>>

-----------------------------------------------------------------------------
(* shm_td_iq_channel_wait *)

WaitReads(t, with) ==
  /\ wpc = "out"
  /\ target' = t /\ timed' = with /\ current' = timestamp /\ slept' = FALSE
  /\ IF timestamp >= t THEN result' = 0 /\ UNCHANGED wpc ELSE wpc' = "lock" /\ UNCHANGED result
  /\ UNCHANGED <<timestamp, abort>>

(* The loop, with the mutex *)
WaitLoops ==
  /\ wpc \in {"lock", "woken"}
  /\ LET seen == IF wpc = "woken" THEN timestamp ELSE current
         over == seen >= target \/ abort
     IN /\ current' = seen
        /\ wpc' = IF over THEN "out" ELSE "asleep"
        /\ result' = IF over THEN 0 ELSE result
  /\ slept' = (slept \/ wpc = "woken")
  /\ UNCHANGED <<timestamp, abort, target, timed>>

(* ETIMEDOUT, or EINVAL as tv_nsec may pass a second: 1, whatever the        *)
(* timestamp is by now                                                       *)
WaitTimesOut ==
  /\ wpc = "asleep" /\ timed
  /\ wpc' = "out" /\ result' = 1
  /\ UNCHANGED <<timestamp, abort, target, timed, current, slept>>

WaitSpurious ==
  /\ wpc = "asleep"
  /\ wpc' = "woken"
  /\ UNCHANGED <<timestamp, abort, target, timed, current, slept, result>>

ShmNext ==
  \/ \E n \in Produced : ProduceSamples(n)
  \/ AbortChannel
  \/ \E t \in 1 .. MaxTimestamp, with \in BOOLEAN : WaitReads(t, with)
  \/ WaitLoops \/ WaitTimesOut \/ WaitSpurious

-----------------------------------------------------------------------------
(* "Wait until sample at the specified timestamp is available": 0 is only    *)
(* returned when it is, or after an abort, and nobody sleeps over it or over *)
(* an abort, but for a first sleep with a timestamp that was stale already.  *)
WaitSound ==
  /\ wpc = "out" /\ result = 0 => timestamp >= target \/ abort
  /\ wpc = "asleep" => ~abort /\ (slept => timestamp < target) /\ current < target
=============================================================================
