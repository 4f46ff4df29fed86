---------------------------- MODULE NrMacProofs -----------------------------
(* The HARQ lists of a UE in both directions, from random access on, its     *)
(* uplink blocks, and what the CU is told of it, for any sets of HARQ        *)
(* processes and any timers.                                                 *)
EXTENDS NrMac, NrUlProofs

FailStart == (FailGrace + FailTimeout) * SlotsPerMs
RelStart == RelDelay * SlotsPerMs

RelTypeOK ==
  /\ conn \in {"up", "gone"}
  /\ f1data \in BOOLEAN /\ failure \in BOOLEAN
  /\ failTimer \in Nat /\ relTimer \in Nat
  /\ releasing \in {"no", "complete", "remove"}
  /\ command \in {"none", "never", "sent", "handled"}
  /\ asked \in Nat /\ completes \in Nat

(* How far the release at the CU's command has come *)
Released ==
  /\ command # "handled" => relTimer = 0 /\ releasing = "no" /\ completes = 0
  /\ command = "sent" => f1data
  /\ command = "handled" /\ completes = 0 => conn = "up" /\ f1data /\ (relTimer > 0 \/ releasing = "complete")
  /\ completes <= 1
  /\ relTimer > 0 /\ conn = "up" => completes = 0 /\ releasing = "no"
  /\ releasing # "no" => conn = "up"
  /\ releasing = "complete" => completes = 0
  /\ releasing = "remove" => completes = 1 /\ ~f1data

(* Before the timer has come down to the grace the CU was not asked, after   *)
(* that it was, once.                                                        *)
Reported ==
  /\ asked <= 1
  /\ failure /\ failTimer > FailGrace => asked = 0
  /\ failure /\ failTimer <= FailGrace /\ conn = "up" /\ f1data => asked = 1
  /\ conn = "gone" /\ f1data => asked = 1

(* CuInformed is not inductive: the UE must not be dropped for uplink        *)
(* failure while its release timer runs, for then the command would never be *)
(* answered.  The failure timer starts above any value of the release timer, *)
(* and the two count down together.                                          *)
RelInv ==
  /\ RelTypeOK /\ Released /\ Reported
  /\ relTimer <= RelStart
  /\ failure /\ relTimer > 0 /\ conn = "up" => failTimer > relTimer

-----------------------------------------------------------------------------
(* The failure timer starts above the grace and above the release timer.     *)
LEMMA TimerStarts ==
  /\ FailStart \in Nat /\ RelStart \in Nat
  /\ FailGrace \in Nat /\ FailGrace > 0
  /\ FailStart > FailGrace /\ FailStart > RelStart
  /\ RelStart > 0
<1> DEFINE S == SlotsPerMs
<1>1. /\ FailGrace \in Nat /\ FailTimeout \in Nat /\ RelDelay \in Nat /\ S \in Nat
      /\ FailGrace > 0 /\ FailTimeout > 0 /\ RelDelay > 0 /\ S > 0
      /\ RelDelay < FailTimeout
  BY ReleaseAssumption
<1>2. FailStart = FailGrace * S + FailTimeout * S /\ RelStart = RelDelay * S
  BY <1>1 DEF FailStart, RelStart
<1>3. \A n \in Nat : n * S \in Nat /\ n * S >= n
  BY <1>1
<1>4. FailTimeout * S = RelDelay * S + (FailTimeout - RelDelay) * S
  BY <1>1
<1>5. (FailTimeout - RelDelay) * S \in Nat /\ (FailTimeout - RelDelay) * S >= FailTimeout - RelDelay
  BY <1>1, <1>3
<1>6. /\ FailGrace * S \in Nat /\ FailGrace * S >= FailGrace
      /\ FailTimeout * S \in Nat /\ FailTimeout * S >= FailTimeout
      /\ RelDelay * S \in Nat /\ RelDelay * S >= RelDelay
  BY <1>1, <1>3
<1> HIDE DEF S
<1> QED
  BY <1>1, <1>2, <1>4, <1>5, <1>6

(* The invariant is what CuInformed says, and more.                          *)
LEMMA RelInvInforms == RelInv => CuInformed
BY DEF RelInv, RelTypeOK, Released, Reported, CuInformed

LEMMA RelInvInit == RelInit => RelInv
<1> SUFFICES ASSUME RelInit PROVE RelInv
  OBVIOUS
<1>1. failure \in BOOLEAN /\ ~failure
  BY Zenon DEF RelInit
<1>2. RelTypeOK /\ Released /\ Reported /\ relTimer = 0
  BY <1>1 DEF RelInit, RelTypeOK, Released, Reported
<1> QED
  BY <1>1, <1>2, TimerStarts DEF RelInv

(* Each step of the scheduler, of the uplink and of the F1 thread keeps it.  *)
LEMMA RelInvSlot ==
  ASSUME RelInv, RelSlot
  PROVE  RelInv'
<1>1. CASE ReleaseTimerExpires
  BY <1>1, TimerStarts DEF ReleaseTimerExpires, Locked, RelInv, RelTypeOK, Released, Reported
<1>2. CASE SendReleaseComplete
  <2>1. /\ releasing = "complete" /\ releasing' = "remove" /\ completes' = completes + 1
        /\ UNCHANGED <<conn, failure, failTimer, relTimer, command, asked>>
    BY <1>2 DEF SendReleaseComplete
  <2>2. f1data' \in BOOLEAN /\ ~f1data'
    BY <1>2, Zenon DEF SendReleaseComplete
  <2>3. RelTypeOK' /\ Released' /\ Reported'
    BY <2>1, <2>2 DEF RelInv, RelTypeOK, Released, Reported
  <2> QED
    BY <2>1, <2>3 DEF RelInv
<1>3. CASE ReleaseUe
  BY <1>3 DEF ReleaseUe, RelInv, RelTypeOK, Released, Reported
<1> QED
  BY <1>1, <1>2, <1>3 DEF RelSlot

LEMMA RelInvTrigger ==
  ASSUME RelInv, NEW on \in BOOLEAN, TriggerUlFailure(on), conn = "up",
         UNCHANGED <<conn, f1data, releasing, command, completes>>,
         relTimer' = relTimer \/ (releasing = "no" /\ relTimer # 1 /\ relTimer' = Decremented(relTimer)),
         ~failure \/ relTimer' = relTimer
  PROVE  RelInv'
<1>1. /\ relTimer' \in Nat /\ relTimer' <= relTimer /\ (relTimer' > 0 <=> relTimer > 0)
  BY DEF Decremented, RelInv, RelTypeOK
<1>2. CASE on /\ ~failure
  <2>1. failure' = TRUE /\ failTimer' = FailStart /\ asked' = 0
    BY <1>2, Zenon DEF TriggerUlFailure, FailStart
  <2> QED
    BY <1>1, <2>1, TimerStarts DEF RelInv, RelTypeOK, Released, Reported
<1>3. CASE ~(on /\ ~failure)
  <2>1. failure' = failure /\ failTimer' = failTimer /\ asked' = asked
    BY <1>3 DEF TriggerUlFailure, RelInv, RelTypeOK
  <2> QED
    BY <1>1, <2>1, TimerStarts DEF RelInv, RelTypeOK, Released, Reported
<1> QED
  BY <1>2, <1>3

LEMMA RelInvTick ==
  ASSUME RelInv, NEW timeout \in BOOLEAN, TimersTick(timeout)
  PROVE  RelInv'
<1>1. /\ conn = "up" /\ releasing = "no" /\ relTimer # 1
      /\ relTimer' = Decremented(relTimer)
      /\ UNCHANGED <<f1data, releasing, command, completes>>
  BY DEF TimersTick, Locked
<1>2. CASE ~failure
  <2>1. TriggerUlFailure(timeout) /\ UNCHANGED conn
    BY <1>2 DEF TimersTick
  <2> QED
    BY <1>1, <1>2, <2>1, RelInvTrigger
<1>3. CASE failure
  <2> DEFINE t == Decremented(failTimer)
             request == t = FailGrace
             left == IF request /\ ~f1data THEN 0 ELSE t
  <2>1. /\ failTimer' = left /\ failure' = failure
        /\ asked' = IF request /\ f1data THEN asked + 1 ELSE asked
        /\ conn' = IF left = 0 THEN "gone" ELSE "up"
    BY <1>3 DEF TimersTick
  <2>2. t \in Nat /\ (failTimer > 0 => t = failTimer - 1) /\ (failTimer = 0 => t = 0)
    BY DEF Decremented, RelInv, RelTypeOK
  <2>3. relTimer' \in Nat /\ relTimer' <= relTimer /\ (relTimer' > 0 <=> relTimer > 0)
        /\ (relTimer > 0 => relTimer' = relTimer - 1)
    BY <1>1 DEF Decremented, RelInv, RelTypeOK
  <2> HIDE DEF t
  <2>4. CASE f1data
    <3>1. left = t
      BY <2>4
    <3>2. Reported'
      BY <1>1, <1>3, <2>1, <2>2, <2>4, <3>1, TimerStarts DEF RelInv, RelTypeOK, Reported
    <3>3. relTimer > 0 => t > relTimer' /\ conn' = "up"
      BY <1>1, <1>3, <2>1, <2>2, <2>3, <3>1 DEF RelInv, RelTypeOK
    <3>4. command = "handled" /\ completes = 0 => relTimer > 0
      BY <1>1 DEF RelInv, Released
    <3>5. RelTypeOK'
      BY <1>1, <2>1, <2>2, <2>3, <3>1 DEF RelInv, RelTypeOK
    <3> QED
      BY <1>1, <1>3, <2>1, <2>2, <2>3, <3>1, <3>2, <3>3, <3>4, <3>5, TimerStarts
      DEF RelInv, RelTypeOK, Released
  <2>5. CASE ~f1data
    <3>1. asked' = asked /\ failTimer' \in Nat /\ failTimer' <= t
      BY <2>1, <2>2, <2>5
    <3>2. relTimer = 0
      BY <1>1, <2>5 DEF RelInv, RelTypeOK, Released
    <3>3. Reported'
      BY <1>1, <1>3, <2>1, <2>2, <2>5, <3>1, TimerStarts DEF RelInv, RelTypeOK, Reported
    <3> QED
      BY <1>1, <1>3, <2>1, <2>3, <2>5, <3>1, <3>2, <3>3, TimerStarts
      DEF RelInv, RelTypeOK, Released
  <2> QED
    BY <2>4, <2>5 DEF RelInv, RelTypeOK
<1> QED
  BY <1>2, <1>3 DEF RelInv, RelTypeOK

LEMMA RelInvUplink ==
  ASSUME RelInv, (\E on \in BOOLEAN : PuschReported(on)) \/ UeComesBack
  PROVE  RelInv'
<1>1. ASSUME NEW on \in BOOLEAN, PuschReported(on)
      PROVE  RelInv'
  BY <1>1, RelInvTrigger DEF PuschReported
<1>2. CASE UeComesBack
  <2>1. /\ failure' = FALSE /\ failTimer' = 0 /\ asked' = 0 /\ conn = "up"
        /\ UNCHANGED <<conn, f1data, relTimer, releasing, command, completes>>
    BY <1>2 DEF UeComesBack, ResetUlFailure
  <2> QED
    <3>1. failure' \in BOOLEAN /\ ~failure'
      BY <2>1, Zenon
    <3>2. RelTypeOK'
      BY <2>1, <3>1 DEF RelInv, RelTypeOK
    <3>3. Released' /\ Reported'
      BY <2>1, <3>1 DEF RelInv, RelTypeOK, Released, Reported
    <3> QED
      BY <2>1, <3>1, <3>2, <3>3 DEF RelInv
<1> QED
  BY <1>1, <1>2

LEMMA RelInvF1 ==
  ASSUME RelInv, RelF1 \/ CuSendsCommand
  PROVE  RelInv'
<1>1. CASE CommandUnknownUe
  BY <1>1 DEF CommandUnknownUe, RelInv, RelTypeOK, Released, Reported
<1>2. ASSUME NEW container \in BOOLEAN, CommandReleasesNow(container)
      PROVE  RelInv'
  <2>1. /\ command = "sent" /\ conn' = "gone" /\ f1data' = FALSE /\ command' = "handled"
        /\ completes' = IF f1data THEN completes + 1 ELSE completes
        /\ UNCHANGED <<failure, failTimer, relTimer, releasing, asked>>
    BY <1>2 DEF CommandReleasesNow
  <2>2. completes' = 1
    BY <2>1 DEF RelInv, RelTypeOK, Released
  <2> QED
    <3>1. f1data' \in BOOLEAN /\ ~f1data'
      BY <2>1, Zenon
    <3>2. RelTypeOK'
      BY <2>1, <2>2, <3>1 DEF RelInv, RelTypeOK
    <3>3. Released' /\ Reported'
      BY <2>1, <2>2, <3>1 DEF RelInv, RelTypeOK, Released, Reported
    <3> QED
      BY <2>1, <3>2, <3>3 DEF RelInv
<1>3. CASE CommandStartsTimer
  <2>1. relTimer' = RelStart /\ ~failure
    BY <1>3 DEF CommandStartsTimer, RelStart
  <2> QED
    BY <1>3, <2>1, TimerStarts DEF CommandStartsTimer, RelInv, RelTypeOK, Released, Reported
<1>4. CASE CuSendsCommand
  BY <1>4 DEF CuSendsCommand, RelInv, RelTypeOK, Released, Reported
<1> QED
  BY <1>1, <1>2, <1>3, <1>4 DEF RelF1

LEMMA RelInvStep == RelInv /\ [RelNext]_relVars => RelInv'
<1> SUFFICES ASSUME RelInv, [RelNext]_relVars PROVE RelInv'
  OBVIOUS
<1>1. CASE RelNext
  BY <1>1, RelInvSlot, RelInvTick, RelInvUplink, RelInvF1 DEF RelNext
<1>2. CASE UNCHANGED relVars
  BY <1>2 DEF relVars, RelInv, RelTypeOK, Released, Reported
<1> QED
  BY <1>1, <1>2

(* The CU is told what becomes of a UE it knows (CuInformed): a release      *)
(* command is answered once, and a UE dropped for uplink failure was         *)
(* reported once, for every choice of the timeouts and of the subcarrier     *)
(* spacing with which the release delay is shorter than the failure timeout. *)
THEOREM ReleaseSafety == RelSpec => []CuInformed
<1>1. RelSpec => []RelInv
  BY RelInvInit, RelInvStep, PTL DEF RelSpec
<1> QED
  BY <1>1, RelInvInforms, PTL

-----------------------------------------------------------------------------
(* The record of a downlink process *)
DlRec == [round : Nat, ndi : {0, 1}, waiting : BOOLEAN, at : Int]

(* The lists with r for the retransmission list *)
DlLists(r) == HarqInv(available, feedback, r, harq, Pids, DlRec)

(* A field of a downlink process is set.                                     *)
LEMMA DlRecExcept ==
  ASSUME NEW h \in DlRec, NEW v
  PROVE  /\ [h EXCEPT !.round = v] = [round |-> v, ndi |-> h.ndi, waiting |-> h.waiting, at |-> h.at]
         /\ [h EXCEPT !.ndi = v] = [round |-> h.round, ndi |-> v, waiting |-> h.waiting, at |-> h.at]
         /\ [h EXCEPT !.waiting = v] = [round |-> h.round, ndi |-> h.ndi, waiting |-> v, at |-> h.at]
         /\ [h EXCEPT !.at = v] = [round |-> h.round, ndi |-> h.ndi, waiting |-> h.waiting, at |-> v]
<1> DEFINE A == Nat
           B == {0, 1}
           C == BOOLEAN
           D == Int
<1>1. h \in [round : A, ndi : B, waiting : C, at : D]
  BY DEF DlRec
<1> HIDE DEF A, B, C, D
<1> QED
  BY <1>1, SMT

(* The fields of a downlink process.                                         *)
LEMMA DlRecFields ==
  ASSUME NEW h \in DlRec
  PROVE  /\ h.round \in Nat /\ h.ndi \in {0, 1} /\ 1 - h.ndi \in {0, 1}
         /\ h.waiting \in BOOLEAN /\ h.at \in Int
  BY DEF DlRec

LEMMA NoTimeInt == NoTime \in Int
  BY DEF NoTime

(* What becomes of the record of a downlink process.                         *)
LEMMA DlRecords ==
  ASSUME NEW h \in DlRec
  PROVE  /\ Finished(h) = [round |-> 0, ndi |-> 1 - h.ndi, waiting |-> h.waiting, at |-> h.at]
         /\ [h EXCEPT !.round = @ + 1] = [round |-> h.round + 1, ndi |-> h.ndi, waiting |-> h.waiting, at |-> h.at]
         /\ \A w \in Int : [h EXCEPT !.waiting = TRUE, !.at = w]
                           = [round |-> h.round, ndi |-> h.ndi, waiting |-> TRUE, at |-> w]
         /\ \A w \in Int : [h EXCEPT !.waiting = FALSE, !.at = w]
                           = [round |-> h.round, ndi |-> h.ndi, waiting |-> FALSE, at |-> w]
         /\ [h EXCEPT !.round = 0, !.waiting = FALSE, !.at = NoTime] = [round |-> 0, ndi |-> h.ndi, waiting |-> FALSE, at |-> NoTime]
<1>1. /\ h.round \in Nat /\ h.ndi \in {0, 1} /\ 1 - h.ndi \in {0, 1} /\ h.waiting \in BOOLEAN
      /\ h.at \in Int
  BY DEF DlRec
<1>2. Finished(h) = [round |-> 0, ndi |-> 1 - h.ndi, waiting |-> h.waiting, at |-> h.at]
  <2> DEFINE g == [round |-> h.round, ndi |-> 1 - h.ndi, waiting |-> h.waiting, at |-> h.at]
  <2>1. [h EXCEPT !.ndi = 1 - h.ndi] = g
    BY DlRecExcept, Zenon
  <2>2. g \in DlRec
    BY <1>1 DEF DlRec
  <2>3. [g EXCEPT !.round = 0] = [round |-> 0, ndi |-> g.ndi, waiting |-> g.waiting, at |-> g.at]
    BY <2>2, DlRecExcept, Zenon
  <2>4. Finished(h) = [g EXCEPT !.round = 0]
    BY <2>1, Zenon DEF Finished
  <2> QED
    BY <2>3, <2>4
<1>3. [h EXCEPT !.round = @ + 1] = [round |-> h.round + 1, ndi |-> h.ndi, waiting |-> h.waiting, at |-> h.at]
  BY DlRecExcept, Zenon
<1>4. ASSUME NEW v \in BOOLEAN, NEW w \in Int
      PROVE  [h EXCEPT !.waiting = v, !.at = w] = [round |-> h.round, ndi |-> h.ndi, waiting |-> v, at |-> w]
  <2> DEFINE g == [round |-> h.round, ndi |-> h.ndi, waiting |-> v, at |-> h.at]
  <2>1. [h EXCEPT !.waiting = v] = g
    BY DlRecExcept, Zenon
  <2>2. g \in DlRec
    BY <1>1 DEF DlRec
  <2>3. [g EXCEPT !.at = w] = [round |-> g.round, ndi |-> g.ndi, waiting |-> g.waiting, at |-> w]
    BY <2>2, DlRecExcept, Zenon
  <2>4. [h EXCEPT !.waiting = v, !.at = w] = [g EXCEPT !.at = w]
    BY <2>1, Zenon
  <2> QED
    BY <2>3, <2>4
<1>5. [h EXCEPT !.round = 0, !.waiting = FALSE, !.at = NoTime] = [round |-> 0, ndi |-> h.ndi, waiting |-> FALSE, at |-> NoTime]
  <2> DEFINE f == [round |-> 0, ndi |-> h.ndi, waiting |-> h.waiting, at |-> h.at]
             g == [round |-> 0, ndi |-> h.ndi, waiting |-> FALSE, at |-> h.at]
  <2>1. [h EXCEPT !.round = 0] = f
    BY DlRecExcept, Zenon
  <2>2. f \in DlRec /\ g \in DlRec
    BY <1>1 DEF DlRec
  <2>3. [f EXCEPT !.waiting = FALSE] = [round |-> f.round, ndi |-> f.ndi, waiting |-> FALSE, at |-> f.at]
    BY <2>2, DlRecExcept, Zenon
  <2>4. [g EXCEPT !.at = NoTime] = [round |-> g.round, ndi |-> g.ndi, waiting |-> g.waiting, at |-> NoTime]
    BY <2>2, DlRecExcept, Zenon
  <2>5. [f EXCEPT !.waiting = FALSE] = g
    BY <2>3
  <2>6. [h EXCEPT !.round = 0, !.waiting = FALSE, !.at = NoTime] = [g EXCEPT !.at = NoTime]
    BY <2>1, <2>5, Zenon
  <2> QED
    BY <2>4, <2>6
<1> QED
  BY <1>2, <1>3, <1>4, <1>5

(* The slots of the feedback are numbers.                                    *)
LEMMA FbTimeInt ==
  ASSUME now \in Int, NEW ring, Occasion(ring) # NoOccasion
  PROVE  FbTime(Occasion(ring)) \in Int
<1> DEFINE f == Occasion(ring)
<1>1. f \in FbIndexes
  BY DEF Occasion
<1> HIDE DEF f
<1>2. FbTimes[f] \in Nat
  BY <1>1, DlAssumption DEF FbIndexes
<1>3. Frames * SlotsPerFrame \in Nat /\ Frames * SlotsPerFrame > 0
  BY DlAssumption
<1> QED
  BY <1>2, <1>3 DEF FbTime, Later, f

(* A transmission, with feedback and without, keeps the downlink lists.      *)
LEMMA DlTransmits ==
  ASSUME now \in Int, DlLists(retrans), retrans # <<>> \/ available # <<>>, NEW ring,
         TransmitOnly(ring, Chosen) \/ \E rx \in Receptions(Chosen) : Transmit(ring, Chosen, rx)
  PROVE  HarqInv(available', feedback', retrans', harq', Pids, DlRec)
<1> DEFINE p == Chosen
           a1 == AvailableLeft(p)
           r1 == RetransLeft(p)
<1>1. TakenOut(available, retrans, harq, p, a1, r1)
  BY DEF Chosen, AvailableLeft, RetransLeft, TakenOut
<1> HIDE DEF p, a1, r1
<1>2. p \in Pids
  BY <1>1, ChosenLeaves DEF DlLists
<1>3. /\ harq[p] \in DlRec
      /\ harq[p].round \in Nat /\ harq[p].ndi \in {0, 1} /\ 1 - harq[p].ndi \in {0, 1}
      /\ harq[p].waiting \in BOOLEAN /\ harq[p].at \in Int
  BY <1>2 DEF DlLists, HarqInv, DlRec
<1>4. CASE TransmitOnly(ring, Chosen)
  <2> DEFINE g == Finished(harq[p])
  <2>1. /\ harq' = [harq EXCEPT ![p] = g] /\ feedback' = feedback
        /\ available' = AddTail(a1, p) /\ retrans' = r1
    BY <1>4, SMTT(30) DEF TransmitOnly, p, a1, r1
  <2>2. g = [round |-> 0, ndi |-> 1 - harq[p].ndi, waiting |-> harq[p].waiting, at |-> harq[p].at]
    BY <1>3, DlRecords, Zenon
  <2>3. g \in DlRec /\ (g.waiting <=> harq[p].waiting) /\ g.round = 0
    BY <1>3, <2>2 DEF DlRec
  <2> HIDE DEF g
  <2>4. HarqInv(AddTail(a1, p), feedback, r1, [harq EXCEPT ![p] = g], Pids, DlRec)
    BY <1>1, <2>3, GrantedOnly DEF DlLists
  <2> QED
    BY <2>1, <2>4
<1>5. ASSUME NEW rx \in Receptions(Chosen), Transmit(ring, Chosen, rx)
      PROVE  HarqInv(available', feedback', retrans', harq', Pids, DlRec)
  <2> DEFINE w == FbTime(Occasion(ring))
             g == [round |-> harq[p].round, ndi |-> harq[p].ndi, waiting |-> TRUE, at |-> w]
  <2>1. /\ harq' = [harq EXCEPT ![p].waiting = TRUE, ![p].at = w] /\ feedback' = AddTail(feedback, p)
        /\ available' = a1 /\ retrans' = r1 /\ Occasion(ring) # NoOccasion
    BY <1>5 DEF Transmit, p, a1, r1
  <2>2. w \in Int
    BY <2>1, FbTimeInt
  <2> HIDE DEF w
  <2>3. [harq[p] EXCEPT !.waiting = TRUE, !.at = w] = g
    BY <1>3, <2>2, DlRecords, Zenon
  <2>4. harq' = [harq EXCEPT ![p] = [harq[p] EXCEPT !.waiting = TRUE, !.at = w]]
    BY <1>2, <2>1, Zenon DEF DlLists, HarqInv
  <2>5. g \in DlRec /\ g.waiting /\ g.round = harq[p].round
    BY <1>3, <2>2 DEF DlRec
  <2> HIDE DEF g
  <2>6. HarqInv(a1, AddTail(feedback, p), r1, [harq EXCEPT ![p] = g], Pids, DlRec)
    BY <1>1, <2>5, Granted DEF DlLists
  <2> QED
    BY <2>1, <2>3, <2>4, <2>6, Zenon
<1> QED
  BY <1>4, <1>5

(* The head of the feedback list gets its answer; others are the processes   *)
(* that wait for retransmission besides.                                     *)
LEMMA DlAnswered ==
  ASSUME feedback # <<>>, NEW others, DlLists(others), NEW success,
         HandleDlHarq(Head(feedback), success, others)
  PROVE  /\ HarqInv(available', feedback', retrans', harq', Pids, DlRec)
         /\ feedback' = Tail(feedback)
         /\ harq'[Head(feedback)].round \in Nat
         /\ retrans' = IF harq'[Head(feedback)].round > 0 THEN AddTail(others, Head(feedback)) ELSE others
         /\ success => harq'[Head(feedback)].round = 0
<1> DEFINE p == Head(feedback)
           h == [harq[p] EXCEPT !.waiting = FALSE, !.at = NoTime]
           again == ~success /\ h.round < RoundMax - 1
           g == IF again THEN [h EXCEPT !.round = @ + 1] ELSE Finished(h)
<1>1. p \in Pids
  BY HeadOut DEF DlLists, HarqInv, Partition
<1>2. /\ harq[p] \in DlRec /\ harq[p].round \in Nat /\ harq[p].ndi \in {0, 1}
      /\ 1 - harq[p].ndi \in {0, 1} /\ NoTime \in Int
  <2>1. harq[p] \in DlRec
    BY <1>1 DEF DlLists, HarqInv
  <2> QED
    BY <2>1, DlRecFields, NoTimeInt
<1>3. h = [round |-> harq[p].round, ndi |-> harq[p].ndi, waiting |-> FALSE, at |-> NoTime]
  BY <1>2, DlRecords, Zenon
<1>4. /\ feedback' = Tail(feedback)
      /\ harq' = [harq EXCEPT ![p] = g]
      /\ retrans' = IF again THEN AddTail(others, p) ELSE others
      /\ available' = IF again THEN available ELSE AddTail(available, p)
  BY DEF HandleDlHarq
<1> HIDE DEF h
<1>5. /\ h \in DlRec /\ h.round \in Nat /\ ~h.waiting /\ h.waiting \in BOOLEAN /\ h.at \in Int
      /\ h.ndi \in {0, 1} /\ 1 - h.ndi \in {0, 1} /\ h.round + 1 \in Nat /\ h.round + 1 > 0
  BY <1>2, <1>3 DEF DlRec
<1>6. /\ g \in DlRec /\ ~g.waiting /\ g.round \in Nat
      /\ again => g.round > 0
      /\ ~again => g.round = 0
  <2>1. CASE again
    <3>1. g = [round |-> h.round + 1, ndi |-> h.ndi, waiting |-> h.waiting, at |-> h.at]
      BY <1>5, <2>1, DlRecords, Zenon
    <3> QED
      BY <1>5, <2>1, <3>1, SMTT(30) DEF DlRec
  <2>2. CASE ~again
    <3>1. g = [round |-> 0, ndi |-> 1 - h.ndi, waiting |-> h.waiting, at |-> h.at]
      BY <1>5, <2>2, DlRecords, Zenon
    <3> QED
      BY <1>5, <2>2, <3>1, SMTT(30) DEF DlRec
  <2> QED
    BY <2>1, <2>2
<1>7. harq'[p] = g
  BY <1>1, <1>4 DEF DlLists, HarqInv
<1>8. success => ~again
  OBVIOUS
<1> HIDE DEF g, again
<1>9. /\ g.round > 0 => HarqInv(available, Tail(feedback), AddTail(others, p), [harq EXCEPT ![p] = g], Pids, DlRec)
      /\ g.round = 0 => HarqInv(AddTail(available, p), Tail(feedback), others, [harq EXCEPT ![p] = g], Pids, DlRec)
  BY <1>6, Answered DEF DlLists
<1>10. HarqInv(available', feedback', retrans', harq', Pids, DlRec)
  BY <1>4, <1>6, <1>9
<1>11. /\ harq'[p].round \in Nat
       /\ retrans' = IF harq'[p].round > 0 THEN AddTail(others, p) ELSE others
       /\ success => harq'[p].round = 0
  BY <1>4, <1>6, <1>7, <1>8, SMTT(30)
<1> QED
  BY <1>4, <1>10, <1>11

(* The lists are reset.                                                      *)
LEMMA DlReset ==
  ASSUME DlLists(retrans),
         available' = available \o feedback \o retrans, feedback' = <<>>, retrans' = <<>>,
         harq' = [p \in Pids |-> [harq[p] EXCEPT !.round = 0, !.waiting = FALSE, !.at = NoTime]]
  PROVE  HarqInv(available', feedback', retrans', harq', Pids, DlRec)
<1>1. ASSUME NEW p \in Pids
      PROVE  harq'[p] \in DlRec /\ harq'[p].round = 0 /\ ~harq'[p].waiting
  <2>1. harq[p] \in DlRec /\ harq[p].ndi \in {0, 1} /\ NoTime \in Int
    <3>1. harq[p] \in DlRec
      BY Zenon DEF DlLists, HarqInv
    <3> QED
      BY <3>1, DlRecFields, NoTimeInt, Zenon
  <2>2. [harq[p] EXCEPT !.round = 0, !.waiting = FALSE, !.at = NoTime]
          = [round |-> 0, ndi |-> harq[p].ndi, waiting |-> FALSE, at |-> NoTime]
    BY <2>1, DlRecords, Zenon
  <2>3. harq'[p] = [round |-> 0, ndi |-> harq[p].ndi, waiting |-> FALSE, at |-> NoTime]
    BY <2>2, Zenon
  <2> QED
    BY <2>1, <2>3, Zenon DEF DlRec
<1>2. harq' \in [Pids -> DlRec]
  BY <1>1, Zenon
<1>3. HarqInv((available \o feedback) \o retrans, <<>>, <<>>, harq', Pids, DlRec)
  BY <1>1, <1>2, ListsReset, Zenon DEF DlLists
<1> QED
  BY <1>3, Zenon

-----------------------------------------------------------------------------
(* The record of a random access *)
Msg4States == {"Msg4", "WAIT_Msg4_MsgB_ACK"}
RaStates ==
  {"Msg2", "WAIT_MsgA_PUSCH", "WAIT_Msg3", "Msg3_retransmission", "connected", "released"} \cup Msg4States
RaRec == [type : {2, 4}, cfra : BOOLEAN, state : RaStates, round : Nat, timer : Int, pusch : BOOLEAN]

(* A field of the random access is set.                                      *)
LEMMA RaRecExcept ==
  ASSUME NEW h \in RaRec, NEW v
  PROVE  /\ [h EXCEPT !.state = v] = [type |-> h.type, cfra |-> h.cfra, state |-> v, round |-> h.round,
                                      timer |-> h.timer, pusch |-> h.pusch]
         /\ [h EXCEPT !.round = v] = [type |-> h.type, cfra |-> h.cfra, state |-> h.state, round |-> v,
                                      timer |-> h.timer, pusch |-> h.pusch]
         /\ [h EXCEPT !.timer = v] = [type |-> h.type, cfra |-> h.cfra, state |-> h.state, round |-> h.round,
                                      timer |-> v, pusch |-> h.pusch]
         /\ [h EXCEPT !.pusch = v] = [type |-> h.type, cfra |-> h.cfra, state |-> h.state, round |-> h.round,
                                      timer |-> h.timer, pusch |-> v]
<1> DEFINE A == {2, 4}
           B == BOOLEAN
           C == RaStates
           D == Nat
           E == Int
<1>1. h \in [type : A, cfra : B, state : C, round : D, timer : E, pusch : B]
  BY DEF RaRec
<1> HIDE DEF A, B, C, D, E
<1> QED
  BY <1>1, SMT

(* The state is set.                                                         *)
LEMMA RaSetState ==
  ASSUME NEW h \in RaRec, NEW s \in RaStates
  PROVE  LET g == [h EXCEPT !.state = s] IN g \in RaRec /\ g.state = s /\ (g.pusch <=> h.pusch)
<1> DEFINE k == [type |-> h.type, cfra |-> h.cfra, state |-> s, round |-> h.round,
                 timer |-> h.timer, pusch |-> h.pusch]
<1>1. [h EXCEPT !.state = s] = k
  BY RaRecExcept, Zenon
<1>2. /\ h.type \in {2, 4} /\ h.cfra \in BOOLEAN /\ h.state \in RaStates /\ h.round \in Nat
      /\ h.timer \in Int /\ h.pusch \in BOOLEAN /\ h.round + 1 \in Nat
  BY DEF RaRec
<1>3. k \in RaRec /\ k.state = s /\ (k.pusch <=> h.pusch)
  BY <1>2 DEF RaRec
<1> QED
  BY <1>1, <1>3, Zenon

(* The round is counted.                                                     *)
LEMMA RaNextRound ==
  ASSUME NEW h \in RaRec
  PROVE  LET g == [h EXCEPT !.round = @ + 1] IN g \in RaRec /\ g.state = h.state /\ (g.pusch <=> h.pusch)
<1> DEFINE k == [type |-> h.type, cfra |-> h.cfra, state |-> h.state, round |-> h.round + 1,
                 timer |-> h.timer, pusch |-> h.pusch]
<1>1. [h EXCEPT !.round = @ + 1] = k
  BY RaRecExcept, Zenon
<1>2. /\ h.type \in {2, 4} /\ h.cfra \in BOOLEAN /\ h.state \in RaStates /\ h.round \in Nat
      /\ h.timer \in Int /\ h.pusch \in BOOLEAN /\ h.round + 1 \in Nat
  BY DEF RaRec
<1>3. k \in RaRec /\ k.state = h.state /\ (k.pusch <=> h.pusch)
  BY <1>2 DEF RaRec
<1> QED
  BY <1>1, <1>3, Zenon

(* The timer is set.                                                         *)
LEMMA RaSetTimer ==
  ASSUME NEW h \in RaRec, NEW n \in Int
  PROVE  LET g == [h EXCEPT !.timer = n] IN g \in RaRec /\ g.state = h.state /\ (g.pusch <=> h.pusch)
<1> DEFINE k == [type |-> h.type, cfra |-> h.cfra, state |-> h.state, round |-> h.round,
                 timer |-> n, pusch |-> h.pusch]
<1>1. [h EXCEPT !.timer = n] = k
  BY RaRecExcept, Zenon
<1>2. /\ h.type \in {2, 4} /\ h.cfra \in BOOLEAN /\ h.state \in RaStates /\ h.round \in Nat
      /\ h.timer \in Int /\ h.pusch \in BOOLEAN /\ h.round + 1 \in Nat
  BY DEF RaRec
<1>3. k \in RaRec /\ k.state = h.state /\ (k.pusch <=> h.pusch)
  BY <1>2 DEF RaRec
<1> QED
  BY <1>1, <1>3, Zenon

(* A PUSCH is expected.                                                      *)
LEMMA RaPusch ==
  ASSUME NEW h \in RaRec
  PROVE  LET g == [h EXCEPT !.pusch = TRUE] IN g \in RaRec /\ g.state = h.state
<1> DEFINE k == [type |-> h.type, cfra |-> h.cfra, state |-> h.state, round |-> h.round,
                 timer |-> h.timer, pusch |-> TRUE]
<1>1. [h EXCEPT !.pusch = TRUE] = k
  BY RaRecExcept, Zenon
<1>2. /\ h.type \in {2, 4} /\ h.cfra \in BOOLEAN /\ h.state \in RaStates /\ h.round \in Nat
      /\ h.timer \in Int /\ h.pusch \in BOOLEAN /\ h.round + 1 \in Nat
  BY DEF RaRec
<1>3. k \in RaRec /\ k.state = h.state
  BY <1>2 DEF RaRec
<1> QED
  BY <1>1, <1>3, Zenon

(* No PUSCH is expected.                                                     *)
LEMMA RaNoPusch ==
  ASSUME NEW h \in RaRec
  PROVE  LET g == [h EXCEPT !.pusch = FALSE] IN g \in RaRec /\ g.state = h.state /\ ~g.pusch
<1> DEFINE k == [type |-> h.type, cfra |-> h.cfra, state |-> h.state, round |-> h.round,
                 timer |-> h.timer, pusch |-> FALSE]
<1>1. [h EXCEPT !.pusch = FALSE] = k
  BY RaRecExcept, Zenon
<1>2. /\ h.type \in {2, 4} /\ h.cfra \in BOOLEAN /\ h.state \in RaStates /\ h.round \in Nat
      /\ h.timer \in Int /\ h.pusch \in BOOLEAN /\ h.round + 1 \in Nat
  BY DEF RaRec
<1>3. k \in RaRec /\ k.state = h.state /\ ~k.pusch
  BY <1>2 DEF RaRec
<1> QED
  BY <1>1, <1>3, Zenon

(* What the steps make of the record.                                        *)
LEMMA RaRecords ==
  ASSUME ra \in RaRec
  PROVE  /\ Counted \in RaRec /\ Counted.state = ra.state /\ (Counted.pusch <=> ra.pusch)
         /\ LET g == [Counted EXCEPT !.state = "WAIT_Msg4_MsgB_ACK"]
            IN g \in RaRec /\ g.state = "WAIT_Msg4_MsgB_ACK" /\ (g.pusch <=> ra.pusch)
         /\ LET g == [ra EXCEPT !.state = "WAIT_Msg3", !.timer = CrTimer, !.pusch = TRUE]
            IN g \in RaRec /\ g.state = "WAIT_Msg3"
         /\ LET g == [ra EXCEPT !.state = "Msg4", !.pusch = FALSE]
            IN g \in RaRec /\ g.state = "Msg4" /\ ~g.pusch
         /\ LET g == [ra EXCEPT !.round = @ + 1, !.state = "Msg3_retransmission", !.pusch = FALSE]
            IN g \in RaRec /\ g.state = "Msg3_retransmission" /\ ~g.pusch
         /\ \A s \in {"connected", "released"} : Ended(s) \in RaRec /\ Ended(s).state = s
<1>1. ra.timer - 1 \in Int /\ CrTimer \in Int
  BY RaAssumption DEF RaRec
<1>2. "WAIT_Msg4_MsgB_ACK" \in RaStates /\ "WAIT_Msg3" \in RaStates /\ "Msg4" \in RaStates
      /\ "Msg3_retransmission" \in RaStates
  BY DEF RaStates, Msg4States
<1>3. Counted \in RaRec /\ Counted.state = ra.state /\ (Counted.pusch <=> ra.pusch)
  <2>1. CASE Counting
    <3>1. Counted = [ra EXCEPT !.timer = ra.timer - 1]
      BY <2>1, Zenon DEF Counted
    <3> QED
      BY <1>1, <3>1, RaSetTimer, Zenon
  <2>2. CASE ~Counting
    BY <2>2, Zenon DEF Counted
  <2> QED
    BY <2>1, <2>2
<1>4. LET g == [Counted EXCEPT !.state = "WAIT_Msg4_MsgB_ACK"]
      IN g \in RaRec /\ g.state = "WAIT_Msg4_MsgB_ACK" /\ (g.pusch <=> ra.pusch)
  BY <1>2, <1>3, RaSetState, Zenon
<1>5. LET g == [ra EXCEPT !.state = "WAIT_Msg3", !.timer = CrTimer, !.pusch = TRUE]
      IN g \in RaRec /\ g.state = "WAIT_Msg3"
  <2> DEFINE g1 == [ra EXCEPT !.state = "WAIT_Msg3"]
             g2 == [g1 EXCEPT !.timer = CrTimer]
             g3 == [g2 EXCEPT !.pusch = TRUE]
  <2>1. g1 \in RaRec /\ g1.state = "WAIT_Msg3"
    BY <1>2, RaSetState, Zenon
  <2>2. [ra EXCEPT !.state = "WAIT_Msg3", !.timer = CrTimer, !.pusch = TRUE] = g3
    BY Zenon
  <2> HIDE DEF g1
  <2>3. g2 \in RaRec /\ g2.state = g1.state
    BY <1>1, <2>1, RaSetTimer, Zenon
  <2> HIDE DEF g2
  <2>4. g3 \in RaRec /\ g3.state = g2.state
    BY <2>3, RaPusch, Zenon
  <2> HIDE DEF g3
  <2> QED
    BY <2>1, <2>2, <2>3, <2>4, Zenon
<1>6. LET g == [ra EXCEPT !.state = "Msg4", !.pusch = FALSE]
      IN g \in RaRec /\ g.state = "Msg4" /\ ~g.pusch
  <2> DEFINE g1 == [ra EXCEPT !.state = "Msg4"]
             g2 == [g1 EXCEPT !.pusch = FALSE]
  <2>1. g1 \in RaRec /\ g1.state = "Msg4"
    BY <1>2, RaSetState, Zenon
  <2>2. [ra EXCEPT !.state = "Msg4", !.pusch = FALSE] = g2
    BY Zenon
  <2> HIDE DEF g1
  <2>3. g2 \in RaRec /\ g2.state = g1.state /\ ~g2.pusch
    BY <2>1, RaNoPusch, Zenon
  <2> HIDE DEF g2
  <2> QED
    BY <2>1, <2>2, <2>3, Zenon
<1>7. LET g == [ra EXCEPT !.round = @ + 1, !.state = "Msg3_retransmission", !.pusch = FALSE]
      IN g \in RaRec /\ g.state = "Msg3_retransmission" /\ ~g.pusch
  <2> DEFINE g1 == [ra EXCEPT !.round = @ + 1]
             g2 == [g1 EXCEPT !.state = "Msg3_retransmission"]
             g3 == [g2 EXCEPT !.pusch = FALSE]
  <2>1. g1 \in RaRec
    BY RaNextRound, Zenon
  <2>2. [ra EXCEPT !.round = @ + 1, !.state = "Msg3_retransmission", !.pusch = FALSE] = g3
    BY Zenon
  <2> HIDE DEF g1
  <2>3. g2 \in RaRec /\ g2.state = "Msg3_retransmission"
    BY <1>2, <2>1, RaSetState, Zenon
  <2> HIDE DEF g2
  <2>4. g3 \in RaRec /\ g3.state = g2.state /\ ~g3.pusch
    BY <2>3, RaNoPusch, Zenon
  <2> HIDE DEF g3
  <2> QED
    BY <2>2, <2>3, <2>4, Zenon
<1>8. \A s \in {"connected", "released"} : Ended(s) \in RaRec /\ Ended(s).state = s
  BY DEF Ended, RaRec, RaStates
<1> QED
  BY <1>3, <1>4, <1>5, <1>6, <1>7, <1>8, Zenon

-----------------------------------------------------------------------------
(* Until the UE is connected, at most one process, that of Msg4, is out of   *)
(* the available list.  While it is retransmitted it is in two lists:        *)
(* nr_generate_Msg4_MsgB leaves it in the retransmission list.               *)
OneProcess ==
  /\ feedback = <<>> \/ \E p \in Pids : feedback = <<p>>
  /\ retrans = <<>> \/ \E p \in Pids : retrans = <<p>> /\ feedback \in {<<>>, <<p>>}
  /\ DlLists(IF feedback = <<>> THEN retrans ELSE <<>>)

(* No PUSCH is expected, and no process is out, but in the states that need  *)
(* it.                                                                       *)
RaLists ==
  /\ OneProcess
  /\ ra.state \in Msg4States => ~ra.pusch
  /\ ra.state \notin Msg4States => feedback = <<>> /\ retrans = <<>>
  /\ ra.state = "Msg4" => feedback = <<>>

RaInv ==
  /\ now \in Int /\ ra \in RaRec
  /\ ra.state = "connected" => DlLists(retrans)
  /\ InRa => RaLists

(* A step of a UE in the access list that leaves the lists alone.            *)
LEMMA RaQuiet ==
  ASSUME RaInv, InRa, UNCHANGED <<available, feedback, retrans, harq>>, now' \in Int, ra' \in RaRec,
         \/ ra'.state = "released"
         \/ ra'.state = ra.state /\ (ra'.pusch => ra.pusch)
         \/ ra.state \notin Msg4States /\ ra'.state # "connected" /\ (ra'.state \in Msg4States => ~ra'.pusch)
  PROVE  RaInv'
<1>1. OneProcess'
  BY DEF RaInv, RaLists, OneProcess, DlLists, HarqInv
<1>2. "released" \notin Msg4States
  BY DEF Msg4States
<1>3. CASE ra'.state = "released"
  BY <1>3 DEF RaInv, InRa
<1>4. CASE ra'.state = ra.state /\ (ra'.pusch => ra.pusch)
  BY <1>1, <1>4 DEF RaInv, RaLists, InRa
<1>5. CASE ra.state \notin Msg4States /\ ra'.state # "connected" /\ (ra'.state \in Msg4States => ~ra'.pusch)
  BY <1>1, <1>5 DEF RaInv, RaLists, InRa
<1> QED
  BY <1>3, <1>4, <1>5, SMTT(30)

(* The next slot is a number.                                                *)
LEMMA LaterInt == ASSUME NextSlot PROVE now' \in Int
<1> QED
  BY DlAssumption DEF NextSlot, Later

(* The steps that leave the lists alone.                                     *)
LEMMA RaInvQuietSteps ==
  ASSUME RaInv,
         \/ RaSlotIdle \/ GenerateMsg2OrMsg3Retransmission \/ RaUlSlot
         \/ \E outcome \in {"ccch", "crnti", "crc", "no_signal"} : RxRaSdu(outcome)
         \/ (UciArrives \/ UciLost) /\ InRa /\ UNCHANGED raVars
  PROVE  RaInv'
<1> DEFINE Lists == UNCHANGED <<available, feedback, retrans, harq>>
<1>1. ra \in RaRec /\ now \in Int
  BY DEF RaInv
<1>2. /\ Counted \in RaRec /\ Counted.state = ra.state /\ (Counted.pusch <=> ra.pusch)
      /\ Ended("released") \in RaRec /\ Ended("released").state = "released"
  BY <1>1, RaRecords, Zenon
<1>3. CASE RaSlotIdle \/ RaUlSlot
  <2>1. Lists /\ NextSlot /\ InRa
    BY <1>3, SMTT(30) DEF RaSlotIdle, RaUlSlot, RaLock
  <2>2. ra' = Counted \/ ra' = Ended("released")
    BY <1>3 DEF RaSlotIdle, RaUlSlot, TimerExpires
  <2> QED
    BY <1>2, <2>1, <2>2, LaterInt, RaQuiet, SMTT(30)
<1>4. CASE GenerateMsg2OrMsg3Retransmission
  <2>1. Lists /\ NextSlot /\ InRa /\ ra.state \notin Msg4States
    BY <1>4 DEF GenerateMsg2OrMsg3Retransmission, RaLock, Msg4States
  <2>2. ra' = [ra EXCEPT !.state = "WAIT_Msg3", !.timer = CrTimer, !.pusch = TRUE]
    BY <1>4, Zenon DEF GenerateMsg2OrMsg3Retransmission
  <2>3. ra' \in RaRec /\ ra'.state = "WAIT_Msg3"
    BY <1>1, <2>2, RaRecords, Zenon
  <2>4. ra'.state # "connected" /\ ra'.state \notin Msg4States
    BY <2>3 DEF Msg4States
  <2> QED
    BY <2>1, <2>3, <2>4, LaterInt, RaQuiet
<1>5. ASSUME NEW outcome \in {"ccch", "crnti", "crc", "no_signal"}, RxRaSdu(outcome)
      PROVE  RaInv'
  <2>1. Lists /\ now' \in Int /\ InRa /\ ra.pusch
    BY <1>1, <1>5 DEF RxRaSdu, dlVars
  <2>2. ra.state \notin Msg4States
    BY <2>1 DEF RaInv, RaLists
  <2>3. \/ ra' = [ra EXCEPT !.state = "Msg4", !.pusch = FALSE]
        \/ ra' = [ra EXCEPT !.pusch = FALSE]
        \/ ra' = [ra EXCEPT !.round = @ + 1, !.state = "Msg3_retransmission", !.pusch = FALSE]
        \/ ra' = Ended("released")
    BY <1>5, Zenon DEF RxRaSdu, Msg3Failed
  <2>4. CASE ra' = [ra EXCEPT !.state = "Msg4", !.pusch = FALSE]
    <3>1. ra' \in RaRec /\ ra'.state = "Msg4" /\ ~ra'.pusch
      BY <1>1, <2>4, RaRecords, Zenon
    <3> QED
      BY <2>1, <2>2, <3>1, RaQuiet
  <2>5. CASE ra' = [ra EXCEPT !.pusch = FALSE]
    <3>1. ra' \in RaRec /\ ra'.state = ra.state /\ ~ra'.pusch
      BY <1>1, <2>5, RaNoPusch, Zenon
    <3> QED
      BY <2>1, <3>1, RaQuiet
  <2>6. CASE ra' = [ra EXCEPT !.round = @ + 1, !.state = "Msg3_retransmission", !.pusch = FALSE]
    <3>1. ra' \in RaRec /\ ra'.state = "Msg3_retransmission" /\ ~ra'.pusch
      BY <1>1, <2>6, RaRecords, Zenon
    <3> QED
      BY <2>1, <2>2, <3>1, RaQuiet
  <2>7. CASE ra' = Ended("released")
    BY <1>2, <2>1, <2>7, RaQuiet
  <2> QED
    BY <2>3, <2>4, <2>5, <2>6, <2>7
<1>6. CASE (UciArrives \/ UciLost) /\ InRa /\ UNCHANGED raVars
  <2>1. Lists /\ now' = now /\ InRa /\ ra' = ra
    BY <1>6 DEF UciArrives, UciLost, raVars
  <2> QED
    BY <1>1, <2>1, RaQuiet, SMTT(30)
<1> QED
  BY <1>3, <1>4, <1>5, <1>6

(* Msg4 or MsgB is sent.                                                     *)
LEMMA RaInvMsg4 == ASSUME RaInv, GenerateMsg4MsgB PROVE RaInv'
<1> DEFINE p == Chosen
           a1 == AvailableLeft(p)
           r1 == RetransLeft(p)
           w == FbTime(Occasion(pucch))
           g == [round |-> harq[p].round, ndi |-> harq[p].ndi, waiting |-> TRUE, at |-> w]
<1>1. /\ ra \in RaRec /\ now \in Int /\ InRa /\ ra.state = "Msg4" /\ "Msg4" \in Msg4States
      /\ "WAIT_Msg4_MsgB_ACK" \in Msg4States
  BY DEF RaInv, GenerateMsg4MsgB, RaLock, Msg4States
<1>2. ~ra.pusch /\ OneProcess /\ feedback = <<>>
  BY <1>1 DEF RaInv, RaLists
<1>3. DlLists(retrans) /\ (retrans = <<>> \/ \E q \in Pids : retrans = <<q>>)
  BY <1>2 DEF OneProcess
<1>4. retrans # <<>> \/ available # <<>>
  <2>1. SUFFICES ASSUME retrans = <<>>, available = <<>> PROVE FALSE
    OBVIOUS
  <2>2. Entries(available) \cup Entries(feedback) \cup Entries(retrans) = Pids
    BY <1>3 DEF DlLists, HarqInv, Partition
  <2> QED
    BY <1>2, <2>1, <2>2, EmptyList, DlAssumption
<1>5. TakenOut(available, retrans, harq, p, a1, r1)
  BY <1>4 DEF Chosen, AvailableLeft, RetransLeft, TakenOut
<1>6. r1 = <<>> /\ a1 = IF retrans = <<>> THEN Tail(available) ELSE available
  <2>1. CASE retrans = <<>>
    <3>1. p = Head(available) /\ p \in Entries(available)
      BY <1>3, <1>4, <2>1, HeadOut DEF Chosen, DlLists, HarqInv, Partition
    <3>2. harq[p].round = 0
      BY <1>3, <3>1, SMTT(30) DEF DlLists, HarqInv
    <3> QED
      BY <2>1, <3>2, SMTT(30) DEF AvailableLeft, RetransLeft
  <2>2. ASSUME NEW q \in Pids, retrans = <<q>> PROVE r1 = <<>> /\ a1 = available /\ retrans # <<>>
    <3>1. p = q /\ p \in Entries(retrans) /\ Tail(retrans) = <<>> /\ retrans # <<>>
      BY <2>2, ListOfOne DEF Chosen
    <3>2. harq[p].round > 0 /\ harq[p].round \in Nat
      BY <1>3, <2>2, <3>1 DEF DlLists, HarqInv
    <3>3. harq[p].round # 0
      BY <3>2
    <3> QED
      BY <3>1, <3>3 DEF AvailableLeft, RetransLeft
  <2> QED
    BY <1>3, <2>1, <2>2
<1>7. /\ available' = a1 /\ retrans' = retrans /\ feedback' = AddTail(feedback, p) /\ NextSlot
      /\ Occasion(pucch) # NoOccasion
  BY <1>6 DEF GenerateMsg4MsgB
<1>8. /\ harq' = [harq EXCEPT ![p].waiting = TRUE, ![p].at = w]
      /\ ra' = [Counted EXCEPT !.state = "WAIT_Msg4_MsgB_ACK"]
  BY Zenon DEF GenerateMsg4MsgB
<1>9. ra' \in RaRec /\ ra'.state = "WAIT_Msg4_MsgB_ACK" /\ (ra'.pusch <=> ra.pusch)
  BY <1>1, <1>8, RaRecords, Zenon
<1>10. w \in Int
  BY <1>1, <1>7, FbTimeInt
<1>11. p \in Pids
  BY <1>3, <1>5, ChosenLeaves DEF DlLists
<1> HIDE DEF p, a1, r1, w
<1>12. harq[p] \in DlRec
  BY <1>3, <1>11 DEF DlLists, HarqInv
<1>13. [harq[p] EXCEPT !.waiting = TRUE, !.at = w] = g
  BY <1>10, <1>12, DlRecords, Zenon
<1>14. harq' = [harq EXCEPT ![p] = [harq[p] EXCEPT !.waiting = TRUE, !.at = w]]
  BY <1>3, <1>8, <1>11, Zenon DEF DlLists, HarqInv
<1>15. harq' = [harq EXCEPT ![p] = g]
  BY <1>13, <1>14, Zenon
<1>16. g \in DlRec /\ g.waiting /\ g.round = harq[p].round
  <2>1. harq[p].round \in Nat /\ harq[p].ndi \in {0, 1}
    BY <1>12, DlRecFields, SMTT(30)
  <2> QED
    BY <1>10, <2>1 DEF DlRec
<1> HIDE DEF g
<1>17. HarqInv(a1, AddTail(feedback, p), r1, [harq EXCEPT ![p] = g], Pids, DlRec)
  BY <1>3, <1>5, <1>16, Granted DEF DlLists
<1>18. HarqInv(available', feedback', <<>>, harq', Pids, DlRec)
  BY <1>6, <1>7, <1>15, <1>17
<1>19. feedback' = <<p>> /\ feedback' # <<>>
  BY <1>2, <1>7 DEF AddTail
<1>20. retrans' = <<>> \/ retrans' = <<p>>
  <2>1. ASSUME NEW q \in Pids, retrans = <<q>> PROVE retrans' = <<p>>
    BY <1>7, <2>1, ListOfOne DEF p, Chosen
  <2> QED
    BY <1>3, <1>7, <2>1
<1>21. OneProcess'
  <2>1. DlLists(IF feedback = <<>> THEN retrans ELSE <<>>)'
    BY <1>18, <1>19 DEF DlLists
  <2> QED
    BY <1>11, <1>19, <1>20, <2>1 DEF OneProcess
<1>22. RaLists'
  BY <1>1, <1>2, <1>9, <1>21, SMTT(30) DEF RaLists
<1> QED
  BY <1>7, <1>9, <1>22, LaterInt DEF RaInv, InRa

(* Msg4 or MsgB gets its answer.                                             *)
LEMMA RaInvAnswer == ASSUME RaInv, RaApplyBit PROVE RaInv'
<1>1. /\ ra \in RaRec /\ now \in Int /\ now' = now /\ InRa /\ feedback # <<>>
      /\ "Msg4" \in RaStates /\ "Msg4" \in Msg4States
  BY DEF RaInv, RaApplyBit, RaStates, Msg4States
<1>2. OneProcess /\ ra.state \in Msg4States /\ ra.state # "Msg4" /\ ~ra.pusch
  BY <1>1 DEF RaInv, RaLists
<1>3. PICK p \in Pids : feedback = <<p>>
  BY <1>1, <1>2 DEF OneProcess
<1>4. Head(feedback) = p /\ Tail(feedback) = <<>>
  BY <1>3, ListOfOne
<1>5. Without(retrans, p) = <<>>
  <2>1. ASSUME NEW q \in Pids, retrans = <<q>>, feedback \in {<<>>, <<q>>} PROVE retrans = <<p>>
    BY <1>1, <1>4, <2>1, ListOfOne
  <2>2. retrans = <<>> \/ retrans = <<p>>
    BY <1>2, <2>1 DEF OneProcess
  <2> QED
    BY <2>2, ListOfOne, Zenon
<1>6. DlLists(<<>>)
  BY <1>1, <1>2 DEF OneProcess
<1> DEFINE ack == Head(hand.bits)
<1>7. HandleDlHarq(Head(feedback), ack, <<>>) /\ ra' = CheckMsg4MsgBAck(harq'[p], ack)
  BY <1>4, <1>5, Zenon DEF RaApplyBit
<1> HIDE DEF ack
<1>8. /\ HarqInv(available', feedback', retrans', harq', Pids, DlRec)
      /\ feedback' = Tail(feedback) /\ harq'[Head(feedback)].round \in Nat
      /\ retrans' = IF harq'[Head(feedback)].round > 0 THEN AddTail(<<>>, Head(feedback)) ELSE <<>>
      /\ ack => harq'[Head(feedback)].round = 0
  BY <1>1, <1>6, <1>7, DlAnswered, Zenon
<1> DEFINE n == harq'[p].round
<1>9. /\ feedback' = <<>> /\ n \in Nat
      /\ retrans' = IF n > 0 THEN <<p>> ELSE <<>>
  BY <1>4, <1>8, SMTT(30) DEF AddTail
<1>10. OneProcess'
  <2>1. DlLists(IF feedback = <<>> THEN retrans ELSE <<>>)'
    BY <1>8, <1>9, SMTT(30) DEF DlLists
  <2> QED
    BY <1>9, <2>1, SMTT(30) DEF OneProcess
<1>11. DlLists(retrans)'
  BY <1>8, SMTT(30) DEF DlLists
<1>12. CASE n > 0
  <2>1. ra' = [ra EXCEPT !.state = "Msg4"]
    BY <1>7, <1>12, Zenon DEF CheckMsg4MsgBAck
  <2>2. ra' \in RaRec /\ ra'.state = "Msg4" /\ (ra'.pusch <=> ra.pusch)
    BY <1>1, <2>1, RaSetState, Zenon
  <2> QED
    BY <1>1, <1>2, <1>9, <1>10, <2>2 DEF RaInv, RaLists, InRa
<1>13. CASE ~(n > 0) /\ ack
  <2>1. ra' = Ended("connected") \/ ra' = Ended("released")
    BY <1>7, <1>13, Zenon DEF CheckMsg4MsgBAck
  <2>2. ra' \in RaRec /\ ra'.state \in {"connected", "released"}
    BY <1>1, <2>1, RaRecords, Zenon
  <2> QED
    BY <1>1, <1>11, <2>2 DEF RaInv, InRa
<1>14. CASE ~(n > 0) /\ ~ack
  <2>1. ra' = ra
    BY <1>7, <1>14, Zenon DEF CheckMsg4MsgBAck
  <2> QED
    BY <1>1, <1>2, <1>10, <2>1 DEF RaInv, RaLists, InRa
<1> QED
  BY <1>12, <1>13, <1>14

(* Contention-free access ends.                                              *)
LEMMA RaInvCfra == ASSUME RaInv, CfraCompletes PROVE RaInv'
<1>1. /\ ra \in RaRec /\ now \in Int /\ now' = now /\ InRa /\ ra.pusch
      /\ ra' \in {Ended("connected"), Ended("released")}
  BY Zenon DEF RaInv, CfraCompletes
<1>2. feedback = <<>> /\ retrans = <<>> /\ DlLists(retrans)
  BY <1>1 DEF RaInv, RaLists, OneProcess
<1>3. HarqInv(available', feedback', retrans', harq', Pids, DlRec)
  BY <1>2, DlReset, Zenon DEF CfraCompletes
<1>4. ra' \in RaRec /\ ra'.state \in {"connected", "released"}
  BY <1>1, RaRecords, Zenon
<1>5. DlLists(retrans)'
  BY <1>3 DEF DlLists
<1> QED
  BY <1>1, <1>4, <1>5 DEF RaInv, InRa

(* The connected UE.                                                         *)
LEMMA RaInvConnected ==
  ASSUME RaInv, ra.state = "connected", DlNext, UNCHANGED raVars
  PROVE  RaInv'
<1>1. ra \in RaRec /\ now \in Int /\ ra' = ra /\ DlLists(retrans)
  BY DEF RaInv, raVars
<1>2. SUFFICES HarqInv(available', feedback', retrans', harq', Pids, DlRec) /\ now' \in Int
  <2>1. ASSUME HarqInv(available', feedback', retrans', harq', Pids, DlRec) /\ now' \in Int
        PROVE  DlLists(retrans)'
    BY <2>1 DEF DlLists
  <2> QED
    BY <1>1, <2>1 DEF RaInv, InRa
<1>3. CASE DlSlotTransmit
  <2>1. retrans # <<>> \/ available # <<>>
    BY <1>3 DEF DlSlotTransmit
  <2>2. PICK ring : TransmitOnly(ring, Chosen) \/ \E rx \in Receptions(Chosen) : Transmit(ring, Chosen, rx)
    BY <1>3, Zenon DEF DlSlotTransmit
  <2>3. NextSlot
    BY <1>3, Zenon DEF DlSlotTransmit
  <2> QED
    BY <1>1, <2>1, <2>2, <2>3, DlTransmits, LaterInt, Zenon
<1>4. CASE DlSlotIdle \/ UlSlot
  <2>1. UNCHANGED <<available, feedback, retrans, harq>> /\ NextSlot
    BY <1>4, Zenon DEF DlSlotIdle, UlSlot
  <2> QED
    BY <1>1, <2>1, LaterInt DEF DlLists
<1>5. CASE UciArrives \/ UciLost \/ NoProcess
  <2>1. UNCHANGED <<available, feedback, retrans, harq>> /\ now' = now
    BY <1>5, Zenon DEF UciArrives, UciLost, NoProcess
  <2> QED
    BY <1>1, <2>1 DEF DlLists
<1>6. CASE SkipMissed \/ ApplyBit
  <2>1. feedback # <<>> /\ now' = now
    BY <1>6, Zenon DEF SkipMissed, ApplyBit
  <2>2. PICK success : HandleDlHarq(Head(feedback), success, retrans)
    BY <1>6, Zenon DEF SkipMissed, ApplyBit
  <2>3. HarqInv(available', feedback', retrans', harq', Pids, DlRec)
    BY <1>1, <2>1, <2>2, DlAnswered, Zenon
  <2> QED
    BY <1>1, <2>1, <2>3
<1>7. CASE ResetDlHarqList
  <2>1. now' = now
    BY <1>7, Zenon DEF ResetDlHarqList
  <2>2. HarqInv(available', feedback', retrans', harq', Pids, DlRec)
    BY <1>1, <1>7, DlReset, Zenon DEF ResetDlHarqList
  <2> QED
    BY <1>1, <2>1, <2>2
<1> QED
  BY <1>3, <1>4, <1>5, <1>6, <1>7 DEF DlNext, DlUci

(* Every step, and the step that changes nothing.                            *)
LEMMA RaInvStep == RaInv /\ [RaNext]_macVars => RaInv'
<1> SUFFICES ASSUME RaInv, [RaNext]_macVars PROVE RaInv'
  OBVIOUS
<1>1. CASE UNCHANGED macVars
  BY <1>1 DEF macVars, dlVars, raVars, RaInv, InRa, RaLists, OneProcess, DlLists
<1>2. CASE CuReleases
  <2>1. ra' = Ended("released") /\ now' = now /\ ra \in RaRec /\ now \in Int
    BY <1>2 DEF CuReleases, dlVars, RaInv
  <2>2. ra' \in RaRec /\ ra'.state = "released"
    BY <2>1, RaRecords, Zenon
  <2> QED
    BY <2>1, <2>2 DEF RaInv, InRa
<1> QED
  BY <1>1, <1>2, RaInvQuietSteps, RaInvMsg4, RaInvAnswer, RaInvCfra, RaInvConnected, SMTT(30)
  DEF RaNext, RaSlot, RxPusch, RaUci

(* The lists as they are created.                                            *)
LEMMA DlListsCreated == DlInit => now \in Int /\ feedback = <<>> /\ retrans = <<>> /\ DlLists(<<>>)
<1> SUFFICES ASSUME DlInit PROVE now \in Int /\ feedback = <<>> /\ retrans = <<>> /\ DlLists(<<>>)
  OBVIOUS
<1>1. available \in FullLists(Pids) /\ feedback = <<>> /\ retrans = <<>> /\ now = 0
  BY DEF DlInit
<1>2. available \in Seq(Pids) /\ Partition(available, <<>>, <<>>, Pids)
  <2>1. Cardinality(Pids) \in Nat /\ Pids \subseteq Int
    BY DlAssumption
  <2> QED
    BY <1>1, <2>1, FullPartition, Zenon
<1>3. Idle \in DlRec /\ Idle.round = 0 /\ ~Idle.waiting
  BY DEF Idle, NoTime, DlRec
<1>4. harq \in [Pids -> DlRec] /\ \A p \in Pids : harq[p].round = 0 /\ ~harq[p].waiting
  <2>1. harq = [p \in Pids |-> Idle]
    BY DEF DlInit
  <2> QED
    BY <1>3, <2>1
<1> QED
  BY <1>1, <1>2, <1>4, ListsCreated DEF DlLists

LEMMA RaInvInit == RaInit => RaInv
<1> SUFFICES ASSUME RaInit PROVE RaInv
  OBVIOUS
<1>1. now \in Int /\ feedback = <<>> /\ retrans = <<>> /\ DlLists(<<>>)
  BY DlListsCreated, SMTT(30) DEF RaInit
<1>2. ra \in RaRec /\ ra.state \in {"WAIT_MsgA_PUSCH", "Msg2"}
  <2>1. PICK type \in {2, 4}, cfra \in BOOLEAN :
          ra = [type |-> type, cfra |-> cfra, round |-> 0, timer |-> 0,
                state |-> IF type = 2 THEN "WAIT_MsgA_PUSCH" ELSE "Msg2", pusch |-> type = 2]
    BY DEF RaInit
  <2>2. (type = 2) \in BOOLEAN
    OBVIOUS
  <2> QED
    BY <2>1, <2>2, SMTT(30) DEF RaRec, RaStates
<1>3. ra.state \notin Msg4States /\ ra.state # "connected"
  BY <1>2 DEF Msg4States
<1>4. OneProcess
  BY <1>1 DEF OneProcess
<1> QED
  BY <1>1, <1>2, <1>3, <1>4 DEF RaInv, RaLists

LEMMA RaInvLists == RaInv => ConnectedListsConsistent
BY DEF RaInv, DlLists, HarqInv, ConnectedListsConsistent, HarqListsConsistent

(* ConnectedListsConsistent for any number of HARQ processes, any feedback   *)
(* times and any uplink slots: through the HARQ of Msg4, contention-free     *)
(* access, lost UCIs, missed feedback and resets of the lists, no process    *)
(* is lost or in two lists when the UE is connected.                         *)
THEOREM RaSafety == RaSpec => []ConnectedListsConsistent
<1>1. RaSpec => []RaInv
  BY RaInvInit, RaInvStep, PTL DEF RaSpec
<1> QED
  BY <1>1, RaInvLists, PTL

-----------------------------------------------------------------------------
(* The release: a step of the MAC is one of the release or changes nothing   *)
(* of it.                                                                    *)
LEMMA MacIsRelStep == [MacNext]_vars => [RelNext]_relVars
<1> SUFFICES ASSUME [MacNext]_vars PROVE [RelNext]_relVars
  OBVIOUS
<1>1. CASE UNCHANGED vars
  BY <1>1 DEF vars, ulVars
<1>2. CASE part = "dl" /\ RaNext /\ UNCHANGED <<ulVars, list>>
  BY <1>2 DEF ulVars
<1>3. CASE part = "list" /\ ListNext /\ UNCHANGED <<macVars, ulVars>>
  BY <1>3 DEF ulVars
<1>4. CASE UlSlotGrant
  BY <1>4, Zenon DEF UlSlotGrant, RelNext
<1>5. CASE UlSlotIdle
  BY <1>5 DEF UlSlotIdle, RelNext
<1>6. ASSUME NEW ok \in BOOLEAN, NEW low \in BOOLEAN, RxSdu(ok, low) PROVE RelNext
  <2>1. PICK count : PuschReported(~ok /\ count >= DtxThreshold)
    BY <1>6 DEF RxSdu
  <2>2. (~ok /\ count >= DtxThreshold) \in BOOLEAN
    OBVIOUS
  <2> QED
    BY <2>1, <2>2, Zenon DEF RelNext
<1>7. CASE UlCrc \/ IndicationLost
  BY <1>7, Zenon DEF UlCrc, SkipProcess, HandleUlHarq, UnexpectedProcess, IndicationLost
<1>8. CASE ResetUlHarqList
  BY <1>8, Zenon DEF ResetUlHarqList, RelNext
<1>9. CASE ReleaseF1 \/ (CuSendsCommand /\ UNCHANGED harqVars)
  BY <1>9 DEF ReleaseF1, RelNext
<1> QED
  BY <1>1, <1>2, <1>3, <1>4, <1>5, <1>6, <1>7, <1>8, <1>9, SMTT(30)
  DEF MacNext, UlNext, UlPhy, ReleaseNext, ReleaseSlot

LEMMA MacInitIsRelInit == MacInit => RelInit
BY DEF MacInit, UlInit

(* CuInformed of the whole MAC, in which uplink failures come from the       *)
(* PUSCHs and from the transmission timeout, and the UE comes back through   *)
(* random access.                                                            *)
THEOREM MacInformsCu == MacSpec => []CuInformed
<1>1. MacSpec => RelSpec
  BY MacInitIsRelInit, MacIsRelStep, PTL DEF MacSpec, RelSpec
<1> QED
  BY <1>1, ReleaseSafety, PTL

-----------------------------------------------------------------------------
LEMMA UlInvStep == UlInv /\ [MacNext]_vars => UlInv'
<1> SUFFICES ASSUME UlInv, [MacNext]_vars PROVE UlInv'
  OBVIOUS
<1>1. CASE UNCHANGED ulListVars
  BY <1>1 DEF ulListVars, UlInv
<1>2. CASE UlSlotGrant
  BY <1>2, UlInvGrant
<1>3. CASE SkipProcess \/ HandleUlHarq
  BY <1>3, UlInvResult, Zenon DEF SkipProcess, HandleUlHarq
<1>4. CASE ResetUlHarqList
  BY <1>4, UlInvReset
<1>5. CASE UNCHANGED harqVars
  BY <1>1, <1>5 DEF harqVars, ulListVars
<1>6. CASE UNCHANGED ulVars
  BY <1>5, <1>6 DEF ulVars
<1>7. CASE UlNext
  <2>1. CASE UlSlotIdle
    BY <1>5, <2>1, SMTT(30) DEF UlSlotIdle
  <2>2. ASSUME NEW ok \in BOOLEAN, NEW low \in BOOLEAN, RxSdu(ok, low) PROVE UlInv'
    BY <1>1, <2>2, Zenon DEF RxSdu, ulListVars
  <2>3. CASE UnexpectedProcess \/ IndicationLost
    BY <1>1, <2>3 DEF UnexpectedProcess, IndicationLost, ulListVars
  <2> QED
    BY <1>2, <1>3, <1>4, <1>7, <2>1, <2>2, <2>3 DEF UlNext, UlPhy, UlCrc
<1>8. CASE ReleaseNext
  BY <1>4, <1>5, <1>8 DEF ReleaseNext, ReleaseSlot, ReleaseF1, UlSlotIdle
<1> QED
  BY <1>6, <1>7, <1>8 DEF MacNext, vars

-----------------------------------------------------------------------------
(* The downlink lists: a step of the MAC is one of random access or leaves   *)
(* the lists alone.                                                          *)
LEMMA MacIsRaStep == [MacNext]_vars => [RaNext]_macVars
BY DEF MacNext, vars

LEMMA RaInvMacInit == MacInit => RaInv
<1> SUFFICES ASSUME MacInit PROVE RaInv
  OBVIOUS
<1>1. CASE RaInit
  BY <1>1, RaInvInit
<1>2. CASE Connected
  <2>1. now \in Int /\ retrans = <<>> /\ DlLists(<<>>)
    BY <1>2, DlListsCreated DEF Connected
  <2>2. ra \in RaRec /\ ra.state = "connected"
    BY <1>2 DEF Connected, Ended, RaRec, RaStates
  <2> QED
    BY <2>1, <2>2 DEF RaInv, InRa
<1> QED
  BY <1>1, <1>2 DEF MacInit

(* ListsConsistent for any sets of downlink and uplink HARQ processes: in    *)
(* both directions each process of a connected UE is in exactly one list,    *)
(* and waits for an answer exactly when it is in the feedback list.          *)
THEOREM MacLists == MacSpec => []ListsConsistent
<1>1. MacSpec => []UlInv
  <2>1. MacInit => UlInv
    BY UlInvInit DEF MacInit
  <2> QED
    BY <2>1, UlInvStep, PTL DEF MacSpec
<1>2. MacSpec => []RaInv
  BY RaInvMacInit, RaInvStep, MacIsRaStep, PTL DEF MacSpec
<1>3. UlInv /\ RaInv => ListsConsistent
  BY RaInvLists DEF UlInv, HarqInv, UlListsConsistent, ListsConsistent
<1> QED
  BY <1>1, <1>2, <1>3, PTL

-----------------------------------------------------------------------------
LEMMA OnceInvStep == OnceInv /\ UlInv /\ [MacNext]_vars => OnceInv'
<1> SUFFICES ASSUME OnceInv, UlInv, [MacNext]_vars PROVE OnceInv'
  OBVIOUS
<1>1. CASE UNCHANGED harqVars
  BY <1>1, OnceUnchanged DEF harqVars, onceVars
<1>2. CASE UNCHANGED ulVars
  BY <1>1, <1>2 DEF ulVars
<1>3. CASE ResetUlHarqList
  <2>1. ulResets' = ulResets + 1 /\ UNCHANGED <<disableHarq, pusch, crc, ulUe>>
    BY <1>3, Zenon DEF ResetUlHarqList
  <2>2. UlTypes' /\ crc' \in CrcRec /\ ulResets' # 0
    BY <2>1 DEF OnceInv, UlTypes
  <2> QED
    BY <2>2, SMTT(30) DEF OnceInv
<1>4. CASE UnexpectedProcess
  <2>1. UlTypes' /\ crc' \in CrcRec
    BY <1>4, CrcFacts DEF UnexpectedProcess, OnceInv, UlTypes
  <2>2. ulResets' = ulResets /\ disableHarq' = disableHarq /\ crc # NoCrc /\ ulFeedback = <<>>
    BY <1>4 DEF UnexpectedProcess
  <2>3. ulResets # 0
    BY <2>2, EmptyList DEF OnceInv, WithFeedback, WithoutFeedback, PuschsInOrder, First
  <2> QED
    BY <2>1, <2>2, <2>3, SMTT(30) DEF OnceInv
<1>5. CASE UlNext
  <2>1. CASE UlSlotIdle
    BY <1>1, <2>1 DEF UlSlotIdle
  <2> QED
    BY <1>3, <1>4, <1>5, <2>1, OnceGrant, OnceIndication, OnceResult DEF UlNext, UlPhy, UlCrc
<1>6. CASE ReleaseNext
  BY <1>1, <1>3, <1>6 DEF ReleaseNext, ReleaseSlot, ReleaseF1, UlSlotIdle
<1> QED
  BY <1>2, <1>5, <1>6 DEF MacNext, vars

(* UlOncePerBlock for any set of uplink HARQ processes, number of rounds and *)
(* of PUSCHs in flight: a transport block reaches nr_process_mac_pdu at most *)
(* once, although grants and indications are lost and handle_nr_ul_harq      *)
(* skips processes, as long as the lists are not reset.                      *)
THEOREM MacUlOnce == MacSpec => []UlOncePerBlock
<1>1. MacSpec => []UlInv
  <2>1. MacInit => UlInv
    BY UlInvInit DEF MacInit
  <2> QED
    BY <2>1, UlInvStep, PTL DEF MacSpec
<1>2. MacInit => OnceInv
  BY OnceInvInit DEF MacInit
<1>3. OnceInv => UlOncePerBlock
  BY DEF OnceInv, UlOncePerBlock
<1> QED
  BY <1>1, <1>2, <1>3, OnceInvStep, PTL DEF MacSpec
=============================================================================
