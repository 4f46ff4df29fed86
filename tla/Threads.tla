------------------------------ MODULE Threads -------------------------------
(* The threading utilities, model-checked together: the behaviours of one    *)
(* part after the other.                                                     *)
EXTENDS ThreadPool, Actor, TimeManager, Itti, ShmIqChannel

VARIABLE part

threadVars == <<part, poolVars, actorVars, timeVars, ittiVars, shmVars>>

(* The parts that do not move have one initial state; the server, which sees *)
(* ticks only, is run with one of the time sources                           *)
ThreadsInit ==
  /\ part \in {"pool", "actor", "time", "itti", "shm"}
  /\ PoolInit /\ ActorInit /\ TimeInit /\ IttiInit /\ ShmInit
  /\ part # "pool" => joins = TRUE
  /\ part # "actor" => ending = "destroy"
  /\ source = "realtime" => mode = "standalone"
  /\ part # "time" => source = "realtime"
  /\ part # "itti" => otherFd = FALSE

PoolMoves ==
  /\ part = "pool" /\ PoolNext
  /\ UNCHANGED <<part, actorVars, timeVars, ittiVars, shmVars>>

ActorMoves ==
  /\ part = "actor" /\ ActorNext
  /\ UNCHANGED <<part, poolVars, timeVars, ittiVars, shmVars>>

TimeThreads ==
  /\ part = "time" /\ (SourceStep \/ ServerStep \/ FinishGoesOn)
  /\ UNCHANGED <<part, poolVars, actorVars, ittiVars, shmVars>>

TimeInputs ==
  /\ part = "time" /\ (ClientSteps \/ Samples \/ FinishExits)
  /\ UNCHANGED <<part, poolVars, actorVars, ittiVars, shmVars>>

IttiMoves ==
  /\ part = "itti" /\ IttiNext
  /\ UNCHANGED <<part, poolVars, actorVars, timeVars, shmVars>>

ShmMoves ==
  /\ part = "shm" /\ ShmNext
  /\ UNCHANGED <<part, poolVars, actorVars, timeVars, ittiVars>>

ThreadsNext == PoolMoves \/ ActorMoves \/ TimeThreads \/ TimeInputs \/ IttiMoves \/ ShmMoves

(* A thread that can go on does: the pool, the actor and the time manager    *)
(* have no endless behaviour, so that it is enough that some thread does     *)
ThreadsSpec ==
  /\ ThreadsInit /\ [][ThreadsNext]_threadVars
  /\ WF_threadVars(PoolMoves \/ ActorMoves \/ TimeThreads)

-----------------------------------------------------------------------------
(* What ends the threads returns.  abortTpool returns, or asserts            *)
(* (PushedTaskHasFunc): the one empty task reaches every worker.             *)
(* shutdown_actor and destroy_actor return, and every flush_actor but those  *)
(* under which the FIFO was aborted (ActorReturns).                          *)
EndingReturns ==
  /\ part = "pool" => PoolStops
  /\ part = "actor" => ActorReturns
=============================================================================
