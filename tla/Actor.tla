------------------------------- MODULE Actor --------------------------------
(* An actor: a thread that takes jobs from a notified FIFO one after the     *)
(* other.  Clients push a job and flush the actor; the owner shuts it down   *)
(* or destroys it meanwhile.                                                 *)
(*                                                                           *)
(* What a thread does with the lock of the FIFO held is one step.            *)
EXTENDS Sequences

CONSTANTS
  ActorClients,   \* threads that push a job each and then flush the actor
  ActorOwner      \* the thread that ends it

ASSUME ActorAssumption == ActorOwner \notin ActorClients

VARIABLES
  ending,         \* what the owner calls, "shutdown" or "destroy", fixed
  fifo,           \* actor->fifo: jobs <<kind, thread that pushed it>>
  aborted,        \* fifo.abortFIFO
  terminate,      \* actor->terminate
  apc, elt,       \* the actor thread: where it is, the element it pulled
  cpcs,           \* where each client and the owner are
  answered,       \* threads whose response FIFO holds an element
  done,            \* history: clients whose job has run
  before          \* history: clients whose job was pushed before the owner's

actorVars == <<ending, fifo, aborted, terminate, apc, elt, cpcs, answered, done, before>>

ActorThreads == ActorClients \cup {ActorOwner}

ActorInit ==
  /\ ending \in {"shutdown", "destroy"}
  /\ fifo = <<>> /\ aborted = FALSE /\ terminate = FALSE
  /\ apc = "pull" /\ elt = <<>>
  /\ cpcs = [t \in ActorThreads |-> "start"]
  /\ answered = {} /\ done = {} /\ before = {}

At(t, where) == cpcs[t] = where
Goto(t, where) == cpcs' = [cpcs EXCEPT ![t] = where]
Wake == IF apc = "asleep" THEN "pull" ELSE apc

(* Bug: no condsignal.                                                       *)
PushNotifiedAsSilent(e) ==
  /\ fifo' = IF aborted THEN fifo ELSE Append(fifo, e)
  /\ UNCHANGED apc

(* pushNotifiedFIFO: an aborted FIFO drops the element *)
PushNotified(e) ==
  IF aborted THEN UNCHANGED <<fifo, apc>>
  ELSE fifo' = Append(fifo, e) /\ apc' = Wake

(* abortNotifiedFIFO: deletes what is queued and wakes everyone *)
AbortFifo(next) ==
  /\ aborted' = TRUE
  /\ fifo' = <<>>
  /\ apc' = next

-----------------------------------------------------------------------------
(* Clients *)

PushJob(c) ==
  /\ At(c, "start") /\ Goto(c, "pushed")
  /\ PushNotified(<<"job", c>>)
  /\ UNCHANGED <<ending, aborted, terminate, elt, answered, done, before>>

(* flush_actor: an element without function, then it waits for the response *)
FlushActor(c) ==
  /\ At(c, "pushed") /\ Goto(c, "flushing")
  /\ PushNotified(<<"flush", c>>)
  /\ UNCHANGED <<ending, aborted, terminate, elt, answered, done, before>>

FlushReturns(c) ==
  /\ At(c, "flushing") /\ c \in answered /\ Goto(c, "flushed")
  /\ UNCHANGED <<ending, fifo, aborted, terminate, apc, elt, answered, done, before>>

-----------------------------------------------------------------------------
(* The owner *)

(* Bug: the FIFO is aborted at once.                                         *)
ShutdownActorAsDestroy ==
  /\ ending = "shutdown" /\ At(ActorOwner, "start") /\ Goto(ActorOwner, "joining")
  /\ before' = {c \in ActorClients : ~At(c, "start")}
  /\ terminate' = TRUE
  /\ AbortFifo(Wake)
  /\ UNCHANGED <<ending, elt, answered, done>>

(* shutdown_actor pushes self_destruct_fun ... *)
ShutdownActor ==
  /\ ending = "shutdown" /\ At(ActorOwner, "start") /\ Goto(ActorOwner, "awaiting")
  /\ before' = {c \in ActorClients : ~At(c, "start")}
  /\ PushNotified(<<"stop", ActorOwner>>)
  /\ UNCHANGED <<ending, aborted, terminate, elt, answered, done>>

(* ... and waits until it has run *)
ShutdownAnswered ==
  /\ At(ActorOwner, "awaiting") /\ ActorOwner \in answered /\ Goto(ActorOwner, "joining")
  /\ UNCHANGED <<ending, fifo, aborted, terminate, apc, elt, answered, done, before>>

(* destroy_actor: actor->terminate is set before the FIFO is aborted *)
DestroyActor ==
  /\ ending = "destroy" /\ At(ActorOwner, "start") /\ Goto(ActorOwner, "aborting")
  /\ terminate' = TRUE
  /\ UNCHANGED <<ending, fifo, aborted, apc, elt, answered, done, before>>

DestroyAborts ==
  /\ At(ActorOwner, "aborting") /\ Goto(ActorOwner, "joining")
  /\ AbortFifo(Wake)
  /\ UNCHANGED <<ending, terminate, elt, answered, done, before>>

JoinActor ==
  /\ At(ActorOwner, "joining") /\ apc = "ended" /\ Goto(ActorOwner, "returned")
  /\ UNCHANGED <<ending, fifo, aborted, terminate, apc, elt, answered, done, before>>

-----------------------------------------------------------------------------
(* actor_thread *)

Pull ==
  /\ apc = "pull"
  /\ IF fifo # <<>>
     THEN elt' = Head(fifo) /\ fifo' = Tail(fifo) /\ apc' = "run"
     ELSE apc' = (IF aborted THEN "null" ELSE "asleep") /\ UNCHANGED <<elt, fifo>>
  /\ UNCHANGED <<ending, aborted, terminate, cpcs, answered, done, before>>

(* pullNotifiedFIFO returned NULL *)
PulledNull ==
  /\ apc = "null"
  /\ apc' = IF terminate THEN "ended" ELSE "assert"
  /\ UNCHANGED <<ending, fifo, aborted, terminate, elt, cpcs, answered, done, before>>

(* elt->processingFunc; that of the owner's element is self_destruct_fun *)
RunElt ==
  /\ apc = "run"
  /\ IF elt[1] = "stop"
     THEN terminate' = TRUE /\ AbortFifo("respond")
     ELSE apc' = "respond" /\ UNCHANGED <<terminate, aborted, fifo>>
  /\ done' = IF elt[1] = "job" THEN done \cup {elt[2]} ELSE done
  /\ UNCHANGED <<ending, elt, cpcs, answered, before>>

Respond ==
  /\ apc = "respond"
  /\ answered' = IF elt[1] = "job" THEN answered ELSE answered \cup {elt[2]}
  /\ apc' = IF terminate THEN "ended" ELSE "pull"
  /\ UNCHANGED <<ending, fifo, aborted, terminate, elt, cpcs, done, before>>

ActorThread == Pull \/ PulledNull \/ RunElt \/ Respond
ClientStep(c) == PushJob(c) \/ FlushActor(c) \/ FlushReturns(c)
OwnerEnds ==
  ShutdownActor \/ ShutdownAnswered \/ DestroyActor \/ DestroyAborts \/ JoinActor

ActorNext == ActorThread \/ OwnerEnds \/ \E c \in ActorClients : ClientStep(c)
ActorSpec == ActorInit /\ [][ActorNext]_actorVars

-----------------------------------------------------------------------------
(* "This function will return when all current jobs in the queue are         *)
(* finished" (flush_actor), "letting all tasks previously started finish"    *)
(* (shutdown_actor): the jobs pushed before have run when they return.  The  *)
(* actor thread never finds its FIFO aborted without having been told to     *)
(* terminate, which it asserts.                                              *)
ActorDrains ==
  /\ \A c \in ActorClients : At(c, "flushed") => c \in done
  /\ ending = "shutdown" /\ At(ActorOwner, "returned") => before \subseteq done
  /\ apc # "assert"

(* shutdown_actor and destroy_actor return in the end, and so does every     *)
(* flush_actor unless the FIFO was aborted under it.                         *)
ActorReturns ==
  <>[](/\ At(ActorOwner, "returned")
       /\ \A c \in ActorClients : At(c, "flushing") => aborted)
=============================================================================
