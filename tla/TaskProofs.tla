----------------------------- MODULE TaskProofs -----------------------------
(* The actor, the ITTI timers and the wait of the shared-memory IQ channel,  *)
(* for any numbers of clients, timers and samples.                           *)
EXTENDS Actor, Itti, ShmIqChannel, FiniteSetTheorems, TLAPS

Elts == ({"job", "flush"} \X ActorClients) \cup {<<"stop", ActorOwner>>}

(* The job of c has run, runs, or is in the FIFO in front of place n *)
Ahead(c, n) ==
  \/ c \in done
  \/ apc = "run" /\ elt = <<"job", c>>
  \/ \E j \in 1 .. n - 1 : fifo[j] = <<"job", c>>

(* The clients whose jobs have to run before e does *)
Needs(e) == {c \in ActorClients : e = <<"flush", c>> \/ (e = <<"stop", ActorOwner>> /\ c \in before)}

ActorTypeOK ==
  /\ fifo \in Seq(Elts)
  /\ aborted \in BOOLEAN /\ terminate \in BOOLEAN
  /\ apc \in {"pull", "asleep", "null", "run", "respond", "ended"}
  /\ apc \in {"run", "respond"} => elt \in Elts
  /\ DOMAIN cpcs = ActorThreads
  /\ before \subseteq ActorClients

(* The jobs come first.  What is in the FIFO, what runs and what has been    *)
(* answered has the jobs that it needs in front of it.                       *)
JobsFirst ==
  /\ \A i \in 1 .. Len(fifo) : \A c \in Needs(fifo[i]) : Ahead(c, i)
  /\ apc \in {"run", "respond"} => Needs(elt) \subseteq done
  /\ \A c \in ActorClients : ~At(c, "start") /\ ~aborted => Ahead(c, Len(fifo) + 1)
  /\ \A c \in ActorClients : c \in answered => c \in done
  /\ ActorOwner \in answered => before \subseteq done

(* The FIFO is aborted only when the actor was told to terminate             *)
TerminatesFirst ==
  /\ aborted => terminate /\ fifo = <<>>
  /\ apc = "null" => aborted
  /\ At(ActorOwner, "aborting") => terminate /\ ending = "destroy"

(* How far the owner and the clients are                                     *)
Progressed ==
  /\ At(ActorOwner, "start") =>
       /\ ActorOwner \notin answered /\ ~aborted
       /\ \A i \in 1 .. Len(fifo) : fifo[i] # <<"stop", ActorOwner>>
       /\ apc \in {"run", "respond"} => elt # <<"stop", ActorOwner>>
  /\ ending = "shutdown" /\ cpcs[ActorOwner] \in {"joining", "returned"} => ActorOwner \in answered
  /\ \A c \in ActorClients : At(c, "flushed") => c \in answered

ActorInv == ActorTypeOK /\ JobsFirst /\ TerminatesFirst /\ Progressed

(* It holds when the actor is created.                                       *)
LEMMA ActorInvInit == ActorInit => ActorInv
<1> SUFFICES ASSUME ActorInit PROVE ActorInv
  OBVIOUS
<1>1. /\ fifo = <<>> /\ fifo \in Seq(Elts) /\ Len(fifo) = 0 /\ apc = "pull" /\ before = {} /\ answered = {}
      /\ DOMAIN cpcs = ActorThreads /\ \A t \in ActorThreads : At(t, "start")
      /\ cpcs[ActorOwner] = "start"
  BY DEF ActorInit, At, ActorThreads
<1>2. aborted \in BOOLEAN /\ terminate \in BOOLEAN /\ ~aborted
  BY DEF ActorInit
<1>3. ActorTypeOK
  BY <1>1, <1>2 DEF ActorTypeOK
<1>4. JobsFirst
  BY <1>1 DEF JobsFirst, ActorThreads
<1>5. TerminatesFirst
  BY <1>1, <1>2 DEF TerminatesFirst, At
<1>6. Progressed
  BY <1>1, <1>2 DEF Progressed, At, ActorThreads
<1> QED
  BY <1>3, <1>4, <1>5, <1>6 DEF ActorInv

(* The invariant is strong enough.                                           *)
LEMMA ActorInvDrains == ActorInv => ActorDrains
BY DEF ActorInv, ActorTypeOK, JobsFirst, Progressed, ActorDrains, At

(* An element is pushed: the jobs it needs are in front of it.               *)
LEMMA ActorInvPush ==
  ASSUME ActorInv, NEW e \in Elts, PushNotified(e), UNCHANGED <<aborted, terminate, elt, answered, done, before, ending>>,
         \A c \in Needs(e) : aborted \/ Ahead(c, Len(fifo) + 1)
  PROVE  /\ fifo' \in Seq(Elts)
         /\ apc' \in {"pull", "asleep", "null", "run", "respond", "ended"}
         /\ apc' \in {"run", "respond"} <=> apc \in {"run", "respond"}
         /\ apc' = "run" <=> apc = "run"
         /\ apc' = "null" <=> apc = "null"
         /\ \A i \in 1 .. Len(fifo)' : \A c \in Needs(fifo'[i]) : Ahead(c, i)'
         /\ \A c \in ActorClients : Ahead(c, Len(fifo) + 1) => Ahead(c, Len(fifo) + 1)'
         /\ ~aborted => fifo' = Append(fifo, e)
         /\ aborted => fifo' = fifo
<1>1. CASE aborted
  BY <1>1 DEF ActorInv, ActorTypeOK, PushNotified, JobsFirst, TerminatesFirst, Ahead
<1>2. CASE ~aborted
  <2>1. fifo' = Append(fifo, e) /\ apc' = Wake
    BY <1>2 DEF PushNotified
  <2>2. /\ fifo \in Seq(Elts) /\ fifo' \in Seq(Elts) /\ Len(fifo') = Len(fifo) + 1 /\ fifo'[Len(fifo) + 1] = e
        /\ \A i \in 1 .. Len(fifo) : fifo'[i] = fifo[i]
    BY <2>1 DEF ActorInv, ActorTypeOK
  <2>3. apc' \in {"pull", "asleep", "null", "run", "respond", "ended"} /\ (apc' \in {"run", "respond"} <=> apc \in {"run", "respond"})
        /\ (apc' = "run" <=> apc = "run") /\ (apc' = "null" <=> apc = "null")
    BY <2>1 DEF ActorInv, ActorTypeOK, Wake
  <2>4. ASSUME NEW c, NEW n \in 1 .. Len(fifo) + 1, Ahead(c, n) PROVE Ahead(c, n)'
    BY <2>2, <2>3, <2>4 DEF Ahead
  <2>5. ASSUME NEW i \in 1 .. Len(fifo) + 1, NEW c \in Needs(fifo'[i]) PROVE Ahead(c, i)'
    <3>1. CASE i = Len(fifo) + 1
      BY <1>2, <2>2, <2>4, <3>1
    <3>2. CASE i # Len(fifo) + 1
      <4>1. i \in 1 .. Len(fifo) /\ fifo'[i] = fifo[i]
        BY <2>2, <3>2
      <4>2. Ahead(c, i)
        BY <2>5, <4>1 DEF ActorInv, JobsFirst
      <4> QED
        BY <2>4, <4>1, <4>2
    <3> QED
      BY <3>1, <3>2
  <2>6. ASSUME NEW c \in ActorClients, Ahead(c, Len(fifo) + 1) PROVE Ahead(c, Len(fifo) + 1)'
    BY <2>2, <2>4, <2>6 DEF Ahead
  <2> QED
    BY <1>2, <2>1, <2>2, <2>3, <2>5, <2>6
<1> QED
  BY <1>1, <1>2 DEF ActorInv, ActorTypeOK

(* A thread goes from one place to another.                                  *)
LEMMA Went ==
  ASSUME ActorTypeOK, NEW t \in ActorThreads, NEW where, Goto(t, where)
  PROVE  /\ DOMAIN cpcs' = ActorThreads
         /\ cpcs'[t] = where
         /\ \A u \in ActorThreads : u # t => cpcs'[u] = cpcs[u]
BY DEF ActorTypeOK, Goto

(* A client pushes its job or a flush.                                       *)
LEMMA ActorInvClientPush ==
  ASSUME ActorInv, NEW c \in ActorClients, PushJob(c) \/ FlushActor(c)
  PROVE  ActorInv'
<1> DEFINE e == IF At(c, "start") THEN <<"job", c>> ELSE <<"flush", c>>
           to == IF At(c, "start") THEN "pushed" ELSE "flushing"
<1>1. /\ PushNotified(e) /\ Goto(c, to)
      /\ UNCHANGED <<aborted, terminate, elt, answered, done, before, ending>>
  BY DEF PushJob, FlushActor, At
<1>2. e \in Elts /\ c \in ActorThreads /\ c # ActorOwner /\ e # <<"stop", ActorOwner>>
  BY ActorAssumption DEF Elts, ActorThreads
<1>3. e = <<"job", c>> \/ (e = <<"flush", c>> /\ ~At(c, "start"))
  OBVIOUS
<1>4. to # "flushed" /\ to # "start"
  OBVIOUS
<1>5. \A d \in Needs(e) : aborted \/ Ahead(d, Len(fifo) + 1)
  BY <1>3 DEF ActorInv, JobsFirst, Needs
<1>6. At(c, "start") => e = <<"job", c>>
  OBVIOUS
<1> HIDE DEF e, to
<1>7. /\ fifo' \in Seq(Elts)
      /\ apc' \in {"pull", "asleep", "null", "run", "respond", "ended"}
      /\ apc' \in {"run", "respond"} <=> apc \in {"run", "respond"}
      /\ apc' = "run" <=> apc = "run"
      /\ apc' = "null" <=> apc = "null"
      /\ \A i \in 1 .. Len(fifo)' : \A d \in Needs(fifo'[i]) : Ahead(d, i)'
      /\ \A d \in ActorClients : Ahead(d, Len(fifo) + 1) => Ahead(d, Len(fifo) + 1)'
      /\ ~aborted => fifo' = Append(fifo, e)
      /\ aborted => fifo' = fifo
  BY <1>1, <1>2, <1>5, ActorInvPush
<1>8. /\ DOMAIN cpcs' = ActorThreads /\ cpcs'[c] = to
      /\ \A u \in ActorThreads : u # c => cpcs'[u] = cpcs[u]
  BY <1>1, <1>2, Went DEF ActorInv
<1>9. cpcs'[ActorOwner] = cpcs[ActorOwner]
  BY <1>2, <1>8 DEF ActorThreads
<1>10. ActorTypeOK'
  BY <1>1, <1>7, <1>8 DEF ActorInv, ActorTypeOK
<1>11. JobsFirst'
  <2>1. ASSUME NEW d \in ActorClients, ~At(d, "start")', ~aborted PROVE Ahead(d, Len(fifo) + 1)'
    <3>1. CASE d = c /\ At(c, "start")
      <4>1. fifo' = Append(fifo, <<"job", c>>) /\ fifo \in Seq(Elts)
        BY <1>6, <1>7, <2>1, <3>1 DEF ActorInv, ActorTypeOK
      <4>2. fifo'[Len(fifo) + 1] = <<"job", c>> /\ Len(fifo') = Len(fifo) + 1 /\ Len(fifo) \in Nat
        BY <1>2, <4>1
      <4> QED
        BY <3>1, <4>2 DEF Ahead
    <3>2. CASE d # c \/ ~At(c, "start")
      <4>1. ~At(d, "start")
        BY <1>8, <2>1, <3>2 DEF At, ActorThreads
      <4> QED
        BY <1>7, <2>1, <4>1 DEF ActorInv, JobsFirst
    <3> QED
      BY <3>1, <3>2
  <2>2. \A i \in 1 .. Len(fifo)' : \A d \in Needs(fifo[i])' : Ahead(d, i)'
    BY <1>1, <1>7 DEF Needs
  <2>3. apc' \in {"run", "respond"} => Needs(elt)' \subseteq done'
    BY <1>1, <1>7 DEF Needs, ActorInv, JobsFirst
  <2> QED
    BY <1>1, <2>1, <2>2, <2>3 DEF ActorInv, JobsFirst
<1>12. TerminatesFirst'
  BY <1>1, <1>7, <1>9 DEF ActorInv, TerminatesFirst, At
<1>13. Progressed'
  <2>1. ASSUME At(ActorOwner, "start") PROVE \A i \in 1 .. Len(fifo)' : fifo'[i] # <<"stop", ActorOwner>>
    <3>1. fifo' = Append(fifo, e) /\ fifo \in Seq(Elts)
      BY <1>7, <2>1 DEF ActorInv, ActorTypeOK, Progressed
    <3>2. /\ fifo'[Len(fifo) + 1] = e /\ Len(fifo') = Len(fifo) + 1 /\ Len(fifo) \in Nat
          /\ \A i \in 1 .. Len(fifo) : fifo'[i] = fifo[i]
      BY <1>2, <3>1
    <3>3. \A i \in 1 .. Len(fifo) : fifo[i] # <<"stop", ActorOwner>>
      BY <2>1 DEF ActorInv, Progressed
    <3>4. ASSUME NEW i \in 1 .. Len(fifo') PROVE fifo'[i] # <<"stop", ActorOwner>>
      <4>1. i = Len(fifo) + 1 \/ i \in 1 .. Len(fifo)
        BY <3>2
      <4> QED
        BY <1>2, <3>2, <3>3, <4>1
    <3> QED
      BY <3>4
  <2>2. \A d \in ActorClients : At(d, "flushed")' => At(d, "flushed")
    BY <1>4, <1>8 DEF At, ActorThreads
  <2> QED
    BY <1>1, <1>7, <1>9, <2>1, <2>2 DEF ActorInv, Progressed, At
<1> QED
  BY <1>10, <1>11, <1>12, <1>13 DEF ActorInv

(* A thread gets its answer, or the owner joins the actor thread.            *)
LEMMA ActorInvReturns ==
  ASSUME ActorInv, ShutdownAnswered \/ JoinActor \/ \E c \in ActorClients : FlushReturns(c)
  PROVE  ActorInv'
<1>1. UNCHANGED <<ending, fifo, aborted, terminate, apc, elt, answered, done, before>>
  BY DEF ShutdownAnswered, JoinActor, FlushReturns
<1>2. PICK t \in ActorThreads, where \in {"joining", "returned", "flushed"} :
        /\ Goto(t, where) /\ ~At(t, "start")
        /\ \/ t = ActorOwner /\ where = "joining" /\ t \in answered
           \/ t = ActorOwner /\ where = "returned" /\ At(t, "joining")
           \/ t \in ActorClients /\ where = "flushed" /\ t \in answered
  BY DEF ShutdownAnswered, JoinActor, FlushReturns, ActorThreads, At
<1>3. /\ DOMAIN cpcs' = ActorThreads /\ cpcs'[t] = where
      /\ \A u \in ActorThreads : u # t => cpcs'[u] = cpcs[u]
  BY <1>2, Went DEF ActorInv
<1>4. /\ \A u \in ActorThreads : At(u, "start") <=> At(u, "start")'
      /\ \A u \in ActorThreads : At(u, "aborting")' => At(u, "aborting")
      /\ \A u \in ActorThreads : At(u, "flushed")' => At(u, "flushed") \/ u \in answered
      /\ cpcs'[ActorOwner] \in {"joining", "returned"} =>
           cpcs[ActorOwner] \in {"joining", "returned"} \/ ActorOwner \in answered
  BY <1>2, <1>3 DEF At, ActorThreads
<1>5. ActorTypeOK'
  BY <1>1, <1>3 DEF ActorInv, ActorTypeOK
<1>6. JobsFirst'
  BY <1>1, <1>4 DEF ActorInv, JobsFirst, Needs, Ahead, ActorThreads
<1>7. TerminatesFirst'
  BY <1>1, <1>4 DEF ActorInv, TerminatesFirst, ActorThreads
<1>8. Progressed'
  BY <1>1, <1>4 DEF ActorInv, Progressed, ActorThreads
<1> QED
  BY <1>5, <1>6, <1>7, <1>8 DEF ActorInv

(* shutdown_actor pushes self_destruct_fun behind the jobs.                  *)
LEMMA ActorInvShutdown == ASSUME ActorInv, ShutdownActor PROVE ActorInv'
<1> DEFINE e == <<"stop", ActorOwner>>
<1>1. /\ At(ActorOwner, "start") /\ Goto(ActorOwner, "awaiting") /\ PushNotified(e)
      /\ before' = {c \in ActorClients : ~At(c, "start")}
      /\ UNCHANGED <<ending, aborted, terminate, elt, answered, done>>
  BY DEF ShutdownActor
<1>2. /\ ~aborted /\ ActorOwner \notin answered
      /\ \A i \in 1 .. Len(fifo) : fifo[i] # e
      /\ apc \in {"run", "respond"} => elt # e
  BY <1>1 DEF ActorInv, Progressed
<1>3. fifo' = Append(fifo, e) /\ apc' = Wake
  BY <1>1, <1>2 DEF PushNotified
<1>4. /\ fifo \in Seq(Elts) /\ e \in Elts
      /\ fifo' \in Seq(Elts) /\ Len(fifo') = Len(fifo) + 1 /\ Len(fifo) \in Nat /\ fifo'[Len(fifo) + 1] = e
      /\ \A i \in 1 .. Len(fifo) : fifo'[i] = fifo[i]
  BY <1>3 DEF ActorInv, ActorTypeOK, Elts
<1>5. /\ apc' \in {"pull", "asleep", "null", "run", "respond", "ended"}
      /\ apc' \in {"run", "respond"} <=> apc \in {"run", "respond"}
      /\ apc' = "run" <=> apc = "run"
      /\ apc' = "null" <=> apc = "null"
  BY <1>3 DEF ActorInv, ActorTypeOK, Wake
<1>6. /\ DOMAIN cpcs' = ActorThreads /\ cpcs'[ActorOwner] = "awaiting"
      /\ \A c \in ActorClients : cpcs'[c] = cpcs[c]
  BY <1>1, Went, ActorAssumption DEF ActorInv, ActorThreads
<1>7. ASSUME NEW c, NEW n \in 1 .. Len(fifo) + 1, Ahead(c, n) PROVE Ahead(c, n)'
  BY <1>1, <1>4, <1>5, <1>7 DEF Ahead
<1>8. ActorTypeOK'
  BY <1>1, <1>4, <1>5, <1>6 DEF ActorInv, ActorTypeOK
<1>9. ASSUME NEW x, x # e PROVE Needs(x)' = Needs(x)
  BY <1>9 DEF Needs
<1>10. ASSUME NEW i \in 1 .. Len(fifo'), NEW c \in Needs(fifo[i])' PROVE Ahead(c, i)'
  <2>1. CASE i = Len(fifo) + 1
    <3>1. c \in ActorClients /\ ~At(c, "start")
      BY <1>1, <1>4, <1>10, <2>1 DEF Needs
    <3>2. Ahead(c, Len(fifo) + 1)
      BY <1>2, <3>1 DEF ActorInv, JobsFirst
    <3> QED
      BY <1>4, <1>7, <2>1, <3>2
  <2>2. CASE i \in 1 .. Len(fifo)
    <3>1. fifo'[i] = fifo[i] /\ fifo[i] # e
      BY <1>2, <1>4, <2>2
    <3>2. c \in Needs(fifo[i])
      BY <1>10, <3>1 DEF Needs
    <3>3. Ahead(c, i)
      BY <2>2, <3>2 DEF ActorInv, JobsFirst
    <3> QED
      BY <1>4, <1>7, <2>2, <3>3
  <2> QED
    BY <1>4, <2>1, <2>2
<1>11. apc' \in {"run", "respond"} => Needs(elt)' \subseteq done'
  BY <1>1, <1>2, <1>5 DEF ActorInv, JobsFirst, Needs
<1>12. ASSUME NEW c \in ActorClients, ~At(c, "start")' PROVE Ahead(c, Len(fifo) + 1)'
  <2>1. ~At(c, "start")
    BY <1>6, <1>12 DEF At
  <2>2. Ahead(c, Len(fifo) + 1)
    BY <1>2, <2>1 DEF ActorInv, JobsFirst
  <2>3. CASE c \in done \/ (apc = "run" /\ elt = <<"job", c>>)
    BY <1>1, <1>5, <2>3 DEF Ahead
  <2>4. CASE \E j \in 1 .. Len(fifo) + 1 - 1 : fifo[j] = <<"job", c>>
    <3>1. PICK j \in 1 .. Len(fifo) : fifo[j] = <<"job", c>>
      BY <1>4, <2>4
    <3>2. j \in 1 .. Len(fifo') + 1 - 1 /\ fifo'[j] = <<"job", c>>
      BY <1>4, <3>1
    <3> QED
      BY <3>2 DEF Ahead
  <2> QED
    BY <2>2, <2>3, <2>4 DEF Ahead
<1>13. JobsFirst'
  BY <1>1, <1>2, <1>10, <1>11, <1>12 DEF ActorInv, JobsFirst
<1>14. TerminatesFirst'
  BY <1>1, <1>2, <1>5, <1>6 DEF ActorInv, TerminatesFirst, At
<1>15. Progressed'
  BY <1>1, <1>6 DEF ActorInv, Progressed, At
<1> QED
  BY <1>8, <1>13, <1>14, <1>15 DEF ActorInv

(* destroy_actor sets terminate and then aborts the FIFO.                    *)
LEMMA ActorInvDestroy == ASSUME ActorInv, DestroyActor \/ DestroyAborts PROVE ActorInv'
<1>1. CASE DestroyActor
  <2>1. /\ ending = "destroy" /\ Goto(ActorOwner, "aborting")
        /\ UNCHANGED <<ending, fifo, aborted, apc, elt, answered, done, before>>
    BY <1>1 DEF DestroyActor
  <2>2. terminate' \in BOOLEAN /\ terminate'
    BY <1>1 DEF DestroyActor
  <2>3. /\ DOMAIN cpcs' = ActorThreads /\ cpcs'[ActorOwner] = "aborting"
        /\ \A c \in ActorClients : cpcs'[c] = cpcs[c]
    BY <2>1, Went, ActorAssumption DEF ActorInv, ActorThreads
  <2>4. ActorTypeOK'
    BY <2>1, <2>2, <2>3 DEF ActorInv, ActorTypeOK
  <2>5. JobsFirst'
    <3>1. \A c \in ActorClients : At(c, "start")' <=> At(c, "start")
      BY <2>3 DEF At
    <3>2. \A x : Needs(x)' = Needs(x)
      BY <2>1 DEF Needs
    <3>3. \A c, n : Ahead(c, n)' <=> Ahead(c, n)
      BY <2>1 DEF Ahead
    <3>4. \A i \in 1 .. Len(fifo) : \A c \in Needs(fifo[i]) : Ahead(c, i)'
      BY <3>3 DEF ActorInv, JobsFirst
    <3>5. \A i \in 1 .. Len(fifo') : \A c \in Needs(fifo[i])' : Ahead(c, i)'
      BY <2>1, <3>2, <3>4
    <3>6. apc' \in {"run", "respond"} => Needs(elt)' \subseteq done'
      BY <2>1, <3>2 DEF ActorInv, JobsFirst
    <3>7. \A c \in ActorClients : ~At(c, "start")' /\ ~aborted' => Ahead(c, Len(fifo) + 1)'
      BY <2>1, <3>1, <3>3 DEF ActorInv, JobsFirst
    <3> QED
      BY <2>1, <3>5, <3>6, <3>7 DEF ActorInv, JobsFirst
  <2>6. TerminatesFirst'
    BY <2>1, <2>2 DEF ActorInv, TerminatesFirst
  <2>7. Progressed'
    BY <2>1, <2>3 DEF ActorInv, Progressed, At
  <2> QED
    BY <2>4, <2>5, <2>6, <2>7 DEF ActorInv
<1>2. CASE DestroyAborts
  <2>1. /\ At(ActorOwner, "aborting") /\ Goto(ActorOwner, "joining") /\ fifo' = <<>> /\ apc' = Wake
        /\ UNCHANGED <<ending, terminate, elt, answered, done, before>>
    BY <1>2 DEF DestroyAborts, AbortFifo
  <2>2. aborted' \in BOOLEAN /\ aborted'
    BY <1>2 DEF DestroyAborts, AbortFifo
  <2>3. /\ DOMAIN cpcs' = ActorThreads /\ cpcs'[ActorOwner] = "joining"
        /\ \A c \in ActorClients : cpcs'[c] = cpcs[c]
    BY <2>1, Went, ActorAssumption DEF ActorInv, ActorThreads
  <2>4. /\ apc' \in {"pull", "asleep", "null", "run", "respond", "ended"}
        /\ apc' \in {"run", "respond"} <=> apc \in {"run", "respond"}
    BY <2>1 DEF ActorInv, ActorTypeOK, Wake
  <2>5. fifo' \in Seq(Elts) /\ Len(fifo') = 0
    BY <2>1
  <2>6. terminate /\ ending = "destroy"
    BY <2>1 DEF ActorInv, TerminatesFirst
  <2>7. ActorTypeOK'
    BY <2>1, <2>2, <2>3, <2>4, <2>5 DEF ActorInv, ActorTypeOK
  <2>8. JobsFirst'
    BY <2>1, <2>2, <2>4, <2>5 DEF ActorInv, JobsFirst, Needs
  <2>9. TerminatesFirst'
    BY <2>1, <2>2, <2>3, <2>6 DEF ActorInv, TerminatesFirst, At
  <2>10. Progressed'
    BY <2>1, <2>3, <2>6 DEF ActorInv, Progressed, At
  <2> QED
    BY <2>7, <2>8, <2>9, <2>10 DEF ActorInv
<1> QED
  BY <1>1, <1>2

(* The actor thread pulls an element, or finds none.                         *)
LEMMA ActorInvPull == ASSUME ActorInv, Pull PROVE ActorInv'
<1>1. apc = "pull" /\ UNCHANGED <<ending, aborted, terminate, cpcs, answered, done, before>>
  BY DEF Pull
<1>2. CASE fifo # <<>>
  <2>1. elt' = Head(fifo) /\ fifo' = Tail(fifo) /\ apc' = "run"
    BY <1>2 DEF Pull
  <2>2. /\ fifo \in Seq(Elts) /\ Len(fifo) \in Nat /\ Len(fifo) > 0
        /\ elt' = fifo[1] /\ elt' \in Elts
        /\ fifo' \in Seq(Elts) /\ Len(fifo') = Len(fifo) - 1
        /\ \A i \in 1 .. Len(fifo) - 1 : fifo'[i] = fifo[i + 1]
    BY <1>2, <2>1 DEF ActorInv, ActorTypeOK
  <2>3. ASSUME NEW c, NEW n \in 1 .. Len(fifo), Ahead(c, n + 1) PROVE Ahead(c, n)'
    <3>1. CASE c \in done
      BY <1>1, <3>1 DEF Ahead
    <3>2. ASSUME NEW j \in 1 .. n, fifo[j] = <<"job", c>> PROVE Ahead(c, n)'
      <4>1. CASE j = 1
        BY <2>1, <2>2, <3>2, <4>1 DEF Ahead
      <4>2. CASE j # 1
        <5>1. j - 1 \in 1 .. n - 1 /\ j - 1 \in 1 .. Len(fifo) - 1 /\ (j - 1) + 1 = j
          BY <2>2, <4>2
        <5>2. fifo'[j - 1] = <<"job", c>>
          BY <2>2, <3>2, <5>1
        <5> QED
          BY <5>1, <5>2 DEF Ahead
      <4> QED
        BY <4>1, <4>2
    <3>3. (n + 1) - 1 = n
      BY <2>2
    <3> QED
      BY <1>1, <2>3, <3>1, <3>2, <3>3 DEF Ahead
  <2>4. ~aborted
    BY <1>2 DEF ActorInv, TerminatesFirst
  <2>5. ActorTypeOK'
    BY <1>1, <2>1, <2>2 DEF ActorInv, ActorTypeOK
  <2>6. ASSUME NEW i \in 1 .. Len(fifo'), NEW c \in Needs(fifo[i])' PROVE Ahead(c, i)'
    <3>1. i \in 1 .. Len(fifo) /\ i + 1 \in 1 .. Len(fifo) /\ fifo'[i] = fifo[i + 1]
      BY <2>2
    <3>2. c \in Needs(fifo[i + 1])
      BY <1>1, <2>6, <3>1 DEF Needs
    <3>3. Ahead(c, i + 1)
      BY <3>1, <3>2 DEF ActorInv, JobsFirst
    <3> QED
      BY <2>3, <3>1, <3>3
  <2>7. Needs(elt)' \subseteq done'
    <3>1. SUFFICES ASSUME NEW c \in Needs(fifo[1]) PROVE c \in done
      BY <1>1, <2>2 DEF Needs
    <3>2. Ahead(c, 1)
      BY <2>2, <3>1 DEF ActorInv, JobsFirst
    <3> QED
      BY <1>1, <3>2 DEF Ahead
  <2>8. ASSUME NEW c \in ActorClients, ~At(c, "start")' PROVE Ahead(c, Len(fifo) + 1)'
    <3>1. Ahead(c, Len(fifo) + 1)
      BY <1>1, <2>4, <2>8 DEF ActorInv, JobsFirst, At
    <3>2. CASE c \in done
      BY <1>1, <3>2 DEF Ahead
    <3>3. ASSUME NEW j \in 1 .. Len(fifo), fifo[j] = <<"job", c>> PROVE Ahead(c, Len(fifo) + 1)'
      <4>1. CASE j = 1
        BY <2>1, <2>2, <3>3, <4>1 DEF Ahead
      <4>2. CASE j # 1
        <5>1. j - 1 \in 1 .. (Len(fifo') + 1) - 1 /\ j - 1 \in 1 .. Len(fifo) - 1 /\ (j - 1) + 1 = j
          BY <2>2, <4>2
        <5>2. fifo'[j - 1] = <<"job", c>>
          BY <2>2, <3>3, <5>1
        <5> QED
          BY <5>1, <5>2 DEF Ahead
      <4> QED
        BY <4>1, <4>2
    <3>4. (Len(fifo) + 1) - 1 = Len(fifo)
      BY <2>2
    <3> QED
      BY <1>1, <3>1, <3>2, <3>3, <3>4 DEF Ahead
  <2>9. JobsFirst'
    BY <1>1, <2>1, <2>6, <2>7, <2>8 DEF ActorInv, JobsFirst
  <2>10. TerminatesFirst'
    BY <1>1, <2>1, <2>4 DEF ActorInv, TerminatesFirst, At
  <2>11. Progressed'
    <3>1. ASSUME At(ActorOwner, "start")
          PROVE  elt' # <<"stop", ActorOwner>> /\ \A i \in 1 .. Len(fifo') : fifo'[i] # <<"stop", ActorOwner>>
      BY <2>2, <3>1 DEF ActorInv, Progressed
    <3> QED
      BY <1>1, <3>1 DEF ActorInv, Progressed, At
  <2> QED
    BY <2>5, <2>9, <2>10, <2>11 DEF ActorInv
<1>3. CASE fifo = <<>>
  <2>1. /\ apc' = (IF aborted THEN "null" ELSE "asleep") /\ UNCHANGED <<elt, fifo>>
    BY <1>3 DEF Pull
  <2>2. apc' \in {"null", "asleep"} /\ (apc' = "null" => aborted)
    BY <2>1
  <2>3. ActorTypeOK'
    BY <1>1, <2>1, <2>2 DEF ActorInv, ActorTypeOK
  <2>4. JobsFirst'
    BY <1>1, <2>1, <2>2 DEF ActorInv, JobsFirst, Needs, Ahead, At
  <2>5. TerminatesFirst'
    BY <1>1, <2>1, <2>2 DEF ActorInv, TerminatesFirst, At
  <2>6. Progressed'
    BY <1>1, <2>1, <2>2 DEF ActorInv, Progressed, At
  <2> QED
    BY <2>3, <2>4, <2>5, <2>6 DEF ActorInv
<1> QED
  BY <1>2, <1>3

(* The element is run.                                                       *)
LEMMA ActorInvRun == ASSUME ActorInv, RunElt PROVE ActorInv'
<1>1. /\ apc = "run" /\ apc' = "respond" /\ UNCHANGED <<ending, elt, cpcs, answered, before>>
      /\ done' = IF elt[1] = "job" THEN done \cup {elt[2]} ELSE done
  BY DEF RunElt, AbortFifo
<1>2. elt \in Elts /\ Needs(elt) \subseteq done
  BY <1>1 DEF ActorInv, ActorTypeOK, JobsFirst
<1>3. done \subseteq done' /\ \A c : elt = <<"job", c>> => c \in done'
  BY <1>1
<1>4. CASE elt[1] = "stop"
  <2>1. /\ terminate' \in BOOLEAN /\ terminate' /\ aborted' \in BOOLEAN /\ aborted'
    BY <1>4 DEF RunElt, AbortFifo
  <2>2. fifo' = <<>> /\ fifo' \in Seq(Elts) /\ Len(fifo') = 0
    BY <1>4 DEF RunElt, AbortFifo
  <2>3. elt = <<"stop", ActorOwner>>
    BY <1>2, <1>4 DEF Elts
  <2>4. ~At(ActorOwner, "start")
    BY <1>1, <2>3 DEF ActorInv, Progressed
  <2>5. ActorTypeOK'
    BY <1>1, <1>2, <2>1, <2>2 DEF ActorInv, ActorTypeOK
  <2>6. JobsFirst'
    BY <1>1, <1>2, <1>3, <2>1, <2>2 DEF ActorInv, JobsFirst, Needs
  <2>7. TerminatesFirst'
    BY <1>1, <2>1, <2>2 DEF ActorInv, TerminatesFirst, At
  <2>8. Progressed'
    BY <1>1, <2>4 DEF ActorInv, Progressed, At
  <2> QED
    BY <2>5, <2>6, <2>7, <2>8 DEF ActorInv
<1>5. CASE elt[1] # "stop"
  <2>1. UNCHANGED <<terminate, aborted, fifo>>
    BY <1>5 DEF RunElt
  <2>2. ASSUME NEW c, NEW n, Ahead(c, n) PROVE Ahead(c, n)'
    BY <1>1, <1>3, <2>1, <2>2 DEF Ahead
  <2>3. ActorTypeOK'
    BY <1>1, <1>2, <2>1 DEF ActorInv, ActorTypeOK
  <2>4. \A i \in 1 .. Len(fifo)' : \A c \in Needs(fifo[i])' : Ahead(c, i)'
    BY <1>1, <2>1, <2>2 DEF ActorInv, JobsFirst, Needs
  <2>5. \A c \in ActorClients : ~At(c, "start")' /\ ~aborted' => Ahead(c, Len(fifo) + 1)'
    BY <1>1, <1>3, <2>1 DEF ActorInv, JobsFirst, Ahead, At
  <2>6. JobsFirst'
    BY <1>1, <1>2, <1>3, <2>4, <2>5 DEF ActorInv, JobsFirst, Needs
  <2>7. TerminatesFirst'
    BY <1>1, <2>1 DEF ActorInv, TerminatesFirst, At
  <2>8. Progressed'
    BY <1>1, <2>1 DEF ActorInv, Progressed, At
  <2> QED
    BY <2>3, <2>6, <2>7, <2>8 DEF ActorInv
<1> QED
  BY <1>4, <1>5

(* The response goes out, or the thread finds its FIFO aborted.              *)
LEMMA ActorInvRespond == ASSUME ActorInv, Respond \/ PulledNull PROVE ActorInv'
<1>1. CASE Respond
  <2>1. /\ apc = "respond" /\ apc' \in {"ended", "pull"}
        /\ answered' = IF elt[1] = "job" THEN answered ELSE answered \cup {elt[2]}
        /\ UNCHANGED <<ending, fifo, aborted, terminate, elt, cpcs, done, before>>
    BY <1>1 DEF Respond
  <2>2. elt \in Elts /\ Needs(elt) \subseteq done
    BY <2>1 DEF ActorInv, ActorTypeOK, JobsFirst
  <2>3. /\ answered \subseteq answered'
        /\ \A c \in ActorClients : c \in answered' => c \in answered \/ elt = <<"flush", c>>
        /\ ActorOwner \in answered' => ActorOwner \in answered \/ elt = <<"stop", ActorOwner>>
    BY <2>1, <2>2, ActorAssumption DEF Elts
  <2>4. /\ \A c \in ActorClients : elt = <<"flush", c>> => c \in done
        /\ elt = <<"stop", ActorOwner>> => before \subseteq done
    BY <2>2 DEF Needs, ActorInv, ActorTypeOK
  <2>5. ActorTypeOK'
    BY <2>1 DEF ActorInv, ActorTypeOK
  <2>7. /\ \A i \in 1 .. Len(fifo)' : \A c \in Needs(fifo[i])' : Ahead(c, i)'
        /\ \A c \in ActorClients : ~At(c, "start")' /\ ~aborted' => Ahead(c, Len(fifo) + 1)'
    BY <2>1 DEF ActorInv, JobsFirst, Needs, Ahead, At
  <2>8. JobsFirst'
    BY <2>1, <2>3, <2>4, <2>7 DEF ActorInv, JobsFirst
  <2>9. TerminatesFirst'
    BY <2>1 DEF ActorInv, TerminatesFirst, At
  <2>10. Progressed'
    BY <2>1, <2>3 DEF ActorInv, Progressed, At
  <2> QED
    BY <2>5, <2>8, <2>9, <2>10 DEF ActorInv
<1>2. CASE PulledNull
  <2>1. /\ apc = "null" /\ apc' = "ended"
        /\ UNCHANGED <<ending, fifo, aborted, terminate, elt, cpcs, answered, done, before>>
    BY <1>2 DEF PulledNull, ActorInv, TerminatesFirst
  <2>2. ActorTypeOK'
    BY <2>1 DEF ActorInv, ActorTypeOK
  <2>3. JobsFirst'
    BY <2>1 DEF ActorInv, JobsFirst, Needs, Ahead, At
  <2>4. TerminatesFirst'
    BY <2>1 DEF ActorInv, TerminatesFirst, At
  <2>5. Progressed'
    BY <2>1 DEF ActorInv, Progressed, At
  <2> QED
    BY <2>2, <2>3, <2>4, <2>5 DEF ActorInv
<1> QED
  BY <1>1, <1>2

(* Every step.                                                               *)
LEMMA ActorInvStep == ActorInv /\ [ActorNext]_actorVars => ActorInv'
<1> SUFFICES ASSUME ActorInv, [ActorNext]_actorVars PROVE ActorInv'
  OBVIOUS
<1>1. CASE UNCHANGED actorVars
  <2>1. UNCHANGED <<ending, fifo, aborted, terminate, apc, elt, cpcs, answered, done, before>>
    BY <1>1 DEF actorVars
  <2>2. ActorTypeOK'
    BY <2>1 DEF ActorInv, ActorTypeOK
  <2>3. JobsFirst'
    BY <2>1 DEF ActorInv, JobsFirst, Needs, Ahead, At
  <2>4. TerminatesFirst'
    BY <2>1 DEF ActorInv, TerminatesFirst, At
  <2>5. Progressed'
    BY <2>1 DEF ActorInv, Progressed, At
  <2> QED
    BY <2>2, <2>3, <2>4, <2>5 DEF ActorInv
<1> QED
  BY <1>1, ActorInvClientPush, ActorInvReturns, ActorInvShutdown, ActorInvDestroy, ActorInvPull,
     ActorInvRun, ActorInvRespond
  DEF ActorNext, ActorThread, ClientStep, OwnerEnds

(* ActorDrains for any set of clients: when flush_actor returns, the job its *)
(* caller pushed before has run; when shutdown_actor returns, every job      *)
(* pushed before it has; and the actor thread never asserts that it was      *)
(* aborted without being told to terminate.                                  *)
THEOREM ActorSafety == ActorSpec => []ActorDrains
<1>1. ActorSpec => []ActorInv
  BY ActorInvInit, ActorInvStep, PTL DEF ActorSpec
<1> QED
  BY <1>1, ActorInvDrains, PTL

-----------------------------------------------------------------------------
(* A nonempty set of numbers has a least one.                                *)
LEMMA LeastNat ==
  ASSUME NEW T \in SUBSET Nat, T # {}
  PROVE  \E m \in T : \A k \in T : m <= k
<1> DEFINE R == OpToRel(<, Nat)
<1>1. IsWellFoundedOn(R, Nat)
  BY NatLessThanWellFounded
<1>2. \A m, k \in Nat : k < m => <<k, m>> \in R
  BY DEF OpToRel
<1> HIDE DEF R
<1>3. PICK m \in T : \A k \in T : ~(<<k, m>> \in R)
  BY <1>1, WFMin
<1>4. ASSUME NEW k \in T PROVE m <= k
  <2>1. ~(<<k, m>> \in R)
    BY <1>3
  <2>2. m \in Nat /\ k \in Nat
    OBVIOUS
  <2>3. ~(k < m)
    BY <1>2, <2>1, <2>2
  <2> QED
    BY <2>2, <2>3
<1> QED
  BY <1>4

(* Types.  A timer is set up once; one that was removed is not there.        *)
IttiTypeOK ==
  /\ clock \in 0 .. MaxClock /\ sem_fd \in Nat /\ message_queue \in Seq(Nat)
  /\ ipc \in {"receive", "again", "wait"}
  /\ setups \subseteq TimerIds /\ removed \subseteq setups
  /\ DOMAIN timer_map \subseteq setups \ removed
  /\ \A j \in DOMAIN timer_map : timer_map[j] \in 0 .. MaxClock + Duration
  /\ next_timer \in 0 .. Never /\ deadline \in 0 .. Never

(* There is an event for every message, one of them read in "again".         *)
EventsCover == Len(message_queue) <= sem_fd + (IF ipc = "again" THEN 1 ELSE 0)

(* No timer comes before next_timer, which may be stale but never late.      *)
TimersCovered ==
  /\ \A j \in DOMAIN timer_map : next_timer <= timer_map[j]
  /\ ipc = "wait" /\ sem_fd = 0 => \A j \in DOMAIN timer_map : deadline <= timer_map[j]

(* A one-shot timer is in the map or in the queue, not in both.              *)
OneShotOnce ==
  \A n \in 1 .. Len(message_queue) :
     message_queue[n] \in OneShot => message_queue[n] \in setups \ (removed \cup DOMAIN timer_map)

(* The inductive invariant: NoSleepOverWork needs the events to cover the    *)
(* messages while the task is awake, RemovedTimerSilent that an expiry in    *)
(* the queue has left the map.                                               *)
IttiInv == IttiTypeOK /\ EventsCover /\ TimersCovered /\ OneShotOnce

(* The invariant is strong enough.                                           *)
LEMMA IttiInvSafe == IttiInv => NoSleepOverWork /\ RemovedTimerSilent
<1> SUFFICES ASSUME IttiInv PROVE NoSleepOverWork /\ RemovedTimerSilent
  OBVIOUS
<1>1. message_queue \in Seq(Nat) /\ Len(message_queue) \in Nat /\ DOMAIN message_queue = 1 .. Len(message_queue)
  BY DEF IttiInv, IttiTypeOK
<1>2. NoSleepOverWork
  <2> SUFFICES ASSUME ipc = "wait", sem_fd = 0 
               PROVE  message_queue = <<>> /\ \A j \in DOMAIN timer_map : deadline <= timer_map[j]
    BY DEF NoSleepOverWork
  <2>1. Len(message_queue) <= 0
    BY DEF IttiInv, EventsCover
  <2>2. message_queue = <<>>
    BY <1>1, <2>1
  <2> QED
    BY <2>2 DEF IttiInv, TimersCovered
<1>3. RemovedTimerSilent
  BY <1>1 DEF IttiInv, OneShotOnce, RemovedTimerSilent, Range
<1> QED
  BY <1>2, <1>3

(* No timer reaches Never.                                                   *)
LEMMA NeverNat == Never \in Nat /\ MaxClock + Duration \in Nat /\ MaxClock + Duration < Never /\ MaxClock \in Nat
BY IttiAssumption DEF Never

(* It holds when the task starts.                                            *)
LEMMA IttiInvInit == IttiInit => IttiInv
<1> SUFFICES ASSUME IttiInit PROVE IttiInv
  OBVIOUS
<1>1. /\ clock = 0 /\ message_queue = <<>> /\ sem_fd = 1 /\ timer_map = <<>> /\ next_timer = Never
      /\ ipc = "receive" /\ deadline = Never /\ setups = {} /\ removed = {}
  BY DEF IttiInit
<1>2. DOMAIN timer_map = {} /\ Len(message_queue) = 0 /\ message_queue \in Seq(Nat)
  BY <1>1
<1> QED
  BY <1>1, <1>2, NeverNat DEF IttiInv, IttiTypeOK, EventsCover, TimersCovered, OneShotOnce

(* A message is added at the tail.                                           *)
LEMMA IttiInvSend == IttiInv /\ SendMsg => IttiInv'
<1> SUFFICES ASSUME IttiInv, SendMsg PROVE IttiInv'
  OBVIOUS
<1>1. /\ message_queue \in Seq(Nat) /\ message_queue' = Append(message_queue, 0) /\ sem_fd' = sem_fd + 1
      /\ UNCHANGED <<clock, timer_map, next_timer, ipc, deadline, setups, removed>>
  BY DEF SendMsg, Message, IttiInv, IttiTypeOK
<1>2. /\ message_queue' \in Seq(Nat) /\ Len(message_queue') = Len(message_queue) + 1 /\ Len(message_queue) \in Nat
      /\ message_queue'[Len(message_queue) + 1] = 0
      /\ \A n \in 1 .. Len(message_queue) : message_queue'[n] = message_queue[n]
  BY <1>1
<1>3. OneShotOnce'
  <2> SUFFICES ASSUME NEW n \in 1 .. Len(message_queue'), message_queue'[n] \in OneShot
               PROVE  message_queue'[n] \in setups \ (removed \cup DOMAIN timer_map)
    BY <1>1 DEF OneShotOnce
  <2>1. n # Len(message_queue) + 1
    BY <1>2, IttiAssumption
  <2>2. n \in 1 .. Len(message_queue)
    BY <1>2, <2>1
  <2> QED
    BY <1>2, <2>2 DEF IttiInv, OneShotOnce
<1>4. IttiTypeOK'
  BY <1>1, <1>2 DEF IttiInv, IttiTypeOK
<1>5. EventsCover'
  BY <1>1, <1>2 DEF IttiInv, IttiTypeOK, EventsCover
<1>6. TimersCovered'
  BY <1>1 DEF IttiInv, IttiTypeOK, TimersCovered
<1> QED
  BY <1>3, <1>4, <1>5, <1>6 DEF IttiInv

(* A timer is set up, or removed.                                            *)
LEMMA IttiInvTimer ==
  ASSUME IttiInv, NEW id \in TimerIds, TimerSetup(id) \/ TimerRemove(id)
  PROVE  IttiInv'
<1>0. message_queue \in Seq(Nat) /\ Len(message_queue) \in Nat
  BY DEF IttiInv, IttiTypeOK
<1>1. CASE TimerSetup(id)
  <2>1. /\ id \notin setups /\ setups' = setups \cup {id}
        /\ timer_map' = [j \in DOMAIN timer_map \cup {id} |-> IF j = id THEN clock + Duration ELSE timer_map[j]]
        /\ next_timer' = Minimum(next_timer, clock + Duration)
        /\ sem_fd' = sem_fd + 1
        /\ UNCHANGED <<clock, message_queue, ipc, deadline, removed>>
    BY <1>1 DEF TimerSetup
  <2>2. DOMAIN timer_map' = DOMAIN timer_map \cup {id} /\ id \notin DOMAIN timer_map /\ id \notin removed
    BY <2>1 DEF IttiInv, IttiTypeOK
  <2>3. clock + Duration \in 0 .. MaxClock + Duration
    BY IttiAssumption DEF IttiInv, IttiTypeOK
  <2>4. \A j \in DOMAIN timer_map' : timer_map'[j] = IF j = id THEN clock + Duration ELSE timer_map[j]
    BY <2>1
  <2>5. next_timer' \in 0 .. Never /\ next_timer' <= next_timer /\ next_timer' <= clock + Duration
    BY <2>1, <2>3, NeverNat DEF Minimum, IttiInv, IttiTypeOK
  <2>6. IttiTypeOK'
    BY <2>1, <2>2, <2>3, <2>4, <2>5 DEF IttiInv, IttiTypeOK
  <2>7. EventsCover'
    BY <1>0, <2>1 DEF IttiInv, IttiTypeOK, EventsCover
  <2>8. \A j \in DOMAIN timer_map' : next_timer' <= timer_map'[j]
    <3> SUFFICES ASSUME NEW j \in DOMAIN timer_map' PROVE next_timer' <= timer_map'[j]
      OBVIOUS
    <3>1. CASE j = id
      BY <2>4, <2>5, <3>1
    <3>2. CASE j # id
      <4>1. j \in DOMAIN timer_map /\ timer_map'[j] = timer_map[j]
        BY <2>2, <2>4, <3>2
      <4>2. next_timer <= timer_map[j] /\ timer_map[j] \in Int /\ next_timer \in Int
        BY <4>1 DEF IttiInv, IttiTypeOK, TimersCovered
      <4> QED
        BY <2>5, <4>1, <4>2
    <3> QED
      BY <3>1, <3>2
  <2>9. TimersCovered'
    <3>1. sem_fd' # 0
      BY <2>1 DEF IttiInv, IttiTypeOK
    <3> QED
      BY <2>8, <3>1 DEF TimersCovered
  <2>10. OneShotOnce'
    BY <1>0, <2>1, <2>2 DEF IttiInv, OneShotOnce
  <2> QED
    BY <2>6, <2>7, <2>9, <2>10 DEF IttiInv
<1>2. CASE TimerRemove(id)
  <2>1. /\ id \in DOMAIN timer_map /\ removed' = removed \cup {id}
        /\ timer_map' = [j \in DOMAIN timer_map \ {id} |-> timer_map[j]]
        /\ UNCHANGED <<clock, message_queue, sem_fd, next_timer, ipc, deadline, setups>>
    BY <1>2 DEF TimerRemove
  <2>2. DOMAIN timer_map' = DOMAIN timer_map \ {id} /\ \A j \in DOMAIN timer_map' : timer_map'[j] = timer_map[j]
    BY <2>1
  <2>3. IttiTypeOK'
    BY <2>1, <2>2 DEF IttiInv, IttiTypeOK
  <2>4. EventsCover'
    BY <2>1 DEF IttiInv, EventsCover
  <2>5. TimersCovered'
    BY <2>1, <2>2 DEF IttiInv, TimersCovered
  <2>6. OneShotOnce'
    BY <1>0, <2>1, <2>2 DEF IttiInv, OneShotOnce
  <2> QED
    BY <2>3, <2>4, <2>5, <2>6 DEF IttiInv
<1> QED
  BY <1>1, <1>2

(* The timeouts that are left: those of expired one-shot timers are not, and *)
(* next_timer is not behind the clock unless some timer expired.             *)
LEMMA IttiTimersLeft ==
  ASSUME IttiInv
  PROVE  /\ Expired \subseteq DOMAIN timer_map /\ IsFiniteSet(Expired) /\ Cardinality(Expired) \in Nat
         /\ Cardinality(Expired) = 0 => Expired = {}
         /\ DOMAIN TimersLeft = DOMAIN timer_map \ (Expired \cap OneShot)
         /\ \A j \in DOMAIN TimersLeft : TimersLeft[j] \in 0 .. MaxClock + Duration
         /\ \A j \in DOMAIN TimersLeft : timer_map[j] <= TimersLeft[j]
         /\ NextTimer \in 0 .. Never
         /\ \A j \in DOMAIN TimersLeft : NextTimer <= TimersLeft[j]
         /\ next_timer < clock /\ Expired = {} => NextTimer >= clock
<1>1. Expired \subseteq DOMAIN timer_map /\ DOMAIN timer_map \subseteq TimerIds
  BY DEF Expired, IttiInv, IttiTypeOK
<1>2. IsFiniteSet(Expired) /\ Cardinality(Expired) \in Nat /\ (Cardinality(Expired) = 0 => Expired = {})
  <2>1. IsFiniteSet(Expired)
    BY <1>1, IttiAssumption, FS_Subset DEF TimerIds
  <2> QED
    BY <2>1, FS_CardinalityType, FS_EmptySet
<1>3. DOMAIN TimersLeft = DOMAIN timer_map \ (Expired \cap OneShot)
  BY DEF TimersLeft
<1>4. ASSUME NEW j \in DOMAIN TimersLeft
      PROVE  TimersLeft[j] \in 0 .. MaxClock + Duration /\ timer_map[j] <= TimersLeft[j] /\ j \in DOMAIN timer_map
  <2>1. j \in DOMAIN timer_map /\ TimersLeft[j] = IF j \in Expired THEN timer_map[j] + Duration ELSE timer_map[j]
    BY <1>3 DEF TimersLeft
  <2>2. timer_map[j] \in 0 .. MaxClock + Duration /\ clock \in 0 .. MaxClock
    BY <2>1 DEF IttiInv, IttiTypeOK
  <2>3. j \in Expired => timer_map[j] < clock
    BY DEF Expired
  <2> QED
    BY <2>1, <2>2, <2>3, IttiAssumption
<1>5. /\ NextTimer \in {Never} \cup {TimersLeft[j] : j \in DOMAIN TimersLeft}
      /\ \A x \in {Never} \cup {TimersLeft[j] : j \in DOMAIN TimersLeft} : NextTimer <= x
  <2> DEFINE T == {Never} \cup {TimersLeft[j] : j \in DOMAIN TimersLeft}
  <2>1. T \in SUBSET Nat /\ T # {}
    BY <1>4, NeverNat
  <2>2. \E m \in T : \A k \in T : m <= k
    BY <2>1, LeastNat
  <2>3. NextTimer = CHOOSE x \in T : \A y \in T : x <= y
    BY DEF NextTimer, Min
  <2> HIDE DEF T
  <2>4. NextTimer \in T /\ \A x \in T : NextTimer <= x
    BY <2>2, <2>3
  <2> QED
    BY <2>4 DEF T
<1>6. NextTimer \in 0 .. Never
  BY <1>4, <1>5, NeverNat
<1>7. ASSUME next_timer < clock, Expired = {} PROVE NextTimer >= clock
  <2>1. Never >= clock
    BY NeverNat, IttiAssumption DEF IttiInv, IttiTypeOK, Never
  <2>2. ASSUME NEW j \in DOMAIN TimersLeft PROVE TimersLeft[j] >= clock
    <3>1. j \in DOMAIN timer_map /\ TimersLeft[j] = timer_map[j] /\ ~(timer_map[j] < clock)
      BY <1>3, <1>7 DEF TimersLeft, Expired
    <3>2. timer_map[j] \in Int /\ clock \in Int
      BY <3>1 DEF IttiInv, IttiTypeOK
    <3> QED
      BY <3>1, <3>2
  <2> QED
    BY <1>5, <2>1, <2>2
<1> QED
  BY <1>1, <1>2, <1>3, <1>4, <1>5, <1>6, <1>7

(* The task looks for expired timers and goes to wait.                       *)
LEMMA IttiInvGetEvents == IttiInv /\ GetEvents => IttiInv'
<1> SUFFICES ASSUME IttiInv, GetEvents PROVE IttiInv'
  OBVIOUS
<1> DEFINE n == Cardinality(Expired)
<1>1. /\ message_queue' \in InOrder(Expired) /\ sem_fd' = sem_fd + n /\ timer_map' = TimersLeft
      /\ next_timer' = IF next_timer < clock THEN NextTimer ELSE next_timer
      /\ deadline' = IF next_timer' < clock THEN Never ELSE next_timer'
      /\ ipc' = "wait" /\ UNCHANGED <<clock, setups, removed>>
  BY DEF GetEvents
<1>2. /\ Expired \subseteq DOMAIN timer_map /\ n \in Nat /\ (n = 0 => Expired = {})
      /\ DOMAIN TimersLeft = DOMAIN timer_map \ (Expired \cap OneShot)
      /\ \A j \in DOMAIN TimersLeft : TimersLeft[j] \in 0 .. MaxClock + Duration
      /\ \A j \in DOMAIN TimersLeft : timer_map[j] <= TimersLeft[j]
      /\ NextTimer \in 0 .. Never
      /\ \A j \in DOMAIN TimersLeft : NextTimer <= TimersLeft[j]
      /\ next_timer < clock /\ Expired = {} => NextTimer >= clock
  BY IttiTimersLeft
<1>3. /\ clock \in 0 .. MaxClock /\ sem_fd \in Nat /\ next_timer \in 0 .. Never
      /\ DOMAIN timer_map \subseteq setups \ removed /\ setups \subseteq TimerIds /\ removed \subseteq setups
      /\ \A j \in DOMAIN timer_map : timer_map[j] \in 0 .. MaxClock + Duration /\ next_timer <= timer_map[j]
  BY DEF IttiInv, IttiTypeOK, TimersCovered
<1> HIDE DEF n
<1>4. message_queue' \in [1 .. n -> Expired]
  BY <1>1 DEF InOrder, n
<1>5. message_queue' \in Seq(Nat) /\ Len(message_queue') = n /\ \A k \in 1 .. n : message_queue'[k] \in Expired
  <2>1. Expired \subseteq Nat
    BY <1>2, <1>3, IttiAssumption DEF TimerIds
  <2> QED
    BY <1>2, <1>4, <2>1
<1>6. next_timer' \in 0 .. Never /\ deadline' \in 0 .. Never
  BY <1>1, <1>2, <1>3, NeverNat
<1>7. IttiTypeOK'
  BY <1>1, <1>2, <1>3, <1>5, <1>6 DEF IttiTypeOK
<1>8. EventsCover'
  BY <1>1, <1>2, <1>3, <1>5 DEF EventsCover
<1>9. \A j \in DOMAIN timer_map' : next_timer' <= timer_map'[j]
  <2> SUFFICES ASSUME NEW j \in DOMAIN TimersLeft PROVE next_timer' <= TimersLeft[j]
    BY <1>1
  <2>1. /\ next_timer <= timer_map[j] /\ timer_map[j] <= TimersLeft[j] /\ NextTimer <= TimersLeft[j]
        /\ timer_map[j] \in Int /\ TimersLeft[j] \in Int
    BY <1>2, <1>3
  <2> QED
    BY <1>1, <1>3, <2>1
<1>10. TimersCovered'
  <2> SUFFICES ASSUME sem_fd' = 0 PROVE \A j \in DOMAIN timer_map' : deadline' <= timer_map'[j]
    BY <1>9 DEF TimersCovered
  <2>1. n = 0
    BY <1>1, <1>2, <1>3
  <2>2. ~(next_timer' < clock)
    BY <1>1, <1>2, <1>3, <2>1
  <2> QED
    BY <1>1, <1>9, <2>2
<1>11. OneShotOnce'
  BY <1>1, <1>2, <1>3, <1>5 DEF OneShotOnce
<1> QED
  BY <1>7, <1>8, <1>10, <1>11 DEF IttiInv

(* Every step.                                                               *)
LEMMA IttiInvNext == IttiInv /\ [IttiNext]_ittiVars => IttiInv'
<1> SUFFICES ASSUME IttiInv, [IttiNext]_ittiVars PROVE IttiInv'
  OBVIOUS
<1>0. message_queue \in Seq(Nat) /\ Len(message_queue) \in Nat
  BY DEF IttiInv, IttiTypeOK
<1>1. CASE UNCHANGED ittiVars
  BY <1>1 DEF ittiVars, IttiInv, IttiTypeOK, EventsCover, TimersCovered, OneShotOnce
<1>2. CASE ClockTicks
  <2>1. clock' \in 0 .. MaxClock /\ UNCHANGED <<message_queue, sem_fd, timer_map, next_timer, ipc, deadline, setups, removed>>
    BY <1>2, IttiAssumption DEF ClockTicks, IttiInv, IttiTypeOK
  <2> QED
    BY <2>1 DEF IttiInv, IttiTypeOK, EventsCover, TimersCovered, OneShotOnce
<1>3. CASE EventRead
  <2>1. /\ sem_fd' = sem_fd - 1 /\ sem_fd > 0 /\ ipc = "wait" /\ ipc' = "again"
        /\ UNCHANGED <<clock, message_queue, timer_map, next_timer, deadline, setups, removed>>
    BY <1>3 DEF EventRead
  <2> QED
    BY <1>0, <2>1 DEF IttiInv, IttiTypeOK, EventsCover, TimersCovered, OneShotOnce
<1>4. CASE NoEvent \/ ReceiveNull
  <2>1. /\ (ipc = "wait" /\ ipc' = "again") \/ (ipc' = "receive" /\ message_queue = <<>>)
        /\ UNCHANGED <<clock, message_queue, sem_fd, timer_map, next_timer, deadline, setups, removed>>
    BY <1>4 DEF NoEvent, ReceiveNull
  <2> QED
    BY <1>0, <2>1 DEF IttiInv, IttiTypeOK, EventsCover, TimersCovered, OneShotOnce
<1>5. CASE ReceiveMsg
  <2>1. /\ ipc \in {"receive", "again"} /\ ipc' = "receive" /\ message_queue # <<>> /\ message_queue' = Tail(message_queue)
        /\ UNCHANGED <<clock, sem_fd, timer_map, next_timer, deadline, setups, removed>>
    BY <1>5 DEF ReceiveMsg
  <2>2. /\ message_queue' \in Seq(Nat) /\ Len(message_queue') = Len(message_queue) - 1
        /\ \A k \in 1 .. Len(message_queue') : message_queue'[k] = message_queue[k + 1]
        /\ \A k \in 1 .. Len(message_queue') : k + 1 \in 1 .. Len(message_queue)
    BY <1>0, <2>1
  <2>3. IttiTypeOK' /\ TimersCovered'
    BY <2>1, <2>2 DEF IttiInv, IttiTypeOK, TimersCovered
  <2>4. EventsCover'
    BY <1>0, <2>1, <2>2 DEF IttiInv, IttiTypeOK, EventsCover
  <2>5. OneShotOnce'
    BY <2>1, <2>2 DEF IttiInv, OneShotOnce
  <2> QED
    BY <2>3, <2>4, <2>5 DEF IttiInv
<1> QED
  BY <1>1, <1>2, <1>3, <1>4, <1>5, IttiInvSend, IttiInvTimer, IttiInvGetEvents DEF IttiNext, IttiTask

(* NoSleepOverWork for any set of timers: a task does not stay in epoll_wait *)
(* over a queued message, or past the next of its timers.                    *)
THEOREM IttiNoSleepOverWork == IttiInit /\ [][IttiNext]_ittiVars => []NoSleepOverWork
<1>1. IttiInit /\ [][IttiNext]_ittiVars => []IttiInv
  BY IttiInvInit, IttiInvNext, PTL
<1> QED
  BY <1>1, IttiInvSafe, PTL

(* RemovedTimerSilent for any set of timers: once timer_remove has succeeded *)
(* no expiry of a one-shot timer is delivered.                               *)
THEOREM IttiRemovedSilent == IttiInit /\ [][IttiNext]_ittiVars => []RemovedTimerSilent
<1>1. IttiInit /\ [][IttiNext]_ittiVars => []IttiInv
  BY IttiInvInit, IttiInvNext, PTL
<1> QED
  BY <1>1, IttiInvSafe, PTL

-----------------------------------------------------------------------------
(* The waiting thread has read a timestamp that is not ahead of the current  *)
(* one, and has not slept before it first takes the mutex.                   *)
ShmInv ==
  /\ timestamp \in Nat /\ current \in Nat /\ target \in Nat
  /\ abort \in BOOLEAN /\ timed \in BOOLEAN /\ slept \in BOOLEAN
  /\ wpc \in {"out", "lock", "asleep", "woken"} /\ result \in {0, 1}
  /\ current <= timestamp
  /\ wpc = "lock" => ~slept
  /\ WaitSound

(* It holds when the channel is created.                                     *)
LEMMA ShmInvInit == ShmInit => ShmInv
<1> SUFFICES ASSUME ShmInit PROVE ShmInv
  OBVIOUS
<1>1. /\ timestamp = 0 /\ current = 0 /\ target = 0 /\ wpc = "out" /\ result = 0
      /\ abort \in BOOLEAN /\ timed \in BOOLEAN /\ slept \in BOOLEAN
  BY Zenon DEF ShmInit
<1> QED
  BY <1>1 DEF ShmInv, WaitSound

(* Every step of the producer and of the thread that waits.                  *)
LEMMA ShmInvNext == ShmInv /\ [ShmNext]_shmVars => ShmInv'
<1> SUFFICES ASSUME ShmInv, [ShmNext]_shmVars PROVE ShmInv'
  OBVIOUS
<1>1. CASE UNCHANGED shmVars
  BY <1>1 DEF shmVars, ShmInv, WaitSound
<1>2. ASSUME NEW n \in Produced, ProduceSamples(n) PROVE ShmInv'
  BY <1>2, ShmAssumption DEF ProduceSamples, Broadcast, ShmInv, WaitSound
<1>3. CASE AbortChannel
  BY <1>3 DEF AbortChannel, Broadcast, ShmInv, WaitSound
<1>4. ASSUME NEW t \in 1 .. MaxTimestamp, NEW with \in BOOLEAN, WaitReads(t, with) PROVE ShmInv'
  <2>1. timed' \in BOOLEAN /\ slept' \in BOOLEAN /\ ~slept'
    BY <1>4, Zenon DEF WaitReads
  <2>2. /\ target' = t /\ current' = timestamp
        /\ IF timestamp >= t THEN result' = 0 /\ UNCHANGED wpc ELSE wpc' = "lock" /\ UNCHANGED result
        /\ UNCHANGED <<timestamp, abort>> /\ wpc = "out"
    BY <1>4 DEF WaitReads
  <2> QED
    BY <2>1, <2>2, ShmAssumption DEF ShmInv, WaitSound
<1>5. CASE WaitLoops
  <2>1. CASE wpc = "lock"
    BY <1>5, <2>1 DEF WaitLoops, ShmInv, WaitSound
  <2>2. CASE wpc = "woken"
    BY <1>5, <2>2 DEF WaitLoops, ShmInv, WaitSound
  <2> QED
    BY <1>5, <2>1, <2>2 DEF WaitLoops
<1>6. CASE WaitTimesOut \/ WaitSpurious
  BY <1>6 DEF WaitTimesOut, WaitSpurious, ShmInv, WaitSound
<1> QED
  BY <1>1, <1>2, <1>3, <1>4, <1>5, <1>6 DEF ShmNext

(* WaitSound for any timestamps produced: shm_td_iq_channel_wait returns 0   *)
(* only for samples that are there or after an abort, and no produced sample *)
(* or abort is slept over, but for a timestamp that was stale already.       *)
THEOREM ShmSafety == ShmInit /\ [][ShmNext]_shmVars => []WaitSound
<1>1. ShmInit /\ [][ShmNext]_shmVars => []ShmInv
  BY ShmInvInit, ShmInvNext, PTL
<1>2. ShmInv => WaitSound
  BY DEF ShmInv
<1> QED
  BY <1>1, <1>2, PTL
=============================================================================
