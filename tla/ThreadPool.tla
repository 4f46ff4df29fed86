----------------------------- MODULE ThreadPool -----------------------------
(* The thread pool: one queue per worker, each with a mutex; tasks go to the *)
(* first queue whose mutex can be had, idle workers steal from the others,   *)
(* and abortTpool sends one empty task that every worker passes on as it     *)
(* ends.  The owner pushes its tasks, joins them with a task_ans or does     *)
(* not, and aborts the pool.                                                 *)
(*                                                                           *)
(* A mutex is taken in one step and given back, with what is done under it,  *)
(* in the next, so that mutextrylock of another thread may fail in between.  *)
EXTENDS Integers, Sequences, FiniteSets

CONSTANTS
  Len_thr,   \* number of workers, tpool->len_thr
  NumTasks   \* bound: tasks the owner pushes

ASSUME PoolAssumption == Len_thr \in Nat \ {0} /\ NumTasks \in Nat

VARIABLES
  joins,     \* the owner joins its tasks before it aborts, fixed
  pushed,    \* tasks the owner has pushed
  queue,     \* q_arr: the tasks of each queue
  mtx,       \* the thread that holds the mutex of each queue
  index,     \* tpool->index, modulo the number of workers
  dead,      \* dead_mask
  pc, i,     \* of each thread: where it is, its loop counter
  task,      \* of each thread: the task it pushes or runs
  first,     \* of each thread: the index it took when it began to push
  ran,       \* history: how often each task ran
  pending, sem   \* task_ans: counter and semaphore

poolVars == <<joins, pushed, queue, mtx, index, dead, pc, i, task, first, ran, pending, sem>>

Workers == 0 .. Len_thr - 1
Owner == Len_thr
Threads == Workers \cup {Owner}
Nobody == -1
Stop == 0               \* the task with neither function nor arguments
Tasks == 1 .. NumTasks

PoolInit ==
  /\ joins \in BOOLEAN
  /\ pushed = 0
  /\ queue = [q \in Workers |-> <<>>]
  /\ mtx = [q \in Workers |-> Nobody]
  /\ index = 0 /\ dead = {}
  /\ pc = [t \in Threads |-> IF t = Owner THEN "start" ELSE "scan"]
  /\ i = [t \in Threads |-> t]
  /\ task = [t \in Threads |-> Stop]
  /\ first = [t \in Threads |-> 0]
  /\ ran = [k \in Tasks |-> 0]
  /\ pending = NumTasks /\ sem = 0

Go(t, where) == pc' = [pc EXCEPT ![t] = where]
Lock(t, q) == mtx[q] = Nobody /\ mtx' = [mtx EXCEPT ![q] = t]
Unlock(q) == mtx' = [mtx EXCEPT ![q] = Nobody]

-----------------------------------------------------------------------------
(* pushTpool of the owner and pushTpool_mask of a worker *)

StartPush(t, k) ==
  /\ task' = [task EXCEPT ![t] = k]
  /\ first' = [first EXCEPT ![t] = index]
  /\ index' = (index + 1) % Len_thr
  /\ i' = [i EXCEPT ![t] = 0]
  /\ Go(t, "push")

(* The i-th queue tried: from the index taken, or from the current one if    *)
(* queues of ended workers are avoided                                       *)
TryQueue(t) == (i[t] + IF t = Owner THEN first[t] ELSE index) % Len_thr
Avoided(t, q) == t # Owner /\ q \in dead

(* try_push_not_q: mutextrylock fails, or the queue is avoided *)
PushSkips(t) ==
  /\ pc[t] = "push" /\ i[t] < Len_thr
  /\ Avoided(t, TryQueue(t)) \/ mtx[TryQueue(t)] # Nobody
  /\ i' = [i EXCEPT ![t] = @ + 1]
  /\ UNCHANGED <<joins, pushed, queue, mtx, index, dead, pc, task, first, ran, pending, sem>>

PushLocks(t) ==
  /\ pc[t] = "push" /\ i[t] < Len_thr
  /\ ~Avoided(t, TryQueue(t)) /\ Lock(t, TryQueue(t))
  /\ Go(t, "pushing")
  /\ UNCHANGED <<joins, pushed, queue, index, dead, i, task, first, ran, pending, sem>>

(* push_not_q: DevAssert(t.func != NULL), which the empty task fails; then   *)
(* it waits for the mutex of the queue it took first.                        *)
PushAsserts(t) ==
  /\ pc[t] = "push" /\ i[t] = Len_thr /\ task[t] = Stop
  /\ Go(t, "asserted")
  /\ UNCHANGED <<joins, pushed, queue, mtx, index, dead, i, task, first, ran, pending, sem>>

PushWaits(t) ==
  /\ pc[t] = "push" /\ i[t] = Len_thr /\ task[t] # Stop
  /\ Lock(t, first[t])
  /\ Go(t, "pushing")
  /\ UNCHANGED <<joins, pushed, queue, index, dead, i, task, first, ran, pending, sem>>

(* condsignal: the worker of the queue, if it sleeps.  It comes just after   *)
(* the unlock; a worker that pops in between only does not sleep.            *)
Woken(q) == IF pc[q] = "asleep" THEN [pc EXCEPT ![q] = "pop"] ELSE pc

Push(t) ==
  /\ pc[t] = "pushing"
  /\ \E q \in Workers :
       /\ mtx[q] = t
       /\ queue' = [queue EXCEPT ![q] = Append(@, task[t])]
       /\ Unlock(q)
       /\ pc' = [Woken(q) EXCEPT ![t] = IF t # Owner THEN "ended" ELSE IF task[t] = Stop THEN "aborted" ELSE "start"]
  /\ UNCHANGED <<joins, pushed, index, dead, i, task, first, ran, pending, sem>>

-----------------------------------------------------------------------------
(* worker_thread *)

Rounds(w) == 2 * (Len_thr + w)    \* num_it

(* try_pop_not_q *)
PopSkips(w) ==
  /\ pc[w] = "scan" /\ i[w] < Rounds(w) /\ mtx[i[w] % Len_thr] # Nobody
  /\ i' = [i EXCEPT ![w] = @ + 1]
  /\ UNCHANGED <<joins, pushed, queue, mtx, index, dead, pc, task, first, ran, pending, sem>>

PopLocks(w) ==
  /\ pc[w] = "scan" /\ i[w] < Rounds(w) /\ Lock(w, i[w] % Len_thr)
  /\ Go(w, "popping")
  /\ UNCHANGED <<joins, pushed, queue, index, dead, i, task, first, ran, pending, sem>>

(* What a worker does with the task it popped: run it, or end *)
Got(w, k) ==
  /\ task' = [task EXCEPT ![w] = k]
  /\ Go(w, IF k = Stop THEN "stopping" ELSE "run")

(* Bug: the tail is not moved.                                               *)
PopTriesAsPeek(w) ==
  /\ pc[w] = "popping"
  /\ LET q == i[w] % Len_thr
     IN /\ Unlock(q)
        /\ IF queue[q] = <<>>
           THEN /\ i' = [i EXCEPT ![w] = @ + 1]
                /\ Go(w, "scan")
                /\ UNCHANGED task
           ELSE Got(w, Head(queue[q])) /\ UNCHANGED i
  /\ UNCHANGED <<joins, pushed, queue, index, dead, first, ran, pending, sem>>

PopTries(w) ==
  /\ pc[w] = "popping"
  /\ LET q == i[w] % Len_thr
     IN /\ Unlock(q)
        /\ IF queue[q] = <<>>
           THEN /\ i' = [i EXCEPT ![w] = @ + 1]
                /\ Go(w, "scan")
                /\ UNCHANGED <<queue, task>>
           ELSE /\ queue' = [queue EXCEPT ![q] = Tail(@)]
                /\ Got(w, Head(queue[q]))
                /\ UNCHANGED i
  /\ UNCHANGED <<joins, pushed, index, dead, first, ran, pending, sem>>

(* pop_not_q: waits for the mutex, and for a task in the own queue *)
PopWaits(w) ==
  /\ \/ pc[w] = "scan" /\ i[w] = Rounds(w)
     \/ pc[w] = "pop"
  /\ Lock(w, w)
  /\ Go(w, "popping own")
  /\ UNCHANGED <<joins, pushed, queue, index, dead, i, task, first, ran, pending, sem>>

PopOwn(w) ==
  /\ pc[w] = "popping own"
  /\ Unlock(w)
  /\ IF queue[w] = <<>>
     THEN Go(w, "asleep") /\ UNCHANGED <<queue, task>>
     ELSE queue' = [queue EXCEPT ![w] = Tail(@)] /\ Got(w, Head(queue[w]))
  /\ UNCHANGED <<joins, pushed, index, dead, i, first, ran, pending, sem>>

(* The task runs and calls completed_task_ans; the worker begins again *)
Run(w) ==
  /\ pc[w] = "run"
  /\ ran' = [ran EXCEPT ![task[w]] = @ + 1]
  /\ pending' = pending - 1
  /\ sem' = IF pending = 1 THEN sem + 1 ELSE sem
  /\ i' = [i EXCEPT ![w] = w]
  /\ Go(w, "scan")
  /\ UNCHANGED <<joins, pushed, queue, mtx, index, dead, task, first>>

(* Bug: the empty task is not passed on.                                     *)
StopWorkerAsSilent(w) ==
  /\ pc[w] = "stopping"
  /\ dead' = dead \cup {w}
  /\ Go(w, "ended")
  /\ UNCHANGED <<joins, pushed, queue, mtx, index, i, task, first, ran, pending, sem>>

(* The empty task ends the worker, which passes it on unless it is the last *)
StopWorker(w) ==
  /\ pc[w] = "stopping"
  /\ dead' = dead \cup {w}
  /\ IF dead' = Workers
     THEN Go(w, "ended") /\ UNCHANGED <<index, i, task, first>>
     ELSE StartPush(w, Stop)
  /\ UNCHANGED <<joins, pushed, queue, mtx, ran, pending, sem>>

-----------------------------------------------------------------------------
(* The owner *)

PushTask ==
  /\ pc[Owner] = "start" /\ pushed < NumTasks
  /\ pushed' = pushed + 1
  /\ StartPush(Owner, pushed + 1)
  /\ UNCHANGED <<joins, queue, mtx, dead, ran, pending, sem>>

(* join_task_ans: semwait *)
JoinTasks ==
  /\ pc[Owner] = "start" /\ pushed = NumTasks /\ joins /\ sem > 0
  /\ sem' = sem - 1
  /\ Go(Owner, "joined")
  /\ UNCHANGED <<joins, pushed, queue, mtx, index, dead, i, task, first, ran, pending>>

(* abortTpool: the empty task, then pthread_join of every worker *)
Abort ==
  /\ \/ pc[Owner] = "start" /\ pushed = NumTasks /\ ~joins
     \/ pc[Owner] = "joined"
  /\ StartPush(Owner, Stop)
  /\ UNCHANGED <<joins, pushed, queue, mtx, dead, ran, pending, sem>>

JoinThreads ==
  /\ pc[Owner] = "aborted" /\ \A w \in Workers : pc[w] = "ended"
  /\ Go(Owner, "returned")
  /\ UNCHANGED <<joins, pushed, queue, mtx, index, dead, i, task, first, ran, pending, sem>>

WorkerStep(w) ==
  \/ PopSkips(w) \/ PopLocks(w) \/ PopTries(w) \/ PopWaits(w) \/ PopOwn(w)
  \/ Run(w) \/ StopWorker(w)
PushStep(t) == PushSkips(t) \/ PushLocks(t) \/ PushAsserts(t) \/ PushWaits(t) \/ Push(t)
OwnerStep == PushTask \/ JoinTasks \/ Abort \/ JoinThreads

Asserted == \E t \in Threads : pc[t] = "asserted"    \* the process ends

PoolNext ==
  /\ ~Asserted
  /\ \/ \E w \in Workers : WorkerStep(w) \/ PushStep(w)
     \/ OwnerStep \/ PushStep(Owner)

-----------------------------------------------------------------------------
(* A task runs at most once although every worker may steal it, and when     *)
(* join_task_ans returns all of them have run.                               *)
PoolJoinMeansRun ==
  /\ \A k \in Tasks : ran[k] <= 1
  /\ joins /\ pc[Owner] \notin {"start", "push", "pushing"} => \A k \in Tasks : ran[k] = 1

(* abortTpool returns: the one empty task reaches every worker, unless       *)
(* push_not_q asserts (PushedTaskHasFunc).                                   *)
PoolStops == <>(pc[Owner] = "returned" \/ Asserted)

(* DevAssert(t.func != NULL) of push_not_q holds. *)
PushedTaskHasFunc == ~Asserted
=============================================================================
