----------------------------- MODULE PoolProofs -----------------------------
(* The thread pool, for any numbers of workers and tasks.                    *)
EXTENDS ThreadPool, FiniteSetTheorems, TLAPS

(* What setting one entry, taking the head and adding to the tail do.        *)
LEMMA ExceptFacts ==
  ASSUME NEW S, NEW T, NEW f \in [S -> T], NEW x \in S, NEW v \in T, NEW g, g = [f EXCEPT ![x] = v]
  PROVE  g \in [S -> T] /\ g[x] = v /\ \A y \in S \ {x} : g[y] = f[y]
OBVIOUS

LEMMA TailFacts ==
  ASSUME NEW S, NEW s \in Seq(S), s # <<>>
  PROVE  /\ Head(s) = s[1] /\ Head(s) \in S /\ Tail(s) \in Seq(S)
         /\ Len(s) \in Nat \ {0} /\ Len(Tail(s)) = Len(s) - 1
         /\ \A m \in 1 .. Len(Tail(s)) : m + 1 \in 1 .. Len(s) /\ Tail(s)[m] = s[m + 1]
OBVIOUS

(* An entry of a sequence over S is in S.                                    *)
LEMMA EntryOf ==
  ASSUME NEW S, NEW s \in Seq(S), NEW m \in 1 .. Len(s)
  PROVE  s[m] \in S
OBVIOUS

-----------------------------------------------------------------------------
PoolPlaces == {"start", "push", "pushing", "joined", "aborted", "returned", "asserted",
               "scan", "popping", "pop", "popping own", "asleep", "run", "stopping", "ended"}

(* Types.  Workers push nothing but the empty task, and do not run it.       *)
PoolTypeOK ==
  /\ joins \in BOOLEAN /\ pushed \in 0 .. NumTasks
  /\ queue \in [Workers -> Seq(0 .. NumTasks)]
  /\ pc \in [Threads -> PoolPlaces] /\ i \in [Threads -> Nat] /\ task \in [Threads -> 0 .. NumTasks]
  /\ ran \in [Tasks -> {0, 1}]
  /\ \A w \in Workers : /\ pc[w] \in {"push", "pushing"} => task[w] = Stop
                        /\ pc[w] = "run" => task[w] # Stop

(* The task k is in the hands of thread t.                                   *)
Holds(t, k) == task[t] = k /\ pc[t] \in (IF t = Owner THEN {"push", "pushing"} ELSE {"run"})

(* A task that was pushed is in one place: with one thread, in one entry of  *)
(* one queue, or it has run.                                                 *)
OnePlace ==
  /\ \A q, r \in Workers : \A m \in 1 .. Len(queue[q]), n \in 1 .. Len(queue[r]) :
        queue[q][m] = queue[r][n] /\ queue[q][m] # Stop => q = r /\ m = n
  /\ \A q \in Workers : \A m \in 1 .. Len(queue[q]) : queue[q][m] # Stop =>
        /\ queue[q][m] <= pushed /\ ran[queue[q][m]] = 0
        /\ \A t \in Threads : ~Holds(t, queue[q][m])
  /\ \A t, u \in Threads, k \in Tasks : Holds(t, k) /\ Holds(u, k) => t = u
  /\ \A t \in Threads, k \in Tasks : Holds(t, k) => k <= pushed /\ ran[k] = 0
  /\ \A k \in Tasks : ran[k] = 1 => k <= pushed

(* The counter of the task_ans is the number of tasks that have not run; the *)
(* owner gets past semwait when it is zero.                                  *)
Counted ==
  /\ pending = Cardinality({k \in Tasks : ran[k] = 0})
  /\ sem \in Nat /\ (sem > 0 => pending = 0)
  /\ joins /\ (pc[Owner] \notin {"start", "push", "pushing"} \/ (pc[Owner] # "start" /\ task[Owner] = Stop))
       => pending = 0

(* The inductive invariant: that each task runs once needs to know where the *)
(* others are, and that join_task_ans waited for all needs the counter.      *)
PoolInv == PoolTypeOK /\ OnePlace /\ Counted

(* The threads and the tasks.                                                *)
LEMMA PoolSets ==
  /\ Owner \in Threads /\ Owner \notin Workers /\ Workers \subseteq Threads
  /\ \A t \in Threads : t = Owner \/ t \in Workers
  /\ Workers \subseteq Nat /\ Stop \in 0 .. NumTasks /\ Stop \notin Tasks
  /\ \A k \in 0 .. NumTasks : k = Stop \/ k \in Tasks
  /\ Tasks \subseteq 0 .. NumTasks
  /\ \A n \in Nat : n % Len_thr \in Workers
  /\ IsFiniteSet(Tasks) /\ Cardinality(Tasks) = NumTasks
<1>1. Len_thr \in Nat \ {0} /\ NumTasks \in Nat
  BY PoolAssumption
<1>2. \A n \in Nat : n % Len_thr \in 0 .. Len_thr - 1
  BY <1>1
<1>3. IsFiniteSet(1 .. NumTasks) /\ Cardinality(1 .. NumTasks) = NumTasks
  <2>1. 1 \in Int /\ NumTasks \in Int
    BY <1>1
  <2>2. /\ IsFiniteSet(1 .. NumTasks)
        /\ Cardinality(1 .. NumTasks) = IF 1 > NumTasks THEN 0 ELSE NumTasks - 1 + 1
    BY <2>1, FS_Interval
  <2> QED
    BY <1>1, <2>2
<1>4. /\ Owner \in Threads /\ Owner \notin Workers /\ Workers \subseteq Threads
      /\ \A t \in Threads : t = Owner \/ t \in Workers
      /\ Workers \subseteq Nat
  BY <1>1 DEF Owner, Threads, Workers
<1>5. /\ Stop \in 0 .. NumTasks /\ Stop \notin Tasks
      /\ \A k \in 0 .. NumTasks : k = Stop \/ k \in Tasks
      /\ Tasks \subseteq 0 .. NumTasks
  BY <1>1 DEF Stop, Tasks
<1> QED
  BY <1>2, <1>3, <1>4, <1>5 DEF Workers, Tasks

(* The invariant is strong enough.                                           *)
LEMMA PoolInvSafe == PoolInv => PoolJoinMeansRun
<1> SUFFICES ASSUME PoolInv PROVE PoolJoinMeansRun
  OBVIOUS
<1>1. \A k \in Tasks : ran[k] \in {0, 1}
  BY DEF PoolInv, PoolTypeOK
<1>2. ASSUME joins, pc[Owner] \notin {"start", "push", "pushing"}, NEW k \in Tasks PROVE ran[k] = 1
  <2>1. Cardinality({j \in Tasks : ran[j] = 0}) = 0
    BY <1>2 DEF PoolInv, Counted
  <2>2. IsFiniteSet({j \in Tasks : ran[j] = 0})
    BY PoolSets, FS_Subset
  <2>3. {j \in Tasks : ran[j] = 0} = {}
    BY <2>1, <2>2, FS_EmptySet
  <2> QED
    BY <1>1, <2>3
<1> QED
  BY <1>1, <1>2 DEF PoolJoinMeansRun

(* It holds before the first push.                                           *)
LEMMA PoolInvInit == PoolInit => PoolInv
<1> SUFFICES ASSUME PoolInit PROVE PoolInv
  OBVIOUS
<1>1. /\ joins \in BOOLEAN /\ pushed = 0 /\ queue = [q \in Workers |-> <<>>]
      /\ pc = [t \in Threads |-> IF t = Owner THEN "start" ELSE "scan"]
      /\ i = [t \in Threads |-> t] /\ task = [t \in Threads |-> Stop]
      /\ ran = [k \in Tasks |-> 0] /\ pending = NumTasks /\ sem = 0
  BY DEF PoolInit
<1>2. Threads \subseteq Nat
  BY PoolAssumption DEF Threads, Workers, Owner
<1>3. PoolTypeOK
  <2>1. queue \in [Workers -> Seq(0 .. NumTasks)]
    BY <1>1
  <2>2. pc \in [Threads -> PoolPlaces]
    BY <1>1 DEF PoolPlaces
  <2>3. i \in [Threads -> Nat] /\ task \in [Threads -> 0 .. NumTasks] /\ ran \in [Tasks -> {0, 1}]
    BY <1>1, <1>2, PoolSets
  <2>4. pushed \in 0 .. NumTasks
    BY <1>1, PoolAssumption
  <2>5. \A w \in Workers : pc[w] = "scan"
    BY <1>1, PoolSets
  <2> QED
    BY <1>1, <2>1, <2>2, <2>3, <2>4, <2>5 DEF PoolTypeOK
<1>4. OnePlace
  <2>1. \A q \in Workers : Len(queue[q]) = 0
    BY <1>1
  <2>2. \A t \in Threads : \A k : ~Holds(t, k)
    BY <1>1 DEF Holds
  <2>3. \A k \in Tasks : ran[k] = 0
    BY <1>1
  <2> QED
    BY <2>1, <2>2, <2>3 DEF OnePlace
<1>5. Counted
  <2>1. {k \in Tasks : ran[k] = 0} = Tasks
    BY <1>1
  <2>2. pc[Owner] = "start"
    BY <1>1, PoolSets
  <2>3. sem \in Nat /\ ~(sem > 0)
    BY <1>1
  <2>4. pending = Cardinality({k \in Tasks : ran[k] = 0})
    BY <1>1, <2>1, PoolSets
  <2> QED
    BY <2>2, <2>3, <2>4, Zenon DEF Counted
<1> QED
  BY <1>3, <1>4, <1>5 DEF PoolInv

(* Steps that move no task. *)
LEMMA PoolKept ==
  ASSUME OnePlace, PoolTypeOK, UNCHANGED <<queue, ran, pushed>>,
         \A t \in Threads, k \in Tasks : Holds(t, k)' => Holds(t, k)
  PROVE  OnePlace'
<1>1. \A q \in Workers : \A m \in 1 .. Len(queue[q]) : queue[q][m] \in 0 .. NumTasks
  <2>1. ASSUME NEW q \in Workers, NEW m \in 1 .. Len(queue[q]) PROVE queue[q][m] \in 0 .. NumTasks
    <3>1. queue[q] \in Seq(0 .. NumTasks)
      BY DEF PoolTypeOK
    <3> QED
      BY <3>1, EntryOf
  <2> QED
    BY <2>1
<1>2. \A q \in Workers : \A m \in 1 .. Len(queue[q]) : queue[q][m] # Stop => queue[q][m] \in Tasks
  BY <1>1, PoolSets
<1> QED
  BY <1>2 DEF OnePlace

(* pushNotifiedFIFO before it puts the task in: no task moves.               *)
LEMMA PoolPushSteps ==
  ASSUME PoolInv, NEW t \in Threads, PushSkips(t) \/ PushLocks(t) \/ PushAsserts(t) \/ PushWaits(t)
  PROVE  PoolInv'
<1> USE DEF PoolInv
<1>1. /\ UNCHANGED <<joins, pushed, queue, task, ran, pending, sem>>
      /\ i' \in [Threads -> Nat]
      /\ \E p \in {"push", "pushing", "asserted"} : pc' = [pc EXCEPT ![t] = p] /\ (p = "asserted" => task[t] = Stop)
      /\ pc[t] = "push"
  <2>1. pc[t] = "push" => pc = [pc EXCEPT ![t] = "push"]
    BY DEF PoolTypeOK
  <2>2. CASE PushSkips(t)
    BY <2>1, <2>2 DEF PushSkips, PoolTypeOK
  <2>3. CASE PushLocks(t)
    BY <2>3 DEF PushLocks, PoolTypeOK, Go
  <2>4. CASE PushAsserts(t)
    BY <2>4 DEF PushAsserts, PoolTypeOK, Go
  <2>5. CASE PushWaits(t)
    BY <2>5 DEF PushWaits, PoolTypeOK, Go
  <2> QED
    BY <2>2, <2>3, <2>4, <2>5
<1>2. PICK p \in {"push", "pushing", "asserted"} : pc' = [pc EXCEPT ![t] = p] /\ (p = "asserted" => task[t] = Stop)
  BY <1>1
<1>3. PoolTypeOK'
  <2>1. pc' \in [Threads -> PoolPlaces]
    BY <1>2 DEF PoolTypeOK, PoolPlaces
  <2>2. \A w \in Workers : (pc'[w] \in {"push", "pushing"} => pc[w] \in {"push", "pushing"}) /\ (pc'[w] = "run" => pc[w] = "run")
    BY <1>1, <1>2, PoolSets DEF PoolTypeOK
  <2> QED
    BY <1>1, <2>1, <2>2 DEF PoolTypeOK
<1>4. \A u \in Threads, k \in Tasks : Holds(u, k)' => Holds(u, k)
  BY <1>1, <1>2 DEF Holds, PoolTypeOK
<1>5. OnePlace'
  BY <1>1, <1>4, PoolKept
<1>6. Counted'
  <2>1. \/ pc'[Owner] = pc[Owner]
        \/ pc[Owner] = "push" /\ pc'[Owner] \in {"push", "pushing"}
        \/ pc[Owner] = "push" /\ task[Owner] = Stop
    BY <1>1, <1>2, PoolSets DEF PoolTypeOK
  <2> QED
    BY <1>1, <2>1 DEF Counted
<1> QED
  BY <1>3, <1>5, <1>6

(* The task is put in: it leaves the hands of the thread that pushes.        *)
LEMMA PoolPush ==
  ASSUME PoolInv, NEW t \in Threads, Push(t)
  PROVE  PoolInv'
<1> USE DEF PoolInv
<1>1. PICK q \in Workers :
        /\ queue' = [queue EXCEPT ![q] = Append(@, task[t])]
        /\ pc' = [Woken(q) EXCEPT ![t] = IF t # Owner THEN "ended" ELSE IF task[t] = Stop THEN "aborted" ELSE "start"]
  BY DEF Push
<1>2. pc[t] = "pushing" /\ UNCHANGED <<joins, pushed, i, task, ran, pending, sem>>
  BY DEF Push
<1>3. /\ pc' \in [Threads -> PoolPlaces]
      /\ \A u \in Threads \ {t} : pc'[u] = pc[u] \/ (u \in Workers /\ pc[u] = "asleep" /\ pc'[u] = "pop")
      /\ t = Owner /\ task[t] = Stop => pc'[t] = "aborted"
      /\ t = Owner /\ task[t] # Stop => pc'[t] = "start"
      /\ t # Owner => pc'[t] = "ended"
  <2>1. /\ Woken(q) \in [Threads -> PoolPlaces]
        /\ \A u \in Threads : Woken(q)[u] = pc[u] \/ (u = q /\ pc[u] = "asleep" /\ Woken(q)[u] = "pop")
    BY PoolSets DEF Woken, PoolTypeOK, PoolPlaces
  <2>2. PICK p \in PoolPlaces :
            /\ pc' = [Woken(q) EXCEPT ![t] = p]
            /\ t = Owner /\ task[t] = Stop => p = "aborted"
            /\ t = Owner /\ task[t] # Stop => p = "start"
            /\ t # Owner => p = "ended"
    <3> DEFINE p == IF t # Owner THEN "ended" ELSE IF task[t] = Stop THEN "aborted" ELSE "start"
    <3>1. /\ t = Owner /\ task[t] = Stop => p = "aborted"
          /\ t = Owner /\ task[t] # Stop => p = "start"
          /\ t # Owner => p = "ended"
      OBVIOUS
    <3>2. p \in PoolPlaces
      BY <3>1 DEF PoolPlaces
    <3>3. pc' = [Woken(q) EXCEPT ![t] = p]
      BY <1>1
    <3> QED
      BY <3>1, <3>2, <3>3
  <2>3. pc' \in [Threads -> PoolPlaces] /\ pc'[t] = p /\ \A u \in Threads \ {t} : pc'[u] = Woken(q)[u]
    BY <2>1, <2>2, ExceptFacts
  <2>4. \A u \in Threads \ {t} : pc'[u] = pc[u] \/ (u \in Workers /\ pc[u] = "asleep" /\ pc'[u] = "pop")
    BY <2>1, <2>3
  <2> QED
    BY <2>2, <2>3, <2>4
<1>4. task[t] \in 0 .. NumTasks /\ queue[q] \in Seq(0 .. NumTasks)
  BY DEF PoolTypeOK
<1>5. /\ \A r \in Workers \ {q} : queue'[r] = queue[r]
      /\ queue'[q] = Append(queue[q], task[t])
      /\ queue' \in [Workers -> Seq(0 .. NumTasks)]
  BY <1>1, <1>4 DEF PoolTypeOK
<1>6. /\ Len(queue'[q]) = Len(queue[q]) + 1 /\ Len(queue[q]) \in Nat
      /\ \A m \in 1 .. Len(queue[q]) : queue'[q][m] = queue[q][m]
      /\ queue'[q][Len(queue[q]) + 1] = task[t]
  BY <1>4, <1>5
<1>7. PoolTypeOK'
  <2>1. \A w \in Workers : (pc'[w] \in {"push", "pushing"} => pc[w] = pc'[w]) /\ (pc'[w] = "run" => pc[w] = "run")
    BY <1>3, PoolSets
  <2> QED
    BY <1>2, <1>3, <1>5, <2>1 DEF PoolTypeOK
<1>8. /\ \A u \in Threads : \A k : Holds(u, k)' => Holds(u, k) /\ u # t
      /\ task[t] # Stop => Holds(t, task[t]) /\ task[t] \in Tasks
  <2>1. task[t] # Stop => t = Owner
    BY <1>2, PoolSets DEF PoolTypeOK
  <2> QED
    BY <1>2, <1>3, <1>4, <2>1, PoolSets DEF Holds
<1>9. OnePlace'
  <2> DEFINE Q(r, m) == queue[r][m]
  <2>1. \A r \in Workers : \A m \in 1 .. Len(queue'[r]) :
          \/ m \in 1 .. Len(queue[r]) /\ queue'[r][m] = queue[r][m]
          \/ r = q /\ m = Len(queue[q]) + 1 /\ queue'[r][m] = task[t]
    BY <1>5, <1>6
  <2>2. ASSUME NEW r \in Workers, NEW s \in Workers, NEW m \in 1 .. Len(queue'[r]), NEW n \in 1 .. Len(queue'[s]),
               queue'[r][m] = queue'[s][n], queue'[r][m] # Stop
        PROVE  r = s /\ m = n
    <3>1. \A x \in Workers : \A y \in 1 .. Len(queue[x]) : queue[x][y] # Stop => queue[x][y] # task[t]
      BY <1>8 DEF OnePlace
    <3>2. CASE /\ m \in 1 .. Len(queue[r]) /\ queue'[r][m] = queue[r][m]
               /\ n \in 1 .. Len(queue[s]) /\ queue'[s][n] = queue[s][n]
      <4>1. queue[r][m] = queue[s][n] /\ queue[r][m] # Stop
        BY <2>2, <3>2
      <4> QED
        BY <3>2, <4>1 DEF OnePlace
    <3>3. CASE /\ m \in 1 .. Len(queue[r]) /\ queue'[r][m] = queue[r][m]
               /\ queue'[s][n] = task[t]
      BY <2>2, <3>1, <3>3
    <3>4. CASE /\ n \in 1 .. Len(queue[s]) /\ queue'[s][n] = queue[s][n]
               /\ queue'[r][m] = task[t]
      BY <2>2, <3>1, <3>4
    <3> QED
      BY <2>1, <3>2, <3>3, <3>4
  <2>3. ASSUME NEW r \in Workers, NEW m \in 1 .. Len(queue'[r]), queue'[r][m] # Stop
        PROVE  /\ queue'[r][m] <= pushed /\ ran[queue'[r][m]] = 0
               /\ \A u \in Threads : ~(Holds(u, queue[r][m])')
    <3>1. CASE m \in 1 .. Len(queue[r]) /\ queue'[r][m] = queue[r][m]
      <4>1. /\ queue[r][m] <= pushed /\ ran[queue[r][m]] = 0
            /\ \A u \in Threads : ~Holds(u, queue[r][m])
        BY <2>3, <3>1 DEF OnePlace
      <4> QED
        BY <1>8, <3>1, <4>1 DEF Holds
    <3>2. CASE queue'[r][m] = task[t]
      <4>1. task[t] <= pushed /\ ran[task[t]] = 0 /\ \A u \in Threads \ {t} : ~Holds(u, task[t])
        BY <1>8, <2>3, <3>2 DEF OnePlace
      <4> QED
        BY <1>8, <3>2, <4>1 DEF Holds
    <3> QED
      BY <2>1, <3>1, <3>2
  <2>4. \A u, v \in Threads, k \in Tasks : Holds(u, k)' /\ Holds(v, k)' => u = v
    BY <1>8 DEF OnePlace
  <2>5. \A u \in Threads, k \in Tasks : Holds(u, k)' => k <= pushed /\ ran[k] = 0
    BY <1>8 DEF OnePlace
  <2>6. \A k \in Tasks : ran[k] = 1 => k <= pushed
    BY DEF OnePlace
  <2> QED
    BY <1>2, <2>2, <2>3, <2>4, <2>5, <2>6 DEF OnePlace
<1>10. Counted'
  <2>1. \/ pc'[Owner] = pc[Owner]
        \/ pc[Owner] = "pushing" /\ task[Owner] = Stop
        \/ pc'[Owner] = "start"
    BY <1>2, <1>3, PoolSets
  <2> QED
    BY <1>2, <2>1 DEF Counted
<1> QED
  BY <1>7, <1>9, <1>10

(* A worker takes the first task of queue q.                                 *)
PopsFrom(w, q) ==
  /\ queue[q] # <<>> /\ pc[w] \in {"popping", "popping own"}
  /\ queue' = [queue EXCEPT ![q] = Tail(@)] /\ Got(w, Head(queue[q])) /\ i' = i
  /\ UNCHANGED <<joins, pushed, ran, pending, sem>>

(* The task is in the hands of the worker then.                              *)
LEMMA PoolGot ==
  ASSUME PoolInv, NEW w \in Workers, NEW q \in Workers, PopsFrom(w, q)
  PROVE  PoolInv'
<1> USE DEF PoolInv
<1> DEFINE k == Head(queue[q])
<1>0. UNCHANGED <<joins, pushed, ran, pending, sem, i>>
  BY DEF PopsFrom
<1>1. /\ queue[q] \in Seq(0 .. NumTasks) /\ Len(queue[q]) \in Nat \ {0}
      /\ k = queue[q][1] /\ k \in 0 .. NumTasks
  <2>1. queue[q] \in Seq(0 .. NumTasks)
    BY DEF PoolTypeOK
  <2> QED
    BY <2>1, TailFacts DEF PopsFrom
<1>2. /\ \A r \in Workers \ {q} : queue'[r] = queue[r]
      /\ queue'[q] = Tail(queue[q])
      /\ queue' \in [Workers -> Seq(0 .. NumTasks)]
  <2>1. Tail(queue[q]) \in Seq(0 .. NumTasks)
    BY <1>1, TailFacts DEF PopsFrom
  <2>2. queue \in [Workers -> Seq(0 .. NumTasks)]
    BY DEF PoolTypeOK
  <2> QED
    BY <2>1, <2>2, ExceptFacts DEF PopsFrom
<1>3. /\ Len(queue'[q]) = Len(queue[q]) - 1
      /\ \A m \in 1 .. Len(queue'[q]) : m + 1 \in 1 .. Len(queue[q]) /\ queue'[q][m] = queue[q][m + 1]
  BY <1>1, <1>2, TailFacts DEF PopsFrom
<1>4. /\ \A u \in Threads \ {w} : pc'[u] = pc[u] /\ task'[u] = task[u]
      /\ pc'[w] = (IF k = Stop THEN "stopping" ELSE "run") /\ task'[w] = k
      /\ pc' \in [Threads -> PoolPlaces] /\ task' \in [Threads -> 0 .. NumTasks]
  BY <1>1, PoolSets DEF PopsFrom, Got, Go, PoolTypeOK, PoolPlaces
<1> HIDE DEF k
<1>5. PoolTypeOK'
  <2>1. ASSUME NEW v \in Workers
        PROVE  /\ pc'[v] \in {"push", "pushing"} => task'[v] = Stop
               /\ pc'[v] = "run" => task'[v] # Stop
    <3>1. CASE v = w
      BY <1>4, <3>1
    <3>2. CASE v # w
      <4>1. pc'[v] = pc[v] /\ task'[v] = task[v]
        BY <1>4, <3>2, PoolSets
      <4> QED
        BY <4>1 DEF PoolTypeOK
    <3> QED
      BY <3>1, <3>2
  <2> QED
    BY <1>0, <1>2, <1>4, <2>1 DEF PoolTypeOK
<1>6. /\ \A u \in Threads : \A j : Holds(u, j)' => Holds(u, j) \/ (u = w /\ j = k /\ k # Stop)
      /\ \A j : ~Holds(w, j)
      /\ k # Stop => k \in Tasks
  <2>1. pc[w] \in {"popping", "popping own"} /\ w # Owner /\ w \in Threads
    BY PoolSets DEF PopsFrom
  <2>2. \A j : ~Holds(w, j)
    BY <2>1 DEF Holds
  <2>3. ASSUME NEW u \in Threads, NEW j, Holds(u, j)' PROVE Holds(u, j) \/ (u = w /\ j = k /\ k # Stop)
    BY <1>4, <2>1, <2>3 DEF Holds
  <2> QED
    BY <1>1, <2>2, <2>3, PoolSets
<1>7. OnePlace'
  <2>1. k # Stop => k <= pushed /\ ran[k] = 0 /\ \A u \in Threads : ~Holds(u, k)
    BY <1>1 DEF OnePlace
  <2>2. \A r \in Workers : \A m \in 1 .. Len(queue'[r]) :
          \/ r # q /\ m \in 1 .. Len(queue[r]) /\ queue'[r][m] = queue[r][m]
          \/ r = q /\ m + 1 \in 1 .. Len(queue[r]) /\ queue'[r][m] = queue[r][m + 1]
    BY <1>2, <1>3
  <2>3. ASSUME NEW r \in Workers, NEW s \in Workers, NEW m \in 1 .. Len(queue'[r]), NEW n \in 1 .. Len(queue'[s]),
               queue'[r][m] = queue'[s][n], queue'[r][m] # Stop
        PROVE  r = s /\ m = n
    <3>1. PICK x \in 1 .. Len(queue[r]) : queue'[r][m] = queue[r][x] /\ x = (IF r = q THEN m + 1 ELSE m)
      BY <2>2
    <3>2. PICK y \in 1 .. Len(queue[s]) : queue'[s][n] = queue[s][y] /\ y = (IF s = q THEN n + 1 ELSE n)
      BY <2>2
    <3>3. r = s /\ x = y
      <4>1. queue[r][x] = queue[s][y] /\ queue[r][x] # Stop
        BY <2>3, <3>1, <3>2
      <4> QED
        BY <4>1 DEF OnePlace
    <3> QED
      BY <3>1, <3>2, <3>3
  <2>4. ASSUME NEW r \in Workers, NEW m \in 1 .. Len(queue'[r]), queue'[r][m] # Stop
        PROVE  /\ queue'[r][m] <= pushed /\ ran[queue'[r][m]] = 0
               /\ \A u \in Threads : ~(Holds(u, queue[r][m])')
    <3>1. PICK x \in 1 .. Len(queue[r]) : queue'[r][m] = queue[r][x] /\ (r = q => x # 1)
      <4>1. CASE r # q
        BY <2>2, <4>1
      <4>2. CASE r = q
        <5>1. m + 1 \in 1 .. Len(queue[r]) /\ queue'[r][m] = queue[r][m + 1] /\ m + 1 # 1
          BY <2>2, <4>2
        <5> QED
          BY <5>1
      <4> QED
        BY <4>1, <4>2
    <3>2. queue[r][x] # k
      BY <1>1, <2>4, <3>1 DEF OnePlace
    <3>3. /\ queue[r][x] <= pushed /\ ran[queue[r][x]] = 0
          /\ \A u \in Threads : ~Holds(u, queue[r][x])
      BY <2>4, <3>1 DEF OnePlace
    <3> QED
      BY <1>6, <3>1, <3>2, <3>3 DEF Holds
  <2>5. \A u, v \in Threads, j \in Tasks : Holds(u, j)' /\ Holds(v, j)' => u = v
    BY <1>6, <2>1 DEF OnePlace
  <2>6. \A u \in Threads, j \in Tasks : Holds(u, j)' => j <= pushed /\ ran[j] = 0
    BY <1>6, <2>1 DEF OnePlace
  <2>7. \A j \in Tasks : ran[j] = 1 => j <= pushed
    BY DEF OnePlace
  <2> QED
    BY <1>0, <2>3, <2>4, <2>5, <2>6, <2>7 DEF OnePlace
<1>8. Counted'
  <2>1. pc'[Owner] = pc[Owner] /\ task'[Owner] = task[Owner]
    BY <1>4, PoolSets
  <2> QED
    BY <1>0, <2>1 DEF Counted
<1> QED
  BY <1>5, <1>7, <1>8

(* The loop of a worker: it runs the task, and counts it.                    *)
LEMMA PoolWorkerSteps ==
  ASSUME PoolInv, NEW w \in Workers, WorkerStep(w)
  PROVE  PoolInv'
<1> USE DEF PoolInv
<1>1. w \in Threads /\ w # Owner /\ w \in Nat
  BY PoolSets
<1>2. ASSUME UNCHANGED <<joins, pushed, queue, ran, pending, sem>>, i' \in [Threads -> Nat],
             task' \in [Threads -> 0 .. NumTasks], pc' \in [Threads -> PoolPlaces],
             \A u \in Threads \ {w} : pc'[u] = pc[u] /\ task'[u] = task[u],
             pc'[w] # "run", pc'[w] \in {"push", "pushing"} => task'[w] = Stop
      PROVE  PoolInv'
  <2>1. PoolTypeOK'
    BY <1>2, PoolSets DEF PoolTypeOK
  <2>2. \A u \in Threads, k \in Tasks : Holds(u, k)' => Holds(u, k)
    BY <1>1, <1>2 DEF Holds
  <2>3. OnePlace'
    BY <1>2, <2>2, PoolKept
  <2>4. pc'[Owner] = pc[Owner] /\ task'[Owner] = task[Owner]
    BY <1>1, <1>2, PoolSets
  <2>5. Counted'
    BY <1>2, <2>4 DEF Counted
  <2> QED
    BY <2>1, <2>3, <2>5
<1>3. /\ pc \in [Threads -> PoolPlaces] /\ i \in [Threads -> Nat] /\ task \in [Threads -> 0 .. NumTasks]
      /\ Stop \in 0 .. NumTasks
  BY PoolSets DEF PoolTypeOK
<1>4. CASE PopSkips(w)
  <2>1. UNCHANGED <<joins, pushed, queue, ran, pending, sem, task, pc>> /\ pc[w] = "scan" /\ i' = [i EXCEPT ![w] = @ + 1]
    BY <1>4 DEF PopSkips
  <2> QED
    BY <1>1, <1>2, <1>3, <2>1
<1>5. CASE PopLocks(w)
  <2>1. UNCHANGED <<joins, pushed, queue, ran, pending, sem, task, i>> /\ pc' = [pc EXCEPT ![w] = "popping"]
    BY <1>5 DEF PopLocks, Go
  <2>2. pc' \in [Threads -> PoolPlaces] /\ pc'[w] = "popping" /\ \A u \in Threads \ {w} : pc'[u] = pc[u]
    BY <1>1, <1>3, <2>1 DEF PoolPlaces
  <2> QED
    BY <1>2, <1>3, <2>1, <2>2
<1>6. CASE PopWaits(w)
  <2>1. UNCHANGED <<joins, pushed, queue, ran, pending, sem, task, i>> /\ pc' = [pc EXCEPT ![w] = "popping own"]
    BY <1>6 DEF PopWaits, Go
  <2>2. pc' \in [Threads -> PoolPlaces] /\ pc'[w] = "popping own" /\ \A u \in Threads \ {w} : pc'[u] = pc[u]
    BY <1>1, <1>3, <2>1 DEF PoolPlaces
  <2> QED
    BY <1>2, <1>3, <2>1, <2>2
<1>7. CASE PopTries(w)
  <2> DEFINE q == i[w] % Len_thr
  <2>1. q \in Workers
    BY <1>1, <1>3, PoolSets
  <2>2. CASE queue[q] = <<>>
    <3>1. /\ UNCHANGED <<joins, pushed, queue, ran, pending, sem, task>>
          /\ pc' = [pc EXCEPT ![w] = "scan"] /\ i' = [i EXCEPT ![w] = @ + 1]
      BY <1>7, <2>2 DEF PopTries, Go
    <3>2. pc' \in [Threads -> PoolPlaces] /\ pc'[w] = "scan" /\ \A u \in Threads \ {w} : pc'[u] = pc[u]
      BY <1>1, <1>3, <3>1 DEF PoolPlaces
    <3> QED
      BY <1>1, <1>2, <1>3, <3>1, <3>2
  <2>3. CASE queue[q] # <<>>
    <3>1. PopsFrom(w, q)
      BY <1>7, <2>3 DEF PopTries, PopsFrom
    <3> QED
      BY <2>1, <3>1, PoolGot
  <2> QED
    BY <2>2, <2>3
<1>8. CASE PopOwn(w)
  <2>1. CASE queue[w] = <<>>
    <3>1. /\ UNCHANGED <<joins, pushed, queue, ran, pending, sem, task, i>>
          /\ pc' = [pc EXCEPT ![w] = "asleep"]
      BY <1>8, <2>1 DEF PopOwn, Go
    <3>2. pc' \in [Threads -> PoolPlaces] /\ pc'[w] = "asleep" /\ \A u \in Threads \ {w} : pc'[u] = pc[u]
      BY <1>1, <1>3, <3>1 DEF PoolPlaces
    <3> QED
      BY <1>1, <1>2, <1>3, <3>1, <3>2
  <2>2. CASE queue[w] # <<>>
    <3>1. PopsFrom(w, w)
      BY <1>8, <2>2 DEF PopOwn, PopsFrom
    <3> QED
      BY <3>1, PoolGot
  <2> QED
    BY <2>1, <2>2
<1>9. CASE StopWorker(w)
  <2>1. UNCHANGED <<joins, pushed, queue, ran, pending, sem>>
    BY <1>9 DEF StopWorker
  <2>2. CASE dead' = Workers
    <3>1. pc' = [pc EXCEPT ![w] = "ended"] /\ UNCHANGED <<i, task>>
      BY <1>9, <2>2 DEF StopWorker, Go
    <3>2. pc' \in [Threads -> PoolPlaces] /\ pc'[w] = "ended" /\ \A u \in Threads \ {w} : pc'[u] = pc[u]
      BY <1>1, <1>3, <3>1 DEF PoolPlaces
    <3> QED
      BY <1>1, <1>2, <1>3, <2>1, <3>1, <3>2
  <2>3. CASE dead' # Workers
    <3>1. pc' = [pc EXCEPT ![w] = "push"] /\ i' = [i EXCEPT ![w] = 0] /\ task' = [task EXCEPT ![w] = Stop]
      BY <1>9, <2>3 DEF StopWorker, StartPush, Go
    <3>2. pc' \in [Threads -> PoolPlaces] /\ pc'[w] = "push" /\ \A u \in Threads \ {w} : pc'[u] = pc[u]
      BY <1>1, <1>3, <3>1 DEF PoolPlaces
    <3>3. i' \in [Threads -> Nat] /\ task' \in [Threads -> 0 .. NumTasks] /\ task'[w] = Stop
          /\ \A u \in Threads \ {w} : task'[u] = task[u]
      BY <1>1, <1>3, <3>1
    <3> QED
      BY <1>2, <2>1, <3>2, <3>3
  <2> QED
    BY <2>2, <2>3
<1>10. CASE Run(w)
  <2> DEFINE k == task[w]
             left == {j \in Tasks : ran[j] = 0}
  <2>1. pc[w] = "run" /\ k \in Tasks
    BY <1>1, <1>3, <1>10, PoolSets DEF Run, PoolTypeOK
  <2>2. Holds(w, k) /\ ran[k] = 0 /\ k <= pushed
    BY <1>1, <2>1 DEF Holds, OnePlace
  <2>3. /\ UNCHANGED <<joins, pushed, queue, task>> /\ pc' = [pc EXCEPT ![w] = "scan"]
        /\ ran' = [ran EXCEPT ![k] = @ + 1] /\ pending' = pending - 1
        /\ sem' = IF pending = 1 THEN sem + 1 ELSE sem
        /\ i' = [i EXCEPT ![w] = w]
    BY <1>10 DEF Run, Go
  <2>4. /\ pc' \in [Threads -> PoolPlaces] /\ pc'[w] = "scan" /\ \A u \in Threads \ {w} : pc'[u] = pc[u]
        /\ i' \in [Threads -> Nat]
    BY <1>1, <1>3, <2>3 DEF PoolPlaces
  <2>5. ran' \in [Tasks -> {0, 1}] /\ ran'[k] = 1 /\ \A j \in Tasks \ {k} : ran'[j] = ran[j]
    BY <2>1, <2>2, <2>3 DEF PoolTypeOK
  <2>6. PoolTypeOK'
    BY <2>3, <2>4, <2>5, PoolSets DEF PoolTypeOK
  <2>7. \A u \in Threads, j \in Tasks : Holds(u, j)' => Holds(u, j) /\ j # k
    <3>1. ASSUME NEW u \in Threads, NEW j \in Tasks, Holds(u, j)' PROVE Holds(u, j) /\ u # w
      BY <1>1, <2>3, <2>4, <3>1 DEF Holds
    <3>2. \A u \in Threads : Holds(u, k) => u = w
      BY <1>1, <2>1, <2>2 DEF OnePlace
    <3> QED
      BY <3>1, <3>2
  <2>8. OnePlace'
    <3>1. \A q \in Workers : \A m \in 1 .. Len(queue[q]) : queue[q][m] # Stop =>
             queue[q][m] # k /\ queue[q][m] \in Tasks
      <4>1. ASSUME NEW q \in Workers, NEW m \in 1 .. Len(queue[q]), queue[q][m] # Stop
            PROVE  queue[q][m] # k /\ queue[q][m] \in Tasks
        <5>1. queue[q] \in Seq(0 .. NumTasks)
          BY DEF PoolTypeOK
        <5>2. queue[q][m] \in 0 .. NumTasks
          BY <5>1, EntryOf
        <5>3. queue[q][m] # k
          BY <1>1, <2>2, <4>1 DEF OnePlace
        <5> QED
          BY <4>1, <5>2, <5>3, PoolSets
      <4> QED
        BY <4>1
    <3> HIDE DEF k
    <3>2. \A q \in Workers : \A m \in 1 .. Len(queue[q]) : queue[q][m] # Stop =>
             /\ queue[q][m] <= pushed /\ ran'[queue[q][m]] = 0
             /\ \A t \in Threads : ~Holds(t, queue[q][m])
      BY <2>5, <3>1 DEF OnePlace
    <3>3. \A q \in Workers : \A m \in 1 .. Len(queue[q]) : queue[q][m] # Stop =>
             \A t \in Threads : ~(Holds(t, queue[q][m])')
      BY <2>3, <2>7, <3>1, <3>2 DEF Holds
    <3>4. \A j \in Tasks : ran'[j] = 1 => j <= pushed
      BY <2>2, <2>5 DEF OnePlace
    <3>5. \A t, u \in Threads, j \in Tasks : Holds(t, j)' /\ Holds(u, j)' => t = u
      BY <2>7 DEF OnePlace
    <3>6. \A t \in Threads, j \in Tasks : Holds(t, j)' => j <= pushed /\ ran'[j] = 0
      BY <2>5, <2>7 DEF OnePlace
    <3> QED
      BY <2>3, <3>2, <3>3, <3>4, <3>5, <3>6 DEF OnePlace
  <2>9. Counted'
    <3>1. {j \in Tasks : ran'[j] = 0} = left \ {k} /\ k \in left
      BY <2>1, <2>2, <2>5
    <3>2. IsFiniteSet(left)
      BY PoolSets, FS_Subset
    <3>3. Cardinality(left \ {k}) = Cardinality(left) - 1 /\ Cardinality(left) \in Nat
      BY <3>1, <3>2, FS_RemoveElement, FS_CardinalityType
    <3>4. Cardinality(left) # 0
      BY <3>1, <3>2, FS_EmptySet
    <3>5. pending = Cardinality(left)
      BY DEF Counted
    <3> HIDE DEF left, k
    <3>6. pending \in Nat \ {0} /\ pending' = Cardinality({j \in Tasks : ran'[j] = 0})
      BY <2>3, <3>1, <3>3, <3>4, <3>5
    <3>7. sem = 0 /\ sem' \in Nat /\ (sem' > 0 => pending' = 0)
      BY <2>3, <3>6 DEF Counted
    <3>8. ~(joins /\ (pc[Owner] \notin {"start", "push", "pushing"} \/ (pc[Owner] # "start" /\ task[Owner] = Stop)))
      BY <3>6 DEF Counted
    <3>9. pc'[Owner] = pc[Owner]
      BY <1>1, <2>4, PoolSets
    <3>10. ~(joins' /\ (pc'[Owner] \notin {"start", "push", "pushing"} \/ (pc'[Owner] # "start" /\ task'[Owner] = Stop)))
      BY <2>3, <3>8, <3>9, Zenon
    <3> QED
      BY <3>6, <3>7, <3>10 DEF Counted
  <2> QED
    BY <2>6, <2>8, <2>9
<1> QED
  BY <1>4, <1>5, <1>6, <1>7, <1>8, <1>9, <1>10 DEF WorkerStep

(* The caller: initialises the task_ans, pushes, joins and aborts.           *)
LEMMA PoolOwnerSteps ==
  ASSUME PoolInv, OwnerStep
  PROVE  PoolInv'
<1> USE DEF PoolInv
<1>1. /\ pc \in [Threads -> PoolPlaces] /\ i \in [Threads -> Nat] /\ task \in [Threads -> 0 .. NumTasks]
      /\ pushed \in Nat /\ NumTasks \in Nat /\ Owner \in Threads
  <2>1. pushed \in 0 .. NumTasks /\ NumTasks \in Nat
    BY PoolAssumption DEF PoolTypeOK
  <2>2. pushed \in Nat
    BY <2>1
  <2> QED
    BY <2>1, <2>2, PoolSets DEF PoolTypeOK
<1>2. CASE PushTask
  <2>1. /\ UNCHANGED <<joins, queue, ran, pending, sem>> /\ pushed' = pushed + 1 /\ pushed < NumTasks
        /\ pc' = [pc EXCEPT ![Owner] = "push"] /\ i' = [i EXCEPT ![Owner] = 0]
        /\ task' = [task EXCEPT ![Owner] = pushed + 1] /\ pc[Owner] = "start"
    BY <1>2 DEF PushTask, StartPush, Go
  <2>2. pushed + 1 \in 0 .. NumTasks /\ pushed + 1 \in Tasks /\ pushed + 1 # Stop
    BY <1>1, <2>1 DEF Tasks, Stop
  <2>3. /\ pc' \in [Threads -> PoolPlaces] /\ pc'[Owner] = "push"
        /\ task' \in [Threads -> 0 .. NumTasks] /\ task'[Owner] = pushed + 1
        /\ i' \in [Threads -> Nat]
        /\ \A u \in Threads \ {Owner} : pc'[u] = pc[u] /\ task'[u] = task[u]
    BY <1>1, <2>1, <2>2 DEF PoolPlaces
  <2>4. PoolTypeOK'
    <3>1. \A w \in Workers : pc'[w] = pc[w] /\ task'[w] = task[w]
      BY <2>3, PoolSets
    <3> QED
      BY <2>1, <2>2, <2>3, <3>1 DEF PoolTypeOK
  <2>5. \A u \in Threads : \A j : Holds(u, j)' => (Holds(u, j) /\ u # Owner) \/ (u = Owner /\ j = pushed + 1)
    BY <2>3 DEF Holds
  <2>6. OnePlace'
    <3>1. /\ \A u \in Threads : ~Holds(u, pushed + 1)
          /\ ran[pushed + 1] = 0
          /\ \A q \in Workers : \A m \in 1 .. Len(queue[q]) : queue[q][m] # Stop => queue[q][m] # pushed + 1
      <4>1. ~(pushed + 1 <= pushed)
        BY <1>1
      <4>2. ran[pushed + 1] \in {0, 1}
        BY <2>2 DEF PoolTypeOK
      <4> QED
        BY <2>2, <4>1, <4>2 DEF OnePlace
    <3>2. \A q \in Workers : \A m \in 1 .. Len(queue[q]) : queue[q][m] # Stop =>
             queue[q][m] \in 0 .. NumTasks /\ queue[q][m] <= pushed + 1 /\ ran[queue[q][m]] = 0
      <4>1. ASSUME NEW q \in Workers, NEW m \in 1 .. Len(queue[q]), queue[q][m] # Stop
            PROVE  queue[q][m] \in 0 .. NumTasks /\ queue[q][m] <= pushed + 1 /\ ran[queue[q][m]] = 0
        <5>1. queue[q] \in Seq(0 .. NumTasks)
          BY DEF PoolTypeOK
        <5>2. queue[q][m] \in 0 .. NumTasks
          BY <5>1, EntryOf
        <5>3. queue[q][m] <= pushed /\ ran[queue[q][m]] = 0
          BY <4>1 DEF OnePlace
        <5> QED
          BY <1>1, <5>2, <5>3
      <4> QED
        BY <4>1
    <3>3. \A q \in Workers : \A m \in 1 .. Len(queue[q]) : queue[q][m] # Stop =>
             \A t \in Threads : ~(Holds(t, queue[q][m])')
      <4>1. ASSUME NEW q \in Workers, NEW m \in 1 .. Len(queue[q]), queue[q][m] # Stop, NEW t \in Threads
            PROVE  ~(Holds(t, queue[q][m])')
        <5>1. ~Holds(t, queue[q][m]) /\ queue[q][m] # pushed + 1
          BY <3>1, <4>1 DEF OnePlace
        <5>2. CASE t = Owner
          BY <2>1, <2>3, <5>1, <5>2 DEF Holds
        <5>3. CASE t # Owner
          BY <2>1, <2>3, <5>1, <5>3 DEF Holds
        <5> QED
          BY <5>2, <5>3
      <4> QED
        BY <4>1
    <3>4. \A t, u \in Threads, j \in Tasks : Holds(t, j)' /\ Holds(u, j)' => t = u
      BY <2>5, <3>1 DEF OnePlace
    <3>5. \A t \in Threads, j \in Tasks : Holds(t, j)' => j <= pushed + 1 /\ ran[j] = 0
      <4>1. \A t \in Threads, j \in Tasks : Holds(t, j) => j <= pushed /\ ran[j] = 0
        BY DEF OnePlace
      <4>2. \A j \in Tasks : j <= pushed => j <= pushed + 1
        BY <1>1 DEF Tasks
      <4>3. pushed + 1 <= pushed + 1
        BY <1>1
      <4> QED
        BY <2>5, <3>1, <4>1, <4>2, <4>3
    <3>6. \A j \in Tasks : ran[j] = 1 => j <= pushed + 1
      BY <1>1 DEF OnePlace, Tasks
    <3>7. \A q, r \in Workers : \A m \in 1 .. Len(queue[q]), n \in 1 .. Len(queue[r]) :
            queue[q][m] = queue[r][n] /\ queue[q][m] # Stop => q = r /\ m = n
      BY DEF OnePlace
    <3> QED
      BY <2>1, <3>2, <3>3, <3>4, <3>5, <3>6, <3>7 DEF OnePlace
  <2>7. Counted'
    <3>1. ~(pc'[Owner] \notin {"start", "push", "pushing"} \/ (pc'[Owner] # "start" /\ task'[Owner] = Stop))
      BY <2>2, <2>3
    <3> QED
      BY <2>1, <3>1 DEF Counted
  <2> QED
    BY <2>4, <2>6, <2>7
<1>3. ASSUME UNCHANGED <<joins, pushed, queue, ran, pending>>, NEW p \in PoolPlaces, p # "run",
             pc' = [pc EXCEPT ![Owner] = p], i' \in [Threads -> Nat],
             task' \in [Threads -> 0 .. NumTasks], \A u \in Threads \ {Owner} : task'[u] = task[u],
             p \in {"push", "pushing"} => task'[Owner] = Stop,
             sem' \in Nat, sem' > 0 => sem > 0, joins => pending = 0
      PROVE  PoolInv'
  <2>1. pc' \in [Threads -> PoolPlaces] /\ pc'[Owner] = p /\ \A u \in Threads \ {Owner} : pc'[u] = pc[u]
    BY <1>1, <1>3
  <2>2. PoolTypeOK'
    <3>1. \A w \in Workers : pc'[w] = pc[w] /\ task'[w] = task[w]
      BY <1>3, <2>1, PoolSets
    <3> QED
      BY <1>3, <2>1, <3>1 DEF PoolTypeOK
  <2>3. \A u \in Threads, k \in Tasks : Holds(u, k)' => Holds(u, k)
    BY <1>3, <2>1, PoolSets DEF Holds
  <2>4. OnePlace'
    BY <1>3, <2>3, PoolKept
  <2>5. Counted'
    <3>1. sem' > 0 => pending = 0
      BY <1>3 DEF Counted
    <3>2. pending = Cardinality({k \in Tasks : ran[k] = 0})
      BY DEF Counted
    <3> QED
      BY <1>3, <3>1, <3>2, Zenon DEF Counted
  <2> QED
    BY <2>2, <2>4, <2>5
<1>4. CASE JoinTasks
  <2>1. /\ UNCHANGED <<joins, pushed, queue, ran, pending, i, task>>
        /\ sem > 0 /\ sem' = sem - 1 /\ pc' = [pc EXCEPT ![Owner] = "joined"]
    BY <1>4 DEF JoinTasks, Go
  <2>2. sem' \in Nat /\ pending = 0
    BY <2>1 DEF Counted
  <2>3. "joined" \in PoolPlaces
    BY DEF PoolPlaces
  <2> QED
    BY <1>1, <1>3, <2>1, <2>2, <2>3
<1>5. CASE Abort
  <2>1. /\ UNCHANGED <<joins, pushed, queue, ran, pending, sem>> /\ (~joins \/ pc[Owner] = "joined")
        /\ pc' = [pc EXCEPT ![Owner] = "push"] /\ i' = [i EXCEPT ![Owner] = 0]
        /\ task' = [task EXCEPT ![Owner] = Stop]
    BY <1>5 DEF Abort, StartPush, Go
  <2>2. "push" \in PoolPlaces
    BY DEF PoolPlaces
  <2>3. i' \in [Threads -> Nat] /\ task' \in [Threads -> 0 .. NumTasks] /\ task'[Owner] = Stop
        /\ \A u \in Threads \ {Owner} : task'[u] = task[u]
    BY <1>1, <2>1, PoolSets
  <2>4. joins => pending = 0
    BY <2>1 DEF Counted
  <2>5. sem \in Nat
    BY DEF Counted
  <2> QED
    BY <1>3, <2>1, <2>2, <2>3, <2>4, <2>5
<1>6. CASE JoinThreads
  <2>1. /\ UNCHANGED <<joins, pushed, queue, ran, pending, sem, i, task>> /\ pc[Owner] = "aborted"
        /\ pc' = [pc EXCEPT ![Owner] = "returned"]
    BY <1>6 DEF JoinThreads, Go
  <2>2. "returned" \in PoolPlaces
    BY DEF PoolPlaces
  <2>3. sem \in Nat /\ (joins => pending = 0)
    BY <2>1 DEF Counted
  <2> QED
    BY <1>1, <1>3, <2>1, <2>2, <2>3
<1> QED
  BY <1>2, <1>4, <1>5, <1>6 DEF OwnerStep

(* Every step.                                                               *)
LEMMA PoolInvNext == PoolInv /\ [PoolNext]_poolVars => PoolInv'
<1> SUFFICES ASSUME PoolInv, [PoolNext]_poolVars PROVE PoolInv'
  OBVIOUS
<1>1. CASE UNCHANGED poolVars
  <2>1. \A t \in Threads, k \in Tasks : Holds(t, k)' => Holds(t, k)
    BY <1>1 DEF Holds, poolVars
  <2>2. OnePlace'
    BY <1>1, <2>1, PoolKept DEF PoolInv, poolVars
  <2>3. PoolTypeOK'
    BY <1>1 DEF PoolInv, PoolTypeOK, poolVars
  <2>4. Counted'
    BY <1>1 DEF PoolInv, Counted, poolVars
  <2> QED
    BY <2>2, <2>3, <2>4 DEF PoolInv
<1>2. ASSUME NEW w \in Workers, WorkerStep(w) PROVE PoolInv'
  BY <1>2, PoolWorkerSteps
<1>3. ASSUME NEW t \in Threads, PushStep(t) PROVE PoolInv'
  BY <1>3, PoolPushSteps, PoolPush DEF PushStep
<1>4. CASE OwnerStep
  BY <1>4, PoolOwnerSteps
<1>5. CASE PoolNext
  <2>1. \/ \E w \in Workers : WorkerStep(w)
        \/ \E t \in Threads : PushStep(t)
        \/ OwnerStep
    BY <1>5, PoolSets, Zenon DEF PoolNext
  <2> QED
    BY <1>2, <1>3, <1>4, <2>1, Zenon
<1> QED
  BY <1>1, <1>5

(* PoolJoinMeansRun for any numbers of workers and tasks: each task is run   *)
(* once, whichever worker pops or steals it, and when join_task_ans returns  *)
(* all of them have run.                                                     *)
THEOREM PoolSafety == PoolInit /\ [][PoolNext]_poolVars => []PoolJoinMeansRun
<1>1. PoolInit /\ [][PoolNext]_poolVars => []PoolInv
  BY PoolInvInit, PoolInvNext, PTL
<1> QED
  BY <1>1, PoolInvSafe, PTL
=============================================================================
