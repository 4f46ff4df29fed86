-------------------------------- MODULE Itti --------------------------------
(* The queue and the timers of one ITTI task.  Other threads send it         *)
(* messages, set up timers and remove them; the task receives one message    *)
(* after the other, and between them waits in epoll_wait for the eventfd     *)
(* that every sender writes.                                                 *)
(*                                                                           *)
(* What a thread does with queue_cond_lock held is one step.                 *)
EXTENDS Integers, Sequences, FiniteSetsExt, Functions

CONSTANTS
  OneShot, Periodic,   \* timer ids of TIMER_ONE_SHOT and of TIMER_PERIODIC, numbers
  Duration,            \* of a timer, in ms
  MaxClock, MaxSends   \* bounds: ms that pass, messages sent

ASSUME IttiAssumption ==
  /\ OneShot \cup Periodic \subseteq Nat \ {0} /\ IsFiniteSet(OneShot \cup Periodic)
  /\ Duration \in Nat /\ MaxClock \in Nat /\ MaxSends \in Nat

VARIABLES
  otherFd,         \* nb_fd_epoll > 1: the task waits for another file too, fixed
  clock,           \* ms
  message_queue,
  sem_fd,          \* value of the eventfd
  timer_map,       \* timeout of each timer set up
  next_timer,
  ipc,             \* where the task is
  deadline,        \* when its epoll_wait times out
  setups,          \* history: timers that were set up
  removed,         \* history: timers that timer_remove removed
  sends

ittiVars == <<otherFd, clock, message_queue, sem_fd, timer_map, next_timer, ipc, deadline, setups, removed, sends>>

TimerIds == OneShot \cup Periodic
Never == MaxClock + Duration + 1     \* UINT64_MAX, or no timeout
Message == 0                         \* a message; the others are expired timers

IttiInit ==
  /\ otherFd \in BOOLEAN
  /\ clock = 0 /\ message_queue = <<>> /\ sem_fd = 1    \* itti_create_queue
  /\ timer_map = <<>> /\ next_timer = Never
  /\ ipc = "receive" /\ deadline = Never
  /\ setups = {} /\ removed = {} /\ sends = 0

Minimum(a, b) == IF a < b THEN a ELSE b

-----------------------------------------------------------------------------
(* Other threads *)

(* itti_send_msg_to_task *)
SendMsg ==
  /\ sends < MaxSends
  /\ sends' = sends + 1
  /\ message_queue' = Append(message_queue, Message)
  /\ sem_fd' = sem_fd + 1
  /\ UNCHANGED <<otherFd, clock, timer_map, next_timer, ipc, deadline, setups, removed>>

(* Bug: the task is not woken.                                               *)
TimerSetupAsSilent(id) ==
  /\ id \notin setups
  /\ setups' = setups \cup {id}
  /\ timer_map' = [j \in DOMAIN timer_map \cup {id} |->
                     IF j = id THEN clock + Duration ELSE timer_map[j]]
  /\ next_timer' = Minimum(next_timer, clock + Duration)
  /\ UNCHANGED <<otherFd, clock, message_queue, sem_fd, ipc, deadline, removed, sends>>

TimerSetup(id) ==
  /\ id \notin setups
  /\ setups' = setups \cup {id}
  /\ timer_map' = [j \in DOMAIN timer_map \cup {id} |->
                     IF j = id THEN clock + Duration ELSE timer_map[j]]
  /\ next_timer' = Minimum(next_timer, clock + Duration)
  /\ sem_fd' = sem_fd + 1
  /\ UNCHANGED <<otherFd, clock, message_queue, ipc, deadline, removed, sends>>

(* timer_remove of a timer in the map, hence successful; next_timer stays *)
TimerRemove(id) ==
  /\ id \in DOMAIN timer_map
  /\ timer_map' = [j \in DOMAIN timer_map \ {id} |-> timer_map[j]]
  /\ removed' = removed \cup {id}
  /\ UNCHANGED <<otherFd, clock, message_queue, sem_fd, next_timer, ipc, deadline, setups, sends>>

ClockTicks ==
  /\ clock < MaxClock
  /\ clock' = clock + 1
  /\ UNCHANGED <<otherFd, message_queue, sem_fd, timer_map, next_timer, ipc, deadline, setups, removed, sends>>

-----------------------------------------------------------------------------
(* The task *)

Expired == IF next_timer < clock THEN {j \in DOMAIN timer_map : timer_map[j] < clock} ELSE {}

(* Bug: a timer that expired stays in the map.                               *)
TimersLeftAsAll ==
  [j \in DOMAIN timer_map |-> IF j \in Expired THEN timer_map[j] + Duration ELSE timer_map[j]]

(* One-shot timers that expired are erased, periodic ones set anew *)
TimersLeft ==
  [j \in DOMAIN timer_map \ (Expired \cap OneShot) |->
     IF j \in Expired THEN timer_map[j] + Duration ELSE timer_map[j]]

NextTimer == Min({Never} \cup {TimersLeft[j] : j \in DOMAIN TimersLeft})

(* The sequence of the timers in S in the order of timer_map, by their ids   *)
InOrder(S) == {s \in [1 .. Cardinality(S) -> S] : \A m, n \in DOMAIN s : m < n => s[m] < s[n]}

(* itti_get_events_locked up to epoll_wait: a message for each timer that    *)
(* expired; a timeout that is negative means none                            *)
GetEvents ==
  /\ ipc \in {"receive", "again"} /\ message_queue = <<>>
  /\ ipc = "again" => ~otherFd
  /\ message_queue' \in InOrder(Expired)
  /\ sem_fd' = sem_fd + Cardinality(Expired)
  /\ timer_map' = TimersLeft
  /\ next_timer' = IF next_timer < clock THEN NextTimer ELSE next_timer
  /\ deadline' = IF next_timer' < clock THEN Never ELSE next_timer'
  /\ ipc' = "wait"
  /\ UNCHANGED <<otherFd, clock, setups, removed, sends>>

(* epoll_wait returns with the eventfd readable, and one is read from it *)
EventRead ==
  /\ ipc = "wait" /\ sem_fd > 0
  /\ sem_fd' = sem_fd - 1
  /\ ipc' = "again"
  /\ UNCHANGED <<otherFd, clock, message_queue, timer_map, next_timer, deadline, setups, removed, sends>>

(* epoll_wait times out, or another file is ready *)
NoEvent ==
  /\ ipc = "wait"
  /\ \/ sem_fd = 0 /\ deadline # Never /\ clock >= deadline
     \/ otherFd
  /\ ipc' = "again"
  /\ UNCHANGED <<otherFd, clock, message_queue, sem_fd, timer_map, next_timer, deadline, setups, removed, sends>>

(* The message at the front is received *)
ReceiveMsg ==
  /\ ipc \in {"receive", "again"} /\ message_queue # <<>>
  /\ message_queue' = Tail(message_queue)
  /\ ipc' = "receive"
  /\ UNCHANGED <<otherFd, clock, sem_fd, timer_map, next_timer, deadline, setups, removed, sends>>

(* No message, but another file: *received_msg = NULL *)
ReceiveNull ==
  /\ ipc = "again" /\ message_queue = <<>> /\ otherFd
  /\ ipc' = "receive"
  /\ UNCHANGED <<otherFd, clock, message_queue, sem_fd, timer_map, next_timer, deadline, setups, removed, sends>>

IttiTask == GetEvents \/ EventRead \/ NoEvent \/ ReceiveMsg \/ ReceiveNull
IttiNext ==
  \/ IttiTask \/ SendMsg \/ ClockTicks
  \/ \E id \in TimerIds : TimerSetup(id) \/ TimerRemove(id)

-----------------------------------------------------------------------------
(* A task in epoll_wait with nothing to read there has no message queued,    *)
(* and will be back for its next timer: although a message may be received   *)
(* without its event, timers are set and removed meanwhile, and a periodic   *)
(* timer that lags behind gives a negative timeout, which epoll_wait takes   *)
(* for none.                                                                 *)
NoSleepOverWork ==
  ipc = "wait" /\ sem_fd = 0 =>
    /\ message_queue = <<>>
    /\ \A j \in DOMAIN timer_map : deadline <= timer_map[j]

(* When timer_remove succeeds no expiry of a one-shot timer is queued, nor   *)
(* will be: it is either removed or received.                                *)
RemovedTimerSilent == \A j \in removed \cap OneShot : j \notin Range(message_queue)
=============================================================================
