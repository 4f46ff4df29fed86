----------------------------- MODULE TimeManager ----------------------------
(* The time manager: a time source ticks every millisecond, of the clock or  *)
(* of the IQ samples received; a time server passes the ticks on to its      *)
(* clients over TCP, and time_manager_finish ends source and server.         *)
(*                                                                           *)
(* What the source does with its mutex held is one step, but that it tests   *)
(* whether to wait and goes to sleep in two: free_time_source sets exit and  *)
(* signals without the mutex.                                                *)
EXTENDS Integers, Sequences, FiniteSets, Functions, Lists

CONSTANTS
  TimeClients,     \* processes that connect to the server
  SamplesPerMs,    \* iq_samples_per_second / 1000
  Chunks,          \* iq_samples_count of time_source_iq_add
  Block,           \* ticks that fit in what is sent to a client, 255
  MaxSamples,      \* bound: samples received
  MaxFailures      \* bound: clients that go away

ASSUME TimeAssumption == SamplesPerMs \in Nat \ {0} /\ Block \in Nat \ {0} /\ Chunks \subseteq Nat

VARIABLES
  source, mode,    \* configuration: "realtime" or "iq_samples", "standalone" or "server", fixed
  mcount,          \* iq_samples_count
  tpc,             \* where the thread of the source is
  mexit,           \* exit of the source
  missed,          \* history: the source was signalled before it slept
  mpc,             \* where time_manager_finish is
  ticks,           \* history: calls of tick in this process
  tick_fd,         \* the eventfd of the server
  sexit,           \* exit of the server
  spc,             \* where the thread of the server is
  socket_fds,      \* its clients
  backlog,         \* clients connected and not accepted yet
  revents,         \* what poll returned: [tick, accept, of each client]
  link,            \* state of each client's connection
  sent,            \* bytes on the way to each client
  behind,          \* history: ticks the server gave each client and it has not read
  added, failures

sourceVars == <<source, mcount, tpc, mexit, missed, added>>
serverVars == <<ticks, tick_fd, sexit, spc, socket_fds, backlog, revents, link, sent, behind, failures>>
timeVars == <<mode, mpc, sourceVars, serverVars>>

NoEvents == [tick |-> FALSE, accept |-> FALSE, of |-> <<>>]

TimeInit ==
  /\ source \in {"realtime", "iq_samples"} /\ mode \in {"standalone", "server"}
  /\ mcount = 0 /\ tpc = "test" /\ mexit = FALSE /\ missed = FALSE /\ added = 0
  /\ mpc = "run"
  /\ ticks = 0 /\ tick_fd = 0 /\ sexit = FALSE /\ failures = 0
  /\ spc = (IF mode = "server" THEN "poll" ELSE "ended")
  /\ socket_fds = <<>> /\ backlog = <<>> /\ revents = NoEvents
  /\ link = [c \in TimeClients |-> "none"]
  /\ sent = [c \in TimeClients |-> <<>>]
  /\ behind = [c \in TimeClients |-> 0]

-----------------------------------------------------------------------------
(* The time source *)

(* time_source_realtime_thread sleeps until the next millisecond *)
RealtimeSleeps ==
  /\ source = "realtime" /\ tpc = "test" /\ ~mexit
  /\ added < MaxSamples
  /\ added' = added + SamplesPerMs
  /\ tpc' = "took"
  /\ UNCHANGED <<source, mcount, mexit, missed>>

(* time_source_iq_samples_thread: the inner loop tests with the mutex held *)
SourceTests ==
  /\ source = "iq_samples" /\ tpc \in {"test", "awake"}
  /\ tpc = "test" => ~mexit
  /\ IF ~mexit /\ mcount < SamplesPerMs
     THEN tpc' = "will wait" /\ UNCHANGED mcount
     ELSE tpc' = "took" /\ mcount' = mcount - SamplesPerMs
  /\ UNCHANGED <<source, mexit, missed, added>>

SourceSleeps ==
  /\ tpc = "will wait"
  /\ tpc' = "asleep"
  /\ UNCHANGED <<source, mcount, mexit, missed, added>>

(* Both threads: time to end? *)
SourceEnds ==
  /\ tpc \in {"test", "took"} /\ mexit
  /\ tpc' = "ended"
  /\ UNCHANGED <<source, mcount, mexit, missed, added>>

SourceReadsCallback ==
  /\ tpc = "took" /\ ~mexit
  /\ tpc' = "call"
  /\ UNCHANGED <<source, mcount, mexit, missed, added>>

(* tick, or time_server_tick_callback *)
SourceCalls ==
  /\ tpc = "call"
  /\ tpc' = "test"
  /\ IF mode = "standalone" THEN ticks' = ticks + 1 /\ UNCHANGED tick_fd
     ELSE tick_fd' = tick_fd + 1 /\ UNCHANGED ticks
  /\ UNCHANGED <<mode, mpc, source, mcount, mexit, missed, added, sexit, spc, socket_fds, backlog, revents, link, sent, behind, failures>>

Signalled == IF tpc = "asleep" THEN "awake" ELSE tpc

(* Bug: no condsignal.                                                       *)
IqAddAsSilent(n) ==
  /\ source = "iq_samples" /\ mpc = "run" /\ tpc # "will wait"
  /\ added + n <= MaxSamples
  /\ added' = added + n
  /\ mcount' = mcount + n
  /\ UNCHANGED <<source, tpc, mexit, missed>>

(* time_source_iq_add, which needs the mutex *)
IqAdd(n) ==
  /\ source = "iq_samples" /\ mpc = "run" /\ tpc # "will wait"
  /\ added + n <= MaxSamples
  /\ added' = added + n
  /\ mcount' = mcount + n
  /\ tpc' = Signalled
  /\ UNCHANGED <<source, mexit, missed>>

-----------------------------------------------------------------------------
(* time_manager_finish *)

FinishExits ==
  /\ mpc = "run" /\ mpc' = "terminate"
  /\ mexit' = TRUE
  /\ UNCHANGED <<mode, source, mcount, tpc, missed, added, serverVars>>

(* time_source_iq_samples_terminate; the realtime source has no such function *)
FinishSignals ==
  /\ mpc = "terminate" /\ mpc' = "join source"
  /\ IF source = "iq_samples"
     THEN tpc' = Signalled /\ missed' = (tpc = "will wait")
     ELSE UNCHANGED <<tpc, missed>>
  /\ UNCHANGED <<mode, source, mcount, mexit, added, serverVars>>

(* The source has ended: free_time_server sets exit and writes a fake tick *)
FinishServer ==
  /\ mpc = "join source" /\ tpc = "ended"
  /\ mpc' = "join server"
  /\ IF mode = "server" THEN sexit' = TRUE /\ tick_fd' = tick_fd + 1
     ELSE UNCHANGED <<sexit, tick_fd>>
  /\ UNCHANGED <<mode, sourceVars, ticks, spc, socket_fds, backlog, revents, link, sent, behind, failures>>

FinishReturns ==
  /\ mpc = "join server" /\ spc = "ended"
  /\ mpc' = "finished"
  /\ UNCHANGED <<mode, sourceVars, serverVars>>

-----------------------------------------------------------------------------
(* time_server_thread *)

(* The client went away: its end was closed, or it was reset *)
HasEvent(c) == link[c] \in {"closed", "reset"}

(* poll returns with something to do *)
ServerPolls ==
  /\ spc = "poll"
  /\ revents' = [tick |-> tick_fd > 0, accept |-> backlog # <<>>,
                 of |-> [k \in DOMAIN socket_fds |-> HasEvent(socket_fds[k])]]
  /\ revents'.tick \/ revents'.accept \/ TRUE \in Range(revents'.of)
  /\ spc' = "woken"
  /\ UNCHANGED <<ticks, tick_fd, sexit, socket_fds, backlog, link, sent, behind, failures>>

(* The server closes its sockets: a client that is there finds out *)
ClosedBy(cs) == [c \in TimeClients |-> IF c \notin cs THEN link[c]
                                       ELSE IF link[c] = "up" THEN "hung up" ELSE "none"]

(* Either way out of the loop *)
ServerEnds ==
  /\ spc \in {"poll", "woken"} /\ sexit
  /\ spc' = "ended"
  /\ link' = ClosedBy(Range(socket_fds))
  /\ socket_fds' = <<>>
  /\ UNCHANGED <<ticks, tick_fd, sexit, backlog, revents, sent, behind, failures>>

(* n ticks in blocks of at most Block *)
Blocks(n) == [k \in 1 .. (n + Block - 1) \div Block |->
                IF k * Block <= n THEN Block ELSE n % Block]

(* Bug: one block only.                                                      *)
ServerTicksAsOneBlock ==
  /\ spc = "woken" /\ ~sexit /\ revents.tick
  /\ ticks' = ticks + tick_fd
  /\ tick_fd' = 0
  /\ LET failed == {c \in Range(socket_fds) : link[c] = "reset"}
         kept == Keep(socket_fds, TimeClients \ failed)
     IN /\ socket_fds' = kept
        /\ link' = ClosedBy(failed)
        /\ sent' = [c \in TimeClients |->
                      IF c \in Range(kept) THEN sent[c] \o SubSeq(Blocks(tick_fd), 1, 1) ELSE sent[c]]
        /\ behind' = [c \in TimeClients |-> IF c \in Range(kept) THEN behind[c] + tick_fd ELSE behind[c]]
  /\ spc' = "ticked"
  /\ UNCHANGED <<sexit, backlog, revents, failures>>

(* All ticks are read; a client whose socket takes no more is removed, and   *)
(* polls is not shifted                                                      *)
ServerTicks ==
  /\ spc = "woken" /\ ~sexit /\ revents.tick
  /\ ticks' = ticks + tick_fd
  /\ tick_fd' = 0
  /\ LET failed == {c \in Range(socket_fds) : link[c] = "reset"}
         kept == Keep(socket_fds, TimeClients \ failed)
     IN /\ socket_fds' = kept
        /\ link' = ClosedBy(failed)
        /\ sent' = [c \in TimeClients |->
                      IF c \in Range(kept) THEN sent[c] \o Blocks(tick_fd) ELSE sent[c]]
        /\ behind' = [c \in TimeClients |-> IF c \in Range(kept) THEN behind[c] + tick_fd ELSE behind[c]]
  /\ spc' = "ticked"
  /\ UNCHANGED <<sexit, backlog, revents, failures>>

ServerNoTick ==
  /\ spc = "woken" /\ ~sexit /\ ~revents.tick
  /\ spc' = "ticked"
  /\ UNCHANGED <<ticks, tick_fd, sexit, socket_fds, backlog, revents, link, sent, behind, failures>>

ServerAccepts ==
  /\ spc = "ticked" /\ revents.accept
  /\ LET c == Head(backlog)
     IN /\ socket_fds' = Append(socket_fds, c)
        /\ behind' = [behind EXCEPT ![c] = 0]
  /\ backlog' = Tail(backlog)
  /\ spc' = "poll" /\ revents' = NoEvents
  /\ UNCHANGED <<ticks, tick_fd, sexit, link, sent, failures>>

(* The clients at the places where poll saw something are removed *)
ServerRemoves ==
  /\ spc = "ticked" /\ ~revents.accept
  /\ LET gone == {socket_fds[k] : k \in {k \in DOMAIN socket_fds : revents.of[k]}}
     IN /\ socket_fds' = Keep(socket_fds, TimeClients \ gone)
        /\ link' = ClosedBy(gone)
  /\ spc' = "poll" /\ revents' = NoEvents
  /\ UNCHANGED <<ticks, tick_fd, sexit, backlog, sent, behind, failures>>

-----------------------------------------------------------------------------
(* time_client_thread *)

Connects(c) ==
  /\ mode = "server" /\ link[c] = "none" /\ spc # "ended"
  /\ link' = [link EXCEPT ![c] = "up"]
  /\ sent' = [sent EXCEPT ![c] = <<>>]
  /\ backlog' = Append(backlog, c)
  /\ UNCHANGED <<ticks, tick_fd, sexit, spc, socket_fds, revents, behind, failures>>

ClientReads(c) ==
  /\ link[c] \in {"up", "hung up"} /\ sent[c] # <<>>
  /\ behind' = [behind EXCEPT ![c] = @ - Head(sent[c])]
  /\ sent' = [sent EXCEPT ![c] = Tail(@)]
  /\ UNCHANGED <<ticks, tick_fd, sexit, spc, socket_fds, backlog, revents, link, failures>>

(* read returns 0: the client closes its end too, and reconnects *)
ClientHangsUp(c) ==
  /\ link[c] = "hung up" /\ sent[c] = <<>>
  /\ link' = [link EXCEPT ![c] = "none"]
  /\ UNCHANGED <<ticks, tick_fd, sexit, spc, socket_fds, backlog, revents, sent, behind, failures>>

(* The client's process ends; what it has not read resets the connection *)
ClientFails(c) ==
  /\ link[c] = "up" /\ failures < MaxFailures
  /\ failures' = failures + 1
  /\ link' = [link EXCEPT ![c] = IF sent[c] = <<>> THEN "closed" ELSE "reset"]
  /\ sent' = [sent EXCEPT ![c] = <<>>]
  /\ behind' = [behind EXCEPT ![c] = 0]
  /\ UNCHANGED <<ticks, tick_fd, sexit, spc, socket_fds, backlog, revents>>

-----------------------------------------------------------------------------
SourceStep ==
  \/ SourceCalls
  \/ /\ RealtimeSleeps \/ SourceTests \/ SourceSleeps \/ SourceEnds \/ SourceReadsCallback
     /\ UNCHANGED <<mode, mpc, serverVars>>

ServerStep ==
  /\ ServerPolls \/ ServerEnds \/ ServerTicks \/ ServerNoTick \/ ServerAccepts \/ ServerRemoves
  /\ UNCHANGED <<mode, mpc, sourceVars>>

ClientSteps ==
  /\ \E c \in TimeClients : Connects(c) \/ ClientReads(c) \/ ClientHangsUp(c) \/ ClientFails(c)
  /\ UNCHANGED <<mode, mpc, sourceVars>>

Samples == (\E n \in Chunks : IqAdd(n)) /\ UNCHANGED <<mode, mpc, serverVars>>
FinishGoesOn == FinishSignals \/ FinishServer \/ FinishReturns

TimeNext == SourceStep \/ ServerStep \/ ClientSteps \/ Samples \/ FinishExits \/ FinishGoesOn

-----------------------------------------------------------------------------
TicksOf(c) == Total(sent[c])

(* Each millisecond of samples ticks once: none is lost between the threads  *)
(* before time_manager_finish, and a client gets every tick the server gave  *)
(* since it was accepted.                                                    *)
TicksExact ==
  /\ ~mexit => LET taken == IF tpc \in {"took", "call"} THEN 1 ELSE 0
               IN (ticks + tick_fd + taken) * SamplesPerMs + mcount = added
  /\ \A c \in Range(socket_fds) : link[c] = "up" => behind[c] = TicksOf(c)

(* In the end every millisecond of samples received has ticked, and a        *)
(* time_manager_finish that was called has returned, unless the source was   *)
(* between its test and its sleep when it was signalled.                     *)
TimeGoesOn ==
  <>[](/\ mcount >= SamplesPerMs => mexit
       /\ mexit => mpc = "finished" \/ missed)

(* "error writing - remove client", "any event on a client socket is to be   *)
(* considered as an error": a client without an error is not removed.        *)
HealthyClientKept ==
  [][\A c \in Range(socket_fds) \ Range(socket_fds') : link[c] # "up" \/ sexit]_timeVars
=============================================================================
