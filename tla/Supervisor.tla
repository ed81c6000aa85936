------------------------------ MODULE Supervisor ------------------------------
(***************************************************************************)
(* One supervised child process: run_with_hook, run_spawned and the event  *)
(* loop of crates/nix-tools-core/src/process/event.rs, together with the   *)
(* callback worker (module CallbackWorker), the child's process group, the *)
(* pipes between them, and a cancellation that may arrive at any moment.   *)
(*                                                                         *)
(* The loop is split where another thread can come between two reads: the  *)
(* check of failures and cancellation, the exit test, the two halves of    *)
(* the poll set, the poll itself, each descriptor it services, and between *)
(* can_send and try_send.  Time is a timer that may fire at any moment     *)
(* once the deadline is set.                                               *)
(***************************************************************************)
EXTENDS Naturals, Sequences, FiniteSets

CONSTANTS
  Outputs,          \* output pipes the supervisor reads itself
  CallbackOutputs,  \* those whose chunks go through the callback worker
  Consumers,        \* output pipes that may be handed to consumer threads
  Descendants,      \* processes the child may fork, or some of them
  Chunks,           \* chunks the child writes to each output
  InputChunks,      \* the most chunks of the input policy
  BufferCount,      \* buffers of the callback worker
  PipeCapacity,     \* bound of the model: chunks a pipe holds
  Child, None

ASSUME SupervisorAssumption ==
  /\ CallbackOutputs \subseteq Outputs
  /\ Chunks \in Nat /\ InputChunks \in Nat
  /\ BufferCount \in Nat \ {0} /\ PipeCapacity \in Nat \ {0}
  /\ Child \notin Descendants /\ None \notin Outputs
  /\ IsFiniteSet(CallbackOutputs)
  /\ {"cancel", "exit", "group", "callbacks", "stdin"} \cap (Outputs \cup Consumers) = {}
  /\ Outputs \cap Consumers = {}

VARIABLES
  \* the callback worker
  queue, free, closing, stopped, completion, worker, inFlight, notified, sent, delivered,
  \* the supervisor thread and the fields of Supervisor
  pc, cancelled, status, failure, timer, killed, group, callbacksFinished, closed,
  stdin, input, polled, ready, reading, result,
  \* its environment
  cancelRequested, proc, toWrite, pipe, inputPipe, consumer

workerVars == <<queue, free, closing, stopped, completion, worker, inFlight, notified,
                sent, delivered>>
loopVars == <<cancelled, status, failure, timer, killed, group, callbacksFinished,
              closed, stdin, input>>
pollVars == <<polled, ready, reading>>
envVars == <<cancelRequested, proc, toWrite, pipe, inputPipe, consumer>>
vars == <<workerVars, pc, loopVars, pollVars, result, envVars>>

Processes == {Child} \cup Descendants
HasCallbacks == CallbackOutputs # {}

Callback == INSTANCE CallbackWorker WITH
  Streams <- CallbackOutputs, BufferCount <- BufferCount,
  MaxChunks <- (Chunks + 1) * Cardinality(CallbackOutputs)

PcStates == {"start", "subscribed", "spawned", "check", "exit", "armOutputs", "armCallbacks",
             "poll", "service", "join", "result", "guard", "reap", "returned"}

TypeOK ==
  /\ Callback!TypeOK
  /\ pc \in PcStates
  /\ cancelled \in BOOLEAN /\ status \in BOOLEAN /\ failure \in BOOLEAN
  /\ killed \in BOOLEAN /\ callbacksFinished \in BOOLEAN /\ stdin \in BOOLEAN
  /\ cancelRequested \in BOOLEAN
  /\ timer \in {"none", "set", "expired"}
  /\ group \in [known : BOOLEAN, live : BOOLEAN, watched : SUBSET Descendants]
  /\ closed \subseteq Outputs
  /\ input \in 0 .. InputChunks
  /\ reading \in Outputs \cup {None}
  /\ result \in {"none", "ok", "failed", "cancelled"}
  /\ proc \in [Processes -> {"unborn", "running", "quiet", "escaped", "dead"}]
  /\ toWrite \in [Outputs -> 0 .. Chunks]
  /\ pipe \in [Outputs -> 0 .. PipeCapacity]
  /\ inputPipe \in 0 .. PipeCapacity
  /\ consumer \in [Consumers -> {"reading", "done", "broken", "joined"}]

UnknownGroup == [known |-> FALSE, live |-> FALSE, watched |-> {}]

Init ==
  /\ Callback!Init
  /\ pc = "start"
  /\ cancelled = FALSE /\ status = FALSE /\ failure = FALSE /\ killed = FALSE
  /\ callbacksFinished = FALSE
  /\ timer = "none"
  /\ group = UnknownGroup
  /\ closed = {}
  /\ stdin = TRUE
  /\ input \in 0 .. InputChunks
  /\ polled = {} /\ ready = {} /\ reading = None
  /\ result = "none"
  /\ cancelRequested = FALSE
  /\ \E forked \in SUBSET Descendants :
       proc = [p \in Processes |-> IF p \in forked \cup {Child} THEN "unborn" ELSE "dead"]
  /\ toWrite = [o \in Outputs |-> Chunks]
  /\ pipe = [o \in Outputs |-> 0]
  /\ inputPipe = 0
  /\ consumer \in [Consumers -> {"reading", "joined"}]

------------------------------------------------------------------------------
(* The process group and what the kernel shows of it *)

\* A quiet process is in the group with its copies of the pipes closed.
InGroup == {p \in Processes : proc[p] \in {"running", "quiet"}}
Holders == {p \in Processes : proc[p] \in {"running", "escaped"}}
AtEof(o) == pipe[o] = 0 /\ Holders = {}

KillGroup == proc' = [p \in Processes |-> IF p \in InGroup THEN "dead" ELSE proc[p]]

\* GroupWatch::refresh; when /proc cannot be read the group counts as live.
Observed == [known |-> TRUE, live |-> InGroup # {}, watched |-> InGroup \ {Child}]
Unobserved == [known |-> TRUE, live |-> TRUE, watched |-> {}]
RefreshGroup == group' \in {Observed, Unobserved}

------------------------------------------------------------------------------
(* run_with_hook *)

Return(outcome) == result' = outcome /\ pc' = "returned"

\* check_before_spawn, then subscribe.
Subscribe ==
  /\ pc = "start"
  /\ \/ cancelRequested /\ Return("cancelled")
     \/ ~cancelRequested /\ pc' = "subscribed" /\ UNCHANGED result
  /\ UNCHANGED <<workerVars, loopVars, pollVars, envVars>>

\* The spawn is a commit: it happens only before a cancellation, and may fail.
Spawn ==
  /\ pc = "subscribed"
  /\ \/ cancelRequested /\ Return("cancelled") /\ UNCHANGED proc
     \/ ~cancelRequested /\ Return("failed") /\ UNCHANGED proc
     \/ /\ ~cancelRequested
        /\ proc' = [proc EXCEPT ![Child] = "running"]
        /\ pc' = "spawned"
        /\ UNCHANGED result
  /\ UNCHANGED <<workerVars, loopVars, pollVars, cancelRequested, toWrite, pipe, inputPipe,
                 consumer>>

\* An error on the way out of the supervisor: ChildGuard stays armed.
Fail(outcome) == result' = outcome /\ pc' = "guard"

\* run_spawned up to the loop: pipes, callbacks and the first try_wait.
Setup ==
  /\ pc = "spawned"
  /\ \/ Fail("failed") /\ UNCHANGED status
     \/ status' = (proc[Child] = "dead") /\ pc' = "check" /\ UNCHANGED result
  /\ UNCHANGED <<workerVars, cancelled, failure, timer, killed, group, callbacksFinished,
                 closed, stdin, input, pollVars, envVars>>

------------------------------------------------------------------------------
(* Supervisor::drive *)

CallbackFailed == HasCallbacks /\ Callback!Completed /\ ~callbacksFinished
CallbacksSettled == ~HasCallbacks \/ Callback!Completed

\* The deadline is armed once, by the first of exit, cancellation and failure.
Arming(failed, stopping) == timer = "none" /\ (status \/ stopping \/ failed)

CloseCallbacks ==
  IF ~callbacksFinished /\ closed = Outputs
  THEN /\ callbacksFinished' = TRUE
       /\ IF HasCallbacks THEN Callback!Finish ELSE UNCHANGED workerVars
  ELSE UNCHANGED <<workerVars, callbacksFinished>>

\* A loop that looks at the end of the callbacks only once it is cancelled.
CheckWithoutDeadline ==
  LET failed == failure \/ CallbackFailed
      stopping == cancelled \/ cancelRequested
      arming == Arming(FALSE, FALSE)
  IN
  /\ pc = "check"
  /\ cancelled' = stopping
  /\ failure' = (failed \/ (arming /\ status /\ stdin /\ input > 0))
  /\ \/ arming /\ timer' = "set" /\ RefreshGroup /\ stdin' = FALSE
     \/ ~arming /\ UNCHANGED <<timer, group, stdin>>
  /\ CloseCallbacks
  /\ pc' = "exit"
  /\ UNCHANGED <<status, killed, closed, input, pollVars, result, envVars>>

\* The loop's top: failures, cancellation, SIGTERM (which a process may obey
\* at any later moment or ignore), input cut short, end of the callbacks.
Check ==
  LET failed == failure \/ CallbackFailed
      stopping == cancelled \/ cancelRequested
      arming == Arming(failed, stopping)
  IN
  /\ pc = "check"
  /\ cancelled' = stopping
  /\ failure' = (failed \/ (arming /\ status /\ stdin /\ input > 0))
  /\ \/ arming /\ timer' = "set" /\ RefreshGroup /\ stdin' = FALSE
     \/ ~arming /\ UNCHANGED <<timer, group, stdin>>
  /\ CloseCallbacks
  /\ pc' = "exit"
  /\ UNCHANGED <<status, killed, closed, input, pollVars, result, envVars>>

\* An exit test that forgets the descendants of the child.
GroupIgnored == TRUE
GroupSettled == (group.known /\ ~group.live) \/ killed

OutputsClosed == closed = Outputs /\ \A k \in Consumers : consumer[k] = "joined"

Settled == status /\ CallbacksSettled /\ OutputsClosed /\ GroupSettled

\* The input pipe is closed once everything is written.
KeepInput == stdin' = (stdin /\ input > 0)

\* The exit test, and the escalation to SIGKILL when the deadline has passed.
Exit ==
  /\ pc = "exit"
  /\ \/ /\ Settled
        /\ pc' = "join"
        /\ UNCHANGED <<failure, timer, killed, proc, stdin>>
     \/ /\ ~Settled /\ timer = "expired" /\ killed
        /\ failure' = TRUE
        /\ pc' = "join"
        /\ UNCHANGED <<timer, killed, proc, stdin>>
     \/ /\ ~Settled /\ timer = "expired" /\ ~killed
        /\ KillGroup
        /\ killed' = TRUE
        /\ timer' = "set"
        /\ KeepInput
        /\ pc' = "armOutputs"
        /\ UNCHANGED failure
     \/ /\ ~Settled /\ timer # "expired"
        /\ KeepInput
        /\ pc' = "armOutputs"
        /\ UNCHANGED <<failure, timer, killed, proc>>
  /\ UNCHANGED <<workerVars, cancelled, status, group, callbacksFinished, closed, input,
                 pollVars, result, cancelRequested, toWrite, pipe, inputPipe, consumer>>

------------------------------------------------------------------------------
(* Supervisor::wait *)

Readable(o) == o \notin closed /\ (o \in CallbackOutputs => Callback!CanSend)

\* The first half of the poll set: cancellation, exit, outputs, consumers.
ArmOutputs ==
  /\ pc = "armOutputs"
  /\ polled' = {d \in {"cancel"} : ~cancelled} \cup {d \in {"exit"} : ~status}
               \cup {o \in Outputs : Readable(o)}
               \cup {k \in Consumers : consumer[k] # "joined"}
  /\ pc' = "armCallbacks"
  /\ UNCHANGED <<workerVars, loopVars, ready, reading, result, envVars>>

\* The second half: callbacks unless completed, input, members of the group.
ArmCallbacks ==
  /\ pc = "armCallbacks"
  /\ polled' = polled \cup {d \in {"callbacks"} : HasCallbacks /\ ~Callback!Completed}
               \cup {d \in {"stdin"} : stdin}
               \cup {d \in {"group"} : group.watched # {}}
  /\ pc' = "poll"
  /\ UNCHANGED <<workerVars, loopVars, ready, reading, result, envVars>>

IsReady(d) ==
  \/ d = "cancel" /\ cancelRequested
  \/ d = "exit" /\ proc[Child] = "dead"
  \/ d \in Outputs /\ (pipe[d] > 0 \/ AtEof(d))
  \/ d \in Consumers /\ consumer[d] \in {"done", "broken"}
  \/ d = "callbacks" /\ Callback!EventReady
  \/ d = "stdin" /\ (inputPipe < PipeCapacity \/ Holders = {})
  \/ d = "group" /\ \E p \in group.watched : proc[p] = "dead"

ReadyNow == {d \in polled : IsReady(d)}

\* poll returns because something is ready or because the deadline passed.
Poll ==
  /\ pc = "poll"
  /\ ReadyNow # {} \/ timer = "expired"
  /\ ready' = ReadyNow
  /\ pc' = "service"
  /\ UNCHANGED <<workerVars, loopVars, polled, reading, result, envVars>>

\* EINTR: the loop goes round with nothing ready.
PollInterrupted ==
  /\ pc = "poll"
  /\ ready' = {}
  /\ pc' = "service"
  /\ UNCHANGED <<workerVars, loopVars, polled, reading, result, envVars>>

\* poll or try_wait fails: the error leaves drive at once.
SystemError ==
  /\ pc = "poll" \/ (pc = "service" /\ "exit" \in ready)
  /\ Fail("failed")
  /\ UNCHANGED <<workerVars, loopVars, pollVars, envVars>>

------------------------------------------------------------------------------
(* Supervisor::service: the ready descriptors, in the order of the code *)

Serviced(d) == ready' = ready \ {d}
InTurn(d) ==
  LET group1 == {"cancel", "exit", "group"}
      group2 == group1 \cup Outputs
      group3 == group2 \cup Consumers
      earlier == IF d \in group1 THEN {}
                 ELSE IF d \in Outputs THEN group1
                 ELSE IF d \in Consumers THEN group2
                 ELSE IF d = "callbacks" THEN group3
                 ELSE group3 \cup {"callbacks"}
  IN pc = "service" /\ reading = None /\ d \in ready /\ ready \cap earlier = {}

\* The wake-up socket has no handler: the next check reads the token.
ServiceCancel ==
  /\ InTurn("cancel")
  /\ Serviced("cancel")
  /\ UNCHANGED <<workerVars, pc, loopVars, polled, reading, result, envVars>>

\* The child is reaped and the group looked at again, or only the latter.
ServiceChild ==
  /\ InTurn("exit") \/ InTurn("group")
  /\ ready' = ready \ {"exit", "group"}
  /\ status' = (status \/ "exit" \in ready)
  /\ IF group.known THEN RefreshGroup ELSE UNCHANGED group
  /\ UNCHANGED <<workerVars, pc, cancelled, failure, timer, killed, callbacksFinished, closed,
                 stdin, input, polled, reading, result, envVars>>

\* can_send is asked again before the pipe is read.
ServiceOutput(o) ==
  /\ InTurn(o)
  /\ Serviced(o)
  /\ reading' = IF Readable(o) THEN o ELSE None
  /\ UNCHANGED <<workerVars, pc, loopVars, polled, result, envVars>>

\* try_send refuses the chunk when the worker has ended since can_send.
Send(o, end) ==
  IF o \notin CallbackOutputs
  THEN UNCHANGED <<workerVars, failure>>
  ELSE IF Callback!CanSend
  THEN Callback!TrySend(o, end) /\ UNCHANGED failure
  ELSE failure' = TRUE /\ UNCHANGED workerVars

Refused(o) == o \in CallbackOutputs /\ ~Callback!CanSend

\* Output::read: one chunk, the end of the pipe, or an error.
Read ==
  /\ pc = "service" /\ reading # None
  /\ reading' = None
  /\ \/ /\ pipe[reading] > 0
        /\ pipe' = [pipe EXCEPT ![reading] = @ - 1]
        /\ Send(reading, FALSE)
        /\ closed' = IF Refused(reading) THEN closed \cup {reading} ELSE closed
     \/ /\ AtEof(reading)
        /\ Send(reading, TRUE)
        /\ closed' = closed \cup {reading}
        /\ UNCHANGED pipe
     \/ /\ failure' = TRUE
        /\ closed' = closed \cup {reading}
        /\ UNCHANGED <<workerVars, pipe>>
  /\ UNCHANGED <<pc, cancelled, status, timer, killed, group, callbacksFinished, stdin, input,
                 polled, ready, result, cancelRequested, proc, toWrite, inputPipe, consumer>>

ServiceConsumer(k) ==
  /\ InTurn(k)
  /\ Serviced(k)
  /\ consumer' = [consumer EXCEPT ![k] = "joined"]
  /\ failure' = (failure \/ consumer[k] = "broken")
  /\ UNCHANGED <<workerVars, pc, cancelled, status, timer, killed, group, callbacksFinished,
                 closed, stdin, input, polled, reading, result,
                 cancelRequested, proc, toWrite, pipe, inputPipe>>

ServiceCallbacks ==
  /\ InTurn("callbacks")
  /\ Serviced("callbacks")
  /\ Callback!Drain
  /\ failure' = (failure \/ completion = "Panicked")
  /\ UNCHANGED <<pc, cancelled, status, timer, killed, group, callbacksFinished, closed,
                 stdin, input, polled, reading, result, envVars>>

\* A write moves a chunk into the pipe, or finds every reader gone.
ServiceInput ==
  /\ InTurn("stdin")
  /\ Serviced("stdin")
  /\ \/ /\ Holders # {}
        /\ input' = input - 1
        /\ inputPipe' = inputPipe + 1
        /\ UNCHANGED <<stdin, failure>>
     \/ /\ Holders = {}
        /\ failure' = TRUE
        /\ stdin' = FALSE
        /\ UNCHANGED <<input, inputPipe>>
  /\ UNCHANGED <<workerVars, pc, cancelled, status, timer, killed, group, callbacksFinished,
                 closed, polled, reading, result, cancelRequested, proc, toWrite, pipe, consumer>>

ServiceDone ==
  /\ pc = "service" /\ ready = {} /\ reading = None
  /\ polled' = {}
  /\ pc' = "check"
  /\ UNCHANGED <<workerVars, loopVars, ready, reading, result, envVars>>

------------------------------------------------------------------------------
(* Supervisor::finish and ChildGuard *)

\* CallbackWorker::join: close the queue and wait for the worker's end.
Join ==
  /\ pc = "join"
  /\ \/ /\ ~HasCallbacks
        /\ pc' = "result"
        /\ UNCHANGED <<workerVars, failure>>
     \/ /\ HasCallbacks /\ ~closing
        /\ Callback!Finish
        /\ UNCHANGED <<pc, failure>>
     \/ /\ HasCallbacks /\ closing /\ Callback!Completed
        /\ failure' = (failure \/ completion = "Panicked")
        /\ pc' = "result"
        /\ UNCHANGED workerVars
  /\ UNCHANGED <<cancelled, status, timer, killed, group, callbacksFinished, closed,
                 stdin, input, pollVars, result, envVars>>

\* The cleanup time passes while a callback has not returned.
JoinTimesOut ==
  /\ pc = "join"
  /\ HasCallbacks /\ closing /\ ~Callback!Completed
  /\ Callback!Stop
  /\ failure' = TRUE
  /\ pc' = "result"
  /\ UNCHANGED <<cancelled, status, timer, killed, group, callbacksFinished, closed,
                 stdin, input, pollVars, result, envVars>>

\* The late cancellation and the recorded failure are not looked at.
ResultFromStatus ==
  /\ pc = "result"
  /\ \/ ~status /\ Fail("failed")
     \/ status /\ Return("ok")
  /\ UNCHANGED <<workerVars, loopVars, pollVars, envVars>>

\* Cancellation, even a late one, comes before failure and failure before
\* success; only success disarms the guard.
Result ==
  /\ pc = "result"
  /\ \/ (cancelled \/ cancelRequested) /\ Fail("cancelled")
     \/ ~(cancelled \/ cancelRequested) /\ (failure \/ ~status) /\ Fail("failed")
     \/ ~(cancelled \/ cancelRequested) /\ ~failure /\ status /\ Return("ok")
  /\ UNCHANGED <<workerVars, loopVars, pollVars, envVars>>

\* ChildGuard::drop kills the group ...
GuardKills ==
  /\ pc = "guard"
  /\ KillGroup
  /\ pc' = "reap"
  /\ UNCHANGED <<workerVars, loopVars, pollVars, result, cancelRequested, toWrite, pipe,
                 inputPipe, consumer>>

\* ... and waits for the child.
GuardReaps ==
  /\ pc = "reap"
  /\ proc[Child] = "dead"
  /\ pc' = "returned"
  /\ UNCHANGED <<workerVars, loopVars, pollVars, result, envVars>>

------------------------------------------------------------------------------
(* The environment *)

otherThanProc == <<workerVars, pc, loopVars, pollVars, result, cancelRequested, toWrite, pipe,
                   inputPipe, consumer>>

RequestCancel ==
  /\ ~cancelRequested
  /\ cancelRequested' = TRUE
  /\ UNCHANGED <<workerVars, pc, loopVars, pollVars, result, proc, toWrite, pipe, inputPipe,
                 consumer>>

TimerFires ==
  /\ timer = "set"
  /\ timer' = "expired"
  /\ UNCHANGED <<workerVars, pc, cancelled, status, failure, killed, group, callbacksFinished,
                 closed, stdin, input, pollVars, result, envVars>>

\* Any member of the group may fork another, which inherits its pipes.
Fork(d) ==
  /\ proc[d] = "unborn"
  /\ \E p \in InGroup : proc' = [proc EXCEPT ![d] = proc[p]]
  /\ UNCHANGED otherThanProc

\* A descendant redirects its output and stays in the group.
Redirect(d) ==
  /\ proc[d] = "running"
  /\ proc' = [proc EXCEPT ![d] = "quiet"]
  /\ UNCHANGED otherThanProc

\* setsid: the descendant leaves the group and keeps the pipes open.
Escape(d) ==
  /\ proc[d] = "running"
  /\ proc' = [proc EXCEPT ![d] = "escaped"]
  /\ UNCHANGED otherThanProc

Die(p) ==
  /\ proc[p] \in {"running", "quiet", "escaped"}
  /\ proc' = [proc EXCEPT ![p] = "dead"]
  /\ UNCHANGED otherThanProc

ChildWrites(o) ==
  /\ proc[Child] = "running" /\ toWrite[o] > 0 /\ pipe[o] < PipeCapacity
  /\ toWrite' = [toWrite EXCEPT ![o] = @ - 1]
  /\ pipe' = [pipe EXCEPT ![o] = @ + 1]
  /\ UNCHANGED <<workerVars, pc, loopVars, pollVars, result, cancelRequested, proc, inputPipe,
                 consumer>>

\* A child that has written everything exits.
ChildFinishes ==
  /\ \A o \in Outputs : toWrite[o] = 0
  /\ Die(Child)

ChildReads ==
  /\ proc[Child] = "running" /\ inputPipe > 0
  /\ inputPipe' = inputPipe - 1
  /\ UNCHANGED <<workerVars, pc, loopVars, pollVars, result, cancelRequested, proc, toWrite,
                 pipe, consumer>>

\* A consumer thread ends at the end of its pipe, or early with an error.
ConsumerEnds(k) ==
  /\ consumer[k] = "reading" /\ proc[Child] # "unborn"
  /\ \/ Holders = {} /\ consumer' = [consumer EXCEPT ![k] = "done"]
     \/ consumer' = [consumer EXCEPT ![k] = "broken"]
  /\ UNCHANGED <<workerVars, pc, loopVars, pollVars, result, cancelRequested, proc, toWrite,
                 pipe, inputPipe>>

CallbackStep(A) == A /\ HasCallbacks /\ UNCHANGED <<pc, loopVars, pollVars, result, envVars>>

Supervise ==
  \/ Subscribe \/ Spawn \/ Setup
  \/ Check \/ Exit \/ ArmOutputs \/ ArmCallbacks \/ Poll
  \/ ServiceCancel \/ ServiceChild \/ ServiceCallbacks \/ ServiceInput \/ ServiceDone \/ Read
  \/ \E o \in Outputs : ServiceOutput(o)
  \/ \E k \in Consumers : ServiceConsumer(k)
  \/ Join \/ Result \/ GuardKills \/ GuardReaps

Environment ==
  \/ RequestCancel \/ ChildFinishes \/ ChildReads
  \/ \E d \in Descendants : Fork(d) \/ Redirect(d) \/ Escape(d)
  \/ \E p \in Processes : Die(p)
  \/ \E o \in Outputs : ChildWrites(o)
  \/ \E k \in Consumers : ConsumerEnds(k)

Next ==
  \/ Supervise
  \/ PollInterrupted \/ SystemError \/ JoinTimesOut \/ TimerFires
  \/ CallbackStep(Callback!WorkerNext)
  \/ Environment

Spec == Init /\ [][Next]_vars

\* The supervisor and the worker run, timers fire, and signals do not interrupt
\* every single poll.  No callback need come back, no process need exit and
\* nobody need read.
Fairness ==
  /\ WF_vars(Supervise) /\ SF_vars(Poll) /\ WF_vars(JoinTimesOut) /\ WF_vars(TimerFires)
  /\ WF_vars(CallbackStep(Callback!WorkerStep))
FairSpec == Spec /\ Fairness

\* Besides, the child writes what it has to write and then exits, and
\* callbacks come back or panic.
CooperativeSpec ==
  /\ FairSpec
  /\ \A o \in Outputs : WF_vars(ChildWrites(o))
  /\ WF_vars(ChildFinishes)
  /\ WF_vars(CallbackStep(Callback!CallbackReturns \/ Callback!CallbackPanics))

------------------------------------------------------------------------------
(* Properties *)

Returned == pc = "returned"

\* No outcome, not even a success, an error half-way or a late cancellation,
\* leaves a member of the child's process group running behind it.
NothingLeftRunning == Returned => InGroup = {}

\* A successful run saw everything: the child reaped, every chunk a process
\* wrote read to the end of the pipe and delivered to its callback, all input
\* written, nothing failed on the way.
Delivered(o) == Cardinality({i \in 1 .. Len(delivered) : delivered[i].stream = o})
SuccessIsComplete ==
  /\ TypeOK
  /\ result = "ok" =>
       /\ proc[Child] = "dead" /\ status
       /\ closed = Outputs
       /\ \A o \in Outputs : pipe[o] = 0
       /\ \A o \in CallbackOutputs : Delivered(o) = Chunks - toWrite[o] + 1
       /\ \A k \in Consumers : consumer[k] = "joined"
       /\ input = 0

\* A supervisor asleep in poll because the callback buffers were taken is
\* never left asleep with a free one: the worker has told it, or is about to.
FreeBufferWakes ==
  pc = "poll" /\ Callback!CanSend /\ (\E o \in CallbackOutputs : o \notin closed \cup polled)
    => "callbacks" \in polled /\ (notified \/ worker = "notifying")

\* Cleanup is bounded: once the child has died or cancellation was requested,
\* run returns, although callbacks may hang, descendants may ignore SIGTERM,
\* fork, or leave the group with the pipes still open.
CleanupIsBounded ==
  (pc # "start" /\ (cancelRequested \/ proc[Child] = "dead")) ~> Returned

\* What the worker's tests say of its end: a panicking callback signals its
\* completion, and completion wakes the supervisor, which reports it.
CompletionWakesSupervisor ==
  completion = "Panicked" ~> (failure \/ cancelRequested \/ Returned)

==============================================================================
