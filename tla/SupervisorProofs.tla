---------------------------- MODULE SupervisorProofs ----------------------------
(***************************************************************************)
(* Proofs about module Supervisor, for any outputs, descendants, consumers,*)
(* buffers and chunks.  The invariant IInv has one part for each thing the *)
(* loop keeps track of:                                                    *)
(*   ProcInv    the child and its group, and what is known of them;        *)
(*   PollInv    what may be polled, ready or half-read at which point;     *)
(*   InputInv   the input pipe: written only while it is open and has      *)
(*              room, closed early only by a failure or a cancellation;    *)
(*   OutputInv  the conservation of chunks: written + sent = owed, and how *)
(*              an output may be closed;                                   *)
(*   WakeInv    no free buffer escapes the poll set;                       *)
(*   EndInv     what the outcome was decided on.                           *)
(* The worker is the one of CallbackWorkerProofs, whose invariant is taken *)
(* over; that the loop is a proper client of it is proved here.            *)
(*                                                                         *)
(* The last section is about module GroupScan: that a group which refresh  *)
(* takes for gone is gone, which Supervisor takes for granted.             *)
(***************************************************************************)
EXTENDS Supervisor, GroupScan, FiniteSetTheorems, SequenceTheorems, WellFoundedInduction, TLAPS

Worker == INSTANCE CallbackWorkerProofs WITH
  Streams <- CallbackOutputs, BufferCount <- BufferCount,
  MaxChunks <- (Chunks + 1) * Cardinality(CallbackOutputs)

\* Chunks of an output that the worker was given.
Sent(o) == {i \in 1 .. Len(sent) : sent[i].stream = o}

BeforeSpawn == pc \in {"start", "subscribed"}

\* Before the child exists nothing was done for it; from then on a group that
\* was found settled, or was killed, stays empty.
ProcInv ==
  /\ BeforeSpawn => /\ InGroup = {} /\ ~group.known /\ ~killed /\ ~status /\ closed = {}
  /\ pc \notin {"start", "subscribed", "returned"} => proc[Child] # "unborn"
  /\ GroupSettled => InGroup = {}
  /\ pc \in {"reap", "returned"} => InGroup = {}
  /\ status \/ "exit" \in ready => proc[Child] = "dead"

PollInv ==
  /\ pc \notin {"service", "guard", "reap", "returned"} => ready = {} /\ reading = None
  /\ reading \notin closed
  /\ pc = "armCallbacks" => "stdin" \notin polled
  /\ pc = "poll" /\ HasCallbacks /\ ~Callback!Completed => "callbacks" \in polled

InputInv ==
  /\ pc \in {"armOutputs", "armCallbacks"} /\ stdin => input > 0
  /\ pc = "poll" /\ "stdin" \in polled => stdin /\ input > 0
  /\ "stdin" \in ready => /\ stdin /\ input > 0
                          /\ inputPipe < PipeCapacity \/ Holders = {}
  /\ timer # "none" => ~stdin
  /\ ~stdin => input = 0 \/ failure \/ cancelled
  /\ pc = "exit" /\ status => timer # "none"

\* What was read of every pipe.
OutputInv ==
  /\ \A o \in Outputs : toWrite[o] + pipe[o] <= Chunks
  /\ ~failure => \A o \in closed : pipe[o] = 0 /\ Holders = {} /\ proc[Child] # "unborn"
  /\ \A o \in CallbackOutputs :
       LET owed == Chunks + (IF o \in closed THEN 1 ELSE 0) IN
       /\ Cardinality(Sent(o)) + toWrite[o] + pipe[o] <= owed
       /\ ~failure => Cardinality(Sent(o)) + toWrite[o] + pipe[o] = owed

WakeInv ==
  pc \in {"armCallbacks", "poll"} /\ Callback!CanSend
    /\ (\E o \in CallbackOutputs : o \notin closed \cup polled)
    => notified \/ worker = "notifying"

EndInv ==
  /\ stopped => failure
  /\ result = "ok" => pc = "returned" /\ ~failure /\ ~cancelled
  /\ pc \in {"join", "result"} \/ result = "ok" =>
       failure \/ (status /\ OutputsClosed /\ GroupSettled /\ (input = 0 \/ cancelled))
  /\ pc = "result" \/ result = "ok" => failure \/ ~HasCallbacks \/ completion = "Finished"

IInv == TypeOK /\ Worker!IInv /\ ProcInv /\ PollInv /\ InputInv /\ OutputInv /\ WakeInv /\ EndInv

------------------------------------------------------------------------------
(* What a step leaves alone *)

\* The worker of the proofs is the worker of the module.
LEMMA SameWorker ==
  /\ Callback!CanSend <=> Worker!CanSend
  /\ Callback!Finish <=> Worker!Finish
  /\ Callback!Stop <=> Worker!Stop
  /\ Callback!Drain <=> Worker!Drain
  /\ \A o, end : Callback!TrySend(o, end) <=> Worker!TrySend(o, end)
  /\ Callback!WorkerNext <=> Worker!WorkerNext
  /\ Callback!TypeOK <=> Worker!TypeOK
  /\ Callback!Init <=> Worker!Init
  /\ Worker!IInv => Callback!TypeOK
<1>1. Callback!CanSend <=> Worker!CanSend
  BY DEF Callback!CanSend, Worker!CanSend, Callback!Accepting, Worker!Accepting
<1>2. (Callback!Finish <=> Worker!Finish) /\ (Callback!Stop <=> Worker!Stop)
  BY DEF Callback!Finish, Worker!Finish, Callback!Stop, Worker!Stop,
         Callback!WakeWorker, Worker!WakeWorker
<1>3. Callback!Drain <=> Worker!Drain
  BY DEF Callback!Drain, Worker!Drain
<1>4. \A o, end : Callback!TrySend(o, end) <=> Worker!TrySend(o, end)
  BY <1>1 DEF Callback!TrySend, Worker!TrySend, Callback!WakeWorker, Worker!WakeWorker
<1>5. Callback!TypeOK <=> Worker!TypeOK
  BY DEF Callback!TypeOK, Worker!TypeOK, Callback!Chunk, Worker!Chunk, Callback!CompletionStatus,
         Worker!CompletionStatus, Callback!WorkerStates, Worker!WorkerStates
<1>6. Callback!Init <=> Worker!Init
  BY DEF Callback!Init, Worker!Init
<1>7. Callback!WorkerNext <=> Worker!WorkerNext
  BY DEF Callback!WorkerNext, Worker!WorkerNext, Callback!WorkerStep, Worker!WorkerStep,
         Callback!Sleep, Worker!Sleep, Callback!Leave, Worker!Leave, Callback!Pop, Worker!Pop,
         Callback!Recycle, Worker!Recycle, Callback!Notify, Worker!Notify, Callback!Complete,
         Worker!Complete, Callback!CallbackReturns, Worker!CallbackReturns,
         Callback!CallbackPanics, Worker!CallbackPanics, Callback!NothingToDo, Worker!NothingToDo
<1>8. QED BY <1>1, <1>2, <1>3, <1>4, <1>5, <1>6, <1>7 DEF Worker!IInv

\* The worker's constants are as its module assumes.
LEMMA WorkerAssumption == Worker!BufferAssumption
BY SupervisorAssumption, FS_CardinalityType DEF Worker!BufferAssumption

\* Its invariant types its variables.
LEMMA WorkerTypes == Worker!IInv' => Callback!TypeOK'
BY DEF Worker!IInv, Callback!TypeOK, Worker!TypeOK, Callback!Chunk, Worker!Chunk,
       Callback!CompletionStatus, Worker!CompletionStatus, Callback!WorkerStates,
       Worker!WorkerStates

\* A step that leaves the worker alone keeps all that is known of it.
LEMMA WorkerFrame ==
  ASSUME Worker!IInv, UNCHANGED workerVars
  PROVE  /\ Worker!IInv' /\ Callback!TypeOK'
         /\ UNCHANGED <<free, closing, stopped, completion, worker, notified, sent>>
         /\ Callback!Completed' <=> Callback!Completed
         /\ Callback!CanSend' <=> Callback!CanSend
<1>1. UNCHANGED <<queue, free, closing, stopped, completion, worker, inFlight, notified, sent,
                  delivered>>
  BY DEF workerVars
<1>2. Worker!IInv'
  BY <1>1, WorkerAssumption, Worker!StutterIInv DEF Worker!vars
<1>3. QED BY <1>1, <1>2, WorkerTypes DEF Callback!Completed, Callback!CanSend, Callback!Accepting

LEMMA Processed == ASSUME TypeOK PROVE
  /\ proc \in [Processes -> {"unborn", "running", "quiet", "escaped", "dead"}]
  /\ Child \in Processes /\ Child \notin Descendants
BY SupervisorAssumption DEF TypeOK, Processes

\* The state of the processes only moves on.
ProcMoves ==
  /\ InGroup = {} => InGroup' = {}
  /\ Holders = {} => Holders' = {}
  /\ proc[Child] # "unborn" => proc'[Child] # "unborn"
  /\ proc[Child] = "dead" => proc'[Child] = "dead"

LEMMA KillMoves ==
  ASSUME TypeOK, KillGroup
  PROVE  /\ ProcMoves /\ InGroup' = {}
         /\ proc' \in [Processes -> {"unborn", "running", "quiet", "escaped", "dead"}]
BY Processed DEF KillGroup, ProcMoves, InGroup, Holders

LEMMA SameProcMoves == ASSUME UNCHANGED proc PROVE ProcMoves
BY DEF ProcMoves, InGroup, Holders

LEMMA ProcessMoves ==
  ASSUME TypeOK,
         \/ \E d \in Descendants : Fork(d) \/ Redirect(d) \/ Escape(d)
         \/ \E p \in Processes : Die(p)
  PROVE  /\ ProcMoves /\ UNCHANGED otherThanProc
         /\ proc' \in [Processes -> {"unborn", "running", "quiet", "escaped", "dead"}]
<1>1. UNCHANGED otherThanProc
  BY DEF Fork, Redirect, Escape, Die
<1>2. ASSUME NEW d \in Descendants, Fork(d)
      PROVE  ProcMoves /\ proc' \in [Processes -> {"unborn", "running", "quiet", "escaped", "dead"}]
  <2>1. PICK q \in InGroup : proc' = [proc EXCEPT ![d] = proc[q]]
    BY <1>2 DEF Fork
  <2>2. d # Child /\ q \in Processes /\ d \in Processes /\ proc[q] \in {"running", "quiet"}
    BY <2>1, Processed DEF InGroup, Processes
  <2>3. proc[q] = "running" => q \in Holders
    BY <2>2 DEF Holders
  <2>4. QED BY <2>1, <2>2, <2>3, Processed DEF ProcMoves, InGroup, Holders
<1>3. ASSUME NEW d \in Descendants, Redirect(d) \/ Escape(d)
      PROVE  ProcMoves /\ proc' \in [Processes -> {"unborn", "running", "quiet", "escaped", "dead"}]
  <2>1. d # Child /\ d \in Processes /\ proc[d] = "running"
    BY <1>3, Processed DEF Redirect, Escape, Processes
  <2>2. proc' = [proc EXCEPT ![d] = "quiet"] \/ proc' = [proc EXCEPT ![d] = "escaped"]
    BY <1>3 DEF Redirect, Escape
  <2>3. d \in Holders /\ d \in InGroup
    BY <2>1 DEF Holders, InGroup
  <2>4. QED BY <2>1, <2>2, <2>3, Processed DEF ProcMoves
<1>4. ASSUME NEW p \in Processes, Die(p)
      PROVE  ProcMoves /\ proc' \in [Processes -> {"unborn", "running", "quiet", "escaped", "dead"}]
  BY <1>4, Processed DEF Die, ProcMoves, InGroup, Holders
<1>5. QED BY <1>1, <1>2, <1>3, <1>4

\* ProcInv over a step that spawns nothing.
LEMMA ProcKeep ==
  ASSUME ProcInv, ProcMoves,
         \/ pc' = pc
         \/ /\ ~BeforeSpawn /\ pc # "returned" /\ ~BeforeSpawn'
            /\ pc' \in {"reap", "returned"} => InGroup' = {},
         BeforeSpawn => UNCHANGED <<group, killed, status, closed>>,
         GroupSettled' => GroupSettled \/ InGroup' = {},
         status' \/ "exit" \in ready' => status \/ "exit" \in ready \/ proc'[Child] = "dead"
  PROVE  ProcInv'
<1>1. CASE pc' = pc
  BY <1>1 DEF ProcInv, ProcMoves, BeforeSpawn
<1>2. CASE pc' # pc
  BY <1>2 DEF ProcInv, ProcMoves, BeforeSpawn
<1>3. QED BY <1>1, <1>2

\* The group stays settled, or not, when nothing is learnt of it.
LEMMA GroupKeep ==
  ASSUME UNCHANGED <<group, killed>>
  PROVE  GroupSettled' <=> GroupSettled
BY DEF GroupSettled

\* OutputInv over a step that moves no chunk.
LEMMA OutputKeep ==
  ASSUME OutputInv, ProcMoves, UNCHANGED <<toWrite, pipe, closed, sent>>, failure => failure'
  PROVE  OutputInv'
<1>1. \A o : Sent(o)' = Sent(o)
  BY DEF Sent
<1>2. QED BY <1>1 DEF OutputInv, ProcMoves

\* EndInv over a step within the loop.
LEMMA EndKeep ==
  ASSUME EndInv, pc # "returned", pc' \notin {"join", "result"}, result' = result,
         stopped' => failure'
  PROVE  EndInv'
BY DEF EndInv

\* What a look at the group shows; a group seen dead is empty.
LEMMA GroupTyped ==
  ASSUME TypeOK, RefreshGroup
  PROVE  /\ group' \in [known : BOOLEAN, live : BOOLEAN, watched : SUBSET Descendants]
         /\ group'.known /\ ~group'.live => InGroup = {}
<1>1. InGroup \ {Child} \in SUBSET Descendants
  BY DEF InGroup, Processes
<1>2. (InGroup # {}) \in BOOLEAN
  OBVIOUS
<1>3. CASE group' = Observed
  BY <1>1, <1>2, <1>3 DEF Observed
<1>4. CASE group' = Unobserved
  BY <1>4 DEF Unobserved
<1>5. QED BY <1>3, <1>4 DEF RefreshGroup

LEMMA InitIInv == Init => IInv
<1> SUFFICES ASSUME Init PROVE IInv
  OBVIOUS
<1>1. Worker!IInv
  BY SameWorker, WorkerAssumption, Worker!InitIInv DEF Init
<1>2. PICK forked \in SUBSET Descendants :
        proc = [p \in Processes |-> IF p \in forked \cup {Child} THEN "unborn" ELSE "dead"]
  BY DEF Init
<1>3. /\ proc \in [Processes -> {"unborn", "running", "quiet", "escaped", "dead"}]
      /\ InGroup = {} /\ proc[Child] = "unborn"
  BY <1>2 DEF InGroup, Processes
<1>4. TypeOK
  <2>1. /\ cancelled \in BOOLEAN /\ status \in BOOLEAN /\ failure \in BOOLEAN
        /\ killed \in BOOLEAN /\ callbacksFinished \in BOOLEAN /\ stdin \in BOOLEAN
        /\ cancelRequested \in BOOLEAN
    BY Zenon DEF Init
  <2>2. /\ toWrite \in [Outputs -> 0 .. Chunks] /\ pipe \in [Outputs -> 0 .. PipeCapacity]
        /\ inputPipe \in 0 .. PipeCapacity
    BY SupervisorAssumption DEF Init
  <2>3. group \in [known : BOOLEAN, live : BOOLEAN, watched : SUBSET Descendants]
    BY DEF Init, UnknownGroup
  <2>4. consumer \in [Consumers -> {"reading", "done", "broken", "joined"}]
    BY DEF Init
  <2>5. Callback!TypeOK
    BY <1>1, SameWorker
  <2>6. QED BY <1>3, <2>1, <2>2, <2>3, <2>4, <2>5 DEF Init, TypeOK, PcStates
<1>5. ProcInv
  BY <1>3 DEF Init, ProcInv, BeforeSpawn, UnknownGroup, GroupSettled
<1>6. PollInv
  BY DEF Init, PollInv
<1>7. InputInv
  BY DEF Init, InputInv
<1>8. OutputInv
  <2>1. sent = <<>> /\ Len(sent) = 0
    BY EmptySeq DEF Init, Callback!Init
  <2>2. \A o \in CallbackOutputs : Cardinality(Sent(o)) = 0 /\ o \in Outputs
    BY <2>1, FS_EmptySet, SupervisorAssumption DEF Sent
  <2>3. QED BY <2>2, SupervisorAssumption DEF Init, OutputInv
<1>9. WakeInv
  BY DEF Init, WakeInv
<1>10. EndInv
  BY DEF Init, EndInv, Callback!Init
<1>11. QED BY <1>1, <1>4, <1>5, <1>6, <1>7, <1>8, <1>9, <1>10 DEF IInv

------------------------------------------------------------------------------
(* Before the loop, behind it, and the poll *)

LEMMA SubscribeIInv == ASSUME IInv, Subscribe PROVE IInv'
<1>1. /\ pc = "start"
      /\ \/ pc' = "returned" /\ result' = "cancelled"
         \/ pc' = "subscribed" /\ result' = result
      /\ UNCHANGED <<workerVars, cancelled, status, failure, timer, killed, group,
                     callbacksFinished, closed, stdin, input, polled, ready, reading,
                     cancelRequested, proc, toWrite, pipe, inputPipe, consumer>>
  BY DEF Subscribe, Return, loopVars, pollVars, envVars
<1>2. /\ Worker!IInv' /\ Callback!TypeOK' /\ UNCHANGED <<stopped, completion, sent>>
  BY <1>1, WorkerFrame DEF IInv
<1>3. ProcMoves /\ UNCHANGED <<InGroup, Holders>>
  BY <1>1, SameProcMoves DEF InGroup, Holders
<1>4. TypeOK'
  BY <1>1, <1>2 DEF IInv, TypeOK, PcStates
<1>5. ProcInv'
  BY <1>1, <1>3, GroupKeep DEF IInv, ProcInv, BeforeSpawn
<1>6. PollInv' /\ InputInv' /\ WakeInv'
  BY <1>1, <1>3 DEF IInv, PollInv, InputInv, WakeInv
<1>7. OutputInv'
  BY <1>1, <1>2, <1>3, OutputKeep DEF IInv
<1>8. EndInv'
  BY <1>1, <1>2 DEF IInv, EndInv
<1>9. QED BY <1>2, <1>4, <1>5, <1>6, <1>7, <1>8 DEF IInv

LEMMA SpawnIInv == ASSUME IInv, Spawn PROVE IInv'
<1>1. /\ pc = "subscribed"
      /\ \/ pc' = "returned" /\ result' \in {"cancelled", "failed"} /\ proc' = proc
         \/ pc' = "spawned" /\ result' = result /\ proc' = [proc EXCEPT ![Child] = "running"]
      /\ UNCHANGED <<workerVars, cancelled, status, failure, timer, killed, group,
                     callbacksFinished, closed, stdin, input, polled, ready, reading,
                     cancelRequested, toWrite, pipe, inputPipe, consumer>>
  BY DEF Spawn, Return, loopVars, pollVars
<1>2. /\ Worker!IInv' /\ Callback!TypeOK' /\ UNCHANGED <<stopped, completion, sent>>
  BY <1>1, WorkerFrame DEF IInv
<1>3. /\ InGroup = {} /\ ~group.known /\ ~killed /\ ~status /\ closed = {}
      /\ ready = {} /\ reading = None
  BY <1>1 DEF IInv, ProcInv, PollInv, BeforeSpawn
<1>4. proc' \in [Processes -> {"unborn", "running", "quiet", "escaped", "dead"}]
  BY <1>1, Processed DEF IInv
<1>5. TypeOK'
  BY <1>1, <1>2, <1>4 DEF IInv, TypeOK, PcStates
<1>6. ProcInv'
  <2>1. CASE pc' = "returned"
    <3>1. UNCHANGED InGroup
      BY <1>1, <2>1 DEF InGroup
    <3>2. QED BY <1>1, <1>3, <2>1, <3>1 DEF ProcInv, BeforeSpawn, GroupSettled
  <2>2. CASE pc' = "spawned"
    <3>1. proc'[Child] = "running"
      BY <1>1, <2>2, Processed DEF IInv
    <3>2. QED BY <1>1, <1>3, <2>2, <3>1 DEF ProcInv, BeforeSpawn, GroupSettled
  <2>3. QED BY <1>1, <2>1, <2>2
<1>7. PollInv' /\ InputInv' /\ WakeInv'
  BY <1>1, <1>3 DEF IInv, PollInv, InputInv, WakeInv
<1>8. OutputInv'
  <2>1. \A o : Sent(o)' = Sent(o)
    BY <1>2 DEF Sent
  <2>2. QED BY <1>1, <1>3, <2>1 DEF IInv, OutputInv
<1>9. EndInv'
  BY <1>1, <1>2 DEF IInv, EndInv
<1>10. QED BY <1>2, <1>5, <1>6, <1>7, <1>8, <1>9 DEF IInv

\* Into the loop, out of it, and the guard: nothing but the outcome and what
\* is known of the processes changes.
LEMMA LeaveIInv ==
  ASSUME IInv, Setup \/ SystemError \/ Result \/ GuardKills \/ GuardReaps
  PROVE  IInv'
<1>1. UNCHANGED <<workerVars, cancelled, failure, timer, killed, group, callbacksFinished, closed,
                  stdin, input, polled, ready, reading, cancelRequested, toWrite, pipe, inputPipe,
                  consumer>>
  BY DEF Setup, SystemError, Result, GuardKills, GuardReaps, loopVars, pollVars, envVars
<1>2. /\ pc \in {"spawned", "poll", "service", "result", "guard", "reap"}
      /\ pc' \in {"guard", "check", "returned", "reap"}
      /\ pc' = "check" => pc = "spawned"
  BY DEF Setup, SystemError, Result, GuardKills, GuardReaps, Fail, Return
<1>3. /\ result' = "ok" => /\ pc = "result" /\ pc' = "returned" /\ ~cancelled /\ ~failure
                          \/ result = "ok"
      /\ result' \in {"none", "ok", "failed", "cancelled"}
  BY DEF Setup, SystemError, Result, GuardKills, GuardReaps, Fail, Return, IInv, TypeOK
<1>4. status' = status \/ (status' = (proc[Child] = "dead") /\ pc' = "check")
  BY DEF Setup, SystemError, Result, GuardKills, GuardReaps, loopVars
<1>5. /\ ProcMoves
      /\ proc' \in [Processes -> {"unborn", "running", "quiet", "escaped", "dead"}]
      /\ KillGroup \/ UNCHANGED proc
      /\ pc = "guard" => InGroup' = {}
  <2>1. CASE GuardKills
    BY <2>1, KillMoves DEF GuardKills, IInv
  <2>2. CASE Setup \/ SystemError \/ Result \/ GuardReaps
    <3>1. UNCHANGED proc /\ pc # "guard"
      BY <2>2 DEF Setup, SystemError, Result, GuardReaps, envVars
    <3>2. QED BY <3>1, SameProcMoves, Processed DEF IInv
  <2>3. QED BY <2>1, <2>2
<1>6. /\ Worker!IInv' /\ Callback!TypeOK' /\ UNCHANGED <<stopped, completion, sent>>
  BY <1>1, WorkerFrame DEF IInv
<1>7. TypeOK'
  <2>1. status' \in BOOLEAN
    BY <1>4 DEF IInv, TypeOK
  <2>2. pc' \in PcStates
    BY <1>2 DEF PcStates
  <2>3. QED BY <1>1, <1>3, <1>5, <1>6, <2>1, <2>2 DEF IInv, TypeOK
<1>8. ProcInv'
  <2>1. pc' \in {"reap", "returned"} => InGroup' = {}
    <3>1. CASE pc' = "returned" /\ pc = "result"
      <4>1. result' = "ok" /\ ~failure /\ UNCHANGED proc
        BY <3>1, <1>2 DEF Setup, SystemError, Result, GuardKills, GuardReaps, Fail, Return, envVars
      <4>2. GroupSettled
        BY <3>1, <4>1 DEF IInv, EndInv
      <4>3. InGroup = {}
        BY <4>2 DEF IInv, ProcInv
      <4>4. QED BY <1>5, <4>3 DEF ProcMoves
    <3>2. CASE pc = "reap"
      BY <1>5, <3>2 DEF IInv, ProcInv, ProcMoves
    <3>3. CASE pc = "guard"
      BY <1>5, <3>3
    <3>4. CASE pc' # "returned" /\ pc \notin {"reap", "guard"}
      BY <3>4 DEF Setup, SystemError, Result, GuardKills, GuardReaps, Fail, Return
    <3>5. pc' = "returned" => pc \in {"result", "reap"}
      BY DEF Setup, SystemError, Result, GuardKills, GuardReaps, Fail, Return
    <3>6. QED BY <3>1, <3>2, <3>3, <3>4, <3>5
  <2>2. GroupSettled' => GroupSettled
    BY <1>1, GroupKeep
  <2>3. status' => status \/ proc'[Child] = "dead"
    BY <1>4, <1>5 DEF ProcMoves
  <2>4. ProcInv
    BY DEF IInv
  <2>5. QED BY <1>1, <1>2, <1>5, <2>1, <2>2, <2>3, <2>4, ProcKeep DEF BeforeSpawn
<1>9. PollInv'
  BY <1>1, <1>2, <1>6 DEF IInv, PollInv, Callback!Completed
<1>10. InputInv'
  BY <1>1, <1>2, <1>5 DEF IInv, InputInv, ProcMoves
<1>11. OutputInv'
  BY <1>1, <1>5, <1>6, OutputKeep DEF IInv
<1>12. WakeInv'
  BY <1>2 DEF WakeInv
<1>13. EndInv'
  <2>1. GroupSettled' <=> GroupSettled
    BY <1>1, GroupKeep
  <2>2. OutputsClosed' <=> OutputsClosed
    BY <1>1 DEF OutputsClosed
  <2>3. result' = "ok" => pc = "result" /\ pc' = "returned" /\ ~cancelled /\ ~failure
    BY <1>2, <1>3 DEF IInv, EndInv
  <2>4. pc' # "check" => UNCHANGED status
    BY <1>4
  <2>5. QED BY <1>1, <1>2, <1>6, <2>1, <2>2, <2>3, <2>4 DEF IInv, EndInv
<1>14. QED BY <1>6, <1>7, <1>8, <1>9, <1>10, <1>11, <1>12, <1>13 DEF IInv

\* The two halves of the poll set, and the poll.
LEMMA PollIInv ==
  ASSUME IInv, ArmOutputs \/ ArmCallbacks \/ Poll \/ PollInterrupted \/ ServiceDone
  PROVE  IInv'
<1>1. UNCHANGED <<workerVars, cancelled, status, failure, timer, killed, group, callbacksFinished,
                  closed, stdin, input, reading, result, cancelRequested, proc, toWrite, pipe,
                  inputPipe, consumer>>
  BY DEF ArmOutputs, ArmCallbacks, Poll, PollInterrupted, ServiceDone, loopVars, envVars
<1>2. /\ \/ /\ pc = "armOutputs" /\ pc' = "armCallbacks" /\ ready' = ready
            /\ polled' = {d \in {"cancel"} : ~cancelled} \cup {d \in {"exit"} : ~status}
                         \cup {o \in Outputs : Readable(o)}
                         \cup {k \in Consumers : consumer[k] # "joined"}
         \/ /\ pc = "armCallbacks" /\ pc' = "poll" /\ ready' = ready
            /\ polled' = polled \cup {d \in {"callbacks"} : HasCallbacks /\ ~Callback!Completed}
                         \cup {d \in {"stdin"} : stdin}
                         \cup {d \in {"group"} : group.watched # {}}
         \/ /\ pc = "poll" /\ pc' = "service" /\ polled' = polled
            /\ ready' = {} \/ ready' = ReadyNow
         \/ /\ pc = "service" /\ pc' = "check" /\ ready' = ready /\ polled' = {}
            /\ ready = {} /\ reading = None
  BY DEF ArmOutputs, ArmCallbacks, Poll, PollInterrupted, ServiceDone
<1>3. /\ Worker!IInv' /\ Callback!TypeOK'
      /\ UNCHANGED <<free, closing, stopped, completion, worker, notified, sent>>
      /\ Callback!Completed' <=> Callback!Completed
      /\ Callback!CanSend' <=> Callback!CanSend
  BY <1>1, WorkerFrame DEF IInv
<1>4. ProcMoves /\ UNCHANGED <<InGroup, Holders>>
  BY <1>1, SameProcMoves DEF InGroup, Holders
<1>5. TypeOK'
  BY <1>1, <1>2, <1>3 DEF IInv, TypeOK, PcStates
<1>6. /\ "exit" \in ReadyNow => proc[Child] = "dead"
      /\ "stdin" \in ReadyNow => "stdin" \in polled /\ (inputPipe < PipeCapacity \/ Holders = {})
  BY SupervisorAssumption DEF ReadyNow, IsReady
<1>7. ProcInv'
  <2>1. "exit" \in ready' => "exit" \in ready \/ proc'[Child] = "dead"
    BY <1>1, <1>2, <1>6
  <2>2. GroupSettled' => GroupSettled
    BY <1>1, GroupKeep
  <2>3. ProcInv
    BY DEF IInv
  <2>4. QED BY <1>1, <1>2, <1>4, <2>1, <2>2, <2>3, ProcKeep DEF BeforeSpawn
<1>8. PollInv'
  <2>1. pc' = "armCallbacks" => "stdin" \notin polled'
    BY <1>2, SupervisorAssumption
  <2>2. pc' = "poll" /\ HasCallbacks /\ ~Callback!Completed => "callbacks" \in polled'
    BY <1>2
  <2>3. QED BY <1>1, <1>2, <1>3, <2>1, <2>2 DEF IInv, PollInv
<1>9. InputInv'
  <2>1. pc' = "poll" /\ "stdin" \in polled' => stdin /\ input > 0
    BY <1>2 DEF IInv, InputInv, PollInv
  <2>2. "stdin" \in ready' => (stdin /\ input > 0)
                             /\ (inputPipe < PipeCapacity \/ Holders = {})
    <3>1. ready' = ready \/ ready' = {} \/ (pc = "poll" /\ ready' = ReadyNow)
      BY <1>2
    <3>2. CASE ready' = ready
      BY <3>2 DEF IInv, InputInv
    <3>3. CASE pc = "poll" /\ ready' = ReadyNow
      BY <1>6, <3>3 DEF IInv, InputInv
    <3>4. CASE ready' = {}
      BY <3>4
    <3>5. QED BY <3>1, <3>2, <3>3, <3>4
  <2>3. pc' \in {"armCallbacks", "poll", "service", "check"}
        /\ (pc' = "armCallbacks" => pc = "armOutputs")
    BY <1>2
  <2>4. "stdin" \in ready' => inputPipe' < PipeCapacity \/ Holders' = {}
    BY <1>1, <1>4, <2>2
  <2>5. InputInv
    BY DEF IInv
  <2>6. pc' \in {"armOutputs", "armCallbacks"} /\ stdin' => input' > 0
    BY <1>1, <2>3, <2>5 DEF InputInv
  <2>7. stdin /\ input > 0 => stdin' /\ input' > 0
    <3>1. stdin => stdin'
      BY <1>1
    <3>2. input > 0 => input' > 0
      BY <1>1
    <3>3. QED BY <3>1, <3>2
  <2>8. (timer' # "none" => ~stdin') /\ (~stdin' => input' = 0 \/ failure' \/ cancelled')
    BY <1>1, <2>5 DEF InputInv
  <2>9. pc' = "poll" /\ "stdin" \in polled' => stdin' /\ input' > 0
    BY <2>1, <2>7
  <2>10. "stdin" \in ready' => stdin' /\ input' > 0
    BY <2>2, <2>7
  <2>11. pc' # "exit"
    BY <2>3
  <2>12. QED BY <2>4, <2>6, <2>8, <2>9, <2>10, <2>11, Zenon DEF InputInv
<1>10. OutputInv'
  BY <1>1, <1>3, <1>4, OutputKeep DEF IInv
<1>11. WakeInv'
  <2>1. CASE pc' = "armCallbacks"
    <3>1. \A o \in CallbackOutputs : o \notin closed \cup polled' => ~Callback!CanSend
      BY <1>2, <2>1, SupervisorAssumption DEF Readable
    <3>2. QED BY <1>1, <1>3, <3>1 DEF WakeInv
  <2>2. CASE pc' = "poll"
    <3>1. pc = "armCallbacks" /\ polled \subseteq polled'
      BY <1>2, <2>2
    <3>2. QED BY <1>1, <1>3, <3>1 DEF IInv, WakeInv
  <2>3. QED BY <2>1, <2>2 DEF WakeInv
<1>12. EndInv'
  <2>1. GroupSettled' <=> GroupSettled
    BY <1>1, GroupKeep
  <2>2. OutputsClosed' <=> OutputsClosed
    BY <1>1 DEF OutputsClosed
  <2>3. QED BY <1>1, <1>2, <1>3, <2>1, <2>2 DEF IInv, EndInv
<1>13. QED BY <1>3, <1>5, <1>7, <1>8, <1>9, <1>10, <1>11, <1>12 DEF IInv

------------------------------------------------------------------------------
(* The loop *)

LEMMA CheckIInv == ASSUME IInv, Check PROVE IInv'
<1> DEFINE failed == failure \/ CallbackFailed
           stopping == cancelled \/ cancelRequested
           arming == Arming(failed, stopping)
<1>1. /\ pc = "check" /\ pc' = "exit"
      /\ cancelled' = stopping
      /\ failure' = (failed \/ (arming /\ status /\ stdin /\ input > 0))
      /\ \/ arming /\ timer' = "set" /\ RefreshGroup /\ stdin' = FALSE
         \/ ~arming /\ UNCHANGED <<timer, group, stdin>>
      /\ CloseCallbacks
      /\ UNCHANGED <<status, killed, closed, input, polled, ready, reading, result,
                     cancelRequested, proc, toWrite, pipe, inputPipe, consumer>>
  BY DEF Check, pollVars, envVars
<1>2. /\ Worker!IInv' /\ Callback!TypeOK' /\ UNCHANGED <<stopped, sent>>
      /\ callbacksFinished' \in {callbacksFinished, TRUE}
  <2>1. CASE ~callbacksFinished /\ closed = Outputs /\ HasCallbacks
    <3>1. Worker!Finish /\ callbacksFinished' = TRUE
      BY <1>1, <2>1, SameWorker DEF CloseCallbacks
    <3>2. Worker!IInv' /\ Callback!TypeOK'
      BY <3>1, WorkerAssumption, WorkerTypes, Worker!SignalIInv DEF IInv
    <3>3. QED BY <3>1, <3>2 DEF Worker!Finish
  <2>2. CASE ~(~callbacksFinished /\ closed = Outputs /\ HasCallbacks)
    <3>1. UNCHANGED workerVars /\ callbacksFinished' \in {callbacksFinished, TRUE}
      BY <1>1, <2>2 DEF CloseCallbacks
    <3>2. QED BY <3>1, WorkerFrame DEF IInv
  <2>3. QED BY <2>1, <2>2
<1>3. ProcMoves /\ UNCHANGED <<InGroup, Holders>>
  BY <1>1, SameProcMoves DEF InGroup, Holders
<1>4. /\ timer' \in {timer, "set"}
      /\ timer = "none" /\ timer' # "none" => arming /\ stdin' = FALSE
      /\ timer' = "none" => ~arming
      /\ stdin' \in {stdin, FALSE}
  BY <1>1 DEF Arming
<1>5. /\ group' \in [known : BOOLEAN, live : BOOLEAN, watched : SUBSET Descendants]
      /\ group'.known /\ ~group'.live => InGroup = {} \/ (group.known /\ ~group.live)
  BY <1>1, GroupTyped DEF IInv, TypeOK
<1>6. TypeOK'
  <2>1. cancelled' \in BOOLEAN /\ failure' \in BOOLEAN
    BY <1>1
  <2>2. callbacksFinished' \in BOOLEAN /\ stdin' \in BOOLEAN
    BY <1>2, <1>4 DEF IInv, TypeOK
  <2>3. timer' \in {"none", "set", "expired"}
    BY <1>4 DEF IInv, TypeOK
  <2>4. pc' \in PcStates
    BY <1>1 DEF PcStates
  <2>5. QED BY <1>1, <1>2, <1>5, <2>1, <2>2, <2>3, <2>4 DEF IInv, TypeOK
<1>7. ProcInv'
  <2>1. GroupSettled' => GroupSettled \/ InGroup' = {}
    BY <1>1, <1>3, <1>5 DEF GroupSettled
  <2>2. ProcInv
    BY DEF IInv
  <2>3. QED BY <1>1, <1>3, <2>1, <2>2, ProcKeep DEF BeforeSpawn
<1>8. PollInv'
  BY <1>1 DEF IInv, PollInv
<1>9. InputInv'
  <2>1. "stdin" \notin ready
    BY <1>1 DEF IInv, PollInv
  <2>2. timer' # "none" => ~stdin'
    BY <1>1, <1>4 DEF IInv, InputInv
  <2>3. ~stdin' => input = 0 \/ failure' \/ cancelled'
    <3>1. CASE ~stdin
      BY <1>1, <3>1 DEF IInv, InputInv
    <3>2. CASE stdin /\ ~stdin'
      <4>1. arming
        BY <1>1, <3>2
      <4>2. status \/ stopping \/ failed
        BY <4>1 DEF Arming
      <4>3. input > 0 \/ input = 0
        BY DEF IInv, TypeOK
      <4>4. /\ failed => failure' = TRUE
            /\ stopping => cancelled' = TRUE
            /\ status /\ input > 0 => failure' = TRUE
        BY <1>1, <3>2, <4>1
      <4>5. QED BY <4>2, <4>3, <4>4, Zenon
    <3>3. QED BY <3>1, <3>2
  <2>4. status => timer' # "none"
    BY <1>1, <1>4 DEF Arming
  <2>5. QED BY <1>1, <2>1, <2>2, <2>3, <2>4 DEF InputInv
<1>10. OutputInv'
  <2>1. failure => failure'
    BY <1>1
  <2>2. QED BY <1>1, <1>2, <1>3, <2>1, OutputKeep DEF IInv
<1>11. WakeInv'
  BY <1>1 DEF WakeInv
<1>12. EndInv'
  BY <1>1, <1>2, EndKeep DEF IInv, EndInv
<1>13. QED BY <1>2, <1>6, <1>7, <1>8, <1>9, <1>10, <1>11, <1>12 DEF IInv

LEMMA ExitIInv == ASSUME IInv, Exit PROVE IInv'
<1>1. /\ pc = "exit" /\ pc' \in {"join", "armOutputs"}
      /\ \/ /\ pc' = "join" /\ Settled
            /\ UNCHANGED <<failure, timer, killed, proc, stdin>>
         \/ /\ pc' = "join" /\ failure' = TRUE
            /\ UNCHANGED <<timer, killed, proc, stdin>>
         \/ /\ pc' = "armOutputs" /\ timer = "expired" /\ timer' = "set" /\ killed' = TRUE
            /\ KillGroup /\ KeepInput /\ UNCHANGED failure
         \/ /\ pc' = "armOutputs" /\ KeepInput
            /\ UNCHANGED <<failure, timer, killed, proc>>
      /\ UNCHANGED <<workerVars, cancelled, status, group, callbacksFinished, closed, input,
                     polled, ready, reading, result, cancelRequested, toWrite, pipe, inputPipe,
                     consumer>>
  BY DEF Exit, pollVars
<1>2. /\ Worker!IInv' /\ Callback!TypeOK' /\ UNCHANGED <<stopped, sent>>
  BY <1>1, WorkerFrame DEF IInv
<1>3. /\ ProcMoves
      /\ proc' \in [Processes -> {"unborn", "running", "quiet", "escaped", "dead"}]
      /\ killed' # killed => InGroup' = {}
  <2>1. CASE KillGroup
    BY <2>1, KillMoves DEF IInv
  <2>2. CASE UNCHANGED <<killed, proc>>
    BY <2>2, SameProcMoves, Processed DEF IInv
  <2>3. QED BY <1>1, <2>1, <2>2
<1>4. /\ stdin' = stdin \/ stdin' = (stdin /\ input > 0)
      /\ pc' = "armOutputs" => stdin' = (stdin /\ input > 0)
      /\ timer' = timer \/ (timer = "expired" /\ timer' = "set")
      /\ failure' = failure \/ failure' = TRUE
      /\ killed' = killed \/ killed' = TRUE
      /\ pc' = "join" => UNCHANGED <<stdin, killed>>
      /\ pc' = "join" => Settled \/ failure' = TRUE
  BY <1>1 DEF KeepInput
<1>5. TypeOK'
  <2>1. stdin' \in BOOLEAN
    BY <1>4 DEF IInv, TypeOK
  <2>2. failure' \in BOOLEAN /\ killed' \in BOOLEAN
    BY <1>4 DEF IInv, TypeOK
  <2>3. timer' \in {"none", "set", "expired"} /\ pc' \in PcStates
    BY <1>1, <1>4 DEF IInv, TypeOK, PcStates
  <2>4. QED BY <1>1, <1>2, <1>3, <2>1, <2>2, <2>3 DEF IInv, TypeOK
<1>6. ProcInv'
  <2>1. GroupSettled' => GroupSettled \/ InGroup' = {}
    BY <1>1, <1>3 DEF GroupSettled
  <2>2. ProcInv
    BY DEF IInv
  <2>3. QED BY <1>1, <1>3, <2>1, <2>2, ProcKeep DEF BeforeSpawn
<1>7. PollInv'
  BY <1>1 DEF IInv, PollInv
<1>8. InputInv'
  <2>1. "stdin" \notin ready
    BY <1>1 DEF IInv, PollInv
  <2>2. timer' # "none" => ~stdin'
    BY <1>4 DEF IInv, InputInv
  <2>3. ~stdin' => input = 0 \/ failure' \/ cancelled'
    <3>1. input > 0 \/ input = 0
      BY DEF IInv, TypeOK
    <3>2. ~stdin' => ~stdin \/ input = 0
      BY <1>4, <3>1, Zenon
    <3>3. QED BY <1>1, <1>4, <3>2 DEF IInv, InputInv
  <2>4. QED BY <1>1, <1>4, <2>1, <2>2, <2>3 DEF InputInv
<1>9. OutputInv'
  <2>1. failure => failure'
    BY <1>4
  <2>2. QED BY <1>1, <1>2, <1>3, <2>1, OutputKeep DEF IInv
<1>10. WakeInv'
  BY <1>1 DEF WakeInv
<1>11. EndInv'
  <2>1. CASE pc' = "armOutputs"
    BY <1>1, <1>2, <1>4, <2>1, EndKeep DEF IInv, EndInv
  <2>2. CASE pc' = "join"
    <3>1. OutputsClosed' <=> OutputsClosed
      BY <1>1 DEF OutputsClosed
    <3>2. GroupSettled' <=> GroupSettled
      BY <1>1, <1>4, <2>2, GroupKeep
    <3>3. Settled =>
            failure \/ (status /\ OutputsClosed /\ GroupSettled /\ (input = 0 \/ cancelled))
      BY <1>1 DEF Settled, IInv, InputInv
    <3>4. QED BY <1>1, <1>2, <1>4, <2>2, <3>1, <3>2, <3>3 DEF IInv, EndInv
  <2>3. QED BY <1>1, <2>1, <2>2
<1>12. QED BY <1>2, <1>5, <1>6, <1>7, <1>8, <1>9, <1>10, <1>11 DEF IInv

\* What every handler of a ready descriptor but an output's leaves alone.
LEMMA ServiceKeep ==
  ASSUME IInv, pc = "service", pc' = "service", ready' \subseteq ready,
         UNCHANGED <<cancelled, timer, killed, callbacksFinished, closed, polled, result,
                     cancelRequested, proc, toWrite, pipe, sent, stopped>>,
         Worker!IInv', Callback!TypeOK', failure => failure', reading' \notin closed,
         failure' \in BOOLEAN, status' \in BOOLEAN, stdin' \in BOOLEAN,
         input' \in 0 .. InputChunks, inputPipe' \in 0 .. PipeCapacity,
         reading' \in Outputs \cup {None},
         consumer' \in [Consumers -> {"reading", "done", "broken", "joined"}],
         group' \in [known : BOOLEAN, live : BOOLEAN, watched : SUBSET Descendants],
         status' => status \/ "exit" \in ready,
         GroupSettled' => GroupSettled \/ InGroup' = {},
         \/ UNCHANGED <<stdin, input, inputPipe>>
         \/ /\ "stdin" \notin ready'
            /\ timer # "none" => ~stdin'
            /\ ~stdin' => input' = 0 \/ failure' \/ cancelled
  PROVE  IInv'
<1>1. ProcMoves /\ UNCHANGED <<InGroup, Holders>>
  BY SameProcMoves DEF InGroup, Holders
<1>2. TypeOK'
  BY DEF IInv, TypeOK, PcStates
<1>3. ProcInv'
  <2>1. ProcInv
    BY DEF IInv
  <2>2. status' \/ "exit" \in ready' => status \/ "exit" \in ready
    OBVIOUS
  <2>3. QED BY <1>1, <2>1, <2>2, ProcKeep DEF BeforeSpawn
<1>4. PollInv'
  BY DEF PollInv
<1>5. InputInv'
  <2>1. CASE UNCHANGED <<stdin, input, inputPipe>>
    <3>1. "stdin" \in ready' => (stdin /\ input > 0)
                                /\ (inputPipe < PipeCapacity \/ Holders = {})
      BY DEF IInv, InputInv
    <3>2. timer' # "none" => ~stdin'
      BY <2>1 DEF IInv, InputInv
    <3>3. ~stdin' => input' = 0 \/ failure' \/ cancelled'
      BY <2>1 DEF IInv, InputInv
    <3>4. "stdin" \in ready' => (stdin' /\ input' > 0)
                                /\ (inputPipe' < PipeCapacity \/ Holders' = {})
      BY <1>1, <2>1, <3>1
    <3>5. QED BY <3>2, <3>3, <3>4 DEF InputInv
  <2>2. CASE ~UNCHANGED <<stdin, input, inputPipe>>
    BY <2>2 DEF InputInv
  <2>3. QED BY <2>1, <2>2
<1>6. OutputInv'
  BY <1>1, OutputKeep DEF IInv
<1>7. WakeInv'
  BY DEF WakeInv
<1>8. EndInv'
  BY EndKeep DEF IInv, EndInv
<1>9. QED BY <1>2, <1>3, <1>4, <1>5, <1>6, <1>7, <1>8 DEF IInv

LEMMA ServiceSignalsIInv ==
  ASSUME IInv, \/ ServiceCancel \/ ServiceChild
               \/ \E o \in Outputs : ServiceOutput(o)
               \/ \E k \in Consumers : ServiceConsumer(k)
  PROVE  IInv'
<1>1. /\ UNCHANGED <<workerVars, pc, cancelled, timer, killed, callbacksFinished, closed, stdin,
                     input, polled, result, cancelRequested, proc, toWrite, pipe, inputPipe>>
      /\ pc = "service" /\ reading = None /\ ready' \subseteq ready
  BY DEF ServiceCancel, ServiceChild, ServiceOutput, ServiceConsumer, InTurn, Serviced,
         loopVars, envVars
<1>2. Worker!IInv' /\ Callback!TypeOK' /\ UNCHANGED <<sent, stopped>>
  BY <1>1, WorkerFrame DEF IInv
<1>3. /\ failure' \in BOOLEAN /\ (failure => failure')
      /\ consumer' \in [Consumers -> {"reading", "done", "broken", "joined"}]
  <2>1. CASE UNCHANGED <<failure, consumer>>
    BY <2>1 DEF IInv, TypeOK
  <2>2. CASE \E k \in Consumers : ServiceConsumer(k)
    <3>1. PICK k \in Consumers : consumer' = [consumer EXCEPT ![k] = "joined"]
                                 /\ failure' = (failure \/ consumer[k] = "broken")
      BY <2>2 DEF ServiceConsumer
    <3>2. failure' \in BOOLEAN /\ (failure => failure')
      BY <3>1
    <3>3. QED BY <3>1, <3>2 DEF IInv, TypeOK
  <2>3. QED BY <2>1, <2>2 DEF ServiceCancel, ServiceChild, ServiceOutput, loopVars, envVars
<1>4. /\ status' \in BOOLEAN /\ (status' => status \/ "exit" \in ready)
      /\ group' \in [known : BOOLEAN, live : BOOLEAN, watched : SUBSET Descendants]
      /\ GroupSettled' => GroupSettled \/ InGroup' = {}
  <2>1. CASE UNCHANGED <<status, group>>
    BY <1>1, <2>1, GroupKeep DEF IInv, TypeOK
  <2>2. CASE ServiceChild
    <3>1. status' = (status \/ "exit" \in ready)
          /\ (group' = group \/ RefreshGroup)
      BY <2>2 DEF ServiceChild
    <3>2. status' \in BOOLEAN /\ (status' => status \/ "exit" \in ready)
      BY <3>1
    <3>3. CASE group' = group
      BY <1>1, <3>2, <3>3, GroupKeep DEF IInv, TypeOK
    <3>4. CASE RefreshGroup
      <4>1. UNCHANGED InGroup
        BY <1>1 DEF InGroup
      <4>2. QED BY <1>1, <3>2, <3>4, <4>1, GroupTyped DEF IInv, GroupSettled
    <3>5. QED BY <3>1, <3>3, <3>4
  <2>3. QED BY <2>1, <2>2 DEF ServiceCancel, ServiceConsumer, ServiceOutput, loopVars
<1>5. reading' \in Outputs \cup {None} /\ reading' \notin closed
  <2>1. CASE reading' = reading
    BY <1>1, <2>1 DEF IInv, PollInv
  <2>2. CASE \E o \in Outputs : ServiceOutput(o)
    <3>1. None \notin closed
      BY <1>1 DEF IInv, PollInv
    <3>2. QED BY <2>2, <3>1 DEF ServiceOutput, Readable
  <2>3. QED BY <2>1, <2>2 DEF ServiceCancel, ServiceChild, ServiceConsumer
<1>6. stdin \in BOOLEAN /\ input \in 0 .. InputChunks /\ inputPipe \in 0 .. PipeCapacity
  BY DEF IInv, TypeOK
<1>7. QED BY <1>1, <1>2, <1>3, <1>4, <1>5, <1>6, ServiceKeep

LEMMA ServiceCallbacksIInv == ASSUME IInv, ServiceCallbacks PROVE IInv'
<1>1. /\ UNCHANGED <<pc, cancelled, status, timer, killed, group, callbacksFinished, closed, stdin,
                     input, polled, reading, result, cancelRequested, proc, toWrite, pipe,
                     inputPipe, consumer>>
      /\ pc = "service" /\ reading = None /\ ready' \subseteq ready /\ Worker!Drain
      /\ failure' = (failure \/ completion = "Panicked")
  BY SameWorker DEF ServiceCallbacks, InTurn, Serviced, envVars
<1>2. Worker!IInv' /\ Callback!TypeOK' /\ UNCHANGED <<sent, stopped>>
  BY <1>1, WorkerAssumption, WorkerTypes, Worker!SignalIInv DEF IInv, Worker!Drain
<1>3. failure' \in BOOLEAN /\ (failure => failure')
  BY <1>1
<1>4. GroupSettled' => GroupSettled
  BY <1>1, GroupKeep
<1>5. /\ status \in BOOLEAN /\ stdin \in BOOLEAN /\ input \in 0 .. InputChunks
      /\ inputPipe \in 0 .. PipeCapacity /\ reading \in Outputs \cup {None}
      /\ consumer \in [Consumers -> {"reading", "done", "broken", "joined"}]
      /\ group \in [known : BOOLEAN, live : BOOLEAN, watched : SUBSET Descendants]
      /\ reading \notin closed
  BY DEF IInv, TypeOK, PollInv
<1>6. QED BY <1>1, <1>2, <1>3, <1>4, <1>5, ServiceKeep

LEMMA ServiceInputIInv == ASSUME IInv, ServiceInput PROVE IInv'
<1>1. /\ UNCHANGED <<workerVars, pc, cancelled, status, timer, killed, group, callbacksFinished,
                     closed, polled, reading, result, cancelRequested, proc, toWrite, pipe,
                     consumer>>
      /\ pc = "service" /\ "stdin" \in ready /\ ready' = ready \ {"stdin"}
      /\ \/ /\ Holders # {} /\ input' = input - 1 /\ inputPipe' = inputPipe + 1
            /\ UNCHANGED <<stdin, failure>>
         \/ /\ failure' = TRUE /\ stdin' = FALSE
            /\ UNCHANGED <<input, inputPipe>>
  BY DEF ServiceInput, InTurn, Serviced
<1>2. Worker!IInv' /\ Callback!TypeOK' /\ UNCHANGED <<sent, stopped>>
  BY <1>1, WorkerFrame DEF IInv
<1>3. /\ failure' \in BOOLEAN /\ (failure => failure')
      /\ stdin' \in BOOLEAN /\ (stdin' = stdin \/ (stdin' = FALSE /\ failure' = TRUE))
  <2>1. failure \in BOOLEAN /\ stdin \in BOOLEAN
    BY DEF IInv, TypeOK
  <2>2. CASE UNCHANGED <<stdin, failure>>
    BY <2>1, <2>2
  <2>3. CASE failure' = TRUE /\ stdin' = FALSE
    BY <2>3
  <2>4. QED BY <1>1, <2>2, <2>3
<1>4. /\ stdin /\ input > 0 /\ timer = "none"
      /\ Holders # {} => inputPipe < PipeCapacity
  BY <1>1 DEF IInv, InputInv
<1>5. input' \in 0 .. InputChunks /\ inputPipe' \in 0 .. PipeCapacity
  <2>1. /\ input \in 0 .. InputChunks /\ inputPipe \in 0 .. PipeCapacity
        /\ InputChunks \in Nat /\ PipeCapacity \in Nat
    BY SupervisorAssumption DEF IInv, TypeOK
  <2>2. CASE UNCHANGED <<input, inputPipe>>
    BY <2>1, <2>2
  <2>3. CASE Holders # {} /\ input' = input - 1 /\ inputPipe' = inputPipe + 1
    BY <1>4, <2>1, <2>3
  <2>4. QED BY <1>1, <2>2, <2>3
<1>6. GroupSettled' => GroupSettled
  BY <1>1, GroupKeep
<1>7. /\ status \in BOOLEAN /\ reading \in Outputs \cup {None}
      /\ consumer \in [Consumers -> {"reading", "done", "broken", "joined"}]
      /\ group \in [known : BOOLEAN, live : BOOLEAN, watched : SUBSET Descendants]
      /\ reading \notin closed
  BY DEF IInv, TypeOK, PollInv
<1>8. /\ "stdin" \notin ready' /\ ready' \subseteq ready
      /\ timer # "none" => ~stdin'
      /\ ~stdin' => input' = 0 \/ failure' \/ cancelled
  BY <1>1, <1>3, <1>4
<1>9. QED BY <1>1, <1>2, <1>3, <1>5, <1>6, <1>7, <1>8, ServiceKeep

LEMMA JoinIInv == ASSUME IInv, Join \/ JoinTimesOut PROVE IInv'
<1>1. /\ pc = "join" /\ pc' \in {"join", "result"}
      /\ UNCHANGED <<cancelled, status, timer, killed, group, callbacksFinished, closed, stdin,
                     input, polled, ready, reading, result, cancelRequested, proc, toWrite, pipe,
                     inputPipe, consumer>>
  BY DEF Join, JoinTimesOut, pollVars, envVars
<1>2. /\ failure' \in BOOLEAN /\ (failure => failure')
      /\ Worker!IInv' /\ Callback!TypeOK' /\ UNCHANGED sent
      /\ stopped' => stopped \/ failure'
      /\ pc' = "result" => failure' \/ ~HasCallbacks \/ completion' = "Finished"
  <2>1. CASE Worker!Finish /\ UNCHANGED <<pc, failure>>
    <3>1. Worker!IInv' /\ Callback!TypeOK' /\ UNCHANGED <<sent, stopped>>
      BY <2>1, WorkerAssumption, WorkerTypes, Worker!SignalIInv DEF IInv, Worker!Finish
    <3>2. QED BY <1>1, <2>1, <3>1 DEF IInv, TypeOK
  <2>2. CASE Worker!Stop /\ failure' = TRUE
    <3>1. Worker!IInv' /\ Callback!TypeOK' /\ UNCHANGED sent
      BY <2>2, WorkerAssumption, WorkerTypes, Worker!SignalIInv DEF IInv, Worker!Stop
    <3>2. QED BY <2>2, <3>1
  <2>3. CASE ~HasCallbacks /\ UNCHANGED <<workerVars, failure>>
    <3>1. Worker!IInv' /\ Callback!TypeOK' /\ UNCHANGED <<sent, stopped>>
      BY <2>3, WorkerFrame DEF IInv
    <3>2. QED BY <2>3, <3>1 DEF IInv, TypeOK
  <2>4. CASE /\ Callback!Completed /\ UNCHANGED workerVars
             /\ failure' = (failure \/ completion = "Panicked")
    <3>1. Worker!IInv' /\ Callback!TypeOK' /\ UNCHANGED <<sent, stopped, completion>>
      BY <2>4, WorkerFrame DEF IInv
    <3>2. completion \in {"Finished", "Panicked"}
      BY <2>4 DEF Callback!Completed, IInv, TypeOK, Callback!TypeOK, Callback!CompletionStatus
    <3>3. /\ failure' \in BOOLEAN /\ (failure => failure')
          /\ completion = "Panicked" => failure'
      BY <2>4
    <3>4. QED BY <3>1, <3>2, <3>3
  <2>5. QED BY <2>1, <2>2, <2>3, <2>4, SameWorker DEF Join, JoinTimesOut
<1>3. ProcMoves /\ UNCHANGED <<InGroup, Holders>>
  BY <1>1, SameProcMoves DEF InGroup, Holders
<1>4. TypeOK'
  BY <1>1, <1>2 DEF IInv, TypeOK, PcStates
<1>5. ProcInv'
  <2>1. GroupSettled' => GroupSettled
    BY <1>1, GroupKeep
  <2>2. ProcInv
    BY DEF IInv
  <2>3. QED BY <1>1, <1>3, <2>1, <2>2, ProcKeep DEF BeforeSpawn
<1>6. PollInv'
  BY <1>1 DEF IInv, PollInv
<1>7. InputInv'
  <2>1. "stdin" \notin ready
    BY <1>1 DEF IInv, PollInv
  <2>2. timer' # "none" => ~stdin'
    BY <1>1 DEF IInv, InputInv
  <2>3. ~stdin' => input' = 0 \/ failure' \/ cancelled'
    BY <1>1, <1>2 DEF IInv, InputInv
  <2>4. QED BY <1>1, <2>1, <2>2, <2>3 DEF InputInv
<1>8. OutputInv'
  BY <1>1, <1>2, <1>3, OutputKeep DEF IInv
<1>9. WakeInv'
  BY <1>1 DEF WakeInv
<1>10. EndInv'
  <2>1. OutputsClosed' <=> OutputsClosed
    BY <1>1 DEF OutputsClosed
  <2>2. GroupSettled' <=> GroupSettled
    BY <1>1, GroupKeep
  <2>3. stopped' => failure'
    BY <1>2 DEF IInv, EndInv
  <2>4. result' # "ok"
    BY <1>1 DEF IInv, EndInv
  <2>5. failure \/ (status /\ OutputsClosed /\ GroupSettled /\ (input = 0 \/ cancelled))
    BY <1>1 DEF IInv, EndInv
  <2>6. failure' \/ (status' /\ OutputsClosed' /\ GroupSettled' /\ (input' = 0 \/ cancelled'))
    BY <1>1, <1>2, <2>1, <2>2, <2>5
  <2>7. QED BY <1>1, <1>2, <2>3, <2>4, <2>6 DEF EndInv
<1>11. QED BY <1>2, <1>4, <1>5, <1>6, <1>7, <1>8, <1>9, <1>10 DEF IInv

------------------------------------------------------------------------------
(* The environment and the worker *)

\* Nothing of the supervisor's changes, except that its timer may fire.
LEMMA EnvironmentKeep ==
  ASSUME IInv,
         UNCHANGED <<workerVars, pc, cancelled, status, failure, killed, group, callbacksFinished,
                     closed, stdin, input, polled, ready, reading, result>>,
         ProcMoves, TypeOK', OutputInv', timer = "none" <=> timer' = "none",
         OutputsClosed => OutputsClosed', inputPipe' <= inputPipe
  PROVE  IInv'
<1>1. /\ Worker!IInv' /\ UNCHANGED <<stopped, completion, worker, notified>>
      /\ Callback!Completed' <=> Callback!Completed
      /\ Callback!CanSend' <=> Callback!CanSend
  BY WorkerFrame DEF IInv
<1>2. GroupSettled' <=> GroupSettled
  BY GroupKeep
<1>3. ProcInv'
  BY <1>2, ProcKeep DEF IInv
<1>4. PollInv'
  BY <1>1 DEF IInv, PollInv
<1>5. InputInv'
  <2>1. "stdin" \in ready => (inputPipe < PipeCapacity \/ Holders = {})
    BY DEF IInv, InputInv
  <2>2. inputPipe \in Nat /\ inputPipe' \in Nat /\ PipeCapacity \in Nat
    BY SupervisorAssumption DEF IInv, TypeOK
  <2>3. "stdin" \in ready' => (inputPipe' < PipeCapacity \/ Holders' = {})
    BY <2>1, <2>2 DEF ProcMoves
  <2>4. InputInv
    BY DEF IInv
  <2>5. timer' # "none" => ~stdin'
    BY <2>4 DEF InputInv
  <2>6. "stdin" \in ready' => (stdin' /\ input' > 0)
    BY <2>4 DEF InputInv
  <2>7. pc' = "exit" /\ status' => timer' # "none"
    BY <2>4 DEF InputInv
  <2>8. QED BY <2>3, <2>4, <2>5, <2>6, <2>7 DEF InputInv
<1>6. WakeInv'
  BY <1>1 DEF IInv, WakeInv
<1>7. EndInv'
  BY <1>1, <1>2 DEF IInv, EndInv
<1>8. QED BY <1>1, <1>3, <1>4, <1>5, <1>6, <1>7 DEF IInv

LEMMA ProcessIInv ==
  ASSUME IInv,
         \/ \E d \in Descendants : Fork(d) \/ Redirect(d) \/ Escape(d)
         \/ \E p \in Processes : Die(p)
  PROVE  IInv'
<1>1. ProcMoves /\ UNCHANGED otherThanProc
      /\ proc' \in [Processes -> {"unborn", "running", "quiet", "escaped", "dead"}]
  BY ProcessMoves DEF IInv
<1>2. UNCHANGED <<workerVars, pc, cancelled, status, failure, timer, killed, group,
                  callbacksFinished, closed, stdin, input, polled, ready, reading, result,
                  cancelRequested, toWrite, pipe, inputPipe, consumer>>
  BY <1>1 DEF otherThanProc, loopVars, pollVars
<1>3. Callback!TypeOK' /\ UNCHANGED sent
  BY <1>2, WorkerFrame DEF IInv
<1>4. TypeOK'
  BY <1>1, <1>2, <1>3 DEF IInv, TypeOK
<1>5. OutputInv'
  BY <1>1, <1>2, <1>3, OutputKeep DEF IInv
<1>6. OutputsClosed => OutputsClosed'
  BY <1>2 DEF OutputsClosed
<1>7. inputPipe' <= inputPipe
  BY <1>2 DEF IInv, TypeOK
<1>8. QED BY <1>1, <1>2, <1>4, <1>5, <1>6, <1>7, EnvironmentKeep

LEMMA SignalIInv ==
  ASSUME IInv,
         RequestCancel \/ TimerFires \/ ChildReads \/ (\E k \in Consumers : ConsumerEnds(k))
  PROVE  IInv'
<1>1. UNCHANGED <<workerVars, pc, cancelled, status, failure, killed, group, callbacksFinished,
                  closed, stdin, input, polled, ready, reading, result, proc, toWrite, pipe>>
  BY DEF RequestCancel, TimerFires, ChildReads, ConsumerEnds, loopVars, pollVars, envVars
<1>2. Callback!TypeOK' /\ UNCHANGED sent
  BY <1>1, WorkerFrame DEF IInv
<1>3. /\ timer = "none" <=> timer' = "none"
      /\ timer' \in {"none", "set", "expired"}
  BY DEF RequestCancel, TimerFires, ChildReads, ConsumerEnds, loopVars, IInv, TypeOK
<1>4. /\ inputPipe' <= inputPipe
      /\ inputPipe' \in 0 .. PipeCapacity
  <2>1. inputPipe \in 0 .. PipeCapacity /\ PipeCapacity \in Nat
    BY SupervisorAssumption DEF IInv, TypeOK
  <2>2. inputPipe' = inputPipe \/ (inputPipe > 0 /\ inputPipe' = inputPipe - 1)
    BY DEF RequestCancel, TimerFires, ChildReads, ConsumerEnds, envVars
  <2>3. QED BY <2>1, <2>2
<1>5. cancelRequested' \in BOOLEAN
  <2>1. cancelRequested' = cancelRequested \/ cancelRequested' = TRUE
    BY DEF RequestCancel, TimerFires, ChildReads, ConsumerEnds, envVars
  <2>2. QED BY <2>1 DEF IInv, TypeOK
<1>6. /\ consumer' \in [Consumers -> {"reading", "done", "broken", "joined"}]
      /\ OutputsClosed => OutputsClosed'
  <2>1. CASE UNCHANGED consumer
    BY <1>1, <2>1 DEF OutputsClosed, IInv, TypeOK
  <2>2. CASE \E k \in Consumers : ConsumerEnds(k)
    <3>1. PICK k \in Consumers : /\ consumer[k] = "reading"
                                 /\ \/ consumer' = [consumer EXCEPT ![k] = "done"]
                                    \/ consumer' = [consumer EXCEPT ![k] = "broken"]
      BY <2>2 DEF ConsumerEnds
    <3>2. ~OutputsClosed
      BY <3>1 DEF OutputsClosed
    <3>3. QED BY <3>1, <3>2 DEF IInv, TypeOK
  <2>3. QED BY <2>1, <2>2 DEF RequestCancel, TimerFires, ChildReads, envVars
<1>7. TypeOK'
  BY <1>1, <1>2, <1>3, <1>4, <1>5, <1>6 DEF IInv, TypeOK
<1>8. ProcMoves
  BY <1>1, SameProcMoves
<1>9. OutputInv'
  BY <1>1, <1>2, <1>8, OutputKeep DEF IInv
<1>10. QED BY <1>1, <1>3, <1>4, <1>6, <1>7, <1>8, <1>9, EnvironmentKeep

LEMMA ChildWritesIInv == ASSUME IInv, NEW o \in Outputs, ChildWrites(o) PROVE IInv'
<1>1. /\ proc[Child] = "running" /\ toWrite[o] > 0 /\ pipe[o] < PipeCapacity
      /\ toWrite' = [toWrite EXCEPT ![o] = @ - 1]
      /\ pipe' = [pipe EXCEPT ![o] = @ + 1]
      /\ UNCHANGED <<workerVars, pc, cancelled, status, failure, timer, killed, group,
                     callbacksFinished, closed, stdin, input, polled, ready, reading, result,
                     cancelRequested, proc, inputPipe, consumer>>
  BY DEF ChildWrites, loopVars, pollVars
<1>2. Callback!TypeOK' /\ UNCHANGED sent
  BY <1>1, WorkerFrame DEF IInv
<1>3. /\ toWrite \in [Outputs -> 0 .. Chunks] /\ pipe \in [Outputs -> 0 .. PipeCapacity]
      /\ Chunks \in Nat /\ PipeCapacity \in Nat
  BY SupervisorAssumption DEF IInv, TypeOK
<1>4. /\ toWrite' \in [Outputs -> 0 .. Chunks] /\ pipe' \in [Outputs -> 0 .. PipeCapacity]
      /\ \A u \in Outputs : toWrite'[u] + pipe'[u] = toWrite[u] + pipe[u]
  BY <1>1, <1>3
<1>5. TypeOK'
  BY <1>1, <1>2, <1>4 DEF IInv, TypeOK
<1>6. ProcMoves
  BY <1>1, SameProcMoves
<1>7. OutputInv'
  <2>1. Child \in Holders
    BY <1>1, Processed DEF IInv, Holders
  <2>2. ~failure => closed = {}
    <3>1. closed \subseteq Outputs
      BY DEF IInv, TypeOK
    <3>2. ~failure => \A u \in closed : Holders = {}
      BY DEF IInv, OutputInv
    <3>3. QED BY <2>1, <3>1, <3>2
  <2>3. \A u \in CallbackOutputs : Sent(u)' = Sent(u) /\ u \in Outputs
                                  /\ Cardinality(Sent(u)) \in Nat
    <3>1. ASSUME NEW u PROVE Cardinality(Sent(u)) \in Nat
      <4>1. Len(sent) \in Nat
        BY LenProperties DEF IInv, TypeOK, Callback!TypeOK
      <4>2. IsFiniteSet(1 .. Len(sent)) /\ Sent(u) \in SUBSET (1 .. Len(sent))
        BY <4>1, FS_Interval DEF Sent
      <4>3. QED BY <4>2, FS_Subset, FS_CardinalityType
    <3>2. QED BY <1>2, <3>1, SupervisorAssumption DEF Sent
  <2>4. \A u \in Outputs : toWrite'[u] + pipe'[u] <= Chunks
    BY <1>4 DEF IInv, OutputInv
  <2>5. ~failure' => \A u \in closed' : pipe'[u] = 0 /\ Holders' = {} /\ proc'[Child] # "unborn"
    BY <1>1, <2>2
  <2>6. ASSUME NEW u \in CallbackOutputs
        PROVE  LET owed == Chunks + (IF u \in closed' THEN 1 ELSE 0) IN
                 /\ Cardinality(Sent(u)') + toWrite'[u] + pipe'[u] <= owed
                 /\ ~failure' => Cardinality(Sent(u)') + toWrite'[u] + pipe'[u] = owed
    <3>1. Cardinality(Sent(u)) + toWrite[u] + pipe[u]
            = Cardinality(Sent(u)') + toWrite'[u] + pipe'[u]
      <4>1. /\ toWrite[u] \in Nat /\ pipe[u] \in Nat /\ toWrite'[u] \in Nat /\ pipe'[u] \in Nat
            /\ toWrite'[u] + pipe'[u] = toWrite[u] + pipe[u]
        BY <1>3, <1>4, <2>3
      <4>2. QED BY <2>3, <4>1
    <3>2. QED BY <1>1, <3>1 DEF IInv, OutputInv
  <2>7. QED BY <2>4, <2>5, <2>6 DEF OutputInv
<1>8. OutputsClosed => OutputsClosed'
  BY <1>1 DEF OutputsClosed
<1>9. inputPipe' <= inputPipe
  BY <1>1 DEF IInv, TypeOK
<1>10. QED BY <1>1, <1>5, <1>6, <1>7, <1>8, <1>9, EnvironmentKeep

\* The worker's own steps.
LEMMA WorkerStepIInv == ASSUME IInv, CallbackStep(Callback!WorkerNext) PROVE IInv'
<1>1. /\ Worker!WorkerNext
      /\ UNCHANGED <<pc, cancelled, status, failure, timer, killed, group, callbacksFinished,
                     closed, stdin, input, polled, ready, reading, result, cancelRequested, proc,
                     toWrite, pipe, inputPipe, consumer>>
  BY SameWorker DEF CallbackStep, loopVars, pollVars, envVars
<1>2. Worker!IInv' /\ Callback!TypeOK'
  BY <1>1, WorkerAssumption, WorkerTypes, Worker!PopIInv, Worker!ReturnIInv, Worker!RecycleIInv,
     Worker!MoveIInv DEF IInv, Worker!WorkerNext, Worker!WorkerStep
<1>3. /\ UNCHANGED <<sent, stopped>>
      /\ completion = "Finished" => completion' = "Finished"
      /\ Callback!Completed => Callback!Completed'
      /\ Callback!CanSend' => Callback!CanSend \/ worker' = "notifying"
      /\ notified => notified'
      /\ worker = "notifying" => worker' = "notifying" \/ notified'
  BY <1>1 DEF Worker!WorkerNext, Worker!WorkerStep, Worker!Sleep, Worker!Leave, Worker!Pop,
     Worker!Recycle, Worker!Notify, Worker!Complete, Worker!CallbackReturns,
     Worker!CallbackPanics, IInv, Worker!IInv, Worker!WorkerInv, Callback!Completed,
     Callback!CanSend, Callback!Accepting
<1>4. ProcMoves /\ UNCHANGED <<InGroup, Holders>>
  BY <1>1, SameProcMoves DEF InGroup, Holders
<1>5. TypeOK'
  BY <1>1, <1>2 DEF IInv, TypeOK
<1>6. ProcInv'
  <2>1. GroupSettled' => GroupSettled
    BY <1>1, GroupKeep
  <2>2. ProcInv
    BY DEF IInv
  <2>3. QED BY <1>1, <1>4, <2>1, <2>2, ProcKeep
<1>7. PollInv'
  BY <1>1, <1>3 DEF IInv, PollInv
<1>8. InputInv'
  BY <1>1, <1>4 DEF IInv, InputInv
<1>9. OutputInv'
  BY <1>1, <1>3, <1>4, OutputKeep DEF IInv
<1>10. WakeInv'
  BY <1>1, <1>3 DEF IInv, WakeInv
<1>11. EndInv'
  <2>1. OutputsClosed' <=> OutputsClosed
    BY <1>1 DEF OutputsClosed
  <2>2. GroupSettled' <=> GroupSettled
    BY <1>1, GroupKeep
  <2>3. QED BY <1>1, <1>3, <2>1, <2>2 DEF IInv, EndInv
<1>12. QED BY <1>2, <1>5, <1>6, <1>7, <1>8, <1>9, <1>10, <1>11 DEF IInv

------------------------------------------------------------------------------
(* Reading a pipe *)

\* A set of numbers that is not empty has a least element.
LEMMA LeastNumber ==
  ASSUME NEW T \in SUBSET Nat, T # {}
  PROVE  \E n \in T : \A m \in T : n <= m
<1> DEFINE less == {r \in Nat \X Nat : r[1] < r[2]}
<1>1. IsWellFoundedOn(less, Nat)
  BY NatLessThanWellFounded DEF OpToRel, IsWellFoundedOn
<1>2. PICK x \in T : \A y \in T : ~(<<y, x>> \in less)
  BY <1>1, WFMin
<1>3. ASSUME NEW y \in T PROVE x <= y
  <2>1. ~(y < x)
    BY <1>2
  <2>2. x \in Nat /\ y \in Nat
    OBVIOUS
  <2>3. QED BY <2>1, <2>2
<1>4. QED BY <1>3

\* The sizes of disjoint sets add up.
LEMMA DisjointUnion ==
  ASSUME NEW S, IsFiniteSet(S), NEW T, IsFiniteSet(T), S \cap T = {}
  PROVE  Cardinality(S \cup T) = Cardinality(S) + Cardinality(T)
<1>1. Cardinality(S) \in Nat /\ Cardinality(T) \in Nat /\ Cardinality(S \cap T) = 0
  BY FS_CardinalityType, FS_EmptySet
<1>2. Cardinality(S \cup T) = Cardinality(S) + Cardinality(T) - Cardinality(S \cap T)
  BY FS_Union
<1>3. QED BY <1>1, <1>2

\* A function that takes every value at most c times.
LEMMA FewPerValue ==
  ASSUME NEW D, IsFiniteSet(D), NEW C, IsFiniteSet(C), NEW f \in [D -> C], NEW c \in Nat,
         \A x \in C : Cardinality({i \in D : f[i] = x}) <= c
  PROVE  Cardinality(D) <= Cardinality(C) * c
<1> DEFINE Of(S) == {i \in D : f[i] \in S}
           bad == {k \in Nat : \E S \in SUBSET C :
                                 Cardinality(S) = k /\ ~(Cardinality(Of(S)) <= k * c)}
<1>1. ASSUME NEW S \in SUBSET C
      PROVE  /\ IsFiniteSet(S) /\ Cardinality(S) \in Nat
             /\ IsFiniteSet(Of(S)) /\ Cardinality(Of(S)) \in Nat
  BY FS_Subset, FS_CardinalityType
<1>2. ASSUME bad # {} PROVE FALSE
  <2>1. bad \in SUBSET Nat
    OBVIOUS
  <2>2. PICK n \in bad : \A m \in bad : n <= m
    BY <1>2, <2>1, LeastNumber
  <2>3. PICK S \in SUBSET C : Cardinality(S) = n /\ ~(Cardinality(Of(S)) <= n * c)
    BY <2>2
  <2>4. S # {}
    <3>1. SUFFICES ASSUME S = {} PROVE FALSE
      OBVIOUS
    <3>2. Of(S) = {} /\ n = 0
      BY <2>3, <3>1, FS_EmptySet
    <3>3. Cardinality(Of(S)) = 0 /\ n * c = 0
      BY <3>2, FS_EmptySet
    <3>4. QED BY <2>3, <3>3
  <2>5. PICK x \in S : TRUE
    BY <2>4
  <2>6. S \ {x} \in SUBSET C /\ Cardinality(S \ {x}) = n - 1 /\ n - 1 \in Nat /\ n \in Nat
    <3>1. IsFiniteSet(S) /\ S \ {x} \in SUBSET C /\ n \in Nat
      BY <1>1
    <3>2. Cardinality(S \ {x}) = n - 1
      BY <2>3, <2>5, <3>1, FS_RemoveElement
    <3>3. Cardinality(S \ {x}) \in Nat
      BY <1>1, <3>1
    <3>4. QED BY <3>1, <3>2, <3>3
  <2>7. n - 1 \notin bad
    <3> HIDE DEF bad
    <3>1. QED BY <2>2, <2>6
  <2>8. Cardinality(Of(S \ {x})) <= (n - 1) * c
    BY <2>6, <2>7
  <2> DEFINE new == {i \in D : f[i] = x}
  <2>9. Of(S) = Of(S \ {x}) \cup new
    BY <2>5
  <2>10. IsFiniteSet(new) /\ Cardinality(new) <= c /\ Cardinality(new) \in Nat
    BY <2>5, FS_Subset, FS_CardinalityType
  <2>11. Cardinality(Of(S)) = Cardinality(Of(S \ {x})) + Cardinality(new)
    <3>1. Of(S \ {x}) \cap new = {}
      OBVIOUS
    <3>2. IsFiniteSet(Of(S \ {x}))
      BY <1>1, <2>6
    <3> HIDE DEF Of, new
    <3>3. QED BY <2>9, <2>10, <3>1, <3>2, DisjointUnion
  <2>12. (n - 1) * c + c = n * c /\ (n - 1) * c \in Nat
    BY <2>6
  <2>13. Cardinality(Of(S)) \in Nat /\ Cardinality(Of(S \ {x})) \in Nat
    BY <1>1, <2>6
  <2> HIDE DEF bad, Of, new
  <2>14. QED BY <2>3, <2>6, <2>8, <2>10, <2>11, <2>12, <2>13
<1>3. Of(C) = D
  OBVIOUS
<1>4. Cardinality(C) \notin bad
  BY <1>2
<1>5. QED BY <1>1, <1>3, <1>4

\* What is known of the sets of chunks.
LEMMA SentTyped ==
  ASSUME Callback!TypeOK
  PROVE  /\ Len(sent) \in Nat /\ \A i \in 1 .. Len(sent) : sent[i].stream \in CallbackOutputs
         /\ \A o : IsFiniteSet(Sent(o)) /\ Cardinality(Sent(o)) \in Nat
<1>1. Len(sent) \in Nat /\ \A i \in 1 .. Len(sent) : sent[i] \in Callback!Chunk
  BY LenProperties, ElementOfSeq DEF Callback!TypeOK
<1>2. ASSUME NEW o PROVE IsFiniteSet(Sent(o)) /\ Cardinality(Sent(o)) \in Nat
  <2>1. IsFiniteSet(1 .. Len(sent)) /\ Sent(o) \in SUBSET (1 .. Len(sent))
    BY <1>1, FS_Interval DEF Sent
  <2>2. QED BY <2>1, FS_Subset, FS_CardinalityType
<1>3. QED BY <1>1, <1>2 DEF Callback!Chunk

\* The worker never runs out of numbers: an output that is still open sent at
\* most its chunks, and every other one at most its end besides.
LEMMA RoomToSend ==
  ASSUME IInv, NEW o \in CallbackOutputs, o \notin closed
  PROVE  Len(sent) < (Chunks + 1) * Cardinality(CallbackOutputs)
<1> DEFINE D == {i \in 1 .. Len(sent) : sent[i].stream # o}
           C == CallbackOutputs \ {o}
           f == [i \in D |-> sent[i].stream]
           n == Cardinality(CallbackOutputs)
<1>1. /\ Len(sent) \in Nat /\ \A i \in 1 .. Len(sent) : sent[i].stream \in CallbackOutputs
      /\ \A u : IsFiniteSet(Sent(u)) /\ Cardinality(Sent(u)) \in Nat
  BY SentTyped DEF IInv, TypeOK
<1>2. \A u \in CallbackOutputs : /\ toWrite[u] \in Nat /\ pipe[u] \in Nat /\ u \in Outputs
                                 /\ Chunks \in Nat
  BY SupervisorAssumption DEF IInv, TypeOK
<1>3. \A u \in CallbackOutputs : Cardinality(Sent(u)) <= Chunks + 1
  BY <1>1, <1>2 DEF IInv, OutputInv
<1>4. Cardinality(Sent(o)) <= Chunks
  BY <1>1, <1>2 DEF IInv, OutputInv
<1>5. IsFiniteSet(D) /\ Cardinality(D) \in Nat
  <2>1. IsFiniteSet(1 .. Len(sent)) /\ D \in SUBSET (1 .. Len(sent))
    BY <1>1, FS_Interval
  <2>2. QED BY <2>1, FS_Subset, FS_CardinalityType
<1>6. IsFiniteSet(C) /\ Cardinality(C) = n - 1 /\ n \in Nat
  BY SupervisorAssumption, FS_RemoveElement, FS_CardinalityType
<1>7. f \in [D -> C]
  BY <1>1
<1>8. ASSUME NEW x \in C PROVE Cardinality({i \in D : f[i] = x}) <= Chunks + 1
  <2>1. {i \in D : f[i] = x} = Sent(x)
    BY DEF Sent
  <2>2. QED BY <1>3, <2>1
<1>9. Cardinality(D) <= Cardinality(C) * (Chunks + 1)
  <2>1. Chunks + 1 \in Nat
    BY <1>2
  <2> HIDE DEF D, C, f
  <2>2. QED BY <1>5, <1>6, <1>7, <1>8, <2>1, FewPerValue
<1>10. Len(sent) = Cardinality(D) + Cardinality(Sent(o))
  <2>1. D \cup Sent(o) = 1 .. Len(sent) /\ D \cap Sent(o) = {}
    BY DEF Sent
  <2>2. Cardinality(1 .. Len(sent)) = Len(sent)
    <3>1. Cardinality(1 .. Len(sent)) = IF 1 > Len(sent) THEN 0 ELSE Len(sent) - 1 + 1
      BY <1>1, FS_Interval
    <3>2. QED BY <1>1, <3>1
  <2> HIDE DEF D
  <2>3. QED BY <1>1, <1>5, <2>1, <2>2, DisjointUnion
<1>11. (n - 1) * (Chunks + 1) + (Chunks + 1) = (Chunks + 1) * n /\ (n - 1) * (Chunks + 1) \in Int
  BY <1>2, <1>6
<1> HIDE DEF D, C, f, n
<1>12. Len(sent) <= (n - 1) * (Chunks + 1) + Chunks
  BY <1>1, <1>2, <1>4, <1>5, <1>6, <1>9, <1>10, <1>11
<1>13. Len(sent) < (Chunks + 1) * n
  BY <1>1, <1>2, <1>11, <1>12
<1>14. QED BY <1>13 DEF n

\* A chunk that is accepted is one more of its output.
LEMMA OneMoreSent ==
  ASSUME IInv, NEW o \in CallbackOutputs, NEW end \in BOOLEAN, o \notin closed,
         Callback!TrySend(o, end)
  PROVE  /\ Worker!IInv' /\ Callback!TypeOK' /\ UNCHANGED stopped
         /\ \A u \in CallbackOutputs :
              Cardinality(Sent(u)') = Cardinality(Sent(u)) + (IF u = o THEN 1 ELSE 0)
<1> DEFINE chunk == [stream |-> o, eof |-> end, number |-> Len(sent) + 1]
<1>1. Worker!TrySend(o, end) /\ Worker!BufferAssumption
  BY SameWorker, WorkerAssumption
<1>2. Worker!IInv'
  BY <1>1, RoomToSend, Worker!TrySendIInv DEF IInv
<1>3. sent' = Append(sent, chunk) /\ UNCHANGED stopped
  BY DEF Callback!TrySend
<1>4. /\ Len(sent) \in Nat
      /\ \A u : IsFiniteSet(Sent(u)) /\ Cardinality(Sent(u)) \in Nat
  BY SentTyped DEF IInv, TypeOK
<1>5. chunk \in Callback!Chunk /\ sent \in Seq(Callback!Chunk)
  <2>1. Len(sent) + 1 \in 1 .. (Chunks + 1) * Cardinality(CallbackOutputs)
    BY <1>4, RoomToSend, SupervisorAssumption, FS_CardinalityType
  <2>2. QED BY <2>1 DEF Callback!Chunk, IInv, TypeOK, Callback!TypeOK
<1>6. /\ Len(sent') = Len(sent) + 1 /\ sent'[Len(sent) + 1] = chunk
      /\ \A i \in 1 .. Len(sent) : sent'[i] = sent[i]
  BY <1>3, <1>5, AppendProperties
<1>7. ASSUME NEW u
      PROVE  Sent(u)' = IF u = o THEN Sent(u) \cup {Len(sent) + 1} ELSE Sent(u)
  BY <1>4, <1>6 DEF Sent
<1>8. ASSUME NEW u \in CallbackOutputs
      PROVE  Cardinality(Sent(u)') = Cardinality(Sent(u)) + (IF u = o THEN 1 ELSE 0)
  <2>1. Len(sent) + 1 \notin Sent(u)
    BY <1>4 DEF Sent
  <2>2. Cardinality(Sent(u) \cup {Len(sent) + 1}) = Cardinality(Sent(u)) + 1
    BY <1>4, <2>1, FS_AddElement
  <2>3. CASE u = o
    BY <1>7, <2>2, <2>3
  <2>4. CASE u # o
    <3>1. Sent(u)' = Sent(u) /\ Cardinality(Sent(u)) \in Nat
      BY <1>4, <1>7, <2>4
    <3>2. QED BY <2>4, <3>1
  <2>5. QED BY <2>3, <2>4
<1>9. QED BY <1>2, <1>3, <1>8, WorkerTypes

\* One chunk or the end of a pipe, the worker taking it or not.
LEMMA ReadOutput ==
  ASSUME IInv, Read
  PROVE  /\ reading \in Outputs /\ reading \notin closed
         /\ \/ /\ failure' = TRUE /\ UNCHANGED workerVars
               /\ closed' = closed \cup {reading}
            \/ /\ UNCHANGED failure
               /\ \/ /\ pipe[reading] > 0 /\ closed' = closed
                     /\ pipe' = [pipe EXCEPT ![reading] = @ - 1]
                  \/ /\ AtEof(reading) /\ closed' = closed \cup {reading} /\ pipe' = pipe
               /\ \/ reading \notin CallbackOutputs /\ UNCHANGED workerVars
                  \/ /\ reading \in CallbackOutputs
                     /\ \E end \in BOOLEAN : Callback!TrySend(reading, end)
         /\ \/ pipe' = pipe
            \/ pipe[reading] > 0 /\ pipe' = [pipe EXCEPT ![reading] = @ - 1]
<1>1. reading \in Outputs /\ reading \notin closed
  BY DEF Read, IInv, TypeOK, PollInv
<1>2. CASE /\ pipe[reading] > 0
           /\ pipe' = [pipe EXCEPT ![reading] = @ - 1]
           /\ Send(reading, FALSE)
           /\ closed' = IF Refused(reading) THEN closed \cup {reading} ELSE closed
  BY <1>1, <1>2 DEF Send, Refused
<1>3. CASE /\ AtEof(reading)
           /\ Send(reading, TRUE)
           /\ closed' = closed \cup {reading}
           /\ UNCHANGED pipe
  BY <1>1, <1>3 DEF Send
<1>4. CASE /\ failure' = TRUE
           /\ closed' = closed \cup {reading}
           /\ UNCHANGED <<workerVars, pipe>>
  BY <1>1, <1>4
<1>5. QED BY <1>2, <1>3, <1>4 DEF Read

LEMMA ReadIInv == ASSUME IInv, Read PROVE IInv'
<1>1. /\ pc = "service" /\ reading' = None
      /\ UNCHANGED <<pc, cancelled, status, timer, killed, group, callbacksFinished, stdin, input,
                     polled, ready, result, cancelRequested, proc, toWrite, inputPipe, consumer>>
  BY DEF Read
<1>2. /\ reading \in Outputs /\ reading \notin closed
      /\ toWrite \in [Outputs -> 0 .. Chunks] /\ pipe \in [Outputs -> 0 .. PipeCapacity]
      /\ Chunks \in Nat /\ PipeCapacity \in Nat /\ failure \in BOOLEAN /\ closed \subseteq Outputs
      /\ CallbackOutputs \subseteq Outputs
  BY ReadOutput, SupervisorAssumption DEF IInv, TypeOK
<1>3. /\ pipe' \in [Outputs -> 0 .. PipeCapacity]
      /\ \A u \in Outputs : pipe'[u] <= pipe[u]
      /\ closed' \subseteq Outputs
      /\ closed' = closed \/ closed' = closed \cup {reading}
      /\ failure' \in BOOLEAN /\ (failure => failure')
  <2>1. closed' = closed \/ closed' = closed \cup {reading}
    BY ReadOutput
  <2>2. failure' = failure \/ failure' = TRUE
    BY ReadOutput
  <2>3. pipe' = pipe \/ (pipe[reading] > 0 /\ pipe' = [pipe EXCEPT ![reading] = @ - 1])
    BY ReadOutput
  <2>4. pipe' \in [Outputs -> 0 .. PipeCapacity] /\ \A u \in Outputs : pipe'[u] <= pipe[u]
    BY <1>2, <2>3
  <2>5. failure' \in BOOLEAN /\ (failure => failure')
    BY <1>2, <2>2
  <2>6. QED BY <1>2, <2>1, <2>4, <2>5
<1>4. /\ \A u : IsFiniteSet(Sent(u)) /\ Cardinality(Sent(u)) \in Nat
  BY SentTyped DEF IInv, TypeOK
<1>5. ProcMoves /\ UNCHANGED <<InGroup, Holders>>
  BY <1>1, SameProcMoves DEF InGroup, Holders
<1>6. /\ Worker!IInv' /\ Callback!TypeOK' /\ UNCHANGED stopped
      /\ \A u \in CallbackOutputs :
           Cardinality(Sent(u)') = Cardinality(Sent(u))
             + (IF u = reading /\ ~UNCHANGED workerVars THEN 1 ELSE 0)
  <2>1. CASE UNCHANGED workerVars
    <3>1. Worker!IInv' /\ Callback!TypeOK' /\ UNCHANGED <<stopped, sent>>
      BY <2>1, WorkerFrame DEF IInv
    <3>2. \A u : Sent(u)' = Sent(u)
      BY <3>1 DEF Sent
    <3>3. QED BY <1>4, <2>1, <3>1, <3>2
  <2>2. CASE ~UNCHANGED workerVars
    <3>1. PICK end \in BOOLEAN : reading \in CallbackOutputs /\ Callback!TrySend(reading, end)
      BY <2>2, ReadOutput
    <3>2. QED BY <1>2, <2>2, <3>1, OneMoreSent
  <2>3. QED BY <2>1, <2>2
<1>7. TypeOK'
  BY <1>1, <1>3, <1>6 DEF IInv, TypeOK
<1>8. ProcInv'
  <2>1. GroupSettled' => GroupSettled
    BY <1>1, GroupKeep
  <2>2. ProcInv
    BY DEF IInv
  <2>3. QED BY <1>1, <1>5, <2>1, <2>2, ProcKeep DEF BeforeSpawn
<1>9. PollInv'
  <2>1. None \notin closed'
    BY <1>3, SupervisorAssumption
  <2>2. QED BY <1>1, <2>1 DEF PollInv
<1>10. InputInv'
  <2>1. InputInv
    BY DEF IInv
  <2>2. ~stdin' => input' = 0 \/ failure' \/ cancelled'
    BY <1>1, <1>3, <2>1 DEF InputInv
  <2>3. "stdin" \in ready' => (inputPipe' < PipeCapacity \/ Holders' = {})
    BY <1>1, <1>5, <2>1 DEF InputInv
  <2>4. ("stdin" \in ready' => (stdin' /\ input' > 0)) /\ (timer' # "none" => ~stdin')
    BY <1>1, <2>1 DEF InputInv
  <2>5. QED BY <1>1, <2>2, <2>3, <2>4 DEF InputInv
<1>11. OutputInv'
  <2>1. \A u \in Outputs : toWrite'[u] + pipe'[u] <= Chunks
    <3>1. ASSUME NEW u \in Outputs PROVE toWrite'[u] + pipe'[u] <= Chunks
      <4>1. /\ toWrite[u] \in Nat /\ pipe[u] \in Nat /\ pipe'[u] \in Nat /\ pipe'[u] <= pipe[u]
            /\ toWrite'[u] = toWrite[u] /\ toWrite[u] + pipe[u] <= Chunks
        BY <1>1, <1>2, <1>3 DEF IInv, OutputInv
      <4>2. QED BY <1>2, <4>1
    <3>2. QED BY <3>1
  <2>2. ASSUME ~failure', NEW u \in closed'
        PROVE  pipe'[u] = 0 /\ Holders' = {} /\ proc'[Child] # "unborn"
    <3>1. ~failure
      BY <1>3, <2>2
    <3>2. CASE u \in closed
      <4>1. pipe[u] = 0 /\ Holders = {} /\ proc[Child] # "unborn"
        BY <3>1, <3>2 DEF IInv, OutputInv
      <4>2. u \in Outputs /\ pipe'[u] <= pipe[u] /\ pipe'[u] \in Nat
        BY <1>2, <1>3, <3>2
      <4>3. QED BY <1>1, <1>5, <4>1, <4>2
    <3>3. CASE u \notin closed
      <4>1. u = reading /\ AtEof(reading) /\ pipe' = pipe
        BY <2>2, <3>3, ReadOutput
      <4>2. proc[Child] # "unborn"
        BY <1>1 DEF IInv, ProcInv
      <4>3. QED BY <1>1, <1>5, <4>1, <4>2 DEF AtEof
    <3>4. QED BY <3>2, <3>3
  <2>3. ASSUME NEW u \in CallbackOutputs
        PROVE  LET owed == Chunks + (IF u \in closed' THEN 1 ELSE 0) IN
                 /\ Cardinality(Sent(u)') + toWrite'[u] + pipe'[u] <= owed
                 /\ ~failure' => Cardinality(Sent(u)') + toWrite'[u] + pipe'[u] = owed
    <3> DEFINE owed == Chunks + (IF u \in closed THEN 1 ELSE 0)
    <3>1. /\ Cardinality(Sent(u)) \in Nat /\ toWrite[u] \in Nat /\ pipe[u] \in Nat
          /\ pipe'[u] \in Nat /\ toWrite'[u] = toWrite[u] /\ u \in Outputs /\ pipe'[u] <= pipe[u]
      BY <1>1, <1>2, <1>3, <1>4
    <3>2. /\ Cardinality(Sent(u)) + toWrite[u] + pipe[u] <= owed
          /\ ~failure => Cardinality(Sent(u)) + toWrite[u] + pipe[u] = owed
      BY DEF IInv, OutputInv
    <3>3. CASE u # reading
      <4>1. /\ Cardinality(Sent(u)') = Cardinality(Sent(u))
            /\ u \in closed' <=> u \in closed
        BY <1>3, <1>4, <1>6, <3>3
      <4>2. pipe'[u] = pipe[u]
        BY <1>2, <3>1, <3>3, ReadOutput
      <4>3. QED BY <1>3, <3>1, <3>2, <4>1, <4>2
    <3>4. CASE u = reading /\ failure' = TRUE /\ UNCHANGED workerVars
      <4>1. Cardinality(Sent(u)') = Cardinality(Sent(u))
        BY <1>4, <1>6, <3>4
      <4>2. u \notin closed
        BY <1>2, <3>4
      <4>3. QED BY <1>2, <3>1, <3>2, <3>4, <4>1, <4>2
    <3>5. CASE u = reading /\ failure' = failure /\ ~UNCHANGED workerVars
      <4>1. Cardinality(Sent(u)') = Cardinality(Sent(u)) + 1
        BY <1>6, <3>5
      <4>2. u \notin closed /\ owed = Chunks
        BY <1>2, <3>5
      <4>3. \/ closed' = closed /\ pipe[u] > 0 /\ pipe' = [pipe EXCEPT ![u] = @ - 1]
            \/ closed' = closed \cup {u} /\ pipe' = pipe
        BY <3>5, ReadOutput
      <4>4. CASE closed' = closed /\ pipe[u] > 0 /\ pipe' = [pipe EXCEPT ![u] = @ - 1]
        <5>1. pipe'[u] = pipe[u] - 1 /\ u \notin closed'
          BY <1>2, <3>1, <4>2, <4>4
        <5>2. QED BY <1>2, <3>1, <3>2, <3>5, <4>1, <4>2, <5>1
      <4>5. CASE closed' = closed \cup {u} /\ pipe' = pipe
        BY <1>2, <3>1, <3>2, <3>5, <4>1, <4>2, <4>5
      <4>6. QED BY <4>3, <4>4, <4>5
    <3>6. ASSUME u = reading
          PROVE  \/ failure' = TRUE /\ UNCHANGED workerVars
                 \/ failure' = failure /\ ~UNCHANGED workerVars
      <4>1. ASSUME NEW end \in BOOLEAN, Callback!TrySend(reading, end) PROVE ~UNCHANGED workerVars
        <5>1. free' = free - 1 /\ free \in Nat
          BY <4>1 DEF Callback!TrySend, IInv, TypeOK, Callback!TypeOK
        <5>2. QED BY <5>1 DEF workerVars
      <4>2. reading \in CallbackOutputs
        BY <3>6
      <4>3. CASE failure' = TRUE /\ UNCHANGED workerVars
        BY <4>3
      <4>4. CASE failure' = failure /\ \E end \in BOOLEAN : Callback!TrySend(reading, end)
        BY <4>1, <4>4
      <4>5. QED BY <4>2, <4>3, <4>4, ReadOutput
    <3>7. QED BY <3>3, <3>4, <3>5, <3>6
  <2>4. QED BY <2>1, <2>2, <2>3 DEF OutputInv
<1>12. WakeInv'
  BY <1>1 DEF WakeInv
<1>13. EndInv'
  BY <1>1, <1>3, <1>6, EndKeep DEF IInv, EndInv
<1>14. QED BY <1>6, <1>7, <1>8, <1>9, <1>10, <1>11, <1>12, <1>13 DEF IInv

------------------------------------------------------------------------------
(* The theorems *)

\* One lemma for every step of the specification.
LEMMA StutterIInv == ASSUME IInv, UNCHANGED vars PROVE IInv'
<1>1. UNCHANGED <<workerVars, pc, cancelled, status, failure, timer, killed, group,
                  callbacksFinished, closed, stdin, input, polled, ready, reading, result,
                  cancelRequested, proc, toWrite, pipe, inputPipe, consumer>>
  BY DEF vars, loopVars, pollVars, envVars
<1>2. Callback!TypeOK' /\ UNCHANGED sent
  BY <1>1, WorkerFrame DEF IInv
<1>3. TypeOK'
  BY <1>1, <1>2 DEF IInv, TypeOK
<1>4. ProcMoves
  BY <1>1, SameProcMoves
<1>5. OutputInv'
  BY <1>1, <1>2, <1>4, OutputKeep DEF IInv
<1>6. OutputsClosed => OutputsClosed'
  BY <1>1 DEF OutputsClosed
<1>7. inputPipe' <= inputPipe
  BY <1>1 DEF IInv, TypeOK
<1>8. QED BY <1>1, <1>3, <1>4, <1>5, <1>6, <1>7, EnvironmentKeep

LEMMA NextIInv == IInv /\ [Next]_vars => IInv'
<1> SUFFICES ASSUME IInv, [Next]_vars PROVE IInv'
  OBVIOUS
<1>1. ASSUME Supervise PROVE IInv'
  BY <1>1, SubscribeIInv, SpawnIInv, LeaveIInv, CheckIInv, ExitIInv, PollIInv,
     ServiceSignalsIInv, ServiceCallbacksIInv, ServiceInputIInv, ReadIInv, JoinIInv DEF Supervise
<1>2. ASSUME Environment PROVE IInv'
  <2>1. ASSUME ChildFinishes PROVE \E p \in Processes : Die(p)
    BY <2>1 DEF ChildFinishes, Processes
  <2>2. QED BY <1>2, <2>1, SignalIInv, ProcessIInv, ChildWritesIInv DEF Environment
<1>3. ASSUME PollInterrupted \/ SystemError \/ JoinTimesOut \/ TimerFires PROVE IInv'
  BY <1>3, PollIInv, LeaveIInv, JoinIInv, SignalIInv
<1>4. QED BY <1>1, <1>2, <1>3, WorkerStepIInv, StutterIInv DEF Next

\* The loop of run keeps its invariant, whatever the outputs, descendants and
\* buffers.
THEOREM InvariantHolds == Spec => []IInv
BY InitIInv, NextIInv, PTL DEF Spec

\* Whatever way run returns (success, an error half-way, a late cancellation,
\* the time-out of the callbacks), the process group of the child is empty.
THEOREM NothingIsLeftRunning == Spec => []NothingLeftRunning
<1>1. IInv => NothingLeftRunning
  BY DEF IInv, ProcInv, NothingLeftRunning, Returned
<1>2. QED BY <1>1, InvariantHolds, PTL

\* A callback that could take a chunk while the loop sleeps with its output
\* left out of the poll set has told the loop so, or is about to.
THEOREM FreeBuffersWake == Spec => []FreeBufferWakes
<1>1. IInv => FreeBufferWakes
  <2> SUFFICES ASSUME IInv, pc = "poll", Callback!CanSend,
                      \E o \in CallbackOutputs : o \notin closed \cup polled
               PROVE  "callbacks" \in polled /\ (notified \/ worker = "notifying")
    BY DEF FreeBufferWakes
  <2>1. HasCallbacks /\ ~Callback!Completed
    BY DEF HasCallbacks, Callback!Completed, Callback!CanSend, Callback!Accepting
  <2>2. QED BY <2>1 DEF IInv, PollInv, WakeInv
<1>2. QED BY <1>1, InvariantHolds, PTL

\* The worker that finished delivered what it was sent, chunk for chunk.
LEMMA AllDelivered ==
  ASSUME IInv, completion = "Finished", ~stopped, NEW o
  PROVE  Delivered(o) = Cardinality(Sent(o))
<1>1. inFlight = <<>> /\ queue = <<>>
  BY DEF IInv, Worker!IInv, Worker!WorkerInv
<1>2. delivered \o <<>> = delivered
  BY ConcatEmptySeq DEF IInv, Worker!IInv, Worker!TypeOK
<1>3. delivered = sent
  BY <1>1, <1>2 DEF IInv, Worker!IInv, Worker!DeliveredInOrder
<1>4. QED BY <1>3 DEF Delivered, Sent

\* A run that returned Ok reaped its child, read every output to its end,
\* delivered every chunk the child wrote and its end to the callback, joined
\* every consumer and wrote all of the input.
THEOREM SuccessesAreComplete == Spec => []SuccessIsComplete
<1>1. IInv => SuccessIsComplete
  <2> SUFFICES ASSUME IInv, result = "ok"
               PROVE  /\ proc[Child] = "dead" /\ status
                      /\ closed = Outputs
                      /\ \A o \in Outputs : pipe[o] = 0
                      /\ \A o \in CallbackOutputs : Delivered(o) = Chunks - toWrite[o] + 1
                      /\ \A k \in Consumers : consumer[k] = "joined"
                      /\ input = 0
    BY DEF IInv, SuccessIsComplete
  <2>1. /\ ~failure /\ ~cancelled /\ ~stopped /\ status /\ OutputsClosed /\ input = 0
        /\ ~HasCallbacks \/ completion = "Finished"
    BY DEF IInv, EndInv
  <2>2. proc[Child] = "dead"
    BY <2>1 DEF IInv, ProcInv
  <2>3. closed = Outputs /\ \A k \in Consumers : consumer[k] = "joined"
    BY <2>1 DEF OutputsClosed
  <2>4. \A o \in Outputs : pipe[o] = 0
    BY <2>1, <2>3 DEF IInv, OutputInv
  <2>5. ASSUME NEW o \in CallbackOutputs PROVE Delivered(o) = Chunks - toWrite[o] + 1
    <3>1. completion = "Finished"
      BY <2>1 DEF HasCallbacks
    <3>2. Delivered(o) = Cardinality(Sent(o))
      BY <2>1, <3>1, AllDelivered
    <3>3. Cardinality(Sent(o)) \in Nat
      BY SentTyped DEF IInv, TypeOK
    <3>4. o \in Outputs /\ toWrite[o] \in Nat /\ Chunks \in Nat /\ pipe[o] = 0
      BY <2>4, SupervisorAssumption DEF IInv, TypeOK
    <3>5. Cardinality(Sent(o)) + toWrite[o] + pipe[o] = Chunks + 1
      BY <2>1, <2>3, <3>4 DEF IInv, OutputInv
    <3>6. QED BY <3>2, <3>3, <3>4, <3>5
  <2>6. QED BY <2>1, <2>2, <2>3, <2>4, <2>5
<1>2. QED BY <1>1, InvariantHolds, PTL

\* The loop is a client the worker was written for: it never sends after the
\* end of an output, sends no more than the worker has numbers for, and
\* abandons it only after it closed it; so all that is proved of the worker
\* alone holds of the worker in the loop.
THEOREM WorkerIsUsedAsIntended == Spec => Worker!Spec
<1>1. Init => Worker!Init
  BY SameWorker DEF Init
<1>2. IInv /\ [Next]_vars => [Worker!Next]_(Worker!vars)
  <2> SUFFICES ASSUME IInv, [Next]_vars PROVE [Worker!Next]_(Worker!vars)
    OBVIOUS
  <2>1. ASSUME UNCHANGED workerVars PROVE UNCHANGED Worker!vars
    BY <2>1 DEF workerVars, Worker!vars
  <2>2. CASE Check
    BY <2>1, <2>2, SameWorker DEF Check, CloseCallbacks, Worker!Next, Worker!Client
  <2>3. CASE Join
    BY <2>1, <2>3, SameWorker DEF Join, Worker!Next, Worker!Client
  <2>4. CASE JoinTimesOut
    <3>1. completion = "Running" /\ closing /\ Worker!Stop
      BY <2>4, SameWorker DEF JoinTimesOut, Callback!Completed
    <3>2. QED BY <3>1 DEF Worker!Next, Worker!Client
  <2>5. CASE ServiceCallbacks
    BY <2>5, SameWorker DEF ServiceCallbacks, Worker!Next, Worker!Client
  <2>6. CASE Read
    <3>1. CASE UNCHANGED workerVars
      BY <2>1, <3>1
    <3>2. CASE reading \in CallbackOutputs /\ \E end \in BOOLEAN : Callback!TrySend(reading, end)
      <4>1. Len(sent) < (Chunks + 1) * Cardinality(CallbackOutputs)
        BY <2>6, <3>2, ReadOutput, RoomToSend
      <4>2. \E s \in CallbackOutputs, end \in BOOLEAN : Worker!TrySend(s, end)
        BY <3>2, SameWorker
      <4>3. QED BY <4>1, <4>2 DEF Worker!Next, Worker!Client
    <3>3. QED BY <2>6, <3>1, <3>2, ReadOutput
  <2>7. CASE CallbackStep(Callback!WorkerNext)
    BY <2>7, SameWorker DEF CallbackStep, Worker!Next
  <2>8. CASE UNCHANGED vars
    BY <2>1, <2>8 DEF vars
  <2>9. CASE Environment
    <3>1. UNCHANGED workerVars
      BY <2>9 DEF Environment, RequestCancel, ChildFinishes, ChildReads, Fork, Redirect, Escape,
                  Die, ChildWrites, ConsumerEnds, otherThanProc
    <3>2. QED BY <2>1, <3>1
  <2>10. CASE \/ Subscribe \/ Spawn \/ Setup \/ Exit \/ ArmOutputs \/ ArmCallbacks \/ Poll
              \/ ServiceCancel \/ ServiceChild \/ ServiceInput \/ ServiceDone
              \/ \E o \in Outputs : ServiceOutput(o)
              \/ \E k \in Consumers : ServiceConsumer(k)
              \/ Result \/ GuardKills \/ GuardReaps
              \/ PollInterrupted \/ SystemError \/ TimerFires
    <3>1. UNCHANGED workerVars
      BY <2>10 DEF Subscribe, Spawn, Setup, Exit, ArmOutputs, ArmCallbacks, Poll, ServiceCancel,
                   ServiceChild, ServiceInput, ServiceDone, ServiceOutput, ServiceConsumer, Result,
                   GuardKills, GuardReaps, PollInterrupted, SystemError, TimerFires
    <3>2. QED BY <2>1, <3>1
  <2>11. QED BY <2>2, <2>3, <2>4, <2>5, <2>6, <2>7, <2>8, <2>9, <2>10 DEF Next, Supervise
<1>3. QED BY <1>1, <1>2, InvariantHolds, PTL DEF Spec, Worker!Spec

--------------------------------------------------------------------------------
(* What a walk through /proc shows of a group, for every pid_max *)

USE GroupScanAssumption

\* The inductive invariant: what runs is found, still to come, or was born behind the
\* walk; refresh begins at the first number and watches only what it found.
ScanInv ==
  /\ ScanTypeOK
  /\ StillToCome
  /\ phase = "start" => cursor = 0 /\ members = {}
  /\ EmptyMeansGone

\* refresh begins knowing nothing.
LEMMA InitScanInv == ScanInit => ScanInv
<1> SUFFICES ASSUME ScanInit PROVE ScanInv
  OBVIOUS
<1>1. ScanTypeOK
  <2>1. cursor \in 0..MaxPid
    BY DEF ScanInit
  <2>2. second \in BOOLEAN /\ live \in BOOLEAN /\ behind \in BOOLEAN
    BY Zenon DEF ScanInit
  <2>3. QED
    BY <2>1, <2>2 DEF ScanInit, ScanTypeOK
<1>2. QED
  BY <1>1 DEF ScanInit, ScanInv, StillToCome, EmptyMeansGone

\* Every call of refresh keeps it.
LEMMA ReturnsScanInv ==
  ASSUME ScanInv, SystemUnchanged, GiveUp PROVE ScanInv'
<1>1. ScanTypeOK'
  BY DEF ScanInv, ScanTypeOK, SystemUnchanged, GiveUp, RefreshReturns
<1>2. QED
  BY <1>1 DEF ScanInv, SystemUnchanged, GiveUp, RefreshReturns, StillToCome, EmptyMeansGone

LEMMA RefreshScanInv == ASSUME ScanInv, Refresh PROVE ScanInv'
<1> USE DEF ScanInv, SystemUnchanged
<1>1. CASE Start
  <2>1. Group = {} => Members = {}
    BY DEF Group, Members
  <2>2. Members' = Members
    BY <1>1 DEF Start, Members
  <2>3. ScanTypeOK'
    BY <1>1 DEF Start, RefreshReturns, ScanTypeOK
  <2>4. StillToCome'
    <3>1. CASE Group = {}
      BY <1>1, <3>1 DEF Start, RefreshReturns, StillToCome
    <3>2. CASE Group # {}
      <4>1. cursor' = 0
        BY <1>1, <3>2 DEF Start
      <4>2. \A p \in Members' : p > cursor'
        BY <4>1 DEF Members, Pids
      <4>3. QED
        BY <4>2 DEF StillToCome
    <3>3. QED
      BY <3>1, <3>2
  <2>5. EmptyMeansGone'
    BY <1>1, <2>1, <2>2 DEF Start, RefreshReturns, EmptyMeansGone
  <2>6. phase' # "start"
    BY <1>1 DEF Start, RefreshReturns
  <2>7. QED
    BY <2>3, <2>4, <2>5, <2>6
<1>2. CASE ListNext
  <2>1. PICK p \in Pids :
          /\ Least(p, {q \in Pids : q > cursor /\ process[q] # "free"})
          /\ cursor' = p /\ buffer' = buffer \cup {p}
    BY <1>2 DEF ListNext
  <2>2. ScanTypeOK'
    BY <1>2, <2>1 DEF ListNext, ScanTypeOK, Pids
  <2>3. StillToCome'
    <3> SUFFICES ASSUME NEW r \in Members', members' = {}, ~behind'
                 PROVE  r > cursor' \/ r \in buffer'
      BY DEF StillToCome
    <3>1. r \in Members /\ members = {} /\ ~behind /\ phase = "list"
      BY <1>2 DEF ListNext, Members
    <3>2. r > cursor \/ r \in buffer
      BY <3>1 DEF StillToCome
    <3>3. r \in Pids /\ process[r] # "free"
      BY <3>1 DEF Members
    <3>4. r > cursor => p <= r
      BY <2>1, <3>3 DEF Least
    <3>5. QED
      BY <2>1, <3>2, <3>3, <3>4 DEF Pids
  <2>4. QED
    BY <1>2, <2>2, <2>3 DEF ListNext, EmptyMeansGone
<1>3. CASE ListReturns
  <2>1. ScanTypeOK'
    BY <1>3 DEF ListReturns, ScanTypeOK
  <2>2. QED
    BY <1>3, <2>1 DEF ListReturns, StillToCome, Members, EmptyMeansGone
<1>4. CASE ReadStat
  <2>1. PICK p \in Pids :
          /\ Least(p, buffer)
          /\ members' = members \cup IF process[p] = "member" THEN {p} ELSE {}
          /\ buffer' = buffer \ {p}
    BY <1>4 DEF ReadStat
  <2>2. ScanTypeOK'
    BY <1>4, <2>1 DEF ReadStat, ScanTypeOK
  <2>3. StillToCome'
    <3> SUFFICES ASSUME NEW r \in Members', members' = {}, ~behind'
                 PROVE  r > cursor' \/ r \in buffer'
      BY DEF StillToCome
    <3>1. r \in Members /\ ~behind /\ phase = "read" /\ cursor' = cursor
      BY <1>4 DEF ReadStat, Members
    <3>2. members = {} /\ process[p] # "member"
      BY <2>1
    <3>3. r # p
      BY <3>1, <3>2 DEF Members
    <3>4. QED
      BY <2>1, <3>1, <3>2, <3>3 DEF StillToCome
  <2>4. QED
    BY <1>4, <2>2, <2>3 DEF ReadStat, EmptyMeansGone
<1>5. CASE ReadFails
  BY <1>5, ReturnsScanInv DEF ReadFails
<1>6. CASE WalkEnds
  <2>1. members = {} /\ ~behind => Members = {}
    BY <1>6 DEF WalkEnds, StillToCome, Members, ScanTypeOK
  <2>2. Members' = Members
    BY <1>6 DEF WalkEnds, Members
  <2>3. ScanTypeOK'
    BY <1>6 DEF WalkEnds, RefreshReturns, ScanTypeOK
  <2>4. QED
    BY <1>6, <2>1, <2>2, <2>3 DEF WalkEnds, RefreshReturns, StillToCome, EmptyMeansGone
<1>7. CASE Watch
  <2>1. ScanTypeOK'
    BY <1>7 DEF Watch, ScanTypeOK
  <2>2. QED
    BY <1>7, <2>1 DEF Watch, StillToCome, EmptyMeansGone
<1>8. CASE WatchFails
  BY <1>8, ReturnsScanInv DEF WatchFails
<1>9. CASE WatchEnds
  <2>1. ScanTypeOK'
    <3>1. cursor' \in 0..MaxPid
      <4>1. cursor' \in {0, cursor}
        BY <1>9 DEF WatchEnds, RefreshReturns, WalkAgain
      <4>2. QED
        BY <4>1 DEF ScanTypeOK
    <3>2. second' \in BOOLEAN /\ live' \in BOOLEAN /\ behind' \in BOOLEAN
      BY <1>9, Zenon DEF WatchEnds, RefreshReturns, WalkAgain, ScanTypeOK
    <3>3. phase' \in {"list", "done"} /\ members' \in {{}, members} /\ watched' = watched
      BY <1>9 DEF WatchEnds, RefreshReturns, WalkAgain
    <3>4. UNCHANGED <<process, last, buffer, unwatched>>
      BY <1>9 DEF WatchEnds, RefreshReturns, WalkAgain
    <3>5. QED
      BY <3>1, <3>2, <3>3, <3>4 DEF ScanTypeOK
  <2>2. CASE watched # {}
    BY <1>9, <2>1, <2>2 DEF WatchEnds, RefreshReturns, StillToCome, EmptyMeansGone
  <2>3. CASE watched = {}
    <3>1. phase' = "list" /\ cursor' = 0
      BY <1>9, <2>3 DEF WatchEnds, WalkAgain
    <3>2. \A p \in Members' : p > cursor'
      BY <3>1 DEF Members, Pids
    <3>3. QED
      BY <2>1, <3>1, <3>2 DEF StillToCome, EmptyMeansGone
  <2>4. QED
    BY <2>2, <2>3
<1>10. QED
  BY <1>1, <1>2, <1>3, <1>4, <1>5, <1>6, <1>7, <1>8, <1>9 DEF Refresh

\* A birth at a number the walk has passed is told; any other is still to come.
LEMMA BirthScanInv ==
  ASSUME ScanInv, NEW kind \in {"member", "other"}, Birth(kind), UNCHANGED scanVars,
         kind = "member" => Members # {}
  PROVE  ScanInv'
<1> USE DEF ScanInv, scanVars
<1>1. PICK p \in Pids : /\ process' = [process EXCEPT ![p] = kind]
                        /\ last' = p
                        /\ behind' = (behind \/ (kind = "member" /\ p <= cursor))
  BY DEF Birth
<1>2. ScanTypeOK'
  <2>1. process' \in [Pids -> {"free", "member", "zombie", "other"}]
    BY <1>1 DEF ScanTypeOK
  <2>2. behind' \in BOOLEAN
    BY <1>1
  <2>3. QED
    BY <1>1, <2>1, <2>2 DEF ScanTypeOK
<1>3. \A r \in Members' : r \in Members \/ (r = p /\ kind = "member")
  BY <1>1 DEF Members, ScanTypeOK
<1>4. behind => behind'
  BY <1>1
<1>5. kind = "member" /\ ~behind' => p > cursor
  <2>1. kind = "member" /\ ~behind' => ~(p <= cursor)
    BY <1>1, Zenon
  <2>2. p \in Nat /\ cursor \in Nat
    BY DEF ScanTypeOK, Pids
  <2>3. QED
    BY <2>1, <2>2
<1>6. StillToCome'
  BY <1>3, <1>4, <1>5 DEF StillToCome
<1>7. EmptyMeansGone'
  <2>1. CASE kind = "member"
    BY <1>4, <2>1 DEF EmptyMeansGone
  <2>2. CASE kind = "other"
    BY <1>3, <1>4, <2>2 DEF EmptyMeansGone
  <2>3. QED
    BY <2>1, <2>2
<1>8. QED
  BY <1>2, <1>6, <1>7

\* A process that ends or leaves takes nothing from what is to come.
LEMMA LossScanInv ==
  ASSUME ScanInv, NEW p \in Pids, NEW to \in {"zombie", "free", "other"},
         process' = [process EXCEPT ![p] = to], UNCHANGED <<last, scanVars, behind>>
  PROVE  ScanInv'
<1> USE DEF ScanInv, scanVars
<1>1. ScanTypeOK'
  BY DEF ScanTypeOK
<1>2. \A r \in Members' : r \in Members
  BY DEF Members, ScanTypeOK
<1>3. QED
  BY <1>1, <1>2 DEF StillToCome, EmptyMeansGone

LEMMA NextScanInv == ScanInv /\ [ScanNext]_groupVars => ScanInv'
<1> SUFFICES ASSUME ScanInv, [ScanNext]_groupVars PROVE ScanInv'
  OBVIOUS
<1>1. CASE Refresh
  BY <1>1, RefreshScanInv
<1>2. CASE MemberForks
  BY <1>2, BirthScanInv DEF MemberForks
<1>3. CASE OtherForks
  BY <1>3, BirthScanInv DEF OtherForks
<1>4. CASE MemberExits \/ Reap \/ OtherDies \/ Leave
  BY <1>4, LossScanInv DEF MemberExits, Reap, OtherDies, Leave, Becomes
<1>5. CASE UNCHANGED groupVars
  BY <1>5 DEF groupVars, scanVars, ScanInv, ScanTypeOK, StillToCome, EmptyMeansGone, Members
<1>6. QED
  BY <1>1, <1>2, <1>3, <1>4, <1>5 DEF ScanNext

\* refresh does not take a group for gone while a member runs, for any number of
\* processes that come and go around the walk, unless one was born at a number the walk
\* had passed.
THEOREM GoneIsGone == ScanSpec => []EmptyMeansGone
<1>1. ScanInv => EmptyMeansGone
  BY DEF ScanInv
<1>2. QED
  BY InitScanInv, NextScanInv, <1>1, PTL DEF ScanSpec

================================================================================
