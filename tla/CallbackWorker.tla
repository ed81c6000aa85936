---------------------------- MODULE CallbackWorker ----------------------------
(***************************************************************************)
(* The thread that runs output callbacks for a process supervisor, and the *)
(* queue between the two: crates/nix-tools-core/src/process/callback.rs.   *)
(*                                                                         *)
(* BufferCount reusable buffers bound the queue.  The worker tells the     *)
(* supervisor about a recycled buffer, and about its own end, through a    *)
(* socket; the supervisor wakes the worker through a condition variable.   *)
(* Each section under the mutex is one action; the callback itself runs    *)
(* outside the mutex and may return, panic, or never come back.            *)
(*                                                                         *)
(* Client is the supervisor's side reduced to what this module offers it;  *)
(* module Supervisor replaces it by the real one.                          *)
(***************************************************************************)
EXTENDS Naturals, Sequences

CONSTANTS
  Streams,      \* the output streams that need a callback
  BufferCount,  \* BUFFER_COUNT
  MaxChunks     \* bound of the model: chunks a client sends

ASSUME BufferAssumption == BufferCount \in Nat \ {0} /\ MaxChunks \in Nat

VARIABLES
  queue,       \* chunks waiting for the worker
  free,        \* number of free buffers
  closing, stopped,
  completion,  \* CompletionStatus
  worker,      \* where the worker thread stands
  inFlight,    \* the chunk in the callback's hands, as a sequence of at most one
  notified,    \* unread bytes in the notification socket
  sent,        \* history: chunks accepted by try_send
  delivered    \* history: chunks whose callback returned

vars == <<queue, free, closing, stopped, completion, worker, inFlight, notified,
          sent, delivered>>

Chunk == [stream : Streams, eof : BOOLEAN, number : 1 .. MaxChunks]
CompletionStatus == {"Running", "Finished", "Panicked"}
WorkerStates == {"awake", "sleeping", "calling", "recycling", "notifying",
                 "ending", "unwinding", "exited"}

TypeOK ==
  /\ queue \in Seq(Chunk)
  /\ free \in 0 .. BufferCount
  /\ closing \in BOOLEAN
  /\ stopped \in BOOLEAN
  /\ completion \in CompletionStatus
  /\ worker \in WorkerStates
  /\ inFlight \in Seq(Chunk)
  /\ notified \in BOOLEAN
  /\ sent \in Seq(Chunk)
  /\ delivered \in Seq(Chunk)

Init ==
  /\ queue = <<>>
  /\ free = BufferCount
  /\ closing = FALSE
  /\ stopped = FALSE
  /\ completion = "Running"
  /\ worker = "awake"
  /\ inFlight = <<>>
  /\ notified = FALSE
  /\ sent = <<>>
  /\ delivered = <<>>

------------------------------------------------------------------------------
(* What the supervisor calls *)

Accepting == ~closing /\ ~stopped /\ completion = "Running"

\* can_send, and the conditions under which try_send returns true.
CanSend == free > 0 /\ Accepting

\* completed
Completed == completion # "Running"

\* event_fd is readable: bytes to drain, or the end of the socket.
EventReady == notified \/ Completed

\* changed.notify_one, the worker being the only thread that can wait there
\* while the supervisor is calling.
WakeWorker == worker' = IF worker = "sleeping" THEN "awake" ELSE worker

\* try_send that puts the chunk at the wrong end of the queue.
TrySendInFront(s, end) ==
  LET chunk == [stream |-> s, eof |-> end, number |-> Len(sent) + 1] IN
  /\ CanSend
  /\ free' = free - 1
  /\ queue' = <<chunk>> \o queue
  /\ sent' = Append(sent, chunk)
  /\ WakeWorker
  /\ UNCHANGED <<closing, stopped, completion, inFlight, notified, delivered>>

\* An accepted try_send.
TrySend(s, end) ==
  LET chunk == [stream |-> s, eof |-> end, number |-> Len(sent) + 1] IN
  /\ CanSend
  /\ free' = free - 1
  /\ queue' = Append(queue, chunk)
  /\ sent' = Append(sent, chunk)
  /\ WakeWorker
  /\ UNCHANGED <<closing, stopped, completion, inFlight, notified, delivered>>

\* finish that leaves the worker asleep.
FinishWithoutNotify ==
  /\ closing' = TRUE
  /\ UNCHANGED <<queue, free, stopped, completion, worker, inFlight, notified, sent, delivered>>

\* finish
Finish ==
  /\ closing' = TRUE
  /\ WakeWorker
  /\ UNCHANGED <<queue, free, stopped, completion, inFlight, notified, sent, delivered>>

\* The time-out of join, and Drop: the worker is abandoned.
Stop ==
  /\ stopped' = TRUE
  /\ WakeWorker
  /\ UNCHANGED <<queue, free, closing, completion, inFlight, notified, sent, delivered>>

\* drain_notifications; it fails when the completion is Panicked.
Drain ==
  /\ notified' = FALSE
  /\ UNCHANGED <<queue, free, closing, stopped, completion, worker, inFlight, sent, delivered>>

------------------------------------------------------------------------------
(* The worker's loop *)

NothingToDo == queue = <<>> /\ ~closing /\ ~stopped

\* The condition of the wait loop fails to hold: the thread sleeps.
Sleep ==
  /\ worker = "awake"
  /\ NothingToDo
  /\ worker' = "sleeping"
  /\ UNCHANGED <<queue, free, closing, stopped, completion, inFlight, notified, sent, delivered>>

\* The loop ends as soon as it sees closing.
LeaveWhenClosing ==
  /\ worker = "awake"
  /\ stopped \/ closing
  /\ worker' = "ending"
  /\ UNCHANGED <<queue, free, closing, stopped, completion, inFlight, notified, sent, delivered>>

\* The loop ends: abandoned, or closing with an empty queue.
Leave ==
  /\ worker = "awake"
  /\ stopped \/ (queue = <<>> /\ closing)
  /\ worker' = "ending"
  /\ UNCHANGED <<queue, free, closing, stopped, completion, inFlight, notified, sent, delivered>>

Pop ==
  /\ worker = "awake"
  /\ ~stopped
  /\ queue # <<>>
  /\ inFlight' = <<Head(queue)>>
  /\ queue' = Tail(queue)
  /\ worker' = "calling"
  /\ UNCHANGED <<free, closing, stopped, completion, notified, sent, delivered>>

CallbackReturns ==
  /\ worker = "calling"
  /\ delivered' = delivered \o inFlight
  /\ inFlight' = <<>>
  /\ worker' = "recycling"
  /\ UNCHANGED <<queue, free, closing, stopped, completion, notified, sent>>

\* The chunk and its buffer are lost with the unwinding stack.
CallbackPanics ==
  /\ worker = "calling"
  /\ worker' = "unwinding"
  /\ UNCHANGED <<queue, free, closing, stopped, completion, inFlight, notified, sent, delivered>>

\* The loop forgets to return the buffer.
RecycleNothing ==
  /\ worker = "recycling"
  /\ worker' = "notifying"
  /\ UNCHANGED <<queue, free, closing, stopped, completion, inFlight, notified, sent, delivered>>

\* The buffer is given back before the supervisor is told of it.
Recycle ==
  /\ worker = "recycling"
  /\ free' = free + 1
  /\ worker' = "notifying"
  /\ UNCHANGED <<queue, closing, stopped, completion, inFlight, notified, sent, delivered>>

\* A worker that recycles without telling anybody.
NotifyNobody ==
  /\ worker = "notifying"
  /\ worker' = "awake"
  /\ UNCHANGED <<queue, free, closing, stopped, completion, inFlight, notified, sent, delivered>>

\* notify
Notify ==
  /\ worker = "notifying"
  /\ notified' = TRUE
  /\ worker' = "awake"
  /\ UNCHANGED <<queue, free, closing, stopped, completion, inFlight, sent, delivered>>

\* Completion::drop, which also shuts the notification socket.
Complete ==
  /\ worker \in {"ending", "unwinding"}
  /\ completion' = IF worker = "unwinding" THEN "Panicked" ELSE "Finished"
  /\ worker' = "exited"
  /\ UNCHANGED <<queue, free, closing, stopped, inFlight, notified, sent, delivered>>

\* The worker's own steps: everything but the end of a callback.
WorkerStep == Sleep \/ Leave \/ Pop \/ Recycle \/ Notify \/ Complete

WorkerNext == WorkerStep \/ CallbackReturns \/ CallbackPanics

------------------------------------------------------------------------------
(* A client that uses the interface in the order the supervisor does *)

Client ==
  \/ Len(sent) < MaxChunks /\ \E s \in Streams, end \in BOOLEAN : TrySend(s, end)
  \/ Finish
  \/ closing /\ completion = "Running" /\ Stop
  \/ Drain

Next == WorkerNext \/ Client

\* Only the worker is driven; FairSpec also assumes that callbacks come back.
Spec == Init /\ [][Next]_vars
FairSpec == Spec /\ WF_vars(WorkerStep) /\ WF_vars(CallbackReturns \/ CallbackPanics)

------------------------------------------------------------------------------
(* Properties *)

\* Every chunk the supervisor handed over is in exactly one place, and the
\* callback sees them in the order they were read, whichever side runs ahead.
DeliveredInOrder == sent = delivered \o inFlight \o queue

\* The two buffers are never lost or doubled: what is free, queued or in the
\* callback's hands adds up, so back-pressure neither leaks nor overflows.
BuffersConserved ==
  free + Len(queue) + Len(inFlight) + (IF worker = "recycling" THEN 1 ELSE 0) = BufferCount

\* A worker that ended of its own accord has delivered everything it was
\* given; only an abandoned or a panicked one leaves chunks behind.
FinishedMeansDelivered ==
  completion = "Finished" /\ ~stopped => delivered = sent

\* Once closed, the worker ends, provided the callbacks it calls come back.
ClosedWorkerEnds == closing ~> Completed

==============================================================================
