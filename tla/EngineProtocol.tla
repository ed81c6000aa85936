---------------------------- MODULE EngineProtocol ----------------------------
(***************************************************************************)
(* One operation over the engine protocol: serve of crates/nix-tools/src/  *)
(* protocol.rs in the engine process, with its control thread, and invoke  *)
(* of sdk/go/client.go in the client, with the goroutines that write the   *)
(* request and the cancellation, two pipes between them, and a context     *)
(* that may be cancelled at any moment.                                    *)
(*                                                                         *)
(* The engine proper is one step from a request to its outcome, with       *)
(* progress before it; it reads the token when it settles.  It may also    *)
(* hang for ever, and die; so may the client.  The scanner goroutine is    *)
(* the reader of the output pipe.  A frame is its type and what the client *)
(* looks at; one the client died in the middle of is "truncated".  Every   *)
(* operation has a manifest; the terminal user interface is left out.      *)
(***************************************************************************)
EXTENDS Naturals, Sequences

CONSTANTS
  MaxProgress,   \* bound of the model: progress events of the operation
  PipeCapacity,  \* bound of the model: frames the output pipe holds
  None

ASSUME EngineProtocolAssumption ==
  /\ MaxProgress \in Nat /\ PipeCapacity \in Nat \ {0}
  /\ None \notin {"client", "other", "cancelled", "ok", "failedManifest", "cancelledManifest"}

VARIABLES
  \* the engine process: serve, the token, the control thread, Output
  engine, signal, control, controlError, failure, progress, outcome, reply, status,
  \* the pipes
  stdin, stdinOpen, stdout, stdoutOpen,
  \* invoke: the context, its variables, the two writers, what it returns
  client, contextDone, cancelled, grace, cancelFrame, requestFrame, result,
  \* history: the engine was killed while it worked
  interrupted

engineVars == <<engine, signal, control, controlError, failure, progress, outcome, reply, status>>
pipeVars == <<stdin, stdinOpen, stdout, stdoutOpen>>
clientVars == <<client, contextDone, cancelled, grace, cancelFrame, requestFrame, result>>
vars == <<engineVars, pipeVars, clientVars, interrupted>>

Signals == {"client", "other"}
Outcomes == {"success", "failed", "cancelled"}
Frame == [type : {"hello", "progress", "error"}]
         \cup [type : {"result"}, outcome : Outcomes, signal : Signals \cup {None}]

\* What may wait in the input pipe: no request comes behind a cancellation.
Inputs == {<<>>, <<"request">>, <<"cancel">>, <<"truncated">>,
           <<"request", "cancel">>, <<"request", "truncated">>}

TypeOK ==
  /\ engine \in {"starting", "awaiting", "working", "settled", "replying", "excusing",
                 "excusingAgain", "gone"}
  /\ signal \in Signals \cup {None}
  /\ control \in {"none", "reading", "ended"}
  /\ controlError \in BOOLEAN /\ failure \in BOOLEAN /\ interrupted \in BOOLEAN
  /\ stdinOpen \in BOOLEAN /\ stdoutOpen \in BOOLEAN
  /\ contextDone \in BOOLEAN /\ cancelled \in BOOLEAN
  /\ progress \in 0 .. MaxProgress
  /\ outcome \in Outcomes \cup {"error", None}
  /\ reply \in Frame \cup {None}
  /\ status \in {"zero", "one", "killed", None}
  /\ stdin \in Inputs
  /\ stdout \in Seq(Frame) /\ Len(stdout) <= PipeCapacity
  /\ client \in {"hello", "writing", "reading", "closing", "waiting", "returned", "dead"}
  /\ grace \in {"none", "set", "expired"}
  /\ cancelFrame \in {"none", "pending", "written", "lost"}
  /\ requestFrame \in {"none", "pending", "written", "lost"}
  /\ result \in {None, "ok", "cancelled", "cancelledManifest", "failedManifest", "error",
                 "protocol", "exit"}

Init ==
  /\ engine = "starting" /\ signal = None /\ control = "none"
  /\ controlError = FALSE /\ failure = FALSE /\ progress = 0
  /\ outcome = None /\ reply = None /\ status = None
  /\ stdin = <<>> /\ stdinOpen = TRUE /\ stdout = <<>> /\ stdoutOpen = TRUE
  /\ client = "hello" /\ contextDone = FALSE /\ cancelled = FALSE
  /\ grace = "none" /\ cancelFrame = "none" /\ requestFrame = "none"
  /\ result = None
  /\ interrupted = FALSE

------------------------------------------------------------------------------
(* The engine: Output::send *)

\* Cancellation::request: the first signal stays.
Requested(s) == IF signal = None THEN s ELSE signal

Alive == engine # "gone"
Excuse == [type |-> "error"]
Write(frame) == stdoutOpen /\ Len(stdout) < PipeCapacity /\ stdout' = Append(stdout, frame)

Exit(code) == engine' = "gone" /\ status' = code

EngineUnchanged == UNCHANGED <<clientVars, interrupted, stdinOpen, stdoutOpen>>

Hello ==
  /\ engine = "starting"
  /\ \/ Write([type |-> "hello"]) /\ engine' = "awaiting" /\ UNCHANGED <<status, signal>>
     \/ ~stdoutOpen /\ signal' = Requested("other") /\ Exit("one") /\ UNCHANGED stdout
  /\ EngineUnchanged
  /\ UNCHANGED <<control, controlError, failure, progress, outcome, reply, stdin>>

\* read_frame and validate: a request that may be invalid starts the work, the
\* end of the input and anything else is answered with an error envelope.
ReadRequest ==
  /\ engine = "awaiting"
  /\ \/ /\ stdin # <<>> /\ Head(stdin) = "request"
        /\ engine' = "working" /\ control' = "reading"
        /\ stdin' = Tail(stdin)
        /\ UNCHANGED reply
     \/ /\ stdin # <<>> \/ ~stdinOpen
        /\ engine' = "excusingAgain"
        /\ reply' = Excuse
        /\ stdin' = IF stdin = <<>> THEN stdin ELSE Tail(stdin)
        /\ UNCHANGED control
  /\ EngineUnchanged
  /\ UNCHANGED <<signal, controlError, failure, progress, outcome, status, stdout>>

\* The end of the input is not looked at.
ControlIgnoresEnd ==
  /\ Alive /\ control = "reading"
  /\ stdin # <<>> /\ Head(stdin) = "cancel"
  /\ signal' = Requested("client")
  /\ stdin' = Tail(stdin)
  /\ control' = "ended"
  /\ EngineUnchanged
  /\ UNCHANGED <<engine, controlError, failure, progress, outcome, reply, status, stdout>>

\* The control thread: a cancellation, or the end of the input, which is not
\* an error.
Control ==
  /\ Alive /\ control = "reading"
  /\ \/ /\ stdin # <<>> /\ Head(stdin) = "cancel"
        /\ signal' = Requested("client")
        /\ stdin' = Tail(stdin)
     \/ /\ stdin = <<>> /\ ~stdinOpen
        /\ signal' = Requested("other")
        /\ UNCHANGED stdin
  /\ control' = "ended"
  /\ EngineUnchanged
  /\ UNCHANGED <<engine, controlError, failure, progress, outcome, reply, status, stdout>>

\* A frame that is no cancellation: the error is kept first, then the token
\* is requested.
ControlRefuses ==
  /\ Alive /\ control = "reading"
  /\ \/ /\ ~controlError
        /\ stdin # <<>> /\ Head(stdin) = "truncated"
        /\ controlError' = TRUE
        /\ UNCHANGED <<control, stdin, signal>>
     \/ /\ controlError
        /\ signal' = Requested("other")
        /\ control' = "ended"
        /\ stdin' = Tail(stdin)
        /\ UNCHANGED controlError
  /\ EngineUnchanged
  /\ UNCHANGED <<engine, failure, progress, outcome, reply, status, stdout>>

\* forward_termination_signals.
Terminated ==
  /\ Alive /\ signal = None
  /\ signal' = "other"
  /\ EngineUnchanged
  /\ UNCHANGED <<engine, control, controlError, failure, progress, outcome, reply, status,
                 stdin, stdout>>

\* Output::progress: an event too large for a frame, or a closed pipe, cancels
\* the operation.
Progress ==
  /\ engine = "working" /\ progress < MaxProgress
  /\ progress' = progress + 1
  /\ \/ Write([type |-> "progress"]) /\ UNCHANGED <<failure, signal>>
     \/ failure' = TRUE /\ signal' = Requested("other") /\ UNCHANGED stdout
  /\ EngineUnchanged
  /\ UNCHANGED <<engine, control, controlError, outcome, reply, status, stdin>>

\* execute: finish_manifest and engine_error look at the token.
Settle ==
  /\ engine = "working"
  /\ outcome' \in IF signal = None THEN {"success", "failed", "error"}
                  ELSE {"cancelled", "error"}
  /\ reply' = IF outcome' = "error"
              THEN Excuse
              ELSE [type |-> "result", outcome |-> outcome', signal |-> None]
  /\ engine' = "settled"
  /\ EngineUnchanged
  /\ UNCHANGED <<signal, control, controlError, failure, progress, status, stdin, stdout>>

\* The control error, then the failure of the progress, take the result's place.
TakeErrors ==
  /\ engine = "settled"
  /\ reply' = IF controlError \/ failure THEN Excuse ELSE reply
  /\ engine' = IF reply'.type = "error" THEN "excusing" ELSE "replying"
  /\ EngineUnchanged
  /\ UNCHANGED <<signal, control, controlError, failure, progress, outcome, status, stdin,
                 stdout>>

\* Output::terminal: the result carries the signal seen now; one too large for
\* a frame is excused, and so is one that cannot be written.
Reply ==
  /\ engine = "replying"
  /\ \/ /\ Write([reply EXCEPT !.signal = signal])
        /\ Exit("zero")
        /\ UNCHANGED <<reply, signal>>
     \/ /\ engine' = "excusing"
        /\ reply' = Excuse
        /\ UNCHANGED <<status, signal, stdout>>
     \/ /\ ~stdoutOpen
        /\ signal' = Requested("other")
        /\ engine' = "excusing"
        /\ reply' = Excuse
        /\ UNCHANGED <<status, stdout>>
  /\ EngineUnchanged
  /\ UNCHANGED <<control, controlError, failure, progress, outcome, stdin>>

\* The error envelope, tried twice.
SendExcuse ==
  /\ engine \in {"excusing", "excusingAgain"}
  /\ \/ Write(reply) /\ Exit("zero") /\ UNCHANGED signal
     \/ /\ ~stdoutOpen
        /\ signal' = Requested("other")
        /\ IF engine = "excusing"
           THEN engine' = "excusingAgain" /\ UNCHANGED status
           ELSE Exit("one")
        /\ UNCHANGED stdout
  /\ EngineUnchanged
  /\ UNCHANGED <<control, controlError, failure, progress, outcome, reply, stdin>>

\* The process dies on its own.
EngineDies ==
  /\ Alive
  /\ Exit("one")
  /\ EngineUnchanged
  /\ UNCHANGED <<signal, control, controlError, failure, progress, outcome, reply, stdin, stdout>>

------------------------------------------------------------------------------
(* The client: invoke *)

ClientUnchanged == UNCHANGED <<signal, control, controlError, failure, progress, outcome, reply>>

\* An error: the deferred function kills the group, closes both pipes, and
\* waits for the process.
Fail(how) ==
  /\ result' = how
  /\ client' = "waiting"
  /\ engine' = "gone"
  /\ status' = IF Alive THEN "killed" ELSE status
  /\ stdinOpen' = FALSE /\ stdoutOpen' = FALSE
  /\ interrupted' = (interrupted \/ engine = "working")
  /\ UNCHANGED <<stdin, stdout>>

CancelContext ==
  /\ ~contextDone
  /\ contextDone' = TRUE
  /\ UNCHANGED <<engineVars, pipeVars, client, cancelled, grace, cancelFrame, requestFrame,
                 result, interrupted>>

Reading == client \in {"hello", "reading"}

\* The cancellation is sent and no timer set.
NoticeWithoutTimer ==
  /\ Reading /\ contextDone /\ ~cancelled
  /\ cancelled' = TRUE
  /\ cancelFrame' = "pending"
  /\ UNCHANGED <<engineVars, pipeVars, client, contextDone, grace, requestFrame, result,
                 interrupted>>

\* read notices the context.
Notice ==
  /\ Reading /\ contextDone /\ ~cancelled
  /\ cancelled' = TRUE
  /\ cancelFrame' = "pending"
  /\ grace' = "set"
  /\ UNCHANGED <<engineVars, pipeVars, client, contextDone, requestFrame, result, interrupted>>

\* The goroutine of the cancellation: the pipe may be gone by then.
WriteCancel ==
  /\ cancelFrame = "pending"
  /\ \/ stdinOpen /\ Alive /\ stdin' = Append(stdin, "cancel") /\ cancelFrame' = "written"
     \/ ~(stdinOpen /\ Alive) /\ cancelFrame' = "lost" /\ UNCHANGED stdin
  /\ UNCHANGED <<engineVars, stdinOpen, stdout, stdoutOpen, client, contextDone, cancelled,
                 grace, requestFrame, result, interrupted>>

GraceExpires ==
  /\ grace = "set"
  /\ grace' = "expired"
  /\ UNCHANGED <<engineVars, pipeVars, client, contextDone, cancelled, cancelFrame,
                 requestFrame, result, interrupted>>

\* read gives up.
GiveUp ==
  /\ Reading /\ cancelled /\ grace = "expired"
  /\ Fail("cancelled")
  /\ ClientUnchanged
  /\ UNCHANGED <<contextDone, cancelled, grace, cancelFrame, requestFrame>>

\* The stream ended, after all that was in the pipe.
StreamEnded ==
  /\ Reading /\ stdout = <<>> /\ ~Alive
  /\ Fail(IF cancelled THEN "cancelled" ELSE "protocol")
  /\ ClientUnchanged
  /\ UNCHANGED <<contextDone, cancelled, grace, cancelFrame, requestFrame>>

Received(type) == stdout # <<>> /\ Head(stdout).type = type
Consumed == stdout' = Tail(stdout) /\ UNCHANGED <<stdin, stdinOpen, stdoutOpen>>

\* The handshake: an engine without a capability the request needs is refused,
\* and a request is not begun after a cancellation.
ReceiveHello ==
  /\ client = "hello" /\ Received("hello")
  /\ \/ /\ ~cancelled
        /\ Consumed
        /\ client' = "writing" /\ requestFrame' = "pending"
        /\ UNCHANGED <<engine, status, result, interrupted>>
     \/ cancelled /\ Fail("cancelled") /\ UNCHANGED requestFrame
     \/ Fail("protocol") /\ UNCHANGED requestFrame
  /\ ClientUnchanged
  /\ UNCHANGED <<contextDone, cancelled, grace, cancelFrame>>

\* The goroutine of the request.
WriteRequest ==
  /\ requestFrame = "pending"
  /\ \/ stdinOpen /\ Alive /\ stdin' = Append(stdin, "request") /\ requestFrame' = "written"
     \/ ~(stdinOpen /\ Alive) /\ requestFrame' = "lost" /\ UNCHANGED stdin
  /\ UNCHANGED <<engineVars, stdinOpen, stdout, stdoutOpen, client, contextDone, cancelled,
                 grace, cancelFrame, result, interrupted>>

\* The select on the write and the context, in no order.
RequestWritten ==
  /\ client = "writing"
  /\ \/ /\ requestFrame = "written"
        /\ client' = "reading"
        /\ UNCHANGED <<engine, status, pipeVars, result, interrupted>>
     \/ requestFrame = "lost" /\ Fail("error")
     \/ contextDone /\ Fail("cancelled")
  /\ ClientUnchanged
  /\ UNCHANGED <<contextDone, cancelled, grace, cancelFrame, requestFrame>>

\* OnEvent is called here; it has to come back.
ReceiveProgress ==
  /\ client = "reading" /\ Received("progress")
  /\ Consumed
  /\ UNCHANGED <<engineVars, clientVars, interrupted>>

ReceiveError ==
  /\ client = "reading" /\ Received("error")
  /\ Fail("error")
  /\ ClientUnchanged
  /\ UNCHANGED <<contextDone, cancelled, grace, cancelFrame, requestFrame>>

\* A success is taken; the client closes the input and waits for the end.
Accept ==
  /\ Consumed
  /\ client' = "closing"
  /\ grace' = "set"
  /\ UNCHANGED <<engine, status, result, interrupted>>

\* The outcome of the manifest is not looked at.
ReceiveAnyResult ==
  /\ client = "reading" /\ Received("result")
  /\ \/ contextDone /\ Fail("cancelled") /\ UNCHANGED grace
     \/ ~contextDone /\ Accept
  /\ ClientUnchanged
  /\ UNCHANGED <<contextDone, cancelled, cancelFrame, requestFrame>>

\* A manifest that is no success is an error with the manifest; a success is
\* given up for a context that is done.
ReceiveResult ==
  /\ client = "reading" /\ Received("result")
  /\ LET got == Head(stdout).outcome IN
     \/ got # "success" /\ Fail(IF got = "failed" THEN "failedManifest" ELSE "cancelledManifest")
        /\ UNCHANGED grace
     \/ got = "success" /\ contextDone /\ Fail("cancelled") /\ UNCHANGED grace
     \/ got = "success" /\ ~contextDone /\ Accept
  /\ ClientUnchanged
  /\ UNCHANGED <<contextDone, cancelled, cancelFrame, requestFrame>>

\* stdin.Close, and the select that follows.
CloseInput ==
  /\ client = "closing" /\ stdinOpen
  /\ stdinOpen' = FALSE
  /\ UNCHANGED <<engineVars, stdin, stdout, stdoutOpen, clientVars, interrupted>>

AwaitEnd ==
  /\ client = "closing" /\ ~stdinOpen
  /\ \/ /\ stdout = <<>> /\ ~Alive
        /\ result' = "ok" /\ client' = "waiting"
        /\ UNCHANGED <<engine, status, pipeVars, interrupted>>
     \/ stdout # <<>> /\ Fail("protocol")
     \/ grace = "expired" /\ Fail("protocol")
     \/ contextDone /\ Fail("cancelled")
  /\ ClientUnchanged
  /\ UNCHANGED <<contextDone, cancelled, grace, cancelFrame, requestFrame>>

\* cmd.Wait: the exit status decides about a call that went well so far.
Return ==
  /\ client = "waiting" /\ ~Alive
  /\ client' = "returned"
  /\ result' = IF result = "ok" /\ status # "zero" THEN "exit" ELSE result
  /\ UNCHANGED <<engineVars, pipeVars, contextDone, cancelled, grace, cancelFrame, requestFrame,
                 interrupted>>

------------------------------------------------------------------------------
Serve == Hello \/ ReadRequest \/ Control \/ ControlRefuses \/ Progress \/ Settle \/ TakeErrors
         \/ Reply \/ SendExcuse

Invoke == Notice \/ GiveUp \/ StreamEnded \/ ReceiveHello \/ RequestWritten \/ ReceiveProgress
          \/ ReceiveError \/ ReceiveResult \/ CloseInput \/ AwaitEnd \/ Return

\* The client process is killed, maybe in the middle of a frame.
ClientDies ==
  /\ client \notin {"returned", "dead"}
  /\ client' = "dead"
  /\ stdinOpen' = FALSE /\ stdoutOpen' = FALSE
  /\ stdin' \in {stdin} \cup
       (IF "pending" \in {cancelFrame, requestFrame} /\ stdinOpen
        THEN {Append(stdin, "truncated")} ELSE {})
  /\ cancelFrame' = IF cancelFrame = "pending" THEN "lost" ELSE cancelFrame
  /\ requestFrame' = IF requestFrame = "pending" THEN "lost" ELSE requestFrame
  /\ UNCHANGED <<engineVars, stdout, contextDone, cancelled, grace, result, interrupted>>

Next == Serve \/ Terminated \/ EngineDies \/ Invoke \/ CancelContext \/ WriteCancel
        \/ GraceExpires \/ WriteRequest \/ ClientDies

Spec == Init /\ [][Next]_vars

\* The goroutines of invoke run, the timer fires and OnEvent comes back; the
\* kernel delivers SIGKILL.  Nothing is assumed of the engine.
FairSpec ==
  /\ Spec
  /\ WF_vars(Invoke) /\ WF_vars(WriteCancel) /\ WF_vars(WriteRequest) /\ WF_vars(GraceExpires)

\* The threads of the engine run, and cancelled work settles, which the
\* supervisor of its processes sees to.
EngineRuns ==
  /\ WF_vars(Hello \/ ReadRequest \/ TakeErrors \/ Reply \/ SendExcuse)
  /\ WF_vars(Control \/ ControlRefuses)
  /\ WF_vars(signal # None /\ Settle)

------------------------------------------------------------------------------
(* Properties *)

\* What invoke returns is what the engine settled: a success only for a
\* success whose process then ended well and was not killed at work, a failed
\* or cancelled manifest only for that outcome, a cancellation only of a
\* context that is done; and a cancelled manifest comes with its signal.
OutcomeIsTold ==
  /\ TypeOK
  /\ client = "returned" =>
       CASE result = "ok" -> outcome = "success" /\ status = "zero" /\ ~interrupted
         [] result = "failedManifest" -> outcome = "failed"
         [] result = "cancelledManifest" -> outcome = "cancelled"
         [] result = "cancelled" -> contextDone
         [] OTHER -> TRUE
  /\ \A i \in 1 .. Len(stdout) :
       stdout[i].type = "result" /\ stdout[i].outcome = "cancelled" =>
         /\ stdout[i].signal # None
         /\ stdout[i].signal = "client" => contextDone

\* Once the context is done invoke returns, although the engine may hang at
\* any point, with either pipe full, and never read its cancellation.
CallReturns == contextDone ~> client \in {"returned", "dead"}

\* An engine whose client died does not work on: it sees the end of its input,
\* or of a frame, and ends, although its output is gone.
EngineEndsWithClient == EngineRuns => (client = "dead" ~> engine = "gone")

===============================================================================
