-------------------------- MODULE EngineProtocolProofs --------------------------
(***************************************************************************)
(* Proofs about EngineProtocol for any number of progress events and any   *)
(* capacity of the output pipe.                                            *)
(*                                                                         *)
(* The engine writes a result and is gone, so what a result in the pipe    *)
(* says can no longer become wrong: FramesInv.  Before that, EngineInv     *)
(* ties the reply to the outcome and the token to the context, RequestInv  *)
(* keeps the two goroutines of the client from writing out of order, and   *)
(* ClientInv says what the client has taken from the frame it acted on.    *)
(***************************************************************************)
EXTENDS EngineProtocol, SequenceTheorems, TLAPS

USE EngineProtocolAssumption

\* The frames in the output pipe.
Shown == {stdout[i] : i \in 1 .. Len(stdout)}

\* What a result says, and that the engine ended well behind it.
Told(frame) ==
  frame.type = "result" =>
    /\ engine = "gone" /\ status = "zero" /\ outcome = frame.outcome
    /\ frame.outcome = "cancelled" => frame.signal # None
    /\ frame.signal = "client" => contextDone

FramesInv == \A frame \in Shown : Told(frame)

EngineInv ==
  /\ engine \in {"settled", "replying"} =>
       /\ reply \in Frame /\ reply.type \in {"result", "error"}
       /\ reply.type = "result" => reply.outcome = outcome
  /\ engine = "replying" => reply.type = "result"
  /\ engine \in {"excusing", "excusingAgain"} => reply = Excuse
  /\ outcome = "cancelled" => signal # None
  /\ signal = "client" => contextDone

HasRequest(input) ==
  input \in {<<"request">>, <<"request", "cancel">>, <<"request", "truncated">>}
HasCancel(input) == input \in {<<"cancel">>, <<"request", "cancel">>}
HasTruncated(input) == input \in {<<"truncated">>, <<"request", "truncated">>}

RequestInv ==
  /\ cancelled => contextDone
  /\ cancelFrame = "none" <=> ~cancelled
  /\ HasCancel(stdin) => cancelFrame = "written"
  /\ HasTruncated(stdin) => ~stdinOpen
  /\ requestFrame = "none" => ~HasRequest(stdin)
  /\ client = "hello" => requestFrame = "none"
  /\ client = "writing" => ~cancelled
  /\ requestFrame = "pending" /\ stdinOpen => client = "writing" /\ stdin = <<>> /\ ~cancelled
  /\ client = "dead" => ~stdinOpen
  /\ engine \in {"starting", "awaiting"} => control = "none"
  /\ control = "none" => ~controlError
  /\ control = "reading" /\ controlError => stdin = <<"truncated">>

\* A success that was taken: the engine ended well, and not by the client's hand.
Good == engine = "gone" /\ status = "zero" /\ outcome = "success" /\ ~interrupted

ClientInv ==
  /\ client \in {"hello", "writing", "reading", "closing"} => ~interrupted
  /\ client = "closing" => Good
  /\ result = "ok" => Good
  /\ result = "failedManifest" => engine = "gone" /\ outcome = "failed"
  /\ result = "cancelledManifest" => engine = "gone" /\ outcome = "cancelled"
  /\ result = "cancelled" => contextDone

IInv == TypeOK /\ FramesInv /\ EngineInv /\ RequestInv /\ ClientInv

------------------------------------------------------------------------------
(* The pipes *)

\* What can be read from the request pipe, and what can be added to it.
LEMMA InputTails ==
  /\ Tail(<<"request">>) = <<>> /\ Tail(<<"cancel">>) = <<>> /\ Tail(<<"truncated">>) = <<>>
  /\ Tail(<<"request", "cancel">>) = <<"cancel">>
  /\ Tail(<<"request", "truncated">>) = <<"truncated">>
OBVIOUS

LEMMA InputHeads ==
  /\ Head(<<"request">>) = "request" /\ Head(<<"cancel">>) = "cancel"
  /\ Head(<<"truncated">>) = "truncated"
  /\ Head(<<"request", "cancel">>) = "request" /\ Head(<<"request", "truncated">>) = "request"
OBVIOUS

LEMMA InputAppends ==
  /\ Append(<<>>, "request") = <<"request">> /\ Append(<<>>, "cancel") = <<"cancel">>
  /\ Append(<<>>, "truncated") = <<"truncated">>
  /\ Append(<<"request">>, "cancel") = <<"request", "cancel">>
  /\ Append(<<"request">>, "truncated") = <<"request", "truncated">>
<1>1. /\ Append(<<>>, "request") = <<"request">> /\ Append(<<>>, "cancel") = <<"cancel">>
      /\ Append(<<>>, "truncated") = <<"truncated">>
  OBVIOUS
<1>2. ASSUME NEW x \in {"cancel", "truncated"}
      PROVE  Append(<<"request">>, x) = <<"request", x>>
  <2> DEFINE Input == {"request", "cancel", "truncated"}
  <2>1. <<"request">> \in Seq(Input) /\ <<"request", x>> \in Seq(Input) /\ x \in Input
    OBVIOUS
  <2>2. Len(<<"request">>) = 1 /\ Len(<<"request", x>>) = 2
    OBVIOUS
  <2>3. /\ Append(<<"request">>, x) \in Seq(Input) /\ Len(Append(<<"request">>, x)) = 2
        /\ Append(<<"request">>, x)[1] = "request" /\ Append(<<"request">>, x)[2] = x
    BY <2>1, <2>2, AppendProperties
  <2>4. \A i \in 1 .. 2 : Append(<<"request">>, x)[i] = <<"request", x>>[i]
    BY <2>3
  <2>5. QED BY <2>1, <2>2, <2>3, <2>4, SeqEqual
<1>3. QED BY <1>1, <1>2

\* The inputs are told apart.
LEMMA InputsDiffer ==
  /\ <<"request">> # <<>> /\ <<"cancel">> # <<>> /\ <<"truncated">> # <<>>
  /\ <<"request", "cancel">> # <<>> /\ <<"request", "truncated">> # <<>>
  /\ <<"request">> # <<"cancel">> /\ <<"request">> # <<"truncated">>
  /\ <<"request">> # <<"request", "cancel">> /\ <<"request">> # <<"request", "truncated">>
  /\ <<"cancel">> # <<"truncated">> /\ <<"cancel">> # <<"request", "cancel">>
  /\ <<"cancel">> # <<"request", "truncated">> /\ <<"truncated">> # <<"request", "cancel">>
  /\ <<"truncated">> # <<"request", "truncated">>
  /\ <<"request", "cancel">> # <<"request", "truncated">>
OBVIOUS

\* Taking the first frame of an input leaves an input.
LEMMA InputLeft ==
  ASSUME TypeOK, stdin # <<>>
  PROVE  /\ Tail(stdin) \in Inputs
         /\ Head(stdin) = "cancel" => HasCancel(stdin)
         /\ Head(stdin) = "truncated" => stdin = <<"truncated">>
         /\ ~HasRequest(Tail(stdin))
         /\ HasCancel(Tail(stdin)) => HasCancel(stdin)
         /\ HasTruncated(Tail(stdin)) => HasTruncated(stdin)
<1>1. \/ stdin = <<"request">> \/ stdin = <<"cancel">> \/ stdin = <<"truncated">>
      \/ stdin = <<"request", "cancel">> \/ stdin = <<"request", "truncated">>
  BY DEF TypeOK, Inputs
<1>2. CASE stdin \in {<<"request">>, <<"cancel">>, <<"truncated">>}
  <2>1. Tail(stdin) = <<>>
    BY <1>2, InputTails
  <2>2. Head(stdin) = "cancel" => stdin = <<"cancel">>
    BY <1>2, InputHeads
  <2>3. Head(stdin) = "truncated" => stdin = <<"truncated">>
    BY <1>2, InputHeads
  <2>4. QED BY <2>1, <2>2, <2>3, InputsDiffer DEF Inputs, HasRequest, HasCancel, HasTruncated
<1>3. CASE stdin = <<"request", "cancel">>
  BY <1>3, InputTails, InputHeads, InputsDiffer DEF Inputs, HasRequest, HasCancel, HasTruncated
<1>4. CASE stdin = <<"request", "truncated">>
  BY <1>4, InputTails, InputHeads, InputsDiffer DEF Inputs, HasRequest, HasCancel, HasTruncated
<1>5. QED BY <1>1, <1>2, <1>3, <1>4

\* What the goroutines may add to it.
LEMMA InputGrows ==
  ASSUME TypeOK
  PROVE  /\ stdin = <<>> => ~HasRequest(stdin) /\ ~HasCancel(stdin) /\ ~HasTruncated(stdin)
         /\ stdin = <<>> => Append(stdin, "request") \in Inputs
              /\ ~HasCancel(Append(stdin, "request")) /\ ~HasTruncated(Append(stdin, "request"))
         /\ ~HasCancel(stdin) /\ ~HasTruncated(stdin) =>
              /\ Append(stdin, "cancel") \in Inputs /\ ~HasTruncated(Append(stdin, "cancel"))
              /\ HasRequest(Append(stdin, "cancel")) => HasRequest(stdin)
              /\ Append(stdin, "truncated") \in Inputs /\ ~HasCancel(Append(stdin, "truncated"))
              /\ HasRequest(Append(stdin, "truncated")) => HasRequest(stdin)
BY InputAppends, InputsDiffer DEF TypeOK, Inputs, HasRequest, HasCancel, HasTruncated

\* A frame that is written is shown behind the others.
LEMMA WriteShows ==
  ASSUME TypeOK, NEW frame \in Frame, Write(frame)
  PROVE  /\ stdout' \in Seq(Frame) /\ Len(stdout') <= PipeCapacity
         /\ Shown' = Shown \cup {frame}
<1>1. /\ stdout \in Seq(Frame) /\ Len(stdout) \in Nat /\ Len(stdout) < PipeCapacity
      /\ stdout' = Append(stdout, frame)
  BY LenProperties DEF TypeOK, Write
<1>2. /\ stdout' \in Seq(Frame) /\ Len(stdout') = Len(stdout) + 1
      /\ \A i \in 1 .. Len(stdout) : stdout'[i] = stdout[i]
      /\ stdout'[Len(stdout) + 1] = frame
  BY <1>1, AppendProperties
<1>3. Shown' = Shown \cup {frame}
  <2>1. \A i \in 1 .. Len(stdout) + 1 : i \in 1 .. Len(stdout) \/ i = Len(stdout) + 1
    BY <1>1
  <2>2. 1 .. Len(stdout) \subseteq 1 .. Len(stdout) + 1 /\ Len(stdout) + 1 \in 1 .. Len(stdout) + 1
    BY <1>1
  <2>3. QED BY <1>2, <2>1, <2>2 DEF Shown
<1>4. QED BY <1>1, <1>2, <1>3

\* A frame that is taken was shown.
LEMMA ConsumedShrinks ==
  ASSUME TypeOK, stdout # <<>>
  PROVE  /\ Head(stdout) \in Shown /\ Head(stdout) \in Frame
         /\ stdout' = Tail(stdout) =>
              stdout' \in Seq(Frame) /\ Len(stdout') <= PipeCapacity /\ Shown' \subseteq Shown
<1>1. stdout \in Seq(Frame) /\ Len(stdout) \in Nat \ {0} /\ Len(stdout) <= PipeCapacity
  BY EmptySeq DEF TypeOK
<1>2. Head(stdout) = stdout[1] /\ Head(stdout) \in Frame
  BY <1>1, HeadTailProperties
<1>3. Head(stdout) \in Shown
  BY <1>1, <1>2 DEF Shown
<1>4. ASSUME stdout' = Tail(stdout)
      PROVE  stdout' \in Seq(Frame) /\ Len(stdout') <= PipeCapacity /\ Shown' \subseteq Shown
  <2>1. /\ stdout' \in Seq(Frame) /\ Len(stdout') = Len(stdout) - 1
        /\ \A i \in 1 .. Len(stdout') : stdout'[i] = stdout[i + 1]
    BY <1>1, <1>4, HeadTailProperties
  <2>2. \A i \in 1 .. Len(stdout') : i + 1 \in 1 .. Len(stdout)
    BY <1>1, <2>1
  <2>3. Shown' \subseteq Shown
    BY <2>1, <2>2 DEF Shown
  <2>4. QED BY <1>1, <2>1, <2>3
<1>5. QED BY <1>2, <1>3, <1>4

LEMMA InitIInv == Init => IInv
<1> SUFFICES ASSUME Init PROVE IInv
  OBVIOUS
<1>1. <<>> \in Seq(Frame) /\ Len(<<>>) = 0
  BY EmptySeq
<1>2. Shown = {}
  BY <1>1 DEF Init, Shown
<1>3. TypeOK
  <2>1. /\ controlError \in BOOLEAN /\ failure \in BOOLEAN /\ interrupted \in BOOLEAN
        /\ stdinOpen \in BOOLEAN /\ stdoutOpen \in BOOLEAN
        /\ contextDone \in BOOLEAN /\ cancelled \in BOOLEAN
    BY Zenon DEF Init
  <2>2. progress \in 0 .. MaxProgress
    BY DEF Init
  <2>4. stdin \in Inputs
    BY DEF Init, Inputs
  <2>5. stdout \in Seq(Frame) /\ Len(stdout) <= PipeCapacity
    BY <1>1 DEF Init
  <2>3. QED BY <2>1, <2>2, <2>4, <2>5 DEF Init, TypeOK
<1>4. FramesInv /\ EngineInv
  BY <1>2 DEF Init, FramesInv, EngineInv
<1>5. RequestInv
  BY InputsDiffer DEF Init, RequestInv, HasRequest, HasCancel, HasTruncated
<1>6. ClientInv
  BY DEF Init, ClientInv
<1>7. QED BY <1>3, <1>4, <1>5, <1>6 DEF IInv

\* While the engine runs there is no result, and the client has taken none.
LEMMA NothingToldYet ==
  ASSUME IInv, Alive
  PROVE  /\ \A frame \in Shown : frame.type # "result"
         /\ client # "closing" /\ result \notin {"ok", "failedManifest", "cancelledManifest"}
BY DEF IInv, FramesInv, Told, ClientInv, Good, Alive

\* A step of the engine that adds no result to what is shown, or that ends it well with
\* one, keeps what was told and what the client has taken.
LEMMA EngineTells ==
  ASSUME IInv, Alive, EngineUnchanged,
         \A frame \in Shown' : frame \in Shown \/ Told(frame)'
  PROVE  FramesInv' /\ ClientInv'
<1>1. FramesInv'
  BY NothingToldYet DEF FramesInv, Told
<1>2. ClientInv'
  BY NothingToldYet DEF EngineUnchanged, clientVars, ClientInv, Good, IInv
<1>3. QED BY <1>1, <1>2

LEMMA EngineIInv ==
  ASSUME IInv, Serve \/ Terminated \/ EngineDies
  PROVE  IInv'
<1>1. CASE Hello
  <2>0. Alive /\ EngineUnchanged /\ TypeOK
    BY <1>1 DEF Hello, Exit, Requested, Alive, IInv
  <2>1. /\ stdout' \in Seq(Frame) /\ Len(stdout') <= PipeCapacity
        /\ \A frame \in Shown' : frame \in Shown \/ Told(frame)'
    <3>1. CASE UNCHANGED stdout
      BY <2>0, <3>1 DEF TypeOK, Shown
    <3>2. CASE Write([type |-> "hello"])
      <4>1. [type |-> "hello"] \in Frame
        BY DEF Frame
      <4>2. Told([type |-> "hello"])'
        BY DEF Told
      <4>3. QED BY <2>0, <3>2, <4>1, <4>2, WriteShows
    <3>3. QED BY <1>1, <3>1, <3>2 DEF Hello
  <2>2. TypeOK'
    BY <1>1, <2>0, <2>1 DEF TypeOK, Hello, Exit, Requested, EngineUnchanged, clientVars, Signals,
                            Frame, Excuse
  <2>3. EngineInv'
    BY <1>1, <2>0 DEF IInv, EngineInv, Hello, Exit, Requested, EngineUnchanged, clientVars,
                      Outcomes, Excuse
  <2>4. RequestInv'
    BY <1>1, <2>0 DEF IInv, RequestInv, Hello, Exit, Requested, EngineUnchanged, clientVars
  <2>5. FramesInv' /\ ClientInv'
    BY <2>0, <2>1, EngineTells
  <2>6. QED BY <2>2, <2>3, <2>4, <2>5 DEF IInv
<1>2. CASE ReadRequest
  <2>0. Alive /\ EngineUnchanged /\ TypeOK /\ RequestInv /\ EngineInv
    BY <1>2 DEF ReadRequest, Alive, IInv
  <2>1. UNCHANGED stdout /\ Shown' = Shown
    BY <1>2 DEF ReadRequest, Shown
  <2>2. stdin' = stdin \/ (stdin # <<>> /\ stdin' = Tail(stdin))
    BY <1>2, <2>0, InputsDiffer DEF ReadRequest, RequestInv
  <2>3. /\ stdin' \in Inputs
        /\ HasRequest(stdin') => HasRequest(stdin)
        /\ HasCancel(stdin') => HasCancel(stdin)
        /\ HasTruncated(stdin') => HasTruncated(stdin)
        /\ stdin = <<>> => stdin' = <<>>
    BY <2>0, <2>2, InputLeft DEF TypeOK
  <2>4. /\ engine = "awaiting"
        /\ \/ engine' = "working" /\ control' = "reading" /\ UNCHANGED reply
           \/ engine' = "excusingAgain" /\ UNCHANGED control /\ reply' = Excuse
        /\ UNCHANGED <<signal, controlError, failure, progress, outcome, status>>
    BY <1>2, <2>0, InputLeft DEF ReadRequest, TypeOK, RequestInv, Exit
  <2>5. TypeOK'
    BY <2>0, <2>1, <2>3, <2>4 DEF TypeOK, Requested, EngineUnchanged, clientVars, Signals, Frame,
                                  Excuse
  <2>6. EngineInv'
    BY <2>0, <2>4 DEF EngineInv, RequestInv, Requested, EngineUnchanged, clientVars, Excuse
  <2>7. RequestInv'
    BY <2>0, <2>3, <2>4 DEF RequestInv, EngineUnchanged, clientVars
  <2>8. FramesInv' /\ ClientInv'
    BY <2>0, <2>1, EngineTells
  <2>9. QED BY <2>5, <2>6, <2>7, <2>8 DEF IInv
<1>3. CASE Control
  <2>0. Alive /\ EngineUnchanged /\ TypeOK /\ RequestInv /\ EngineInv
    BY <1>3 DEF Control, Alive, IInv
  <2>1. UNCHANGED stdout /\ Shown' = Shown
    BY <1>3 DEF Control, Shown
  <2>2. stdin' = stdin \/ (stdin # <<>> /\ stdin' = Tail(stdin))
    BY <1>3, <2>0, InputsDiffer DEF Control, RequestInv
  <2>3. /\ stdin' \in Inputs
        /\ HasRequest(stdin') => HasRequest(stdin)
        /\ HasCancel(stdin') => HasCancel(stdin)
        /\ HasTruncated(stdin') => HasTruncated(stdin)
        /\ stdin = <<>> => stdin' = <<>>
    BY <2>0, <2>2, InputLeft DEF TypeOK
  <2>4. /\ control = "reading" /\ control' = "ended"
        /\ \/ HasCancel(stdin) /\ signal' = Requested("client")
           \/ signal' = Requested("other")
        /\ UNCHANGED <<engine, controlError, failure, progress, outcome, reply, status>>
    BY <1>3, <2>0, InputLeft DEF Control, TypeOK, RequestInv, Exit
  <2>5. TypeOK'
    BY <2>0, <2>1, <2>3, <2>4 DEF TypeOK, Requested, EngineUnchanged, clientVars, Signals, Frame,
                                  Excuse
  <2>6. EngineInv'
    BY <2>0, <2>4 DEF EngineInv, RequestInv, Requested, EngineUnchanged, clientVars, Excuse
  <2>7. RequestInv'
    BY <2>0, <2>3, <2>4 DEF RequestInv, EngineUnchanged, clientVars
  <2>8. FramesInv' /\ ClientInv'
    BY <2>0, <2>1, EngineTells
  <2>9. QED BY <2>5, <2>6, <2>7, <2>8 DEF IInv
<1>4. CASE ControlRefuses
  <2>0. Alive /\ EngineUnchanged /\ TypeOK /\ RequestInv /\ EngineInv
    BY <1>4 DEF ControlRefuses, Alive, IInv
  <2>1. UNCHANGED stdout /\ Shown' = Shown
    BY <1>4 DEF ControlRefuses, Shown
  <2>2. stdin' = stdin \/ (stdin # <<>> /\ stdin' = Tail(stdin))
    BY <1>4, <2>0, InputsDiffer DEF ControlRefuses, RequestInv
  <2>3. /\ stdin' \in Inputs
        /\ HasRequest(stdin') => HasRequest(stdin)
        /\ HasCancel(stdin') => HasCancel(stdin)
        /\ HasTruncated(stdin') => HasTruncated(stdin)
        /\ stdin = <<>> => stdin' = <<>>
    BY <2>0, <2>2, InputLeft DEF TypeOK
  <2>4. /\ \/ /\ stdin' = stdin /\ stdin = <<"truncated">> /\ controlError' = TRUE
              /\ UNCHANGED <<signal, control>>
           \/ control' = "ended" /\ signal' = Requested("other") /\ UNCHANGED controlError
        /\ control = "reading"
        /\ UNCHANGED <<engine, failure, progress, outcome, reply, status>>
    <3>1. CASE /\ stdin # <<>> /\ Head(stdin) = "truncated" /\ controlError' = TRUE
               /\ UNCHANGED <<control, stdin, signal>>
      <4>1. stdin = <<"truncated">>
        BY <2>0, <3>1, InputLeft
      <4>2. QED BY <1>4, <3>1, <4>1, Zenon DEF ControlRefuses
    <3>2. CASE signal' = Requested("other") /\ control' = "ended" /\ UNCHANGED controlError
      BY <1>4, <3>2, Zenon DEF ControlRefuses
    <3>3. QED BY <1>4, <3>1, <3>2 DEF ControlRefuses
  <2>5. TypeOK'
    <3>1. /\ controlError' \in BOOLEAN /\ control' \in {"none", "reading", "ended"}
          /\ signal' \in Signals \cup {None}
          /\ UNCHANGED <<engine, failure, progress, outcome, reply, status>>
      <4>1. CASE controlError' = TRUE /\ UNCHANGED <<signal, control>>
        BY <2>0, <2>4, <4>1 DEF TypeOK
      <4>2. CASE control' = "ended" /\ signal' = Requested("other") /\ UNCHANGED controlError
        BY <2>0, <2>4, <4>2 DEF TypeOK, Requested, Signals
      <4>3. QED BY <2>4, <4>1, <4>2
    <3>2. QED BY <2>0, <2>1, <2>3, <3>1 DEF TypeOK, EngineUnchanged, clientVars
  <2>6. EngineInv'
    BY <2>0, <2>4 DEF EngineInv, RequestInv, Requested, EngineUnchanged, clientVars, Excuse
  <2>7. RequestInv'
    BY <2>0, <2>3, <2>4 DEF RequestInv, EngineUnchanged, clientVars
  <2>8. FramesInv' /\ ClientInv'
    BY <2>0, <2>1, EngineTells
  <2>9. QED BY <2>5, <2>6, <2>7, <2>8 DEF IInv
<1>5. CASE Progress
  <2>0. Alive /\ EngineUnchanged /\ TypeOK
    BY <1>5 DEF Progress, Requested, Alive, IInv
  <2>1. /\ stdout' \in Seq(Frame) /\ Len(stdout') <= PipeCapacity
        /\ \A frame \in Shown' : frame \in Shown \/ Told(frame)'
    <3>1. CASE UNCHANGED stdout
      BY <2>0, <3>1 DEF TypeOK, Shown
    <3>2. CASE Write([type |-> "progress"])
      <4>1. [type |-> "progress"] \in Frame
        BY DEF Frame
      <4>2. Told([type |-> "progress"])'
        BY DEF Told
      <4>3. QED BY <2>0, <3>2, <4>1, <4>2, WriteShows
    <3>3. QED BY <1>5, <3>1, <3>2 DEF Progress
  <2>2. TypeOK'
    <3>1. /\ progress' \in 0 .. MaxProgress /\ failure' \in BOOLEAN
          /\ signal' \in {signal, "other"}
          /\ UNCHANGED <<engine, control, controlError, outcome, reply, status, stdin>>
      <4>1. progress' \in 0 .. MaxProgress
        BY <1>5, <2>0 DEF Progress, TypeOK
      <4>2. failure' \in BOOLEAN
        BY <1>5, <2>0, Zenon DEF Progress, TypeOK
      <4>3. signal' \in {signal, "other"}
        BY <1>5, Zenon DEF Progress, Requested
      <4>4. UNCHANGED <<engine, control, controlError, outcome, reply, status, stdin>>
        BY <1>5, Zenon DEF Progress
      <4>5. QED BY <4>1, <4>2, <4>3, <4>4
    <3>2. QED BY <2>0, <2>1, <3>1 DEF TypeOK, EngineUnchanged, clientVars, Signals
  <2>3. EngineInv'
    BY <1>5, <2>0 DEF IInv, EngineInv, Progress, Requested, EngineUnchanged, clientVars, Outcomes,
                      Excuse
  <2>4. RequestInv'
    BY <1>5, <2>0 DEF IInv, RequestInv, Progress, Requested, EngineUnchanged, clientVars
  <2>5. FramesInv' /\ ClientInv'
    BY <2>0, <2>1, EngineTells
  <2>6. QED BY <2>2, <2>3, <2>4, <2>5 DEF IInv
<1>6. CASE Settle
  <2>0. Alive /\ EngineUnchanged /\ TypeOK
    BY <1>6 DEF Settle, Alive, IInv
  <2>1. UNCHANGED stdout /\ Shown' = Shown
    BY <1>6 DEF Settle, Shown
  <2>2. TypeOK'
    BY <1>6, <2>0, <2>1 DEF TypeOK, Settle, EngineUnchanged, clientVars, Signals, Outcomes, Frame,
                            Excuse
  <2>3. EngineInv'
    BY <1>6, <2>0 DEF IInv, EngineInv, Settle, EngineUnchanged, clientVars, Outcomes, Frame, Excuse
  <2>4. RequestInv'
    BY <1>6, <2>0, InputLeft, InputsDiffer DEF IInv, RequestInv, Settle, EngineUnchanged, clientVars
  <2>5. FramesInv' /\ ClientInv'
    BY <2>0, <2>1, EngineTells
  <2>6. QED BY <2>2, <2>3, <2>4, <2>5 DEF IInv
<1>7. CASE TakeErrors
  <2>0. Alive /\ EngineUnchanged /\ TypeOK
    BY <1>7 DEF TakeErrors, Alive, IInv
  <2>1. UNCHANGED stdout /\ Shown' = Shown
    BY <1>7 DEF TakeErrors, Shown
  <2>2. TypeOK'
    BY <1>7, <2>0, <2>1 DEF TypeOK, TakeErrors, EngineUnchanged, clientVars, Signals, Frame, Excuse
  <2>3. EngineInv'
    <3>1. reply \in Frame /\ reply.type \in {"result", "error"}
          /\ (reply.type = "result" => reply.outcome = outcome)
      BY <1>7 DEF IInv, EngineInv, TakeErrors
    <3>2. Excuse \in Frame /\ Excuse.type = "error"
      BY DEF Excuse, Frame
    <3>3. /\ reply' \in {Excuse, reply}
          /\ engine' = IF reply'.type = "error" THEN "excusing" ELSE "replying"
          /\ UNCHANGED <<signal, outcome, contextDone>>
      BY <1>7, <2>0 DEF TakeErrors, EngineUnchanged, clientVars
    <3>4. reply' \in Frame /\ reply'.type \in {"result", "error"}
          /\ (reply'.type = "result" => reply'.outcome = outcome)
      BY <3>1, <3>2, <3>3
    <3>5. engine' = "excusing" => reply' = Excuse
      <4>1. reply \in Frame /\ reply.type = "error" => reply = Excuse
        BY DEF Frame, Excuse
      <4>2. QED BY <3>1, <3>3, <3>4, <4>1
    <3>6. QED BY <3>3, <3>4, <3>5 DEF IInv, EngineInv
  <2>4. RequestInv'
    BY <1>7, <2>0 DEF IInv, RequestInv, TakeErrors, EngineUnchanged, clientVars
  <2>5. FramesInv' /\ ClientInv'
    BY <2>0, <2>1, EngineTells
  <2>6. QED BY <2>2, <2>3, <2>4, <2>5 DEF IInv
<1>8. CASE Reply
  <2>0. Alive /\ EngineUnchanged /\ TypeOK
    BY <1>8 DEF Reply, Exit, Requested, Alive, IInv
  <2>1. /\ stdout' \in Seq(Frame) /\ Len(stdout') <= PipeCapacity
        /\ \A frame \in Shown' : frame \in Shown \/ Told(frame)'
    <3>1. CASE UNCHANGED stdout
      BY <2>0, <3>1 DEF TypeOK, Shown
    <3>2. CASE Write([reply EXCEPT !.signal = signal]) /\ Exit("zero") /\ UNCHANGED signal
      <4>1. reply.type = "result" /\ reply \in Frame /\ reply.outcome = outcome
            /\ engine = "replying"
        BY <1>8, <3>2 DEF Reply, IInv, EngineInv
      <4>2. reply \in [type : {"result"}, outcome : Outcomes, signal : Signals \cup {None}]
        BY <4>1 DEF Frame
      <4> DEFINE sent == [reply EXCEPT !.signal = signal]
      <4>3. /\ sent \in [type : {"result"}, outcome : Outcomes, signal : Signals \cup {None}]
            /\ sent.outcome = outcome /\ sent.signal = signal
        BY <2>0, <4>1, <4>2 DEF TypeOK
      <4>4. sent \in Frame
        BY <4>3 DEF Frame
      <4>5. outcome' = outcome /\ contextDone' = contextDone
        BY <1>8, <2>0 DEF Reply, EngineUnchanged, clientVars
      <4>6. \A frame : frame = sent => Told(frame)'
        BY <3>2, <4>3, <4>5 DEF Told, Exit, IInv, EngineInv
      <4>7. QED BY <2>0, <3>2, <4>4, <4>6, WriteShows
    <3>3. QED BY <1>8, <3>1, <3>2 DEF Reply
  <2>2. TypeOK'
    BY <1>8, <2>0, <2>1 DEF TypeOK, Reply, Exit, Requested, EngineUnchanged, clientVars, Signals,
                            Frame, Excuse
  <2>3. EngineInv'
    BY <1>8, <2>0 DEF IInv, EngineInv, Reply, Exit, Requested, EngineUnchanged, clientVars,
                      Outcomes, Excuse
  <2>4. RequestInv'
    BY <1>8, <2>0 DEF IInv, RequestInv, Reply, Exit, Requested, EngineUnchanged, clientVars
  <2>5. FramesInv' /\ ClientInv'
    BY <2>0, <2>1, EngineTells
  <2>6. QED BY <2>2, <2>3, <2>4, <2>5 DEF IInv
<1>9. CASE SendExcuse
  <2>0. Alive /\ EngineUnchanged /\ TypeOK
    BY <1>9 DEF SendExcuse, Exit, Requested, Alive, IInv
  <2>1. /\ stdout' \in Seq(Frame) /\ Len(stdout') <= PipeCapacity
        /\ \A frame \in Shown' : frame \in Shown \/ Told(frame)'
    <3>1. CASE UNCHANGED stdout
      BY <2>0, <3>1 DEF TypeOK, Shown
    <3>2. CASE Write(reply)
      <4>1. reply = [type |-> "error"] /\ reply \in Frame /\ reply.type = "error"
        BY <1>9 DEF SendExcuse, IInv, EngineInv, Excuse, Frame
      <4>2. Told(reply)'
        BY <1>9, <4>1 DEF SendExcuse, Told
      <4>3. \A frame \in Shown' : frame \in Shown \/ frame = reply
        BY <2>0, <3>2, <4>1, WriteShows
      <4>4. QED BY <1>9, <2>0, <3>2, <4>1, <4>3, WriteShows DEF SendExcuse, Told
    <3>3. QED BY <1>9, <3>1, <3>2 DEF SendExcuse
  <2>2. TypeOK'
    BY <1>9, <2>0, <2>1 DEF TypeOK, SendExcuse, Exit, Requested, EngineUnchanged, clientVars,
                            Signals, Frame, Excuse
  <2>3. EngineInv'
    BY <1>9, <2>0 DEF IInv, EngineInv, SendExcuse, Exit, Requested, EngineUnchanged, clientVars,
                      Outcomes, Excuse
  <2>4. RequestInv'
    BY <1>9, <2>0 DEF IInv, RequestInv, SendExcuse, Exit, Requested, EngineUnchanged, clientVars
  <2>5. FramesInv' /\ ClientInv'
    BY <2>0, <2>1, EngineTells
  <2>6. QED BY <2>2, <2>3, <2>4, <2>5 DEF IInv
<1>10. CASE Terminated
  <2>0. Alive /\ EngineUnchanged /\ TypeOK
    BY <1>10 DEF Terminated, IInv
  <2>1. UNCHANGED stdout /\ Shown' = Shown
    BY <1>10 DEF Terminated, Shown
  <2>2. TypeOK'
    BY <1>10, <2>0, <2>1 DEF TypeOK, Terminated, EngineUnchanged, clientVars, Signals, Frame, Excuse
  <2>3. EngineInv'
    BY <1>10, <2>0 DEF IInv, EngineInv, Terminated, EngineUnchanged, clientVars, Outcomes, Excuse
  <2>4. RequestInv'
    BY <1>10, <2>0 DEF IInv, RequestInv, Terminated, EngineUnchanged, clientVars
  <2>5. FramesInv' /\ ClientInv'
    BY <2>0, <2>1, EngineTells
  <2>6. QED BY <2>2, <2>3, <2>4, <2>5 DEF IInv
<1>11. CASE EngineDies
  <2>0. Alive /\ EngineUnchanged /\ TypeOK
    BY <1>11 DEF EngineDies, IInv
  <2>1. UNCHANGED stdout /\ Shown' = Shown
    BY <1>11 DEF EngineDies, Shown
  <2>2. TypeOK'
    BY <1>11, <2>0, <2>1 DEF TypeOK, EngineDies, Exit, EngineUnchanged, clientVars, Signals, Frame,
                             Excuse
  <2>3. EngineInv'
    BY <1>11, <2>0 DEF IInv, EngineInv, EngineDies, Exit, EngineUnchanged, clientVars, Outcomes,
                       Excuse
  <2>4. RequestInv'
    BY <1>11, <2>0 DEF IInv, RequestInv, EngineDies, Exit, EngineUnchanged, clientVars
  <2>5. FramesInv' /\ ClientInv'
    BY <2>0, <2>1, EngineTells
  <2>6. QED BY <2>2, <2>3, <2>4, <2>5 DEF IInv
<1>12. QED
  BY <1>1, <1>2, <1>3, <1>4, <1>5, <1>6, <1>7, <1>8, <1>9, <1>10, <1>11 DEF Serve

------------------------------------------------------------------------------
(* The client *)

\* An error with a reason that is true, or that says nothing of the outcome, keeps the
\* invariant: the engine is gone, and the frames it left stay true.
LEMMA FailIInv ==
  ASSUME IInv, NEW how \in {"cancelled", "failedManifest", "cancelledManifest", "error",
                            "protocol"},
         Fail(how), ClientUnchanged,
         UNCHANGED <<contextDone, cancelled, grace, cancelFrame, requestFrame>>,
         how = "cancelled" => contextDone,
         how = "failedManifest" => outcome = "failed",
         how = "cancelledManifest" => outcome = "cancelled"
  PROVE  IInv'
<1>1. TypeOK'
  <2>1. /\ stdinOpen' \in BOOLEAN /\ stdoutOpen' \in BOOLEAN
        /\ interrupted' \in BOOLEAN
    BY Zenon DEF Fail, IInv, TypeOK
  <2>2. status' \in {"zero", "one", "killed", None}
    BY DEF Fail, IInv, TypeOK
  <2>3. /\ engine' = "gone" /\ client' = "waiting" /\ result' = how
        /\ UNCHANGED <<stdin, stdout>>
    BY DEF Fail
  <2>4. QED BY <2>1, <2>2, <2>3 DEF ClientUnchanged, IInv, TypeOK
<1>2. FramesInv'
  <2>1. Shown' = Shown
    BY DEF Fail, Shown
  <2>2. engine' = "gone" /\ (engine = "gone" => status' = status)
    BY DEF Fail, Alive
  <2>3. UNCHANGED <<outcome, contextDone>>
    BY DEF ClientUnchanged
  <2>4. ASSUME NEW frame \in Shown
        PROVE  Told(frame)'
    BY <2>2, <2>3 DEF IInv, FramesInv, Told
  <2>5. QED BY <2>1, <2>4 DEF FramesInv
<1>3. EngineInv'
  BY DEF IInv, EngineInv, Fail, ClientUnchanged
<1>4. RequestInv'
  BY DEF IInv, RequestInv, Fail, ClientUnchanged
<1>5. ClientInv'
  BY DEF IInv, ClientInv, Fail, ClientUnchanged
<1>6. QED BY <1>1, <1>2, <1>3, <1>4, <1>5 DEF IInv

\* Taking a frame from the pipe, or leaving the pipe alone, shows nothing new.
LEMMA ClientShows ==
  ASSUME IInv, Shown' \subseteq Shown, UNCHANGED <<engine, status, outcome>>,
         contextDone => contextDone'
  PROVE  FramesInv'
BY DEF IInv, FramesInv, Told

\* What a result in front of the client says.
LEMMA ReceivedTells ==
  ASSUME IInv, Received("result")
  PROVE  /\ engine = "gone" /\ status = "zero" /\ outcome = Head(stdout).outcome
         /\ Head(stdout).outcome \in Outcomes
<1>1. Head(stdout) \in Shown /\ Head(stdout) \in Frame /\ Head(stdout).type = "result"
  BY ConsumedShrinks DEF IInv, Received
<1>2. Told(Head(stdout))
  BY <1>1 DEF IInv, FramesInv
<1>3. Head(stdout).outcome \in Outcomes
  BY <1>1 DEF Frame
<1>4. QED BY <1>1, <1>2, <1>3 DEF Told

LEMMA InvokeIInv ==
  ASSUME IInv, Invoke
  PROVE  IInv'
<1>0. TypeOK /\ RequestInv /\ ClientInv /\ EngineInv
  BY DEF IInv
<1>1. CASE Notice
  <2>1. /\ UNCHANGED <<engineVars, pipeVars, client, contextDone, requestFrame, result,
                        interrupted>>
        /\ cancelled' = TRUE /\ cancelFrame' = "pending" /\ grace' = "set"
        /\ contextDone /\ ~cancelled /\ client \in {"hello", "reading"}
    BY <1>1 DEF Notice, Reading
  <2>2. TypeOK'
    BY <1>0, <2>1 DEF TypeOK, engineVars, pipeVars
  <2>3. FramesInv'
    BY <2>1, ClientShows DEF engineVars, pipeVars, Shown
  <2>4. EngineInv' /\ ClientInv'
    BY <1>0, <2>1 DEF EngineInv, ClientInv, Good, engineVars, pipeVars
  <2>5. RequestInv'
    BY <1>0, <2>1 DEF RequestInv, engineVars, pipeVars
  <2>6. QED BY <2>2, <2>3, <2>4, <2>5 DEF IInv
<1>2. CASE GiveUp
  BY <1>0, <1>2, FailIInv DEF GiveUp, RequestInv
<1>3. CASE StreamEnded
  BY <1>0, <1>3, FailIInv DEF StreamEnded, RequestInv
<1>4. CASE ReceiveHello
  <2>1. CASE Consumed /\ ~cancelled /\ client' = "writing" /\ requestFrame' = "pending"
             /\ UNCHANGED <<engine, status, result, interrupted>>
    <3>1. /\ stdout # <<>> /\ stdout' = Tail(stdout) /\ UNCHANGED <<stdin, stdinOpen, stdoutOpen>>
          /\ client = "hello" /\ ClientUnchanged
          /\ UNCHANGED <<contextDone, cancelled, grace, cancelFrame>>
      BY <1>4, <2>1 DEF ReceiveHello, Received, Consumed
    <3>2. stdout' \in Seq(Frame) /\ Len(stdout') <= PipeCapacity /\ Shown' \subseteq Shown
      BY <1>0, <3>1, ConsumedShrinks
    <3>3. TypeOK'
      BY <1>0, <2>1, <3>1, <3>2 DEF TypeOK, ClientUnchanged
    <3>4. FramesInv'
      BY <2>1, <3>1, <3>2, ClientShows DEF ClientUnchanged
    <3>5. EngineInv' /\ ClientInv'
      BY <1>0, <2>1, <3>1 DEF EngineInv, ClientInv, Good, ClientUnchanged
    <3>6. ~HasRequest(stdin) /\ ~HasCancel(stdin)
      BY <1>0, <2>1, <3>1 DEF RequestInv
    <3>7. stdinOpen => stdin = <<>>
      BY <1>0, <3>6 DEF RequestInv, TypeOK, Inputs, HasRequest, HasCancel, HasTruncated
    <3>8. RequestInv'
      BY <1>0, <2>1, <3>1, <3>6, <3>7 DEF RequestInv, ClientUnchanged
    <3>9. QED BY <3>3, <3>4, <3>5, <3>8 DEF IInv
  <2>2. CASE cancelled /\ Fail("cancelled") /\ UNCHANGED requestFrame
    BY <1>0, <1>4, <2>2, FailIInv DEF ReceiveHello, RequestInv
  <2>3. CASE Fail("protocol") /\ UNCHANGED requestFrame
    BY <1>0, <1>4, <2>3, FailIInv DEF ReceiveHello
  <2>4. QED BY <1>4, <2>1, <2>2, <2>3 DEF ReceiveHello
<1>5. CASE RequestWritten
  <2>1. CASE requestFrame = "written" /\ client' = "reading"
             /\ UNCHANGED <<engine, status, pipeVars, result, interrupted>>
    <3>1. /\ client = "writing" /\ ClientUnchanged
          /\ UNCHANGED <<contextDone, cancelled, grace, cancelFrame, requestFrame>>
      BY <1>5 DEF RequestWritten
    <3>2. TypeOK'
      BY <1>0, <2>1, <3>1 DEF TypeOK, ClientUnchanged, pipeVars
    <3>3. FramesInv'
      BY <2>1, <3>1, ClientShows DEF ClientUnchanged, pipeVars, Shown
    <3>4. EngineInv' /\ ClientInv'
      BY <1>0, <2>1, <3>1 DEF EngineInv, ClientInv, Good, ClientUnchanged, pipeVars
    <3>5. RequestInv'
      BY <1>0, <2>1, <3>1 DEF RequestInv, ClientUnchanged, pipeVars
    <3>6. QED BY <3>2, <3>3, <3>4, <3>5 DEF IInv
  <2>2. CASE requestFrame = "lost" /\ Fail("error")
    BY <1>5, <2>2, FailIInv DEF RequestWritten
  <2>3. CASE contextDone /\ Fail("cancelled")
    BY <1>5, <2>3, FailIInv DEF RequestWritten
  <2>4. QED BY <1>5, <2>1, <2>2, <2>3 DEF RequestWritten
<1>6. CASE ReceiveProgress
  <2>1. /\ stdout # <<>> /\ stdout' = Tail(stdout) /\ UNCHANGED <<stdin, stdinOpen, stdoutOpen>>
        /\ UNCHANGED <<engineVars, clientVars, interrupted>>
    BY <1>6 DEF ReceiveProgress, Received, Consumed
  <2>2. stdout' \in Seq(Frame) /\ Len(stdout') <= PipeCapacity /\ Shown' \subseteq Shown
    BY <1>0, <2>1, ConsumedShrinks
  <2>3. TypeOK'
    BY <1>0, <2>1, <2>2 DEF TypeOK, engineVars, clientVars
  <2>4. FramesInv'
    BY <2>1, <2>2, ClientShows DEF engineVars, clientVars
  <2>5. EngineInv' /\ ClientInv'
    BY <1>0, <2>1 DEF EngineInv, ClientInv, Good, engineVars, clientVars
  <2>6. RequestInv'
    BY <1>0, <2>1 DEF RequestInv, engineVars, clientVars
  <2>7. QED BY <2>3, <2>4, <2>5, <2>6 DEF IInv
<1>7. CASE ReceiveError
  BY <1>7, FailIInv DEF ReceiveError
<1>8. CASE ReceiveResult
  <2> DEFINE got == Head(stdout).outcome
  <2>1. /\ engine = "gone" /\ status = "zero" /\ outcome = got /\ got \in Outcomes
        /\ client = "reading" /\ stdout # <<>> /\ ClientUnchanged
        /\ UNCHANGED <<contextDone, cancelled, cancelFrame, requestFrame>>
    BY <1>8, ReceivedTells DEF ReceiveResult, Received
  <2>2. CASE got # "success" /\ UNCHANGED grace
             /\ Fail(IF got = "failed" THEN "failedManifest" ELSE "cancelledManifest")
    <3>1. CASE got = "failed"
      BY <2>1, <2>2, <3>1, FailIInv
    <3>2. CASE got = "cancelled"
      BY <2>1, <2>2, <3>2, FailIInv
    <3>3. QED BY <2>1, <2>2, <3>1, <3>2 DEF Outcomes
  <2>3. CASE contextDone /\ Fail("cancelled") /\ UNCHANGED grace
    BY <2>1, <2>3, FailIInv
  <2>4. CASE got = "success" /\ Accept
    <3>1. /\ stdout' = Tail(stdout) /\ UNCHANGED <<stdin, stdinOpen, stdoutOpen>>
          /\ client' = "closing" /\ grace' = "set"
          /\ UNCHANGED <<engine, status, result, interrupted>>
      BY <2>4 DEF Accept, Consumed
    <3>2. stdout' \in Seq(Frame) /\ Len(stdout') <= PipeCapacity /\ Shown' \subseteq Shown
      BY <1>0, <2>1, <3>1, ConsumedShrinks
    <3>3. TypeOK'
      BY <1>0, <2>1, <3>1, <3>2 DEF TypeOK, ClientUnchanged
    <3>4. FramesInv'
      BY <2>1, <3>1, <3>2, ClientShows DEF ClientUnchanged
    <3>5. ClientInv'
      BY <1>0, <2>1, <2>4, <3>1 DEF ClientInv, Good, ClientUnchanged
    <3>6. EngineInv' /\ RequestInv'
      BY <1>0, <2>1, <3>1 DEF EngineInv, RequestInv, ClientUnchanged
    <3>7. QED BY <3>3, <3>4, <3>5, <3>6 DEF IInv
  <2>5. QED BY <1>8, <2>2, <2>3, <2>4 DEF ReceiveResult
<1>9. CASE CloseInput
  <2>1. /\ client = "closing" /\ stdinOpen' = FALSE
        /\ UNCHANGED <<engineVars, stdin, stdout, stdoutOpen, clientVars, interrupted>>
    BY <1>9 DEF CloseInput
  <2>2. TypeOK'
    <3>1. /\ stdinOpen' \in BOOLEAN
          /\ UNCHANGED <<engineVars, clientVars, stdin, stdout, stdoutOpen, interrupted>>
      BY <2>1
    <3>2. QED BY <1>0, <3>1 DEF TypeOK, engineVars, clientVars
  <2>3. FramesInv'
    BY <2>1, ClientShows DEF engineVars, clientVars, Shown
  <2>4. EngineInv' /\ ClientInv'
    BY <1>0, <2>1 DEF EngineInv, ClientInv, Good, engineVars, clientVars
  <2>5. RequestInv'
    BY <1>0, <2>1 DEF RequestInv, engineVars, clientVars
  <2>6. QED BY <2>2, <2>3, <2>4, <2>5 DEF IInv
<1>10. CASE AwaitEnd
  <2>1. CASE result' = "ok" /\ client' = "waiting"
             /\ UNCHANGED <<engine, status, pipeVars, interrupted>>
    <3>1. /\ client = "closing" /\ ClientUnchanged
          /\ UNCHANGED <<contextDone, cancelled, grace, cancelFrame, requestFrame>>
      BY <1>10 DEF AwaitEnd
    <3>2. TypeOK'
      BY <1>0, <2>1, <3>1 DEF TypeOK, ClientUnchanged, pipeVars
    <3>3. FramesInv'
      BY <2>1, <3>1, ClientShows DEF ClientUnchanged, pipeVars, Shown
    <3>4. EngineInv' /\ ClientInv'
      BY <1>0, <2>1, <3>1 DEF EngineInv, ClientInv, Good, ClientUnchanged, pipeVars
    <3>5. RequestInv'
      BY <1>0, <2>1, <3>1 DEF RequestInv, ClientUnchanged, pipeVars
    <3>6. QED BY <3>2, <3>3, <3>4, <3>5 DEF IInv
  <2>2. CASE Fail("protocol")
    BY <1>10, <2>2, FailIInv DEF AwaitEnd
  <2>3. CASE contextDone /\ Fail("cancelled")
    BY <1>10, <2>3, FailIInv DEF AwaitEnd
  <2>4. QED BY <1>10, <2>1, <2>2, <2>3 DEF AwaitEnd
<1>11. CASE Return
  <2>1. /\ client = "waiting" /\ client' = "returned" /\ result' \in {result, "exit"}
        /\ UNCHANGED <<engineVars, pipeVars, contextDone, cancelled, grace, cancelFrame,
                       requestFrame, interrupted>>
    BY <1>11 DEF Return
  <2>2. TypeOK'
    BY <1>0, <2>1 DEF TypeOK, engineVars, pipeVars
  <2>3. FramesInv'
    BY <2>1, ClientShows DEF engineVars, pipeVars, Shown
  <2>4. EngineInv' /\ ClientInv'
    BY <1>0, <2>1 DEF EngineInv, ClientInv, Good, engineVars
  <2>5. RequestInv'
    BY <1>0, <2>1 DEF RequestInv, engineVars, pipeVars
  <2>6. QED BY <2>2, <2>3, <2>4, <2>5 DEF IInv
<1>12. QED
  BY <1>1, <1>2, <1>3, <1>4, <1>5, <1>6, <1>7, <1>8, <1>9, <1>10, <1>11 DEF Invoke

\* The context, the timer, the two goroutines of the client, and its death.
LEMMA AroundIInv ==
  ASSUME IInv, CancelContext \/ WriteCancel \/ GraceExpires \/ WriteRequest \/ ClientDies
  PROVE  IInv'
<1>0. TypeOK /\ RequestInv /\ ClientInv /\ EngineInv
  BY DEF IInv
<1>1. CASE CancelContext
  <2>1. contextDone' = TRUE /\ ~contextDone
        /\ UNCHANGED <<engineVars, pipeVars, client, cancelled, grace, cancelFrame, requestFrame,
                       result, interrupted>>
    BY <1>1 DEF CancelContext
  <2>2. TypeOK'
    BY <1>0, <2>1 DEF TypeOK, engineVars, pipeVars
  <2>3. FramesInv'
    BY <2>1, ClientShows DEF engineVars, pipeVars, Shown
  <2>4. EngineInv' /\ ClientInv'
    BY <1>0, <2>1 DEF EngineInv, ClientInv, Good, engineVars
  <2>5. RequestInv'
    BY <1>0, <2>1 DEF RequestInv, engineVars, pipeVars
  <2>6. QED BY <2>2, <2>3, <2>4, <2>5 DEF IInv
<1>2. CASE GraceExpires
  <2>1. grace' = "expired"
        /\ UNCHANGED <<engineVars, pipeVars, client, contextDone, cancelled, cancelFrame,
                       requestFrame, result, interrupted>>
    BY <1>2 DEF GraceExpires
  <2>2. TypeOK'
    BY <1>0, <2>1 DEF TypeOK, engineVars, pipeVars
  <2>3. FramesInv'
    BY <2>1, ClientShows DEF engineVars, pipeVars, Shown
  <2>4. EngineInv' /\ ClientInv'
    BY <1>0, <2>1 DEF EngineInv, ClientInv, Good, engineVars
  <2>5. RequestInv'
    BY <1>0, <2>1 DEF RequestInv, engineVars, pipeVars
  <2>6. QED BY <2>2, <2>3, <2>4, <2>5 DEF IInv
<1>3. CASE WriteCancel
  <2>1. /\ cancelFrame = "pending"
        /\ \/ stdinOpen /\ Alive /\ stdin' = Append(stdin, "cancel") /\ cancelFrame' = "written"
           \/ cancelFrame' = "lost" /\ UNCHANGED stdin
        /\ UNCHANGED <<engineVars, stdinOpen, stdout, stdoutOpen, client, contextDone, cancelled,
                       grace, requestFrame, result, interrupted>>
    BY <1>3 DEF WriteCancel
  <2>2. ~HasCancel(stdin) /\ (stdinOpen => ~HasTruncated(stdin)) /\ cancelled
    BY <1>0, <2>1 DEF RequestInv
  <2>3. /\ stdin' \in Inputs
        /\ HasRequest(stdin') => HasRequest(stdin)
        /\ HasCancel(stdin') => cancelFrame' = "written"
        /\ HasTruncated(stdin') => HasTruncated(stdin)
    BY <1>0, <2>1, <2>2, InputGrows DEF TypeOK
  <2>4. ~(control = "reading" /\ controlError /\ stdinOpen)
    BY <1>0 DEF RequestInv, HasTruncated
  <2>5. TypeOK'
    BY <1>0, <2>1, <2>3 DEF TypeOK, engineVars
  <2>6. FramesInv'
    BY <2>1, ClientShows DEF engineVars, Shown
  <2>7. EngineInv' /\ ClientInv'
    BY <1>0, <2>1 DEF EngineInv, ClientInv, Good, engineVars
  <2>8. RequestInv'
    BY <1>0, <2>1, <2>2, <2>3, <2>4 DEF RequestInv, engineVars
  <2>9. QED BY <2>5, <2>6, <2>7, <2>8 DEF IInv
<1>4. CASE WriteRequest
  <2>1. /\ requestFrame = "pending"
        /\ \/ stdinOpen /\ stdin' = Append(stdin, "request") /\ requestFrame' = "written"
           \/ requestFrame' = "lost" /\ UNCHANGED stdin
        /\ UNCHANGED <<engineVars, stdinOpen, stdout, stdoutOpen, client, contextDone, cancelled,
                       grace, cancelFrame, result, interrupted>>
    BY <1>4 DEF WriteRequest
  <2>2. stdinOpen => stdin = <<>> /\ ~cancelled /\ client = "writing"
    BY <1>0, <2>1 DEF RequestInv
  <2>3. /\ stdin' \in Inputs
        /\ HasCancel(stdin') => HasCancel(stdin)
        /\ HasTruncated(stdin') => HasTruncated(stdin)
    BY <1>0, <2>1, <2>2, InputGrows DEF TypeOK
  <2>4. ~(control = "reading" /\ controlError /\ stdinOpen)
    BY <1>0 DEF RequestInv, HasTruncated
  <2>5. TypeOK'
    BY <1>0, <2>1, <2>3 DEF TypeOK, engineVars
  <2>6. FramesInv'
    BY <2>1, ClientShows DEF engineVars, Shown
  <2>7. EngineInv' /\ ClientInv'
    BY <1>0, <2>1 DEF EngineInv, ClientInv, Good, engineVars
  <2>8. client # "hello"
    BY <1>0, <2>1 DEF RequestInv
  <2>9. RequestInv'
    BY <1>0, <2>1, <2>2, <2>3, <2>4, <2>8 DEF RequestInv, engineVars
  <2>10. QED BY <2>5, <2>6, <2>7, <2>9 DEF IInv
<1>5. CASE ClientDies
  <2>1. /\ client' = "dead" /\ stdinOpen' = FALSE /\ stdoutOpen' = FALSE
        /\ \/ stdin' = stdin
           \/ /\ stdinOpen /\ stdin' = Append(stdin, "truncated")
              /\ cancelFrame = "pending" \/ requestFrame = "pending"
        /\ UNCHANGED <<engineVars, stdout, contextDone, cancelled, grace, result, interrupted>>
    BY <1>5 DEF ClientDies
  <2>2. /\ cancelFrame' = IF cancelFrame = "pending" THEN "lost" ELSE cancelFrame
        /\ requestFrame' = IF requestFrame = "pending" THEN "lost" ELSE requestFrame
    BY <1>5 DEF ClientDies
  <2>3. stdinOpen /\ (cancelFrame = "pending" \/ requestFrame = "pending") =>
          ~HasCancel(stdin) /\ ~HasTruncated(stdin)
    BY <1>0, InputGrows DEF RequestInv
  <2>4. /\ stdin' \in Inputs
        /\ HasRequest(stdin') => HasRequest(stdin)
        /\ HasCancel(stdin') => HasCancel(stdin)
    BY <1>0, <2>1, <2>3, InputGrows DEF TypeOK
  <2>5. ~(control = "reading" /\ controlError /\ stdinOpen)
    BY <1>0 DEF RequestInv, HasTruncated
  <2>6. TypeOK'
    <3>1. /\ cancelFrame' \in {"none", "pending", "written", "lost"}
          /\ requestFrame' \in {"none", "pending", "written", "lost"}
      BY <1>0, <2>2 DEF TypeOK
    <3>2. stdinOpen' \in BOOLEAN /\ stdoutOpen' \in BOOLEAN
      BY <2>1
    <3>3. /\ client' = "dead"
          /\ UNCHANGED <<engineVars, stdout, contextDone, cancelled, grace, result, interrupted>>
      BY <2>1
    <3>4. QED BY <1>0, <2>4, <3>1, <3>2, <3>3 DEF TypeOK, engineVars
  <2>7. FramesInv'
    BY <2>1, ClientShows DEF engineVars, Shown
  <2>8. EngineInv' /\ ClientInv'
    BY <1>0, <2>1 DEF EngineInv, ClientInv, Good, engineVars
  <2>9. RequestInv'
    BY <1>0, <2>1, <2>2, <2>3, <2>4, <2>5 DEF RequestInv, engineVars
  <2>10. QED BY <2>6, <2>7, <2>8, <2>9 DEF IInv
<1>6. QED BY <1>1, <1>2, <1>3, <1>4, <1>5

LEMMA NextIInv == IInv /\ [Next]_vars => IInv'
<1> SUFFICES ASSUME IInv, [Next]_vars
             PROVE  IInv'
  OBVIOUS
<1>1. CASE UNCHANGED vars
  <2>1. UNCHANGED <<engineVars, pipeVars, clientVars, interrupted>>
    BY <1>1 DEF vars
  <2>2. TypeOK'
    BY <2>1 DEF IInv, TypeOK, engineVars, pipeVars, clientVars
  <2>3. FramesInv'
    BY <2>1, ClientShows DEF engineVars, pipeVars, clientVars, Shown
  <2>4. EngineInv' /\ ClientInv' /\ RequestInv'
    BY <2>1 DEF IInv, EngineInv, ClientInv, RequestInv, Good, engineVars, pipeVars, clientVars
  <2>5. QED BY <2>2, <2>3, <2>4 DEF IInv
<1>2. QED BY <1>1, EngineIInv, InvokeIInv, AroundIInv DEF Next

------------------------------------------------------------------------------
\* The inductive invariant: the engine, the pipes and the client agree on the operation.
THEOREM InvariantHolds == Spec => []IInv
<1>1. Init => IInv
  BY InitIInv
<1>2. IInv /\ [Next]_vars => IInv'
  BY NextIInv
<1>3. QED BY <1>1, <1>2, PTL DEF Spec

\* OutcomeIsTold for any number of progress events and any capacity of the pipe: what
\* invoke returns is what the engine settled, and a cancelled manifest has its signal.
THEOREM OutcomesAreTold == Spec => []OutcomeIsTold
<1>1. IInv => OutcomeIsTold
  <2> SUFFICES ASSUME IInv
               PROVE  OutcomeIsTold
    OBVIOUS
  <2>1. client = "returned" =>
          CASE result = "ok" -> outcome = "success" /\ status = "zero" /\ ~interrupted
            [] result = "failedManifest" -> outcome = "failed"
            [] result = "cancelledManifest" -> outcome = "cancelled"
            [] result = "cancelled" -> contextDone
            [] OTHER -> TRUE
    BY DEF IInv, ClientInv, Good
  <2>2. \A i \in 1 .. Len(stdout) : Told(stdout[i])
    BY DEF IInv, FramesInv, Shown
  <2>3. QED BY <2>1, <2>2 DEF OutcomeIsTold, Told, IInv
<1>2. QED BY <1>1, InvariantHolds, PTL

=================================================================================
