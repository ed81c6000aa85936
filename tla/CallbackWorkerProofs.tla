------------------------- MODULE CallbackWorkerProofs -------------------------
(***************************************************************************)
(* Proofs about CallbackWorker for any streams, any number of buffers and  *)
(* any number of chunks.                                                   *)
(*                                                                         *)
(* Order and conservation are not inductive as they stand: both rest on    *)
(* the callback's hands being empty wherever the worker is not calling or  *)
(* unwinding, and what a finished worker has delivered rests on the queue  *)
(* being empty from the moment it left its loop, which closing protects.   *)
(* WorkerInv says these things.                                            *)
(***************************************************************************)
EXTENDS CallbackWorker, SequenceTheorems, TLAPS

WorkerInv ==
  /\ worker \notin {"calling", "unwinding", "exited"} => inFlight = <<>>
  /\ worker = "calling" => Len(inFlight) = 1
  /\ worker = "exited" <=> completion # "Running"
  /\ worker = "ending" /\ ~stopped => closing /\ queue = <<>>
  /\ completion = "Finished" => inFlight = <<>> /\ (stopped \/ queue = <<>>)

IInv ==
  /\ TypeOK
  /\ WorkerInv
  /\ DeliveredInOrder
  /\ BuffersConserved

------------------------------------------------------------------------------
(* Sequences in three parts *)

\* A chunk added at the end of the last part is added at the end of the whole.
LEMMA AppendToLast ==
  ASSUME NEW a \in Seq(Chunk), NEW b \in Seq(Chunk), NEW c \in Seq(Chunk), NEW e \in Chunk
  PROVE  Append(a \o b \o c, e) = a \o b \o Append(c, e)
<1>1. a \o b \in Seq(Chunk) /\ a \o b \o c \in Seq(Chunk) /\ <<e>> \in Seq(Chunk)
  BY ConcatProperties
<1>2. Append(a \o b \o c, e) = (a \o b \o c) \o <<e>>
  BY <1>1, AppendIsConcat
<1>3. Append(c, e) = c \o <<e>>
  BY AppendIsConcat
<1>4. QED BY <1>1, <1>2, <1>3, ConcatAssociative

\* The head of the last part moves into an empty middle one.
LEMMA HeadToMiddle ==
  ASSUME NEW S, NEW a \in Seq(S), NEW c \in Seq(S), c # <<>>
  PROVE  a \o <<>> \o c = a \o <<Head(c)>> \o Tail(c)
<1>1. Head(c) \in S /\ Tail(c) \in Seq(S) /\ <<Head(c)>> \in Seq(S)
  BY HeadTailProperties
<1>2. c = <<Head(c)>> \o Tail(c)
  <2>1. Len(Tail(c)) = Len(c) - 1 /\ \A i \in 1 .. Len(Tail(c)) : Tail(c)[i] = c[i + 1]
    BY HeadTailProperties
  <2>2. Len(c) \in Nat \ {0}
    BY EmptySeq
  <2>3. <<Head(c)>> \o Tail(c) \in Seq(S) /\ Len(<<Head(c)>> \o Tail(c)) = Len(c)
    BY <1>1, <2>1, <2>2, ConcatProperties
  <2>4. \A i \in 1 .. Len(c) : (<<Head(c)>> \o Tail(c))[i] = c[i]
    BY <1>1, <2>1, <2>2, ConcatProperties
  <2>5. QED BY <2>3, <2>4, SeqEqual
<1>3. a \o <<>> = a
  BY ConcatEmptySeq
<1>4. a \o <<Head(c)>> \o Tail(c) = a \o (<<Head(c)>> \o Tail(c))
  BY <1>1, ConcatAssociative
<1>5. QED BY <1>2, <1>3, <1>4

------------------------------------------------------------------------------
(* One lemma per group of steps *)

\* The worker starts with every buffer free and nothing to do.
LEMMA InitIInv == Init => IInv
<1> SUFFICES ASSUME Init PROVE IInv
  OBVIOUS
<1>. USE BufferAssumption DEF Init
<1>1. TypeOK
  <2>1. <<>> \in Seq(Chunk)
    OBVIOUS
  <2>2. BufferCount \in 0 .. BufferCount
    OBVIOUS
  <2>3. QED BY <2>1, <2>2 DEF TypeOK, CompletionStatus, WorkerStates
<1>2. WorkerInv
  BY DEF WorkerInv
<1>3. DeliveredInOrder
  BY ConcatEmptySeq, EmptySeq DEF DeliveredInOrder
<1>4. BuffersConserved
  BY DEF BuffersConserved
<1>5. QED BY <1>1, <1>2, <1>3, <1>4 DEF IInv

\* A chunk that is accepted takes a buffer and the last place.
LEMMA TrySendIInv ==
  ASSUME IInv, NEW s \in Streams, NEW end \in BOOLEAN, Len(sent) < MaxChunks, TrySend(s, end)
  PROVE  IInv'
<1> DEFINE chunk == [stream |-> s, eof |-> end, number |-> Len(sent) + 1]
<1>. USE BufferAssumption
<1>1. chunk \in Chunk
  BY LenProperties DEF Chunk, IInv, TypeOK
<1>2. queue' = Append(queue, chunk) /\ sent' = Append(sent, chunk) /\ free' = free - 1 /\ free > 0
  BY DEF TrySend, CanSend
<1>3. queue' \in Seq(Chunk) /\ sent' \in Seq(Chunk) /\ Len(queue') = Len(queue) + 1
  BY <1>1, <1>2, AppendProperties DEF IInv, TypeOK
<1>4. TypeOK'
  BY <1>2, <1>3 DEF IInv, TypeOK, TrySend, WakeWorker, WorkerStates
<1>5. WorkerInv'
  BY <1>2 DEF IInv, TypeOK, WorkerInv, TrySend, CanSend, Accepting, WakeWorker
<1>6. DeliveredInOrder'
  <2>1. delivered \in Seq(Chunk) /\ inFlight \in Seq(Chunk) /\ queue \in Seq(Chunk)
    BY DEF IInv, TypeOK
  <2>2. Append(delivered \o inFlight \o queue, chunk) = delivered \o inFlight \o Append(queue, chunk)
    <3>. HIDE DEF chunk
    <3>1. QED BY <1>1, <2>1, AppendToLast
  <2>3. QED BY <1>2, <2>2 DEF IInv, DeliveredInOrder, TrySend
<1>7. BuffersConserved'
  <2>1. inFlight' = inFlight /\ (worker' = "recycling" <=> worker = "recycling")
    BY DEF TrySend, WakeWorker
  <2>2. Len(queue) \in Nat /\ Len(inFlight) \in Nat /\ free \in Nat
    BY LenProperties DEF IInv, TypeOK
  <2>3. free' = free - 1 /\ Len(queue') = Len(queue) + 1
    BY <1>2, <1>3
  <2>4. QED BY <2>1, <2>2, <2>3 DEF IInv, BuffersConserved
<1>8. QED BY <1>4, <1>5, <1>6, <1>7 DEF IInv

\* Closing, stopping and draining move no chunk and no buffer.
LEMMA SignalIInv ==
  ASSUME IInv, Finish \/ Stop \/ Drain
  PROVE  IInv'
<1>. USE BufferAssumption DEF Finish, Stop, Drain, WakeWorker
<1>1. TypeOK'
  BY DEF IInv, TypeOK, WorkerStates
<1>2. WorkerInv'
  BY DEF IInv, TypeOK, WorkerInv
<1>3. DeliveredInOrder'
  BY DEF IInv, DeliveredInOrder
<1>4. BuffersConserved'
  BY DEF IInv, BuffersConserved
<1>5. QED BY <1>1, <1>2, <1>3, <1>4 DEF IInv

\* The worker takes the oldest chunk.
LEMMA PopIInv ==
  ASSUME IInv, Pop
  PROVE  IInv'
<1>1. Head(queue) \in Chunk /\ queue' \in Seq(Chunk) /\ Len(queue') = Len(queue) - 1
  BY HeadTailProperties DEF IInv, TypeOK, Pop
<1>2. inFlight = <<>> /\ inFlight' = <<Head(queue)>> /\ Len(inFlight') = 1
  BY DEF IInv, WorkerInv, Pop
<1>3. TypeOK'
  BY <1>1, <1>2 DEF IInv, TypeOK, Pop, WorkerStates
<1>4. WorkerInv'
  BY <1>2 DEF IInv, TypeOK, WorkerInv, Pop
<1>5. DeliveredInOrder'
  <2>1. delivered \o <<>> \o queue = delivered \o <<Head(queue)>> \o Tail(queue)
    BY HeadToMiddle DEF IInv, TypeOK, Pop
  <2>2. QED BY <1>2, <2>1 DEF IInv, DeliveredInOrder, Pop
<1>6. BuffersConserved'
  BY <1>1, <1>2, LenProperties DEF IInv, TypeOK, BuffersConserved, Pop
<1>7. QED BY <1>3, <1>4, <1>5, <1>6 DEF IInv

\* The callback returns: its chunk is delivered, its buffer not yet given back.
LEMMA ReturnIInv ==
  ASSUME IInv, CallbackReturns
  PROVE  IInv'
<1>1. delivered' = delivered \o inFlight /\ delivered' \in Seq(Chunk)
  BY ConcatProperties DEF IInv, TypeOK, CallbackReturns
<1>2. inFlight' = <<>> /\ Len(inFlight) = 1 /\ Len(inFlight') = 0
  BY DEF IInv, WorkerInv, CallbackReturns
<1>3. TypeOK'
  BY <1>1, <1>2 DEF IInv, TypeOK, CallbackReturns, WorkerStates
<1>4. WorkerInv'
  BY <1>2 DEF IInv, TypeOK, WorkerInv, CallbackReturns
<1>5. DeliveredInOrder'
  <2>1. delivered' \o <<>> = delivered'
    BY <1>1, ConcatEmptySeq
  <2>2. QED BY <1>1, <1>2, <2>1 DEF IInv, DeliveredInOrder, CallbackReturns
<1>6. BuffersConserved'
  BY <1>2, LenProperties DEF IInv, TypeOK, BuffersConserved, CallbackReturns
<1>7. QED BY <1>3, <1>4, <1>5, <1>6 DEF IInv

\* The worker gives the buffer back.
LEMMA RecycleIInv ==
  ASSUME IInv, Recycle
  PROVE  IInv'
<1>. USE BufferAssumption
<1>1. free + Len(queue) + Len(inFlight) + 1 = BufferCount /\ Len(inFlight) = 0
  BY DEF IInv, BuffersConserved, WorkerInv, Recycle
<1>2. Len(queue) \in Nat
  BY LenProperties DEF IInv, TypeOK
<1>3. TypeOK'
  BY <1>1, <1>2 DEF IInv, TypeOK, Recycle, WorkerStates
<1>4. WorkerInv'
  BY DEF IInv, TypeOK, WorkerInv, Recycle
<1>5. DeliveredInOrder'
  BY DEF IInv, DeliveredInOrder, Recycle
<1>6. BuffersConserved'
  BY <1>1, <1>2 DEF IInv, TypeOK, BuffersConserved, Recycle
<1>7. QED BY <1>3, <1>4, <1>5, <1>6 DEF IInv

\* Every other step of the worker only changes where it stands.
LEMMA MoveIInv ==
  ASSUME IInv, Sleep \/ Leave \/ Notify \/ Complete \/ CallbackPanics
  PROVE  IInv'
<1>. USE DEF Sleep, Leave, Notify, Complete, CallbackPanics
<1>1. TypeOK'
  BY DEF IInv, TypeOK, WorkerStates, CompletionStatus
<1>2. WorkerInv'
  BY DEF IInv, TypeOK, WorkerInv, CompletionStatus, NothingToDo
<1>3. DeliveredInOrder'
  BY DEF IInv, DeliveredInOrder
<1>4. BuffersConserved'
  BY DEF IInv, BuffersConserved
<1>5. QED BY <1>1, <1>2, <1>3, <1>4 DEF IInv

LEMMA StutterIInv ==
  ASSUME IInv, UNCHANGED vars
  PROVE  IInv'
BY DEF vars, IInv, TypeOK, WorkerInv, DeliveredInOrder, BuffersConserved

------------------------------------------------------------------------------
LEMMA Invariant == Spec => []IInv
<1>1. IInv /\ [Next]_vars => IInv'
  BY TrySendIInv, SignalIInv, PopIInv, ReturnIInv, RecycleIInv, MoveIInv, StutterIInv
  DEF Next, Client, WorkerNext, WorkerStep
<1>2. QED BY InitIInv, <1>1, PTL DEF Spec

\* Whatever the number of buffers and streams, the callback sees the chunks in
\* the order they were accepted, and none is lost or seen twice on the way
\* (try_send, the queue and the loop of the worker).
THEOREM ChunksStayInOrder == Spec => []DeliveredInOrder
<1>1. IInv => DeliveredInOrder
  BY DEF IInv
<1>2. QED BY <1>1, Invariant, PTL

\* Back-pressure neither leaks nor overflows: every buffer is free, queued, in
\* the callback's hands or about to be given back.
THEOREM BuffersStayConserved == Spec => []BuffersConserved
<1>1. IInv => BuffersConserved
  BY DEF IInv
<1>2. QED BY <1>1, Invariant, PTL

\* A worker that ended of its own accord delivered everything it was given,
\* which is what join's Finished means to the supervisor.
THEOREM FinishedHasDelivered == Spec => []FinishedMeansDelivered
<1>1. IInv => FinishedMeansDelivered
  <2> SUFFICES ASSUME IInv, completion = "Finished", ~stopped
               PROVE  delivered = sent
    BY DEF FinishedMeansDelivered
  <2>1. inFlight = <<>> /\ queue = <<>>
    BY DEF IInv, WorkerInv
  <2>2. delivered \o <<>> = delivered
    BY ConcatEmptySeq DEF IInv, TypeOK
  <2>3. QED BY <2>1, <2>2 DEF IInv, DeliveredInOrder
<1>2. QED BY <1>1, Invariant, PTL
===============================================================================
