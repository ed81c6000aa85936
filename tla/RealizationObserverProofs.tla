---------------------- MODULE RealizationObserverProofs ----------------------
(***************************************************************************)
(* Proofs about RealizationObserver for any derivations and ids, any       *)
(* stream of records, any capacity of the channel and any budgets.         *)
(*                                                                         *)
(* ThreadInv says which thread may be where: a line is at work only while  *)
(* the process runs or when its callback was given up.  BudgetInv counts   *)
(* the verdicts, CandidateInv ties a live verdict and its notification to  *)
(* a path still waiting for its result, VerdictInv every retained verdict  *)
(* to a report, and TellInv says that the end of a candidate's build was   *)
(* told, or stands in the line that is delivering.                         *)
(*                                                                         *)
(* Retried and Ancestor are recursive functions: that they satisfy their   *)
(* own equations, and what they return, follows from the smallest argument *)
(* at which it would be false (LeastNumber).                               *)
(***************************************************************************)
EXTENDS RealizationObserver, FiniteSetTheorems, SequenceTheorems, WellFoundedInduction, TLAPS

\* The paths with a live verdict; those outside the graph with a reported one.
LiveFound == {d \in Derivations : liveConfirmed[d] # None}
Unknown == {d \in Derivations \ Graph : confirmed[d] # None}

\* Which thread may hold what.
ThreadInv ==
  /\ line = "locked" => record \in Record
  /\ line # "delivering" => delivering = <<>>
  /\ main = "running" => ~detached
  /\ main # "running" /\ ~detached => line = "idle"
  /\ main \in {"joined", "taken"} => live = "ended"
  /\ live \in {"waiting", "taking", "ended"} => batch = <<>>

BudgetInv ==
  /\ IsFiniteSet(LiveFound) /\ IsFiniteSet(Unknown)
  /\ main = "taken" => LiveFound = {}
  /\ main # "taken" =>
       /\ liveBudget + Cardinality(LiveFound) = MaxNodes
       /\ unknownBudget + Cardinality(Unknown) = MaxNodes
       /\ stoppedBudget + Len(livePending) + Len(batch) <= MaxNodes

\* A candidate is not lost, and has no result since its build stopped.
CandidateInv ==
  /\ main = "running" => \A d \in stopped : Watched(d)
  /\ stopped \cap answered = {}
  /\ liveNotifications \subseteq stopped \cap LiveFound
  /\ \A d \in LiveFound : ~liveConfirmed[d].authoritative => d \in stopped

\* A verdict with the state and the outputs of a report.
ReportedAs(verdict, d) ==
  \E r \in reported[d] : r.state = verdict.state /\ r.outputs = verdict.outputs

VerdictInv ==
  /\ \A d \in Derivations : confirmed[d] = None \/ liveConfirmed[d] = None
  /\ \A d \in Derivations : confirmed[d] \notin {None, Conflict} =>
       confirmed[d].authoritative /\ ReportedAs(confirmed[d], d)
  /\ \A d \in LiveFound : liveConfirmed[d].authoritative => ReportedAs(liveConfirmed[d], d)
  /\ \A d \in Derivations : taken[d] # None =>
       /\ main = "taken"
       /\ IF taken[d].authoritative THEN ReportedAs(taken[d], d) ELSE detached \/ d \notin answered

\* The progress of a candidate: its end is told, or will be by the line at work.
TellInv ==
  /\ \A i \in 1 .. Len(delivering) : delivering[i].type # "live"
  /\ \A d \in stopped :
       /\ ~InSeq(Event1("final", d), delivering)
       /\ \/ Disconnected
          \/ told[d] \in {"provisional", "live"}
          \/ InSeq(Event1("provisional", d), delivering)

IInv == TypeOK /\ CountsAgree /\ ThreadInv /\ BudgetInv /\ CandidateInv /\ VerdictInv /\ TellInv

\* A set of numbers that is not empty has a smallest one.
LEMMA LeastNumber ==
  ASSUME NEW T \in SUBSET Nat, T # {}
  PROVE  \E n \in T : \A m \in T : n <= m
<1> DEFINE less == {r \in Nat \X Nat : r[1] < r[2]}
<1>1. IsWellFoundedOn(less, Nat)
  BY NatLessThanWellFounded DEF OpToRel, IsWellFoundedOn
<1>2. PICK x \in T : \A y \in T : ~(<<y, x>> \in less)
  BY <1>1, WFMin
<1>3. ASSUME NEW y \in T PROVE x <= y
  <2>1. ~(y < x)
    BY <1>2
  <2>2. x \in Nat /\ y \in Nat
    OBVIOUS
  <2>3. QED BY <2>1, <2>2
<1>4. QED BY <1>3

\* One round of retry_live, from what the rounds before it left.
Round(f, n) ==
  IF n = 0 THEN livePending
  ELSE IF Confirmable(batch[n]) THEN Append(f[n - 1], batch[n])
  ELSE f[n - 1]

\* Retried is what its definition says of every round.
LEMMA RetriedRounds ==
  ASSUME Len(batch) \in Nat
  PROVE  \A n \in 0 .. Len(batch) : Retried[n] = Round(Retried, n)
<1> DEFINE Rounds(f, n) == f = [m \in 0 .. n |-> Round(f, m)]
           T == {n \in Nat : n <= Len(batch) /\ ~\E f : Rounds(f, n)}
<1>1. T = {}
  <2> SUFFICES ASSUME T # {}
               PROVE  FALSE
    OBVIOUS
  <2>1. PICK n \in T : \A m \in T : n <= m
    BY LeastNumber
  <2>2. n \in Nat /\ n <= Len(batch) /\ ~\E f : Rounds(f, n)
    BY <2>1
  <2>3. CASE n = 0
    <3> DEFINE f == [m \in 0 .. 0 |-> livePending]
    <3>1. \A m \in 0 .. 0 : m = 0 /\ Round(f, m) = livePending
      BY DEF Round
    <3>2. Rounds(f, 0)
      BY <3>1
    <3>3. QED BY <2>2, <2>3, <3>2
  <2>4. CASE n # 0
    <3>1. n - 1 \in Nat /\ n - 1 <= Len(batch) /\ ~(n <= n - 1)
      BY <2>2, <2>4
    <3>2. PICK g : Rounds(g, n - 1)
      BY <2>1, <3>1
    <3> DEFINE f == [m \in 0 .. n |-> IF m = n THEN Round(g, n) ELSE g[m]]
    <3> HIDE DEF Rounds
    <3>3. \A m \in 0 .. n - 1 : /\ m \in 0 .. n /\ m # n /\ g[m] = Round(g, m)
                                /\ m # 0 => m - 1 \in 0 .. n - 1
      BY <2>2, <2>4, <3>2 DEF Rounds
    <3>4. \A m \in 0 .. n - 1 : f[m] = g[m]
      BY <3>3
    <3>5. ASSUME NEW m \in 0 .. n PROVE f[m] = Round(f, m)
      <4>1. CASE m = n
        <5>1. n - 1 \in 0 .. n - 1 /\ f[n] = Round(g, n)
          BY <4>1, <2>2, <2>4
        <5>2. f[n - 1] = g[n - 1]
          BY <5>1, <3>4
        <5> HIDE DEF f
        <5>3. QED BY <5>1, <5>2, <4>1, <2>4 DEF Round
      <4>2. CASE m # n
        <5>1. m \in 0 .. n - 1
          BY <4>2, <2>2
        <5>2. f[m] = Round(g, m) /\ (m # 0 => f[m - 1] = g[m - 1])
          BY <5>1, <3>3, <3>4
        <5> HIDE DEF f
        <5>3. QED BY <5>2 DEF Round
      <4>3. QED BY <4>1, <4>2
    <3>6. f = [m \in 0 .. n |-> Round(f, m)]
      BY <3>5
    <3>7. Rounds(f, n)
      BY <3>6 DEF Rounds
    <3>8. QED BY <2>2, <3>7
  <2>5. QED BY <2>3, <2>4
<1>2. \E f : Rounds(f, Len(batch))
  BY <1>1
<1>3. Rounds(Retried, Len(batch))
  BY <1>2, Zenon DEF Retried, Round
<1>4. QED BY <1>3

\* retry_live keeps what is queued and every candidate of the batch.
LEMMA RetriedKeeps ==
  ASSUME livePending \in Seq(Derivations), batch \in Seq(Derivations)
  PROVE  LET after == Retried[Len(batch)] IN
         /\ after \in Seq(Derivations)
         /\ Len(after) <= Len(livePending) + Len(batch)
         /\ \A d \in Derivations : InSeq(d, livePending) => InSeq(d, after)
         /\ \A d \in Derivations : InSeq(d, batch) /\ Confirmable(d) => InSeq(d, after)
<1>0. Len(batch) \in Nat /\ Len(livePending) \in Nat
  BY LenProperties
<1> DEFINE Good(n) ==
      /\ Retried[n] \in Seq(Derivations)
      /\ Len(Retried[n]) <= Len(livePending) + n
      /\ \A d \in Derivations : InSeq(d, livePending) => InSeq(d, Retried[n])
      /\ \A i \in 1 .. n : Confirmable(batch[i]) => InSeq(batch[i], Retried[n])
    T == {n \in Nat : n <= Len(batch) /\ ~Good(n)}
<1>1. T = {}
  <2> SUFFICES ASSUME T # {}
               PROVE  FALSE
    OBVIOUS
  <2>1. PICK n \in T : \A m \in T : n <= m
    BY LeastNumber
  <2>2. n \in Nat /\ n <= Len(batch) /\ ~Good(n)
    BY <2>1
  <2>3. CASE n = 0
    <3>1. Retried[0] = livePending
      BY <1>0, RetriedRounds DEF Round
    <3>2. Good(0)
      BY <1>0, <3>1
    <3>3. QED BY <2>2, <2>3, <3>2
  <2>4. CASE n # 0
    <3>1. /\ n - 1 \in Nat /\ n - 1 <= Len(batch) /\ ~(n <= n - 1)
          /\ n \in 0 .. Len(batch) /\ n \in 1 .. Len(batch)
      BY <1>0, <2>2, <2>4
    <3>2. Good(n - 1)
      BY <2>1, <3>1
    <3> DEFINE before == Retried[n - 1]
    <3>3. Retried[n] = IF Confirmable(batch[n]) THEN Append(before, batch[n]) ELSE before
      BY <1>0, <2>4, <3>1, RetriedRounds DEF Round
    <3>4. /\ before \in Seq(Derivations) /\ Len(before) \in Nat
          /\ Len(before) <= Len(livePending) + (n - 1)
          /\ batch[n] \in Derivations
      BY <3>1, <3>2, LenProperties, ElementOfSeq
    <3>5. \A d \in Derivations : InSeq(d, livePending) => InSeq(d, before)
      BY <3>2
    <3>6. \A i \in 1 .. n - 1 : Confirmable(batch[i]) => InSeq(batch[i], before)
      BY <3>2
    <3>7. \A i \in 1 .. n : i = n \/ i \in 1 .. n - 1
      BY <2>2
    <3> HIDE DEF before
    <3>8. CASE Confirmable(batch[n])
      <4>1. /\ Retried[n] \in Seq(Derivations) /\ Len(Retried[n]) = Len(before) + 1
            /\ \A i \in 1 .. Len(before) : Retried[n][i] = before[i]
            /\ Retried[n][Len(before) + 1] = batch[n]
        BY <3>3, <3>4, <3>8, AppendProperties
      <4>2. /\ Len(before) + 1 \in 1 .. Len(Retried[n])
            /\ 1 .. Len(before) \subseteq 1 .. Len(Retried[n])
        BY <3>4, <4>1
      <4>3. \A d : InSeq(d, before) => InSeq(d, Retried[n])
        BY <4>1, <4>2 DEF InSeq
      <4>4. InSeq(batch[n], Retried[n])
        BY <4>1, <4>2 DEF InSeq
      <4>5. Good(n)
        <5>1. Len(Retried[n]) <= Len(livePending) + n
          BY <1>0, <2>2, <3>4, <4>1
        <5>2. QED BY <3>5, <3>6, <3>7, <4>1, <4>3, <4>4, <5>1
      <4>6. QED BY <2>2, <4>5
    <3>9. CASE ~Confirmable(batch[n])
      <4>1. Retried[n] = before
        BY <3>3, <3>9
      <4>2. Len(Retried[n]) <= Len(livePending) + n
        BY <1>0, <2>2, <3>4, <4>1
      <4>3. Good(n)
        BY <3>4, <3>5, <3>6, <3>7, <3>9, <4>1, <4>2
      <4>4. QED BY <2>2, <4>3
    <3>10. QED BY <3>8, <3>9
  <2>5. QED BY <2>3, <2>4
<1>2. Good(Len(batch))
  BY <1>0, <1>1
<1>3. QED BY <1>2 DEF InSeq

\* One step of parent_derivation, with what the shorter chains give.
Climb(f, n) ==
  [i \in Ids \cup {0, None} |->
     IF n = 0 \/ i \in {0, None} THEN None
     ELSE IF activities[i] # None THEN activities[i].drv
     ELSE f[n - 1][parents[i]]]

\* Ancestor is what its definition says for every length of the chain.
LEMMA AncestorClimbs ==
  ASSUME NEW N \in Nat, N = Cardinality(Ids)
  PROVE  \A n \in 0 .. N : Ancestor[n] = Climb(Ancestor, n)
<1> DEFINE Chain(f, n) == f = [m \in 0 .. n |-> Climb(f, m)]
           T == {n \in Nat : ~\E f : Chain(f, n)}
<1>1. T = {}
  <2> SUFFICES ASSUME T # {}
               PROVE  FALSE
    OBVIOUS
  <2>1. PICK n \in T : \A m \in T : n <= m
    BY LeastNumber
  <2>2. n \in Nat /\ ~\E f : Chain(f, n)
    BY <2>1
  <2>3. CASE n = 0
    <3> DEFINE f == [m \in 0 .. 0 |-> [i \in Ids \cup {0, None} |-> None]]
    <3>1. \A m \in 0 .. 0 : Climb(f, m) = [i \in Ids \cup {0, None} |-> None]
      BY DEF Climb
    <3>2. Chain(f, 0)
      BY <3>1
    <3>3. QED BY <2>2, <2>3, <3>2
  <2>4. CASE n # 0
    <3>1. n - 1 \in Nat /\ ~(n <= n - 1)
      BY <2>2, <2>4
    <3>2. PICK g : Chain(g, n - 1)
      BY <2>1, <3>1
    <3> DEFINE f == [m \in 0 .. n |-> IF m = n THEN Climb(g, n) ELSE g[m]]
    <3>3. \A m \in 0 .. n - 1 : m \in 0 .. n /\ m # n /\ g[m] = Climb(g, m)
      BY <2>2, <2>4, <3>2
    <3>4. \A m \in 0 .. n - 1 : f[m] = g[m]
      BY <3>3
    <3>5. ASSUME NEW m \in 0 .. n
          PROVE  f[m] = Climb(f, m)
      <4>1. CASE m = n
        <5>1. n - 1 \in 0 .. n - 1 /\ f[n] = Climb(g, n)
          BY <4>1, <2>2, <2>4
        <5>2. f[n - 1] = g[n - 1]
          BY <5>1, <3>4
        <5> HIDE DEF f
        <5>3. QED BY <5>1, <5>2, <4>1 DEF Climb
      <4>2. CASE m # n
        <5>1. m \in 0 .. n - 1 /\ (m # 0 => m - 1 \in 0 .. n - 1)
          BY <4>2, <2>2
        <5>2. f[m] = Climb(g, m) /\ (m # 0 => f[m - 1] = g[m - 1])
          BY <5>1, <3>3, <3>4
        <5> HIDE DEF f
        <5>3. QED BY <5>2 DEF Climb
      <4>3. QED BY <4>1, <4>2
    <3>6. Chain(f, n)
      BY <3>5
    <3>7. QED BY <2>2, <3>6
  <2>5. QED BY <2>3, <2>4
<1>2. \E f : Chain(f, N)
  BY <1>1
<1>3. Chain(Ancestor, N)
  BY <1>2, Zenon DEF Ancestor, Climb
<1>4. QED BY <1>3

\* The nearest ancestor with a derivation has a derivation, or there is none.
LEMMA AncestorType ==
  ASSUME TypeOK
  PROVE  \A n \in 0 .. Cardinality(Ids), i \in Ids \cup {0, None} :
           Ancestor[n][i] \in Derivations \cup {None}
<1> DEFINE N == Cardinality(Ids)
           I == Ids \cup {0, None}
           Typed(n) == \A i \in I : Ancestor[n][i] \in Derivations \cup {None}
           T == {n \in Nat : n <= N /\ ~Typed(n)}
<1>1. /\ N \in Nat /\ parents \in [Ids -> I]
      /\ activities \in [Ids -> Activity \cup {None}]
  BY ObserverAssumption, FS_CardinalityType DEF TypeOK
<1>2. \A n \in 0 .. N : Ancestor[n] = Climb(Ancestor, n)
  BY <1>1, AncestorClimbs
<1> HIDE DEF N
<1>3. T = {}
  <2> SUFFICES ASSUME T # {}
               PROVE  FALSE
    OBVIOUS
  <2>1. PICK n \in T : \A m \in T : n <= m
    BY LeastNumber
  <2>2. n \in Nat /\ n <= N /\ n \in 0 .. N /\ ~Typed(n)
    BY <1>1, <2>1
  <2>3. \A i \in Ids : activities[i] # None => activities[i].drv \in Derivations
    BY <1>1 DEF Activity
  <2>4. n # 0 => Typed(n - 1)
    <3>1. n # 0 => n - 1 \in Nat /\ n - 1 <= N /\ ~(n <= n - 1)
      BY <1>1, <2>2
    <3>2. QED BY <2>1, <3>1
  <2>5. ASSUME NEW i \in I
        PROVE  Climb(Ancestor, n)[i] \in Derivations \cup {None}
    <3>1. i \notin {0, None} => i \in Ids /\ parents[i] \in I
      BY <1>1
    <3>2. QED BY <2>3, <2>4, <3>1 DEF Climb
  <2>6. QED BY <1>2, <2>2, <2>5
<1>4. QED BY <1>1, <1>3 DEF N

------------------------------------------------------------------------------
(* What a step leaves alone *)

LEMMA CountsFrame ==
  ASSUME CountsAgree, UNCHANGED <<running, activities>>
  PROVE  CountsAgree'
BY DEF CountsAgree, IsRunning

LEMMA BudgetFrame ==
  ASSUME BudgetInv, UNCHANGED <<liveConfirmed, confirmed, budgetVars, livePending, batch>>,
         main' = "taken" <=> main = "taken"
  PROVE  BudgetInv'
<1>1. UNCHANGED <<LiveFound, Unknown>>
  BY DEF LiveFound, Unknown
<1>2. QED BY <1>1 DEF BudgetInv, budgetVars

LEMMA CandidateFrame ==
  ASSUME CandidateInv,
         UNCHANGED <<stopped, livePending, batch, confirmed, liveConfirmed, answered>>,
         liveNotifications' \subseteq liveNotifications,
         main' = "running" => main = "running"
  PROVE  CandidateInv'
<1>1. UNCHANGED LiveFound
  BY DEF LiveFound
<1>2. \A d : Watched(d)' <=> Watched(d)
  BY DEF Watched, InSeq
<1>3. QED BY <1>1, <1>2 DEF CandidateInv

LEMMA VerdictFrame ==
  ASSUME VerdictInv, UNCHANGED <<confirmed, liveConfirmed, taken, reported>>,
         answered' \subseteq answered, main = "taken" => main' = "taken", detached => detached'
  PROVE  VerdictInv'
BY DEF VerdictInv, LiveFound, ReportedAs

LEMMA TellFrame ==
  ASSUME TellInv, UNCHANGED <<stopped, delivering>>, Disconnected => Disconnected',
         \A d \in stopped :
           told[d] \in {"provisional", "live"} => told'[d] \in {"provisional", "live"}
  PROVE  TellInv'
BY DEF TellInv, InSeq, Event1

\* An observer that has seen nothing.
LEMMA InitIInv == Init => IInv
<1> SUFFICES ASSUME Init PROVE IInv
  OBVIOUS
<1>1. \A S : <<>> \in Seq(S) /\ Len(<<>>) = 0
  BY EmptySeq
<1>2. Cardinality(Ids) \in Nat
  BY FS_CardinalityType, ObserverAssumption
<1>3. TypeOK
  <2>1. events \in BOOLEAN /\ detached \in BOOLEAN /\ cancelRequested \in BOOLEAN
    BY Zenon DEF Init
  <2>2. /\ unknownBudget \in 0 .. MaxNodes /\ liveBudget \in 0 .. MaxNodes
        /\ stoppedBudget \in 0 .. MaxNodes /\ records \in 0 .. MaxRecords
        /\ queued \in 0 .. ChannelCapacity
    BY ObserverAssumption DEF Init
  <2>3. running \in [Derivations -> 0 .. Cardinality(Ids)]
    BY <1>2 DEF Init
  <2>4. /\ confirmed \in [Derivations -> Verdict \cup {Conflict, None}]
        /\ liveConfirmed \in [Derivations -> Verdict \cup {None}]
        /\ taken \in [Derivations -> Verdict \cup {None}]
        /\ activities \in [Ids -> Activity \cup {None}]
        /\ parents \in [Ids -> Ids \cup {0, None}]
    BY DEF Init, Nothing
  <2>5. /\ told \in [Derivations -> {"nothing", "provisional", "live", "final"}]
        /\ reported \in [Derivations -> SUBSET Reports]
    BY DEF Init
  <2>6. delivering \in Seq(Event) /\ Len(delivering) <= 2
        /\ livePending \in Seq(Derivations) /\ batch \in Seq(Derivations)
    BY <1>1 DEF Init
  <2>7. outputs \subseteq Derivations
    BY ObserverAssumption DEF Init
  <2>8. QED BY <2>1, <2>2, <2>3, <2>4, <2>5, <2>6, <2>7 DEF Init, TypeOK
<1>4. CountsAgree
  <2>1. \A d \in Derivations : {i \in Ids : IsRunning(i) /\ activities[i].drv = d} = {}
    BY DEF Init, IsRunning
  <2>2. QED BY <2>1, FS_EmptySet DEF Init, CountsAgree
<1>5. ThreadInv
  BY DEF Init, ThreadInv
<1>6. LiveFound = {} /\ Unknown = {}
  BY DEF Init, Nothing, LiveFound, Unknown
<1>7. BudgetInv
  BY <1>1, <1>6, FS_EmptySet, ObserverAssumption DEF Init, BudgetInv
<1>8. CandidateInv
  BY <1>6 DEF Init, CandidateInv
<1>9. VerdictInv
  BY DEF Init, Nothing, VerdictInv, LiveFound
<1>10. TellInv
  BY <1>1 DEF Init, TellInv
<1>11. QED BY <1>3, <1>4, <1>5, <1>7, <1>8, <1>9, <1>10 DEF IInv

------------------------------------------------------------------------------
(* The forwarder, the main thread, cancellation *)

\* The steps of the forwarder and the main thread leave what was observed alone.
LEMMA MainIInv ==
  ASSUME IInv, Forward \/ ForwarderPanics \/ RunReturns \/ Close \/ JoinThreads \/ RequestCancel
  PROVE  IInv'
<1>1. /\ UNCHANGED observerVars
      /\ main = "taken" <=> main' = "taken"
      /\ main' = "running" => main = "running"
      /\ Disconnected => Disconnected'
      /\ detached => detached'
  <2>1. UNCHANGED observerVars
    BY DEF Forward, ForwarderPanics, RunReturns, Close, JoinThreads, RequestCancel, MainUnchanged
  <2>2. /\ main = "taken" <=> main' = "taken"
        /\ main' = "running" => main = "running"
    BY DEF Forward, ForwarderPanics, RunReturns, Close, JoinThreads, RequestCancel, MainUnchanged
  <2>3. detached => detached'
    BY DEF Forward, ForwarderPanics, RunReturns, Close, JoinThreads, RequestCancel, MainUnchanged,
           IInv, ThreadInv
  <2>4. Disconnected => Disconnected'
    BY Zenon DEF Forward, ForwarderPanics, RunReturns, Close, JoinThreads, RequestCancel,
                 MainUnchanged, Disconnected
  <2>5. QED BY <2>1, <2>2, <2>3, <2>4
<1>2. /\ UNCHANGED <<stream, activities, parents, running, completedBuilds, outputs>>
      /\ UNCHANGED <<confirmed, liveConfirmed, liveNotifications, livePending, stopped, budgetVars>>
      /\ UNCHANGED <<line, record, delivering, records, live, batch, found, taken, told, reported,
                     answered>>
  BY <1>1 DEF observerVars, activityVars, liveVars, lineVars, probeVars
<1>3. TypeOK'
  <2>1. /\ events' \in BOOLEAN /\ cancelRequested' \in BOOLEAN /\ detached' \in BOOLEAN
    <3>1. events \in BOOLEAN /\ cancelRequested \in BOOLEAN /\ detached \in BOOLEAN
      BY DEF IInv, TypeOK
    <3>2. events' \in {events, FALSE} /\ cancelRequested' \in {cancelRequested, TRUE}
      BY DEF Forward, ForwarderPanics, RunReturns, Close, JoinThreads, RequestCancel, MainUnchanged
    <3>3. detached' \in {detached, line # "idle", TRUE}
      BY DEF Forward, ForwarderPanics, RunReturns, Close, JoinThreads, RequestCancel, MainUnchanged
    <3>4. QED BY <3>1, <3>2, <3>3
  <2>2. queued' \in 0 .. ChannelCapacity
    <3>1. queued' = queued \/ (queued > 0 /\ queued' = queued - 1) \/ queued' = 0
      BY DEF Forward, ForwarderPanics, RunReturns, Close, JoinThreads, RequestCancel, MainUnchanged
    <3>2. queued \in 0 .. ChannelCapacity /\ ChannelCapacity \in Nat
      BY ObserverAssumption DEF IInv, TypeOK
    <3>3. QED BY <3>1, <3>2
  <2>3. /\ forwarder' \in {"receiving", "ended", "panicked"}
        /\ main' \in {"running", "closing", "closed", "joined", "taken"}
    BY DEF Forward, ForwarderPanics, RunReturns, Close, JoinThreads, RequestCancel, MainUnchanged,
           IInv, TypeOK
  <2>4. QED BY <1>2, <2>1, <2>2, <2>3 DEF IInv, TypeOK, budgetVars
<1>4. ThreadInv'
  <2>1. (main' # "running" /\ ~detached' => line = "idle") /\ (main' = "running" => ~detached')
    <3>1. CASE RunReturns
      <4>1. main' = "closing" /\ (detached' = (line # "idle") \/ detached' = TRUE)
        BY <3>1 DEF RunReturns
      <4>2. ~detached' => line = "idle"
        BY <4>1, Zenon
      <4>3. QED BY <4>1, <4>2
    <3>2. CASE Forward \/ ForwarderPanics \/ Close \/ JoinThreads \/ RequestCancel
      BY <3>2 DEF Forward, ForwarderPanics, Close, JoinThreads, RequestCancel, MainUnchanged, IInv,
                  ThreadInv
    <3>3. QED BY <3>1, <3>2
  <2>2. main' \in {"joined", "taken"} => live = "ended"
    BY DEF Forward, ForwarderPanics, RunReturns, Close, JoinThreads, RequestCancel, MainUnchanged,
           IInv, ThreadInv
  <2>3. QED BY <1>2, <2>1, <2>2 DEF IInv, ThreadInv
<1>5. CountsAgree' /\ BudgetInv' /\ CandidateInv' /\ VerdictInv' /\ TellInv'
  BY <1>1, <1>2, CountsFrame, BudgetFrame, CandidateFrame, VerdictFrame, TellFrame DEF IInv
<1>6. QED BY <1>3, <1>4, <1>5 DEF IInv

\* take_confirmed: what is taken was retained, and nothing is left behind.
LEMMA TakeIInv == ASSUME IInv, Take PROVE IInv'
<1>1. /\ main = "joined" /\ main' = "taken"
      /\ taken' = [d \in Derivations |->
           IF confirmed[d] = None THEN liveConfirmed[d]
           ELSE IF confirmed[d] = Conflict THEN None ELSE confirmed[d]]
      /\ confirmed' = Nothing /\ liveConfirmed' = Nothing /\ liveNotifications' = {}
      /\ UNCHANGED <<stream, activities, parents, running, completedBuilds, outputs, livePending,
                     stopped, budgetVars, events, line, record, delivering, records, live, batch,
                     found, queued, forwarder, detached, cancelRequested, told, reported, answered>>
  BY DEF Take, activityVars, lineVars, probeVars
<1>2. TypeOK'
  <2>1. /\ confirmed' \in [Derivations -> Verdict \cup {Conflict, None}]
        /\ liveConfirmed' \in [Derivations -> Verdict \cup {None}]
    BY <1>1 DEF Nothing
  <2>2. taken' \in [Derivations -> Verdict \cup {None}]
    BY <1>1 DEF IInv, TypeOK
  <2>3. main' \in {"running", "closing", "closed", "joined", "taken"} /\ liveNotifications' = {}
    BY <1>1
  <2>4. QED BY <1>1, <2>1, <2>2, <2>3 DEF IInv, TypeOK, budgetVars
<1>3. CountsAgree'
  BY <1>1, CountsFrame DEF IInv
<1>4. ThreadInv'
  BY <1>1 DEF IInv, ThreadInv
<1>5. LiveFound' = {} /\ Unknown' = {}
  BY <1>1 DEF LiveFound, Unknown, Nothing
<1>6. BudgetInv'
  BY <1>1, <1>5, FS_EmptySet DEF BudgetInv
<1>7. CandidateInv'
  BY <1>1, <1>5 DEF IInv, CandidateInv
<1>8. VerdictInv'
  <2>1. ASSUME NEW d \in Derivations, taken'[d] # None
        PROVE  IF taken'[d].authoritative THEN ReportedAs(taken'[d], d)
                                          ELSE detached \/ d \notin answered
    <3>1. CASE confirmed[d] = None
      <4>1. d \in LiveFound /\ taken'[d] = liveConfirmed[d]
        BY <1>1, <2>1, <3>1 DEF LiveFound
      <4>2. QED BY <4>1 DEF IInv, VerdictInv, CandidateInv
    <3>2. CASE confirmed[d] # None
      <4>1. confirmed[d] \notin {None, Conflict} /\ taken'[d] = confirmed[d]
        BY <1>1, <2>1, <3>2
      <4>2. QED BY <4>1 DEF IInv, VerdictInv
    <3>3. QED BY <3>1, <3>2
  <2>2. \A d \in Derivations : confirmed'[d] = None /\ liveConfirmed'[d] = None
    BY <1>1 DEF Nothing
  <2>3. QED BY <1>1, <1>5, <2>1, <2>2 DEF VerdictInv, ReportedAs
<1>9. TellInv'
  BY <1>1, TellFrame DEF IInv, Disconnected
<1>10. QED BY <1>2, <1>3, <1>4, <1>6, <1>7, <1>8, <1>9 DEF IInv

------------------------------------------------------------------------------
(* The live thread *)

\* A flush sends what waits, as far as the channel goes, and only behind the end of a build.
LEMMA FlushTells ==
  ASSUME IInv, Flush, UNCHANGED <<threadVars, stopped>>
  PROVE  /\ events' \in BOOLEAN /\ queued' \in 0 .. ChannelCapacity
         /\ told' \in [Derivations -> {"nothing", "provisional", "live", "final"}]
         /\ liveNotifications' \subseteq liveNotifications
         /\ Disconnected => Disconnected'
         /\ \A d \in Derivations : told'[d] = told[d] \/ (told'[d] = "live" /\ d \in stopped
                                     /\ (told[d] # "live" => told[d] = "provisional"))
<1>1. /\ events \in BOOLEAN /\ queued \in 0 .. ChannelCapacity /\ ChannelCapacity \in Nat
      /\ told \in [Derivations -> {"nothing", "provisional", "live", "final"}]
  BY ObserverAssumption DEF IInv, TypeOK
<1>2. CASE /\ liveNotifications' = liveNotifications /\ queued' = queued /\ told' = told
           /\ events' = events \/ (Disconnected /\ DropSender)
  <2>1. events' \in {events, FALSE}
    BY <1>1, <1>2, Zenon DEF DropSender
  <2>2. Disconnected => Disconnected'
    BY <1>2, Zenon DEF DropSender, Disconnected, threadVars
  <2>3. QED BY <1>1, <1>2, <2>1, <2>2
<1> DEFINE Sending(sent) ==
      LET room == ChannelCapacity - queued IN
      /\ Cardinality(sent) <= room
      /\ sent = liveNotifications \/ Cardinality(sent) = room
      /\ queued' = queued + Cardinality(sent)
      /\ told' = [d \in Derivations |-> IF d \in sent THEN "live" ELSE told[d]]
      /\ liveNotifications' = liveNotifications \ sent
<1>3. CASE /\ line = "idle" /\ ~Disconnected /\ UNCHANGED events
           /\ \E sent \in SUBSET liveNotifications : Sending(sent)
  <2>1. PICK sent \in SUBSET liveNotifications :
          LET room == ChannelCapacity - queued IN
          /\ Cardinality(sent) <= room
          /\ queued' = queued + Cardinality(sent)
          /\ told' = [d \in Derivations |-> IF d \in sent THEN "live" ELSE told[d]]
          /\ liveNotifications' = liveNotifications \ sent
    BY <1>3
  <2>2. Cardinality(sent) \in Nat
    BY FS_Subset, FS_CardinalityType DEF IInv, CandidateInv, BudgetInv
  <2>3. queued' \in 0 .. ChannelCapacity
    BY <1>1, <2>1, <2>2
  <2>4. delivering = <<>> /\ sent \subseteq stopped
    BY <1>3 DEF IInv, ThreadInv, CandidateInv
  <2>5. \A x : ~InSeq(x, delivering)
    BY <2>4, EmptySeq DEF InSeq
  <2>6. \A d \in sent : told[d] \in {"provisional", "live"}
    BY <1>3, <2>4, <2>5 DEF IInv, TellInv
  <2>7. Disconnected => Disconnected'
    BY <1>3
  <2>8. told' \in [Derivations -> {"nothing", "provisional", "live", "final"}]
    BY <1>1, <2>1
  <2>9. \A d \in Derivations : told'[d] = told[d] \/ (told'[d] = "live" /\ d \in sent)
    BY <2>1
  <2>10. liveNotifications' \subseteq liveNotifications
    BY <2>1
  <2>11. events' \in BOOLEAN
    BY <1>1, <1>3
  <2>12. QED BY <2>3, <2>4, <2>6, <2>7, <2>8, <2>9, <2>10, <2>11
<1>4. CASE UNCHANGED <<liveNotifications, queued, told, events>>
  BY <1>2, <1>4
<1>5. CASE Disconnected /\ DropSender /\ UNCHANGED <<liveNotifications, queued, told>>
  BY <1>2, <1>5
<1>6. QED BY <1>3, <1>4, <1>5, Zenon DEF Flush

\* A flush at the start of a round, and the one behind a confirmation.
LEMMA FlushIInv == ASSUME IInv, Tick \/ ConfirmFlushes PROVE IInv'
<1>1. /\ Flush /\ LiveUnchanged
      /\ UNCHANGED <<liveConfirmed, livePending, stopped, liveBudget, batch, found>>
      /\ \/ live = "waiting" /\ live' \in {"waiting", "taking"} /\ main = "running"
         \/ live = "flushing" /\ live' = "confirming"
  BY DEF Tick, ConfirmFlushes, LiveStopped
<1>2. /\ UNCHANGED <<stream, activities, parents, running, completedBuilds, outputs, confirmed,
                     unknownBudget, stoppedBudget, liveBudget, line, record, delivering, records,
                     taken, reported, answered>>
      /\ UNCHANGED <<forwarder, main, detached, cancelRequested>>
  BY <1>1 DEF LiveUnchanged, activityVars, lineVars, threadVars
<1>3. /\ events' \in BOOLEAN /\ queued' \in 0 .. ChannelCapacity
      /\ told' \in [Derivations -> {"nothing", "provisional", "live", "final"}]
      /\ liveNotifications' \subseteq liveNotifications
      /\ Disconnected => Disconnected'
      /\ \A d \in Derivations : told'[d] = told[d] \/ told'[d] = "live"
  BY <1>1, <1>2, FlushTells DEF threadVars
<1>4. live' \in {"waiting", "taking", "probing", "confirming", "flushing", "ended"}
  BY <1>1
<1>5. TypeOK'
  <2>1. liveNotifications' \subseteq Derivations
    BY <1>3 DEF IInv, TypeOK
  <2>2. QED BY <1>1, <1>2, <1>3, <1>4, <2>1 DEF IInv, TypeOK
<1>6. CountsAgree' /\ ThreadInv' /\ BudgetInv' /\ CandidateInv' /\ VerdictInv'
  <2>1. CountsAgree' /\ BudgetInv' /\ CandidateInv' /\ VerdictInv'
    BY <1>1, <1>2, <1>3, CountsFrame, BudgetFrame, CandidateFrame, VerdictFrame DEF IInv, budgetVars
  <2>2. ThreadInv'
    BY <1>1, <1>2 DEF IInv, ThreadInv
  <2>3. QED BY <2>1, <2>2
<1>7. TellInv'
  <2>1. \A d \in stopped :
          told[d] \in {"provisional", "live"} => told'[d] \in {"provisional", "live"}
    BY <1>3 DEF IInv, TypeOK
  <2>2. QED BY <1>1, <1>2, <1>3, <2>1, TellFrame DEF IInv
<1>8. QED BY <1>5, <1>6, <1>7 DEF IInv

\* The steps of the live thread that leave the verdicts and the progress alone.
LEMMA ProbeIInv == ASSUME IInv, LiveEnds \/ TakeBatch \/ Probe \/ RetryLive PROVE IInv'
<1>1. /\ LiveUnchanged
      /\ UNCHANGED <<liveConfirmed, liveNotifications, stopped, liveBudget, events, queued, told>>
  BY DEF LiveEnds, TakeBatch, Probe, RetryLive, liveVars
<1>2. /\ UNCHANGED <<stream, activities, parents, running, completedBuilds, outputs, confirmed,
                     unknownBudget, stoppedBudget, line, record, delivering, records,
                     taken, reported, answered>>
      /\ UNCHANGED <<forwarder, main, detached, cancelRequested>>
  BY <1>1 DEF LiveUnchanged, activityVars, lineVars, threadVars
<1>3. live' \in {"waiting", "taking", "probing", "confirming", "flushing", "ended"}
  BY DEF LiveEnds, TakeBatch, Probe, RetryLive
<1>4. found' \subseteq Derivations
  BY ObserverAssumption DEF LiveEnds, TakeBatch, Probe, RetryLive, Candidates, IInv, TypeOK
<1>5. livePending \in Seq(Derivations) /\ batch \in Seq(Derivations)
  BY DEF IInv, TypeOK
<1>6. /\ livePending' \in Seq(Derivations) /\ batch' \in Seq(Derivations)
      /\ Len(livePending') + Len(batch') <= Len(livePending) + Len(batch)
      /\ \A d \in Derivations :
           (InSeq(d, livePending) \/ InSeq(d, batch)) /\ Confirmable(d) =>
             InSeq(d, livePending') \/ InSeq(d, batch')
  <2>0. Len(livePending) \in Nat /\ Len(batch) \in Nat
    BY <1>5, LenProperties
  <2>1. CASE LiveEnds \/ Probe
    <3>1. UNCHANGED <<livePending, batch>>
      BY <2>1 DEF LiveEnds, Probe, liveVars
    <3>2. QED BY <1>5, <2>0, <3>1
  <2>2. CASE TakeBatch
    <3>1. batch' = livePending /\ livePending' = <<>> /\ batch = <<>>
      BY <2>2 DEF TakeBatch, IInv, ThreadInv
    <3>2. Len(<<>>) = 0 /\ <<>> \in Seq(Derivations) /\ \A d : ~InSeq(d, <<>>)
      BY EmptySeq DEF InSeq
    <3>3. QED BY <1>5, <2>0, <3>1, <3>2
  <2>3. CASE RetryLive
    <3>1. livePending' = Retried[Len(batch)] /\ batch' = <<>>
      BY <2>3 DEF RetryLive
    <3>2. Len(<<>>) = 0 /\ <<>> \in Seq(Derivations)
      BY EmptySeq
    <3>3. /\ livePending' \in Seq(Derivations)
          /\ Len(livePending') <= Len(livePending) + Len(batch)
          /\ \A d \in Derivations : InSeq(d, livePending) => InSeq(d, livePending')
          /\ \A d \in Derivations : InSeq(d, batch) /\ Confirmable(d) => InSeq(d, livePending')
      BY <1>5, <3>1, RetriedKeeps
    <3>4. Len(livePending') \in Nat
      BY <3>3, LenProperties
    <3>5. QED BY <2>0, <3>1, <3>2, <3>3, <3>4
  <2>4. QED BY <2>1, <2>2, <2>3
<1>7. TypeOK'
  BY <1>1, <1>2, <1>3, <1>4, <1>6 DEF IInv, TypeOK
<1>8. CountsAgree' /\ VerdictInv'
  BY <1>1, <1>2, CountsFrame, VerdictFrame DEF IInv
<1>9. TellInv'
  BY <1>1, <1>2, TellFrame DEF IInv, Disconnected
<1>10. ThreadInv'
  <2>1. live' \in {"waiting", "taking", "ended"} => batch' = <<>>
    BY DEF LiveEnds, TakeBatch, Probe, RetryLive, IInv, ThreadInv
  <2>2. main \in {"joined", "taken"} => live' = "ended"
    BY DEF LiveEnds, TakeBatch, Probe, RetryLive, IInv, ThreadInv
  <2>3. QED BY <1>2, <2>1, <2>2 DEF IInv, ThreadInv
<1>11. BudgetInv'
  <2>1. UNCHANGED <<LiveFound, Unknown>>
    BY <1>1, <1>2 DEF LiveFound, Unknown
  <2>2. stoppedBudget + Len(livePending) + Len(batch) <= MaxNodes =>
          stoppedBudget + Len(livePending') + Len(batch') <= MaxNodes
    <3>1. /\ Len(livePending) \in Nat /\ Len(batch) \in Nat
          /\ Len(livePending') \in Nat /\ Len(batch') \in Nat
      BY <1>5, <1>6, LenProperties
    <3>2. stoppedBudget \in Nat /\ MaxNodes \in Nat
      BY ObserverAssumption DEF IInv, TypeOK
    <3>3. QED BY <1>6, <3>1, <3>2
  <2>3. QED BY <1>1, <1>2, <2>1, <2>2 DEF IInv, BudgetInv
<1>12. CandidateInv'
  <2>1. UNCHANGED LiveFound
    BY <1>1 DEF LiveFound
  <2>2. ASSUME main = "running", NEW d \in stopped
        PROVE  Watched(d)'
    <3>1. d \in Derivations /\ Watched(d)
      BY <2>2 DEF IInv, CandidateInv, TypeOK
    <3>2. QED BY <1>1, <1>2, <1>6, <3>1 DEF Watched, Confirmable
  <2>3. QED BY <1>1, <1>2, <2>1, <2>2 DEF IInv, CandidateInv
<1>13. QED BY <1>7, <1>8, <1>9, <1>10, <1>11, <1>12 DEF IInv

\* A candidate gets a live verdict and a unit of the budget, or stays as it is.
LEMMA ConfirmIInv == ASSUME IInv, Confirm PROVE IInv'
<1>1. /\ live = "confirming" /\ LiveUnchanged
      /\ UNCHANGED <<livePending, stopped, events, queued, told, batch>>
  BY DEF Confirm
<1>2. PICK d \in found :
        /\ found' = found \ {d}
        /\ \/ /\ Confirmable(d) /\ liveBudget > 0
              /\ liveBudget' = liveBudget - 1
              /\ liveConfirmed' = [liveConfirmed EXCEPT ![d] =
                   [state |-> "Realized", outputs |-> "own", authoritative |-> FALSE]]
              /\ liveNotifications' = liveNotifications \cup {d}
              /\ live' = "flushing"
           \/ UNCHANGED <<liveBudget, liveConfirmed, liveNotifications, live>>
  BY DEF Confirm
<1>3. /\ UNCHANGED <<stream, activities, parents, running, completedBuilds, outputs, confirmed,
                     unknownBudget, stoppedBudget, line, record, delivering, records,
                     taken, reported, answered>>
      /\ UNCHANGED <<forwarder, main, detached, cancelRequested>>
  BY <1>1 DEF LiveUnchanged, activityVars, lineVars, threadVars
<1>4. found' \subseteq Derivations /\ d \in Derivations
  BY <1>2 DEF IInv, TypeOK
<1>5. CountsAgree' /\ TellInv'
  BY <1>1, <1>3, CountsFrame, TellFrame DEF IInv, Disconnected
<1>6. CASE UNCHANGED <<liveBudget, liveConfirmed, liveNotifications, live>>
  <2>1. TypeOK'
    BY <1>1, <1>3, <1>4, <1>6 DEF IInv, TypeOK
  <2>2. BudgetInv' /\ CandidateInv' /\ VerdictInv'
    BY <1>1, <1>3, <1>6, BudgetFrame, CandidateFrame, VerdictFrame DEF IInv, budgetVars
  <2>3. ThreadInv'
    BY <1>1, <1>3, <1>6 DEF IInv, ThreadInv
  <2>4. QED BY <1>5, <2>1, <2>2, <2>3 DEF IInv
<1>7. CASE /\ Confirmable(d) /\ liveBudget > 0
           /\ liveBudget' = liveBudget - 1
           /\ liveConfirmed' = [liveConfirmed EXCEPT ![d] =
                [state |-> "Realized", outputs |-> "own", authoritative |-> FALSE]]
           /\ liveNotifications' = liveNotifications \cup {d}
           /\ live' = "flushing"
  <2> DEFINE verdict == [state |-> "Realized", outputs |-> "own", authoritative |-> FALSE]
  <2>1. verdict \in Verdict /\ verdict # None /\ ~verdict.authoritative
    <3>1. verdict \in Verdict
      BY DEF Verdict
    <3>2. verdict.authoritative = FALSE
      OBVIOUS
    <3>3. QED BY <3>1, <3>2, ObserverAssumption
  <2>2. /\ d \in stopped /\ confirmed[d] = None /\ liveConfirmed[d] = None
        /\ liveConfirmed \in [Derivations -> Verdict \cup {None}]
    BY <1>7 DEF Confirmable, IInv, TypeOK
  <2>3. liveConfirmed' = [liveConfirmed EXCEPT ![d] = verdict]
    BY <1>7
  <2> HIDE DEF verdict
  <2>4. /\ liveConfirmed' \in [Derivations -> Verdict \cup {None}]
        /\ liveConfirmed'[d] = verdict
        /\ \A e \in Derivations \ {d} : liveConfirmed'[e] = liveConfirmed[e]
    BY <1>4, <2>1, <2>2, <2>3
  <2>5. LiveFound' = LiveFound \cup {d} /\ d \notin LiveFound /\ UNCHANGED Unknown
    BY <1>3, <1>4, <2>1, <2>2, <2>4 DEF LiveFound, Unknown
  <2>6. /\ liveBudget \in Nat /\ MaxNodes \in Nat /\ liveBudget <= MaxNodes
        /\ liveBudget' \in 0 .. MaxNodes
    BY <1>7, ObserverAssumption DEF IInv, TypeOK
  <2>7. main # "taken"
    BY <1>1 DEF IInv, ThreadInv
  <2>8. TypeOK'
    <3>1. liveNotifications' \subseteq Derivations
      BY <1>4, <1>7 DEF IInv, TypeOK
    <3>2. live' = "flushing"
      BY <1>7
    <3>3. QED BY <1>1, <1>3, <1>4, <2>4, <2>6, <3>1, <3>2 DEF IInv, TypeOK
  <2>9. ThreadInv'
    BY <1>1, <1>3, <1>7 DEF IInv, ThreadInv
  <2>10. BudgetInv'
    <3>1. /\ IsFiniteSet(LiveFound) /\ IsFiniteSet(LiveFound')
          /\ Cardinality(LiveFound') = Cardinality(LiveFound) + 1
          /\ Cardinality(LiveFound) \in Nat
      BY <2>5, FS_AddElement, FS_CardinalityType DEF IInv, BudgetInv
    <3>2. liveBudget' + Cardinality(LiveFound') = MaxNodes
      BY <1>7, <2>6, <2>7, <3>1 DEF IInv, BudgetInv
    <3>3. QED BY <1>1, <1>3, <2>5, <2>7, <3>1, <3>2 DEF IInv, BudgetInv
  <2>11. CandidateInv'
    <3>1. \A e \in Derivations : Watched(e) => Watched(e)'
      BY <1>1, <1>3, <2>1, <2>4 DEF Watched
    <3>2. stopped \subseteq Derivations
      BY DEF IInv, TypeOK
    <3>3. liveNotifications' \subseteq stopped \cap LiveFound'
      BY <1>7, <2>2, <2>5 DEF IInv, CandidateInv
    <3>4. \A e \in LiveFound' : ~liveConfirmed'[e].authoritative => e \in stopped
      BY <2>2, <2>4, <2>5 DEF IInv, CandidateInv, LiveFound
    <3>5. QED BY <1>1, <1>3, <3>1, <3>2, <3>3, <3>4 DEF IInv, CandidateInv
  <2>12. VerdictInv'
    <3>1. \A e \in Derivations : confirmed'[e] = None \/ liveConfirmed'[e] = None
      BY <1>3, <2>2, <2>4 DEF IInv, VerdictInv
    <3>2. \A e \in LiveFound' : liveConfirmed'[e].authoritative =>
            ReportedAs(liveConfirmed[e], e) /\ liveConfirmed'[e] = liveConfirmed[e]
      BY <2>1, <2>4, <2>5 DEF IInv, VerdictInv, LiveFound
    <3>3. QED BY <1>3, <3>1, <3>2 DEF IInv, VerdictInv, ReportedAs
  <2>13. QED BY <1>5, <2>8, <2>9, <2>10, <2>11, <2>12 DEF IInv
<1>8. QED BY <1>2, <1>6, <1>7

------------------------------------------------------------------------------
(* The line at work: its record, its events *)

\* The fields of a line of the stream.
LEMMA RecordFields ==
  ASSUME NEW r \in Record
  PROVE  /\ r.action = "start" => /\ r.id \in Ids /\ r.subject \in Derivations
                                  /\ r.parent \in Ids \cup {0}
                                  /\ r.kind \in {"build", "transfer", "remote"}
         /\ r.action \in {"stop", "log"} => r.id \in Ids
         /\ r.action = "result" => r.drv \in Derivations /\ r.report \in Reports
<1>1. CASE r \in [action : {"start"}, id : Ids, kind : {"build", "transfer", "remote"},
                  subject : Derivations, parent : Ids \cup {0}]
  BY <1>1
<1>2. CASE r \in [action : {"stop", "log"}, id : Ids]
  BY <1>2
<1>3. CASE r \in [action : {"result"}, drv : Derivations, report : Reports]
  BY <1>3
<1>4. QED BY <1>1, <1>2, <1>3 DEF Record

\* The events a line may have to deliver.
LEMMA EventSeqs ==
  ASSUME NEW a \in Event, NEW b \in Event
  PROVE  /\ <<>> \in Seq(Event) /\ Len(<<>>) = 0 /\ \A x : ~InSeq(x, <<>>)
         /\ <<a>> \in Seq(Event) /\ Len(<<a>>) = 1 /\ \A x : InSeq(x, <<a>>) <=> x = a
         /\ <<a, b>> \in Seq(Event) /\ Len(<<a, b>>) = 2
         /\ \A x : InSeq(x, <<a, b>>) <=> x \in {a, b}
<1>1. <<>> \in Seq(Event) /\ Len(<<>>) = 0 /\ \A x : ~InSeq(x, <<>>)
  BY EmptySeq DEF InSeq
<1>2. <<a>> \in Seq(Event) /\ Len(<<a>>) = 1 /\ \A x : InSeq(x, <<a>>) <=> x = a
  BY DEF InSeq
<1>3. <<a, b>> \in Seq(Event) /\ Len(<<a, b>>) = 2
  OBVIOUS
<1>4. \A x : InSeq(x, <<a, b>>) <=> x \in {a, b}
  <2>1. \A i \in 1 .. 2 : i = 1 \/ i = 2
    OBVIOUS
  <2>2. <<a, b>>[1] = a /\ <<a, b>>[2] = b /\ 1 \in 1 .. 2 /\ 2 \in 1 .. 2
    OBVIOUS
  <2>3. QED BY <1>3, <2>1, <2>2 DEF InSeq
<1>5. QED BY <1>1, <1>2, <1>3, <1>4

\* A record that was applied: the events it produced are delivered next.
LEMMA AppliedKeeps ==
  ASSUME IInv, line = "locked", NEW produced, Applied(produced)
  PROVE  /\ UNCHANGED <<stream, live, batch, found, forwarder, main, detached, cancelRequested,
                        taken, events, records, queued, told>>
         /\ delivering' = produced /\ line' = "delivering" /\ record' = None
         /\ ThreadInv'
         /\ main = "running" \/ detached
         /\ Disconnected' <=> Disconnected
<1>1. UNCHANGED <<stream, live, batch, found, forwarder, main, detached, cancelRequested,
                  taken, events, records, queued, told>>
      /\ delivering' = produced /\ line' = "delivering" /\ record' = None
  BY DEF Applied, OthersThanLine, probeVars, threadVars
<1>2. main = "running" \/ detached
  BY DEF IInv, ThreadInv
<1>3. ThreadInv'
  BY <1>1, <1>2 DEF IInv, ThreadInv
<1>4. Disconnected' <=> Disconnected
  BY <1>1 DEF Disconnected
<1>5. QED BY <1>1, <1>2, <1>3, <1>4

\* What a record tells of the candidates: no live success, nothing final of one
\* that stays, and the end of the build of a new one.
LEMMA AppliedTells ==
  ASSUME IInv, line = "locked", NEW produced, Applied(produced),
         \A x : InSeq(x, produced) => x.type # "live",
         \A d \in stopped' : /\ ~InSeq(Event1("final", d), produced)
                             /\ d \in stopped \/ InSeq(Event1("provisional", d), produced)
  PROVE  TellInv'
<1>1. /\ delivering' = produced /\ told' = told /\ (Disconnected' <=> Disconnected)
      /\ delivering = <<>>
  BY AppliedKeeps DEF IInv, ThreadInv
<1>2. \A x : ~InSeq(x, delivering)
  BY <1>1, EmptySeq DEF InSeq
<1>3. \A d \in stopped : Disconnected \/ told[d] \in {"provisional", "live"}
  BY <1>2 DEF IInv, TellInv
<1>4. \A k \in 1 .. Len(delivering') : delivering'[k].type # "live"
  BY <1>1 DEF InSeq
<1>5. QED BY <1>1, <1>3, <1>4 DEF TellInv, Event1, InSeq

\* The next line of the stream.
LEMMA BeginLineIInv == ASSUME IInv, BeginLine PROVE IInv'
<1>1. /\ line = "idle" /\ (main = "running" \/ detached)
      /\ records < MaxRecords /\ records' = records + 1 /\ record' \in stream /\ line' = "locked"
      /\ UNCHANGED <<activities, parents, running, completedBuilds, outputs, confirmed,
                     liveConfirmed, liveNotifications, livePending, stopped, unknownBudget,
                     liveBudget, stoppedBudget, events, delivering, queued, told, reported,
                     answered>>
      /\ UNCHANGED <<stream, live, batch, found, forwarder, main, detached, cancelRequested, taken>>
  BY DEF BeginLine, OthersThanLine, activityVars, liveVars, budgetVars, probeVars, threadVars
<1>2. record' \in Record
  BY <1>1, ObserverAssumption DEF IInv, TypeOK
<1>3. TypeOK'
  <2>1. records' \in 0 .. MaxRecords
    BY <1>1, ObserverAssumption DEF IInv, TypeOK
  <2>2. QED BY <1>1, <1>2, <2>1 DEF IInv, TypeOK
<1>4. ThreadInv'
  BY <1>1, <1>2 DEF IInv, ThreadInv
<1>5. CountsAgree' /\ BudgetInv' /\ CandidateInv' /\ VerdictInv' /\ TellInv'
  BY <1>1, CountsFrame, BudgetFrame, CandidateFrame, VerdictFrame, TellFrame
     DEF IInv, budgetVars, Disconnected
<1>6. QED BY <1>3, <1>4, <1>5 DEF IInv

\* A line of a log tells nothing of a verdict.
LEMMA LogIInv == ASSUME IInv, Log PROVE IInv'
<1> DEFINE i == record.id
<1>1. /\ line = "locked" /\ record.action = "log"
      /\ Applied(IF activities[i] = None THEN <<>> ELSE <<Event1("log", activities[i].drv)>>)
      /\ UNCHANGED <<activities, parents, running, completedBuilds, outputs, confirmed,
                     liveConfirmed, liveNotifications, livePending, stopped, unknownBudget,
                     liveBudget, stoppedBudget, reported, answered>>
  BY DEF Log, Applying, activityVars, liveVars, budgetVars
<1>2. i \in Ids
  BY <1>1, RecordFields DEF IInv, ThreadInv
<1>3. activities[i] # None => activities[i].drv \in Derivations
  BY <1>2 DEF IInv, TypeOK, Activity
<1>4. /\ UNCHANGED <<stream, live, batch, found, forwarder, main, detached, cancelRequested,
                     taken, events, records, queued, told>>
      /\ delivering' = (IF activities[i] = None THEN <<>> ELSE <<Event1("log", activities[i].drv)>>)
      /\ line' = "delivering" /\ record' = None /\ ThreadInv' /\ (Disconnected' <=> Disconnected)
  BY <1>1, AppliedKeeps
<1>5. /\ delivering' \in Seq(Event) /\ Len(delivering') <= 2
      /\ \A x : InSeq(x, delivering') => x.type = "log"
      /\ \A k \in 1 .. Len(delivering') : delivering'[k].type # "live"
  <2>1. CASE activities[i] = None
    BY <1>4, <2>1, EmptySeq DEF InSeq
  <2>2. CASE activities[i] # None
    <3>1. /\ Event1("log", activities[i].drv) \in Event
          /\ Event1("log", activities[i].drv).type = "log"
      BY <1>3, <2>2 DEF Event, Event1
    <3>2. QED BY <1>4, <2>2, <3>1, EventSeqs DEF InSeq
  <2>3. QED BY <2>1, <2>2
<1>6. TypeOK'
  BY <1>1, <1>4, <1>5 DEF IInv, TypeOK
<1>7. CountsAgree' /\ BudgetInv' /\ CandidateInv' /\ VerdictInv'
  BY <1>1, <1>4, CountsFrame, BudgetFrame, CandidateFrame, VerdictFrame DEF IInv, budgetVars
<1>8. TellInv'
  <2>1. \A d : Event1("final", d).type # "log"
    BY DEF Event1
  <2>2. QED BY <1>1, <1>4, <1>5, <2>1, AppliedTells
<1>9. QED BY <1>4, <1>6, <1>7, <1>8 DEF IInv

\* What is running of a derivation.
RunsOf(d) == {i \in Ids : IsRunning(i) /\ activities[i].drv = d}

\* As many activities run as there are ids, at most.
LEMMA FewIds ==
  ASSUME NEW T \in SUBSET Ids
  PROVE  IsFiniteSet(T) /\ Cardinality(T) \in 0 .. Cardinality(Ids)
<1>1. IsFiniteSet(T) /\ Cardinality(T) <= Cardinality(Ids)
  BY FS_Subset, ObserverAssumption
<1>2. Cardinality(T) \in Nat /\ Cardinality(Ids) \in Nat
  BY <1>1, FS_CardinalityType, ObserverAssumption
<1>3. QED BY <1>1, <1>2

\* An activity belongs to one derivation, or to none.
LEMMA AttributeType ==
  ASSUME TypeOK, NEW r \in Record, r.action = "start"
  PROVE  Attribute(r) \in Derivations \cup {None}
<1>1. /\ r.subject \in Derivations /\ r.parent \in Ids \cup {0, None}
      /\ r.kind \in {"build", "transfer", "remote"}
  BY RecordFields
<1>2. Cardinality(Ids) \in 0 .. Cardinality(Ids)
  BY FS_CardinalityType, ObserverAssumption
<1>3. Ancestor[Cardinality(Ids)][r.parent] \in Derivations \cup {None}
  BY <1>1, <1>2, AncestorType
<1>4. QED BY <1>1, <1>3 DEF Attribute

\* An activity that did not run is one more.
LEMMA StartCounts ==
  ASSUME IInv, NEW i \in Ids, NEW d \in Derivations, NEW new \in Activity, ~IsRunning(i),
         new # None, new.drv = d, new.running = TRUE,
         activities' = [activities EXCEPT ![i] = new], running' = [running EXCEPT ![d] = @ + 1]
  PROVE  CountsAgree' /\ activities' \in [Ids -> Activity \cup {None}]
<1>1. /\ activities \in [Ids -> Activity \cup {None}]
      /\ running \in [Derivations -> 0 .. Cardinality(Ids)]
  BY DEF IInv, TypeOK
<1>2. /\ activities'[i] = new /\ activities' \in [Ids -> Activity \cup {None}]
      /\ \A j \in Ids \ {i} : activities'[j] = activities[j]
  BY <1>1
<1>3. \A e \in Derivations \ {d} : RunsOf(e)' = RunsOf(e)
  BY <1>2 DEF RunsOf, IsRunning
<1>4. RunsOf(d)' = RunsOf(d) \cup {i} /\ i \notin RunsOf(d)
  BY <1>2 DEF RunsOf, IsRunning
<1>5. Cardinality(RunsOf(d)') = Cardinality(RunsOf(d)) + 1
  <2>1. RunsOf(d) \in SUBSET Ids
    BY DEF RunsOf
  <2>2. QED BY <1>4, <2>1, FewIds, FS_AddElement
<1>6. \A e \in Derivations : running[e] = Cardinality(RunsOf(e))
  BY DEF IInv, CountsAgree, RunsOf
<1>7. running'[d] = Cardinality(RunsOf(d)')
  BY <1>1, <1>5, <1>6
<1>8. \A e \in Derivations \ {d} : running'[e] = Cardinality(RunsOf(e)')
  BY <1>1, <1>3, <1>6
<1>9. CountsAgree'
  BY <1>7, <1>8 DEF CountsAgree, RunsOf
<1>10. QED BY <1>2, <1>9

\* A start adds an activity and tells the first one.
LEMMA StartIInv == ASSUME IInv, Start PROVE IInv'
<1> DEFINE i == record.id
           d == Attribute(record)
           new == [drv |-> d, transfer |-> record.kind # "build", running |-> TRUE]
           produced == IF IsRunning(i) \/ d = None \/ running[d] # 0 THEN <<>>
                       ELSE <<Event1("started", d)>>
<1>1. /\ line = "locked" /\ record.action = "start"
      /\ parents' = [parents EXCEPT ![i] = record.parent]
      /\ UNCHANGED <<completedBuilds, outputs, confirmed, liveConfirmed, liveNotifications,
                     livePending, stopped, unknownBudget, liveBudget, stoppedBudget, reported,
                     answered>>
      /\ Applied(produced)
      /\ \/ IsRunning(i) \/ d = None
         \/ ~IsRunning(i) /\ d # None
      /\ IsRunning(i) \/ d = None => UNCHANGED <<activities, running>>
      /\ ~IsRunning(i) /\ d # None => /\ activities' = [activities EXCEPT ![i] = new]
                                      /\ running' = [running EXCEPT ![d] = @ + 1]
  <2>1. CASE /\ IsRunning(i) \/ d = None
             /\ Applied(<<>>)
             /\ UNCHANGED <<activities, running>>
    BY <2>1 DEF Start, Applying, liveVars, budgetVars
  <2>2. CASE /\ ~IsRunning(i) /\ d # None
             /\ activities' = [activities EXCEPT ![i] = new]
             /\ running' = [running EXCEPT ![d] = @ + 1]
             /\ Applied(IF running[d] = 0 THEN <<Event1("started", d)>> ELSE <<>>)
    BY <2>2 DEF Start, Applying, liveVars, budgetVars
  <2>3. QED BY <2>1, <2>2 DEF Start
<1>2. /\ i \in Ids /\ d \in Derivations \cup {None} /\ record.parent \in Ids \cup {0}
  BY <1>1, RecordFields, AttributeType DEF IInv, ThreadInv
<1>3. /\ activities \in [Ids -> Activity \cup {None}] /\ parents \in [Ids -> Ids \cup {0, None}]
      /\ running \in [Derivations -> 0 .. Cardinality(Ids)]
  BY DEF IInv, TypeOK
<1>4. d # None => new \in Activity /\ new # None /\ new.drv = d /\ new.running = TRUE
  <2>1. d # None => new \in Activity
    BY <1>2 DEF Activity
  <2>2. new.drv = d /\ new.running = TRUE
    OBVIOUS
  <2>3. QED BY <2>1, <2>2, ObserverAssumption
<1> HIDE DEF i, d, new
<1>5. CountsAgree' /\ activities' \in [Ids -> Activity \cup {None}]
  <2>1. CASE IsRunning(i) \/ d = None
    BY <1>1, <1>3, <2>1, CountsFrame DEF IInv
  <2>2. CASE ~IsRunning(i) /\ d # None
    <3>1. d \in Derivations
      BY <1>2, <2>2
    <3>2. QED BY <1>1, <1>2, <1>4, <2>2, <3>1, StartCounts
  <2>3. QED BY <2>1, <2>2
<1>6. running' \in [Derivations -> 0 .. Cardinality(Ids)]
  <2>1. \A e \in Derivations : running'[e] = Cardinality(RunsOf(e))'
    BY <1>5 DEF CountsAgree, RunsOf
  <2>2. \A e \in Derivations : Cardinality(RunsOf(e))' \in 0 .. Cardinality(Ids)
    BY FewIds DEF RunsOf
  <2>3. DOMAIN running' = Derivations /\ running' = [e \in Derivations |-> running'[e]]
    BY <1>1, <1>3
  <2>4. QED BY <1>3, <2>1, <2>2, <2>3
<1>7. /\ produced \in Seq(Event) /\ Len(produced) <= 2
      /\ \A x : InSeq(x, produced) => x.type = "started"
  <2>0. produced = <<>> \/ (d # None /\ produced = <<Event1("started", d)>>)
    OBVIOUS
  <2> HIDE DEF produced
  <2>1. CASE produced = <<>>
    BY <2>1, EmptySeq DEF InSeq
  <2>2. CASE d # None /\ produced = <<Event1("started", d)>>
    <3> DEFINE e == Event1("started", d)
    <3>1. e \in Event /\ e.type = "started"
      BY <1>2, <2>2 DEF Event, Event1
    <3>2. produced = <<e>>
      BY <2>2
    <3> HIDE DEF e
    <3>3. produced \in Seq(Event) /\ Len(produced) = 1 /\ \A x : InSeq(x, produced) <=> x = e
      BY <3>1, <3>2, EventSeqs
    <3>4. QED BY <3>1, <3>3
  <2>3. QED BY <2>0, <2>1, <2>2
<1> HIDE DEF produced
<1>8. /\ UNCHANGED <<stream, live, batch, found, forwarder, main, detached, cancelRequested,
                     taken, events, records, queued, told>>
      /\ delivering' = produced /\ line' = "delivering" /\ record' = None /\ ThreadInv'
  BY <1>1, AppliedKeeps
<1>9. TypeOK'
  <2>1. parents' \in [Ids -> Ids \cup {0, None}]
    BY <1>1, <1>2, <1>3
  <2>2. QED BY <1>1, <1>5, <1>6, <1>7, <1>8, <2>1 DEF IInv, TypeOK
<1>10. BudgetInv' /\ CandidateInv' /\ VerdictInv'
  BY <1>1, <1>8, BudgetFrame, CandidateFrame, VerdictFrame DEF IInv, budgetVars
<1>11. TellInv'
  <2>1. \A e : Event1("final", e).type # "started"
    BY DEF Event1
  <2>2. QED BY <1>1, <1>7, <2>1, AppliedTells
<1>12. QED BY <1>5, <1>8, <1>9, <1>10, <1>11 DEF IInv

\* An activity that stopped is still one of its derivation.
LEMMA StoppedActivity ==
  ASSUME NEW a \in Activity
  PROVE  LET b == [a EXCEPT !.running = FALSE] IN
         b \in Activity /\ b.running = FALSE /\ b.drv = a.drv
BY DEF Activity

\* An activity that ran is one less.
LEMMA StopCounts ==
  ASSUME IInv, NEW i \in Ids, NEW d \in Derivations, IsRunning(i), activities[i].drv = d,
         activities' = [activities EXCEPT ![i].running = FALSE],
         running' = [running EXCEPT ![d] = @ - 1]
  PROVE  CountsAgree' /\ activities' \in [Ids -> Activity \cup {None}]
<1>1. /\ activities \in [Ids -> Activity \cup {None}]
      /\ running \in [Derivations -> 0 .. Cardinality(Ids)]
  BY DEF IInv, TypeOK
<1>2. /\ activities[i] \in Activity
      /\ activities'[i] = [activities[i] EXCEPT !.running = FALSE]
      /\ \A j \in Ids \ {i} : activities'[j] = activities[j]
  BY <1>1 DEF IsRunning
<1>3. activities'[i] \in Activity /\ activities'[i].running = FALSE /\ activities'[i].drv = d
  BY <1>2, StoppedActivity
<1>4. activities' \in [Ids -> Activity \cup {None}]
  BY <1>1, <1>2, <1>3
<1>5. \A e \in Derivations \ {d} : RunsOf(e)' = RunsOf(e)
  BY <1>2, <1>3 DEF RunsOf, IsRunning
<1>6. RunsOf(d)' = RunsOf(d) \ {i} /\ i \in RunsOf(d)
  BY <1>2, <1>3 DEF RunsOf, IsRunning
<1>7. Cardinality(RunsOf(d)') = Cardinality(RunsOf(d)) - 1
  <2>1. RunsOf(d) \in SUBSET Ids
    BY DEF RunsOf
  <2>2. QED BY <1>6, <2>1, FewIds, FS_RemoveElement
<1>8. \A e \in Derivations : running[e] = Cardinality(RunsOf(e))
  BY DEF IInv, CountsAgree, RunsOf
<1>9. running'[d] = Cardinality(RunsOf(d)')
  BY <1>1, <1>7, <1>8
<1>10. \A e \in Derivations \ {d} : running'[e] = Cardinality(RunsOf(e)')
  BY <1>1, <1>5, <1>8
<1>11. CountsAgree'
  BY <1>9, <1>10 DEF CountsAgree, RunsOf
<1>12. QED BY <1>4, <1>11

\* A count that agrees is in its range.
LEMMA CountsBounded ==
  ASSUME CountsAgree', DOMAIN running' = Derivations,
         running' = [e \in Derivations |-> running'[e]]
  PROVE  running' \in [Derivations -> 0 .. Cardinality(Ids)]
<1>1. \A e \in Derivations : running'[e] = Cardinality(RunsOf(e))'
  BY DEF CountsAgree, RunsOf
<1>2. \A e \in Derivations : Cardinality(RunsOf(e))' \in 0 .. Cardinality(Ids)
  BY FewIds DEF RunsOf
<1>3. QED BY <1>1, <1>2

\* A build that stopped becomes a candidate, whatever was reported of it before.
LEMMA WatchKeeps ==
  ASSUME IInv, NEW d \in Derivations, main = "running" \/ detached, Watch(d),
         answered' = answered \ {d},
         UNCHANGED <<batch, confirmed, liveConfirmed, liveNotifications, unknownBudget, liveBudget,
                     main, taken, reported, detached>>
  PROVE  /\ BudgetInv' /\ CandidateInv' /\ VerdictInv'
         /\ stopped' \subseteq stopped \cup {d} /\ stopped' \subseteq Derivations
         /\ livePending' \in Seq(Derivations) /\ stoppedBudget' \in 0 .. MaxNodes
<1>1. /\ livePending \in Seq(Derivations) /\ batch \in Seq(Derivations)
      /\ Len(livePending) \in Nat /\ Len(batch) \in Nat
      /\ stopped \subseteq Derivations /\ stoppedBudget \in 0 .. MaxNodes /\ MaxNodes \in Nat
  BY LenProperties, ObserverAssumption DEF IInv, TypeOK
<1>2. VerdictInv'
  BY VerdictFrame DEF IInv
<1>3. UNCHANGED <<LiveFound, Unknown>>
  BY DEF LiveFound, Unknown
<1>4. CASE /\ d \notin stopped /\ stoppedBudget > 0
           /\ stopped' = stopped \cup {d}
           /\ livePending' = Append(livePending, d)
           /\ stoppedBudget' = stoppedBudget - 1
  <2>1. /\ livePending' \in Seq(Derivations) /\ Len(livePending') = Len(livePending) + 1
        /\ \A k \in 1 .. Len(livePending) : livePending'[k] = livePending[k]
        /\ livePending'[Len(livePending) + 1] = d
    BY <1>1, <1>4, AppendProperties
  <2>2. /\ 1 .. Len(livePending) \subseteq 1 .. Len(livePending')
        /\ Len(livePending) + 1 \in 1 .. Len(livePending')
    BY <1>1, <2>1
  <2>3. InSeq(d, livePending') /\ \A e : InSeq(e, livePending) => InSeq(e, livePending')
    BY <2>1, <2>2 DEF InSeq
  <2>4. BudgetInv'
    <3>1. stoppedBudget' + Len(livePending') + Len(batch')
            = stoppedBudget + Len(livePending) + Len(batch)
      BY <1>1, <1>4, <2>1
    <3>2. QED BY <1>3, <3>1 DEF IInv, BudgetInv
  <2>5. CandidateInv'
    <3>1. main = "running" => \A e \in stopped' : Watched(e)'
      BY <1>4, <2>3 DEF IInv, CandidateInv, Watched
    <3>2. QED BY <1>3, <1>4, <3>1 DEF IInv, CandidateInv
  <2>6. QED BY <1>1, <1>2, <1>4, <2>1, <2>4, <2>5
<1>5. CASE UNCHANGED <<stopped, livePending, stoppedBudget>>
  <2>1. BudgetInv'
    BY <1>3, <1>5 DEF IInv, BudgetInv
  <2>2. \A e : Watched(e)' <=> Watched(e)
    BY <1>5 DEF Watched, InSeq
  <2>3. CandidateInv'
    BY <1>3, <1>5, <2>2 DEF IInv, CandidateInv
  <2>4. QED BY <1>1, <1>2, <1>5, <2>1, <2>3
<1>6. QED BY <1>4, <1>5 DEF Watch

\* A stop: its branches differ in the candidates and in what is told.
LEMMA StopIInv == ASSUME IInv, Stop PROVE IInv'
<1> DEFINE i == record.id
           d == activities[i].drv
           done == completedBuilds \cup {e \in {d} : ~activities[i].transfer}
           last == running[d] = 1
<1>1. /\ line = "locked" /\ record.action = "stop"
      /\ parents' = [parents EXCEPT ![i] = None]
      /\ UNCHANGED <<outputs, confirmed, liveConfirmed, liveNotifications, unknownBudget,
                     liveBudget, reported>>
  BY DEF Stop, Applying
<1>2. i \in Ids
  BY <1>1, RecordFields DEF IInv, ThreadInv
<1>3. /\ activities \in [Ids -> Activity \cup {None}] /\ parents \in [Ids -> Ids \cup {0, None}]
      /\ running \in [Derivations -> 0 .. Cardinality(Ids)] /\ completedBuilds \subseteq Derivations
  BY DEF IInv, TypeOK
<1>4. parents' \in [Ids -> Ids \cup {0, None}]
  BY <1>1, <1>2, <1>3
\* The branches differ in what they leave and in what they tell.
<1>5. ASSUME NEW produced \in Seq(Event), Applied(produced), Len(produced) <= 2,
             \A x : InSeq(x, produced) => x.type \in {"activityStopped", "provisional"},
             CountsAgree', activities' \in [Ids -> Activity \cup {None}],
             running' \in [Derivations -> 0 .. Cardinality(Ids)],
             completedBuilds' \subseteq Derivations, answered' \subseteq Derivations,
             stopped' \subseteq Derivations, livePending' \in Seq(Derivations),
             stoppedBudget' \in 0 .. MaxNodes,
             \A e \in stopped' : e \in stopped \/ InSeq(Event1("provisional", e), produced),
             BudgetInv', CandidateInv', VerdictInv'
      PROVE  IInv'
  <2>1. /\ UNCHANGED <<stream, live, batch, found, forwarder, main, detached, cancelRequested,
                       taken, events, records, queued, told>>
        /\ delivering' = produced /\ line' = "delivering" /\ record' = None /\ ThreadInv'
    BY <1>1, <1>5, AppliedKeeps
  <2>2. TypeOK'
    BY <1>1, <1>4, <1>5, <2>1 DEF IInv, TypeOK
  <2>3. TellInv'
    <3>1. \A e : Event1("final", e).type \notin {"activityStopped", "provisional"}
      BY DEF Event1
    <3>2. QED BY <1>1, <1>5, <3>1, AppliedTells
  <2>4. QED BY <1>5, <2>1, <2>2, <2>3 DEF IInv
<1>6. ASSUME NEW produced, Applied(produced)
      PROVE  /\ UNCHANGED <<batch, main, detached, taken>>
             /\ main = "running" \/ detached
  BY <1>1, <1>6, AppliedKeeps
\* Nothing that relates to the verdicts changes.
<1>7. ASSUME NEW produced, Applied(produced),
             UNCHANGED <<stopped, livePending, stoppedBudget, answered>>
      PROVE  /\ BudgetInv' /\ CandidateInv' /\ VerdictInv'
             /\ answered' \subseteq Derivations /\ stopped' \subseteq Derivations
             /\ livePending' \in Seq(Derivations) /\ stoppedBudget' \in 0 .. MaxNodes
  <2>1. BudgetInv' /\ CandidateInv' /\ VerdictInv'
    BY <1>1, <1>6, <1>7, BudgetFrame, CandidateFrame, VerdictFrame DEF IInv, budgetVars
  <2>2. QED BY <1>7, <2>1 DEF IInv, TypeOK
<1>8. CASE /\ ~IsRunning(i)
           /\ Applied(<<>>)
           /\ UNCHANGED <<activities, running, completedBuilds, stopped, livePending,
                          stoppedBudget, answered>>
  <2>1. <<>> \in Seq(Event) /\ Len(<<>>) = 0 /\ \A x : ~InSeq(x, <<>>)
    BY EmptySeq DEF InSeq
  <2>2. CountsAgree'
    BY <1>8, CountsFrame DEF IInv
  <2>3. /\ activities' \in [Ids -> Activity \cup {None}] /\ completedBuilds' \subseteq Derivations
        /\ running' \in [Derivations -> 0 .. Cardinality(Ids)] /\ stopped' = stopped
    BY <1>3, <1>8
  <2>4. /\ BudgetInv' /\ CandidateInv' /\ VerdictInv'
        /\ answered' \subseteq Derivations /\ stopped' \subseteq Derivations
        /\ livePending' \in Seq(Derivations) /\ stoppedBudget' \in 0 .. MaxNodes
    BY <1>7, <1>8
  <2>5. PICK produced \in Seq(Event) :
          Applied(produced) /\ Len(produced) <= 2 /\ \A x : ~InSeq(x, produced)
    <3>1. Applied(<<>>) /\ Len(<<>>) <= 2
      BY <1>8, <2>1
    <3>2. QED BY <2>1, <3>1, Zenon
  <2>6. QED BY <1>5, <2>2, <2>3, <2>4, <2>5
<1>9. CASE IsRunning(i)
  <2>1. /\ activities' = [activities EXCEPT ![i].running = FALSE]
        /\ running' = [running EXCEPT ![d] = @ - 1]
        /\ completedBuilds' = IF last THEN done \ {d} ELSE done
        /\ IF last /\ d \in done
           THEN Watch(d) /\ answered' = answered \ {d}
           ELSE UNCHANGED <<stopped, livePending, stoppedBudget, answered>>
        /\ Applied(IF ~last THEN <<>>
                   ELSE IF d \in done
                   THEN <<Event1("activityStopped", d), Event1("provisional", d)>>
                   ELSE <<Event1("activityStopped", d)>>)
    BY <1>9 DEF Stop
  <2>2. d \in Derivations
    BY <1>2, <1>3, <1>9 DEF IsRunning, Activity
  <2>3. completedBuilds' \subseteq Derivations
    BY <1>3, <2>1, <2>2
  <2> HIDE DEF i, d, done, last
  <2>4. CountsAgree' /\ activities' \in [Ids -> Activity \cup {None}]
    BY <1>2, <1>9, <2>1, <2>2, StopCounts DEF d
  <2>5. running' \in [Derivations -> 0 .. Cardinality(Ids)]
    <3>1. DOMAIN running' = Derivations /\ running' = [e \in Derivations |-> running'[e]]
      BY <1>3, <2>1
    <3>2. QED BY <2>4, <3>1, CountsBounded
  <2>6. Event1("activityStopped", d) \in Event /\ Event1("provisional", d) \in Event
    BY <2>2 DEF Event, Event1
  <2>7. /\ Event1("activityStopped", d).type = "activityStopped"
        /\ Event1("provisional", d).type = "provisional"
    BY DEF Event1
  <2>8. CASE last /\ d \in done
    <3> DEFINE produced == <<Event1("activityStopped", d), Event1("provisional", d)>>
    <3>1. Applied(produced) /\ Watch(d) /\ answered' = answered \ {d}
      BY <2>1, <2>8
    <3>2. /\ produced \in Seq(Event) /\ Len(produced) = 2
          /\ \A x : InSeq(x, produced) <=>
                    x \in {Event1("activityStopped", d), Event1("provisional", d)}
      BY <2>6, EventSeqs
    <3> HIDE DEF produced
    <3>3. /\ BudgetInv' /\ CandidateInv' /\ VerdictInv'
          /\ stopped' \subseteq stopped \cup {d} /\ stopped' \subseteq Derivations
          /\ livePending' \in Seq(Derivations) /\ stoppedBudget' \in 0 .. MaxNodes
      BY <1>1, <1>6, <2>2, <3>1, WatchKeeps
    <3>4. answered' \subseteq Derivations
      BY <3>1 DEF IInv, TypeOK
    <3>5. \A e \in stopped' : e \in stopped \/ InSeq(Event1("provisional", e), produced)
      BY <3>2, <3>3
    <3>6. \A x : InSeq(x, produced) => x.type \in {"activityStopped", "provisional"}
      BY <2>7, <3>2
    <3>7. Applied(produced) /\ produced \in Seq(Event) /\ Len(produced) <= 2
      BY <3>1, <3>2
    <3>8. QED BY <1>5, <2>3, <2>4, <2>5, <3>3, <3>4, <3>5, <3>6, <3>7
  <2>9. CASE ~(last /\ d \in done)
    <3>1. PICK produced : /\ Applied(produced)
                          /\ produced \in {<<>>, <<Event1("activityStopped", d)>>}
      BY <2>1, <2>9
    <3>2. /\ produced \in Seq(Event) /\ Len(produced) <= 2
          /\ \A x : InSeq(x, produced) => x.type \in {"activityStopped", "provisional"}
      <4> DEFINE e == Event1("activityStopped", d)
      <4>1. e \in Event /\ e.type = "activityStopped" /\ produced \in {<<>>, <<e>>}
        BY <2>6, <2>7, <3>1
      <4> HIDE DEF e
      <4>2. CASE produced = <<>>
        BY <4>2, EmptySeq DEF InSeq
      <4>3. CASE produced = <<e>>
        <5>1. produced \in Seq(Event) /\ Len(produced) = 1 /\ \A x : InSeq(x, produced) <=> x = e
          BY <4>1, <4>3, EventSeqs
        <5>2. QED BY <4>1, <5>1
      <4>4. QED BY <4>1, <4>2, <4>3
    <3>3. UNCHANGED <<stopped, livePending, stoppedBudget, answered>>
      BY <2>1, <2>9
    <3>4. QED BY <1>5, <1>7, <2>3, <2>4, <2>5, <3>1, <3>2, <3>3
  <2>10. QED BY <2>8, <2>9
<1>10. QED BY <1>8, <1>9 DEF Stop

\* A result settles every activity of its derivation.
LEMMA ResultCounts ==
  ASSUME IInv, NEW d \in Derivations,
         activities' = [i \in Ids |->
           IF activities[i] # None /\ activities[i].drv = d
           THEN [activities[i] EXCEPT !.running = FALSE] ELSE activities[i]],
         running' = [running EXCEPT ![d] = 0]
  PROVE  /\ CountsAgree' /\ activities' \in [Ids -> Activity \cup {None}]
         /\ running' \in [Derivations -> 0 .. Cardinality(Ids)]
<1>1. /\ activities \in [Ids -> Activity \cup {None}]
      /\ running \in [Derivations -> 0 .. Cardinality(Ids)]
  BY DEF IInv, TypeOK
<1>2. \A i \in Ids : activities[i] # None /\ activities[i].drv = d =>
        /\ activities'[i] \in Activity /\ activities'[i].running = FALSE
        /\ activities'[i].drv = d
  BY <1>1, StoppedActivity
<1>3. \A i \in Ids : activities[i] = None \/ activities[i].drv # d => activities'[i] = activities[i]
  BY <1>1
<1>4. activities' \in [Ids -> Activity \cup {None}]
  BY <1>1, <1>2, <1>3
<1>5. \A e \in Derivations \ {d} : RunsOf(e)' = RunsOf(e)
  BY <1>2, <1>3 DEF RunsOf, IsRunning
<1>6. RunsOf(d)' = {}
  BY <1>2, <1>3 DEF RunsOf, IsRunning
<1>7. \A e \in Derivations : running[e] = Cardinality(RunsOf(e))
  BY DEF IInv, CountsAgree, RunsOf
<1>8. running'[d] = Cardinality(RunsOf(d)')
  BY <1>1, <1>6, FS_EmptySet
<1>9. \A e \in Derivations \ {d} : running'[e] = Cardinality(RunsOf(e)')
  BY <1>1, <1>5, <1>7
<1>10. CountsAgree'
  BY <1>8, <1>9 DEF CountsAgree, RunsOf
<1>11. DOMAIN running' = Derivations /\ running' = [e \in Derivations |-> running'[e]]
  BY <1>1
<1>12. QED BY <1>4, <1>10, <1>11, CountsBounded

\* What a settled path may be left with, whatever became of its verdicts.
LEMMA SettleKeeps ==
  ASSUME IInv, NEW d \in Derivations, main = "running" \/ detached,
         stopped' = stopped \ {d}, liveNotifications' = liveNotifications \ {d},
         answered' = answered \cup {d}, UNCHANGED <<livePending, batch, main, taken, detached>>,
         \A e \in Derivations \ {d} : /\ confirmed'[e] = confirmed[e]
                                      /\ liveConfirmed'[e] = liveConfirmed[e],
         \A e \in Derivations : reported[e] \subseteq reported'[e],
         confirmed'[d] = None \/ liveConfirmed'[d] = None,
         confirmed'[d] \notin {None, Conflict} =>
           confirmed'[d].authoritative /\ ReportedAs(confirmed[d], d)',
         liveConfirmed'[d] # None =>
           liveConfirmed'[d].authoritative /\ ReportedAs(liveConfirmed[d], d)'
  PROVE  CandidateInv' /\ VerdictInv'
<1>1. \A e \in Derivations \ {d} : e \in LiveFound' <=> e \in LiveFound
  BY DEF LiveFound
<1>2. stopped \subseteq Derivations
  BY DEF IInv, TypeOK
<1>3. CandidateInv'
  <2>1. ASSUME main' = "running", NEW e \in stopped'
        PROVE  Watched(e)'
    <3>1. e \in Derivations \ {d} /\ Watched(e)
      BY <1>2, <2>1 DEF IInv, CandidateInv
    <3>2. QED BY <3>1 DEF Watched
  <2>2. stopped' \cap answered' = {}
    BY DEF IInv, CandidateInv
  <2>3. liveNotifications' \subseteq stopped' \cap LiveFound'
    BY <1>1, <1>2 DEF IInv, CandidateInv
  <2>4. ASSUME NEW e \in LiveFound', ~liveConfirmed'[e].authoritative
        PROVE  e \in stopped'
    <3>1. e \in Derivations \ {d}
      BY <2>4 DEF LiveFound
    <3>2. QED BY <1>1, <2>4, <3>1 DEF IInv, CandidateInv
  <2>5. QED BY <2>1, <2>2, <2>3, <2>4 DEF CandidateInv
<1>4. VerdictInv'
  <2>1. \A v : \A e \in Derivations : ReportedAs(v, e) =>
          \E r \in reported'[e] : r.state = v.state /\ r.outputs = v.outputs
    BY DEF ReportedAs
  <2>2. \A e \in Derivations : confirmed'[e] = None \/ liveConfirmed'[e] = None
    BY DEF IInv, VerdictInv
  <2>3. ASSUME NEW e \in Derivations, confirmed'[e] \notin {None, Conflict}
        PROVE  confirmed'[e].authoritative /\ ReportedAs(confirmed[e], e)'
    <3>1. CASE e = d
      BY <2>3, <3>1
    <3>2. CASE e # d
      BY <2>1, <2>3, <3>2 DEF IInv, VerdictInv, ReportedAs
    <3>3. QED BY <3>1, <3>2
  <2>4. ASSUME NEW e \in LiveFound', liveConfirmed'[e].authoritative
        PROVE  ReportedAs(liveConfirmed[e], e)'
    <3>1. e \in Derivations /\ liveConfirmed'[e] # None
      BY <2>4 DEF LiveFound
    <3>2. CASE e = d
      BY <3>1, <3>2
    <3>3. CASE e # d
      BY <1>1, <2>1, <2>4, <3>1, <3>3 DEF IInv, VerdictInv, ReportedAs
    <3>4. QED BY <3>2, <3>3
  <2>5. ASSUME NEW e \in Derivations, taken'[e] # None
        PROVE  /\ main' = "taken"
               /\ IF taken'[e].authoritative THEN ReportedAs(taken[e], e)'
                                             ELSE detached' \/ e \notin answered'
    <3>1. main = "taken" /\ detached /\ (taken[e].authoritative => ReportedAs(taken[e], e))
      BY <2>5 DEF IInv, VerdictInv
    <3>2. taken[e].authoritative => ReportedAs(taken[e], e)'
      BY <2>1, <3>1 DEF ReportedAs
    <3>3. QED BY <3>1, <3>2
  <2>6. QED BY <2>2, <2>3, <2>4, <2>5 DEF VerdictInv
<1>5. QED BY <1>3, <1>4

\* What becomes of the live verdict of a path, and of its unit of the budget.
LEMMA RemoveLiveKeeps ==
  ASSUME IInv, NEW d \in Derivations, RemoveLive(d),
         UNCHANGED <<livePending, batch, main, confirmed, unknownBudget, stoppedBudget>>
  PROVE  /\ BudgetInv' /\ liveBudget' \in 0 .. MaxNodes
         /\ liveConfirmed' \in [Derivations -> Verdict \cup {None}] /\ liveConfirmed'[d] = None
         /\ \A e \in Derivations \ {d} : liveConfirmed'[e] = liveConfirmed[e]
<1>1. /\ liveConfirmed \in [Derivations -> Verdict \cup {None}]
      /\ liveBudget \in 0 .. MaxNodes /\ MaxNodes \in Nat
  BY ObserverAssumption DEF IInv, TypeOK
<1>2. /\ liveConfirmed' = [liveConfirmed EXCEPT ![d] = None]
      /\ liveBudget' = liveBudget + (IF liveConfirmed[d] = None THEN 0 ELSE 1)
  BY DEF RemoveLive
<1>3. /\ liveConfirmed' \in [Derivations -> Verdict \cup {None}] /\ liveConfirmed'[d] = None
      /\ \A e \in Derivations \ {d} : liveConfirmed'[e] = liveConfirmed[e]
  BY <1>1, <1>2
<1>4. /\ LiveFound' = LiveFound \ {d} /\ UNCHANGED Unknown
      /\ d \in LiveFound <=> liveConfirmed[d] # None
  BY <1>3 DEF LiveFound, Unknown
<1>5. /\ IsFiniteSet(LiveFound')
      /\ Cardinality(LiveFound) \in Nat /\ Cardinality(LiveFound') \in Nat
      /\ Cardinality(LiveFound') = Cardinality(LiveFound) - (IF d \in LiveFound THEN 1 ELSE 0)
  <2>1. IsFiniteSet(LiveFound)
    BY DEF IInv, BudgetInv
  <2>2. IsFiniteSet(LiveFound') /\ Cardinality(LiveFound) \in Nat /\ Cardinality(LiveFound') \in Nat
    BY <1>4, <2>1, FS_RemoveElement, FS_CardinalityType
  <2>3. Cardinality(LiveFound') = IF d \in LiveFound THEN Cardinality(LiveFound) - 1
                                                     ELSE Cardinality(LiveFound)
    BY <1>4, <2>1, FS_RemoveElement
  <2>4. QED BY <2>2, <2>3
<1>6. /\ liveBudget' \in 0 .. MaxNodes
      /\ main # "taken" => liveBudget' + Cardinality(LiveFound') = MaxNodes
  <2>1. CASE d \in LiveFound
    <3>1. main # "taken" /\ liveBudget + Cardinality(LiveFound) = MaxNodes
      BY <2>1 DEF IInv, BudgetInv
    <3>2. liveBudget' = liveBudget + 1 /\ Cardinality(LiveFound') = Cardinality(LiveFound) - 1
      BY <1>2, <1>4, <1>5, <2>1
    <3>3. QED BY <1>1, <1>5, <3>1, <3>2
  <2>2. CASE d \notin LiveFound
    <3>1. liveBudget' = liveBudget /\ Cardinality(LiveFound') = Cardinality(LiveFound)
      BY <1>1, <1>2, <1>4, <1>5, <2>2
    <3>2. QED BY <1>1, <3>1 DEF IInv, BudgetInv
  <2>3. QED BY <2>1, <2>2
<1>7. main = "taken" => LiveFound' = {}
  BY <1>4 DEF IInv, BudgetInv
<1>8. BudgetInv'
  BY <1>4, <1>5, <1>6, <1>7 DEF IInv, BudgetInv
<1>9. QED BY <1>3, <1>6, <1>8

\* A success that can be used is an authoritative verdict or a contradiction.
LEMMA OutcomeOf ==
  ASSUME NEW d \in Derivations, NEW r \in Reports, r.success = TRUE, r.state # "Odd"
  PROVE  LET o == Outcome(d, r) IN
         \/ o = Conflict
         \/ /\ o \in Verdict /\ o # None /\ o.authoritative = TRUE
            /\ o.state = r.state /\ o.outputs = r.outputs
<1> DEFINE o == [state |-> r.state, outputs |-> r.outputs, authoritative |-> TRUE]
<1>1. r.state \in {"Built", "Substituted"}
  BY DEF Reports
<1>2. r.outputs \in {"own", "alien"} => o \in Verdict
  BY <1>1 DEF Verdict
<1>3. o.authoritative = TRUE /\ o.state = r.state /\ o.outputs = r.outputs
  OBVIOUS
<1>4. Outcome(d, r) = Conflict \/ (Outcome(d, r) = o /\ r.outputs \in {"own", "alien"})
  BY DEF Outcome
<1> HIDE DEF o
<1>5. QED BY <1>2, <1>3, <1>4, ObserverAssumption

\* A live verdict that a report agrees with becomes that report.
LEMMA AgreeKeeps ==
  ASSUME IInv, NEW d \in Derivations, NEW o \in Verdict, o.authoritative = TRUE,
         liveConfirmed[d] # None, o.outputs = liveConfirmed[d].outputs,
         liveConfirmed' = [liveConfirmed EXCEPT ![d].state = o.state, ![d].authoritative = TRUE],
         UNCHANGED <<livePending, batch, main, confirmed, unknownBudget, stoppedBudget, liveBudget>>
  PROVE  /\ BudgetInv'
         /\ liveConfirmed' \in [Derivations -> Verdict \cup {None}]
         /\ liveConfirmed'[d].authoritative /\ liveConfirmed'[d].state = o.state
         /\ liveConfirmed'[d].outputs = o.outputs
         /\ \A e \in Derivations \ {d} : liveConfirmed'[e] = liveConfirmed[e]
<1> DEFINE v == liveConfirmed[d]
           w == [[v EXCEPT !.state = o.state] EXCEPT !.authoritative = TRUE]
<1>1. liveConfirmed \in [Derivations -> Verdict \cup {None}] /\ v \in Verdict
  BY DEF IInv, TypeOK
<1>2. liveConfirmed'[d] = w /\ \A e \in Derivations \ {d} : liveConfirmed'[e] = liveConfirmed[e]
  BY <1>1
<1>3. /\ w \in Verdict /\ w.authoritative = TRUE /\ w.state = o.state
      /\ w.outputs = v.outputs
  BY <1>1 DEF Verdict
<1> HIDE DEF w
<1>4. liveConfirmed' \in [Derivations -> Verdict \cup {None}]
  BY <1>1, <1>2, <1>3
<1>5. w # None
  BY <1>3, ObserverAssumption
<1>6. UNCHANGED <<LiveFound, Unknown>>
  BY <1>2, <1>5 DEF LiveFound, Unknown
<1>7. BudgetInv'
  BY <1>6 DEF IInv, BudgetInv
<1>8. QED BY <1>2, <1>3, <1>4, <1>7

\* What becomes of a reported verdict, and of the budget of those outside the graph.
LEMMA RetainReportedKeeps ==
  ASSUME IInv, NEW d \in Derivations, NEW o \in Verdict \cup {Conflict}, o # None,
         RetainReported(d, o), UNCHANGED <<livePending, batch, main, stoppedBudget>>
  PROVE  /\ BudgetInv'
         /\ unknownBudget' \in 0 .. MaxNodes /\ UNCHANGED <<liveConfirmed, liveBudget>>
         /\ liveNotifications' = liveNotifications \ {d} /\ liveConfirmed[d] = None
         /\ confirmed' \in [Derivations -> Verdict \cup {Conflict, None}]
         /\ confirmed'[d] \in {confirmed[d], o, Conflict}
         /\ \A e \in Derivations \ {d} : confirmed'[e] = confirmed[e]
<1> DEFINE unknown == d \notin Graph /\ confirmed[d] = None
<1>1. /\ confirmed \in [Derivations -> Verdict \cup {Conflict, None}]
      /\ unknownBudget \in 0 .. MaxNodes /\ MaxNodes \in Nat
  BY ObserverAssumption DEF IInv, TypeOK
<1>2. /\ liveConfirmed[d] = None /\ UNCHANGED <<liveConfirmed, liveBudget>>
      /\ liveNotifications' = liveNotifications \ {d} /\ UNCHANGED LiveFound
  BY DEF RetainReported, LiveFound
<1>3. CASE UNCHANGED <<confirmed, unknownBudget>>
  <2>1. UNCHANGED Unknown
    BY <1>3 DEF Unknown
  <2>2. BudgetInv'
    BY <1>2, <1>3, <2>1 DEF IInv, BudgetInv
  <2>3. QED BY <1>1, <1>2, <1>3, <2>2
<1>4. CASE /\ ~unknown \/ (unknownBudget > 0 /\ o # Conflict)
           /\ unknownBudget' = unknownBudget - (IF unknown THEN 1 ELSE 0)
           /\ confirmed' = [confirmed EXCEPT ![d] =
                IF @ = None \/ @ = o THEN o ELSE Conflict]
  <2>1. /\ confirmed' \in [Derivations -> Verdict \cup {Conflict, None}]
        /\ confirmed'[d] \in {o, Conflict}
        /\ \A e \in Derivations \ {d} : confirmed'[e] = confirmed[e]
    BY <1>1, <1>4
  <2>2. confirmed'[d] # None
    BY <2>1, ObserverAssumption
  <2>3. CASE unknown
    <3>1. Unknown' = Unknown \cup {d} /\ d \notin Unknown
      BY <2>1, <2>2, <2>3 DEF Unknown
    <3>2. /\ IsFiniteSet(Unknown') /\ Cardinality(Unknown') = Cardinality(Unknown) + 1
          /\ Cardinality(Unknown) \in Nat
      BY <3>1, FS_AddElement, FS_CardinalityType DEF IInv, BudgetInv
    <3>3. unknownBudget' = unknownBudget - 1 /\ unknownBudget' \in 0 .. MaxNodes
      BY <1>1, <1>4, <2>3
    <3>4. main # "taken" => unknownBudget' + Cardinality(Unknown') = MaxNodes
      BY <1>1, <3>2, <3>3 DEF IInv, BudgetInv
    <3>5. QED BY <1>2, <2>1, <3>2, <3>3, <3>4 DEF IInv, BudgetInv
  <2>4. CASE ~unknown
    <3>1. UNCHANGED Unknown
      BY <2>1, <2>2, <2>4 DEF Unknown
    <3>2. UNCHANGED unknownBudget
      BY <1>1, <1>4, <2>4
    <3>3. QED BY <1>1, <1>2, <2>1, <3>1, <3>2 DEF IInv, BudgetInv
  <2>5. QED BY <2>3, <2>4
<1>5. QED BY <1>3, <1>4 DEF RetainReported

\* A success that is neither refused nor odd.
LEMMA SuccessKeeps ==
  ASSUME IInv, NEW d \in Derivations, NEW r \in Reports, r.success = TRUE, r.state # "Odd",
         main = "running" \/ detached, Settle(d), Retain(d, Outcome(d, r)),
         reported' = [reported EXCEPT ![d] = @ \cup {r}], answered' = answered \cup {d},
         UNCHANGED <<batch, main, taken, detached, stoppedBudget>>
  PROVE  /\ BudgetInv' /\ CandidateInv' /\ VerdictInv'
         /\ confirmed' \in [Derivations -> Verdict \cup {Conflict, None}]
         /\ liveConfirmed' \in [Derivations -> Verdict \cup {None}]
         /\ liveNotifications' = liveNotifications \ {d}
         /\ unknownBudget' \in 0 .. MaxNodes /\ liveBudget' \in 0 .. MaxNodes
<1> DEFINE o == Outcome(d, r)
<1>1. \/ o = Conflict
      \/ /\ o \in Verdict /\ o # None /\ o.authoritative = TRUE
         /\ o.state = r.state /\ o.outputs = r.outputs
  BY OutcomeOf
<1>2. o \in Verdict \cup {Conflict} /\ o # None
  BY <1>1, ObserverAssumption
<1>3. stopped' = stopped \ {d} /\ UNCHANGED livePending /\ Retain(d, o)
  BY DEF Settle
<1>4. /\ reported' \in [Derivations -> SUBSET Reports] /\ r \in reported'[d]
      /\ \A e \in Derivations : reported[e] \subseteq reported'[e]
  BY DEF IInv, TypeOK
<1>5. /\ unknownBudget \in 0 .. MaxNodes /\ liveBudget \in 0 .. MaxNodes
      /\ confirmed \in [Derivations -> Verdict \cup {Conflict, None}]
  BY DEF IInv, TypeOK
<1> HIDE DEF o
<1>6. CASE RetainReported(d, o)
  <2>1. /\ BudgetInv' /\ unknownBudget' \in 0 .. MaxNodes /\ UNCHANGED <<liveConfirmed, liveBudget>>
        /\ liveNotifications' = liveNotifications \ {d} /\ liveConfirmed[d] = None
        /\ confirmed' \in [Derivations -> Verdict \cup {Conflict, None}]
        /\ confirmed'[d] \in {confirmed[d], o, Conflict}
        /\ \A e \in Derivations \ {d} : confirmed'[e] = confirmed[e]
    BY <1>2, <1>3, <1>6, RetainReportedKeeps
  <2>2. confirmed'[d] \notin {None, Conflict} =>
          confirmed'[d].authoritative /\ ReportedAs(confirmed[d], d)'
    <3>1. CASE confirmed'[d] = o
      BY <1>1, <1>4, <3>1 DEF ReportedAs
    <3>2. CASE confirmed'[d] = confirmed[d]
      BY <1>4, <3>2 DEF IInv, VerdictInv, ReportedAs
    <3>3. QED BY <2>1, <3>1, <3>2
  <2>3. CandidateInv' /\ VerdictInv'
    BY <1>3, <1>4, <2>1, <2>2, SettleKeeps
  <2>4. liveConfirmed' \in [Derivations -> Verdict \cup {None}]
    BY <2>1 DEF IInv, TypeOK
  <2>5. QED BY <1>5, <2>1, <2>3, <2>4
<1>7. CASE RetainLive(d, o)
  <2>1. liveConfirmed[d] # None /\ confirmed[d] = None /\ UNCHANGED <<confirmed, unknownBudget>>
    BY <1>7 DEF RetainLive, IInv, VerdictInv
  <2>2. CASE RemoveLive(d)
    <3>1. /\ BudgetInv' /\ liveBudget' \in 0 .. MaxNodes
          /\ liveConfirmed' \in [Derivations -> Verdict \cup {None}] /\ liveConfirmed'[d] = None
          /\ \A e \in Derivations \ {d} : liveConfirmed'[e] = liveConfirmed[e]
      BY <1>3, <2>1, <2>2, RemoveLiveKeeps
    <3>2. liveNotifications' = liveNotifications \ {d}
      BY <2>2 DEF RemoveLive
    <3>3. CandidateInv' /\ VerdictInv'
      BY <1>3, <1>4, <2>1, <3>1, <3>2, SettleKeeps
    <3>4. QED BY <1>5, <2>1, <3>1, <3>2, <3>3
  <2>3. CASE /\ AgreesWithLive(d, o)
             /\ liveConfirmed' = [liveConfirmed EXCEPT ![d].state = o.state,
                                                       ![d].authoritative = TRUE]
             /\ liveNotifications' = liveNotifications \ {d}
             /\ UNCHANGED liveBudget
    <3>1. /\ o \in Verdict /\ o.authoritative = TRUE /\ o.state = r.state /\ o.outputs = r.outputs
          /\ o.outputs = liveConfirmed[d].outputs
      BY <1>1, <2>3 DEF AgreesWithLive
    <3>2. /\ BudgetInv'
          /\ liveConfirmed' \in [Derivations -> Verdict \cup {None}]
          /\ liveConfirmed'[d].authoritative /\ liveConfirmed'[d].state = o.state
          /\ liveConfirmed'[d].outputs = o.outputs
          /\ \A e \in Derivations \ {d} : liveConfirmed'[e] = liveConfirmed[e]
      BY <1>3, <2>1, <2>3, <3>1, AgreeKeeps
    <3>3. ReportedAs(liveConfirmed[d], d)'
      BY <1>4, <3>1, <3>2 DEF ReportedAs
    <3>4. CandidateInv' /\ VerdictInv'
      BY <1>3, <1>4, <2>1, <2>3, <3>2, <3>3, SettleKeeps
    <3>5. QED BY <1>5, <2>1, <2>3, <3>2, <3>4
  <2>4. QED BY <1>7, <2>2, <2>3 DEF RetainLive
<1>8. QED BY <1>3, <1>6, <1>7 DEF Retain

\* A failure takes the live verdict back.
LEMMA FailureKeeps ==
  ASSUME IInv, NEW d \in Derivations, main = "running" \/ detached, Settle(d), RemoveLive(d),
         answered' = answered \cup {d},
         UNCHANGED <<batch, main, taken, detached, confirmed, unknownBudget, stoppedBudget,
                     reported>>
  PROVE  /\ BudgetInv' /\ CandidateInv' /\ VerdictInv'
         /\ liveConfirmed' \in [Derivations -> Verdict \cup {None}]
         /\ liveNotifications' = liveNotifications \ {d} /\ liveBudget' \in 0 .. MaxNodes
<1>1. stopped' = stopped \ {d} /\ UNCHANGED livePending
  BY DEF Settle
<1>2. liveNotifications' = liveNotifications \ {d}
  BY DEF RemoveLive
<1>3. /\ BudgetInv' /\ liveBudget' \in 0 .. MaxNodes
      /\ liveConfirmed' \in [Derivations -> Verdict \cup {None}] /\ liveConfirmed'[d] = None
      /\ \A e \in Derivations \ {d} : liveConfirmed'[e] = liveConfirmed[e]
  BY <1>1, RemoveLiveKeeps
<1>4. confirmed[d] \notin {None, Conflict} =>
        confirmed[d].authoritative /\ ReportedAs(confirmed[d], d)'
  BY DEF IInv, VerdictInv, ReportedAs
<1>5. CandidateInv' /\ VerdictInv'
  BY <1>1, <1>2, <1>3, <1>4, SettleKeeps
<1>6. QED BY <1>2, <1>3, <1>5

\* A result: odd, a success or a failure.
LEMMA ResultIInv == ASSUME IInv, Result PROVE IInv'
<1> DEFINE d == record.drv
           r == record.report
           final == <<Event1("final", d)>>
<1>1. /\ line = "locked" /\ record.action = "result" /\ UNCHANGED parents
      /\ activities' = [i \in Ids |->
           IF activities[i] # None /\ activities[i].drv = d
           THEN [activities[i] EXCEPT !.running = FALSE] ELSE activities[i]]
      /\ running' = [running EXCEPT ![d] = 0]
      /\ completedBuilds' = completedBuilds \ {d}
  BY DEF Result, Applying
<1>2. d \in Derivations /\ r \in Reports
  BY <1>1, RecordFields DEF IInv, ThreadInv
<1>3. /\ CountsAgree' /\ activities' \in [Ids -> Activity \cup {None}]
      /\ running' \in [Derivations -> 0 .. Cardinality(Ids)]
      /\ completedBuilds' \subseteq Derivations
  <2>1. completedBuilds' \subseteq Derivations
    BY <1>1 DEF IInv, TypeOK
  <2>2. QED BY <1>1, <1>2, <2>1, ResultCounts
<1>4. CASE /\ Applied(<<>>)
           /\ UNCHANGED <<outputs, confirmed, liveVars, budgetVars, reported, answered>>
  <2>1. /\ UNCHANGED <<stream, live, batch, found, forwarder, main, detached, cancelRequested,
                       taken, events, records, queued, told>>
        /\ delivering' = <<>> /\ line' = "delivering" /\ record' = None /\ ThreadInv'
    BY <1>1, <1>4, AppliedKeeps
  <2>2. UNCHANGED <<outputs, confirmed, liveConfirmed, liveNotifications, livePending, stopped,
                    unknownBudget, liveBudget, stoppedBudget, reported, answered>>
    BY <1>4 DEF liveVars, budgetVars
  <2>3. <<>> \in Seq(Event) /\ Len(<<>>) <= 2 /\ \A x : ~InSeq(x, <<>>)
    BY EmptySeq DEF InSeq
  <2>4. TypeOK'
    BY <1>1, <1>3, <2>1, <2>2, <2>3 DEF IInv, TypeOK
  <2>5. BudgetInv' /\ CandidateInv' /\ VerdictInv'
    BY <2>1, <2>2, BudgetFrame, CandidateFrame, VerdictFrame DEF IInv, budgetVars
  <2>6. TellInv'
    BY <1>1, <1>4, <2>2, <2>3, AppliedTells
  <2>7. QED BY <1>3, <2>1, <2>4, <2>5, <2>6 DEF IInv
<1>5. final \in Seq(Event) /\ Len(final) <= 2 /\ \A x : InSeq(x, final) <=> x = Event1("final", d)
  <2>1. Event1("final", d) \in Event
    BY <1>2 DEF Event, Event1
  <2>2. final \in Seq(Event) /\ Len(final) = 1 /\ \A x : InSeq(x, final) <=> x = Event1("final", d)
    BY <2>1, EventSeqs
  <2> HIDE DEF final
  <2>3. Len(final) <= 2
    BY <2>2
  <2>4. QED BY <2>2, <2>3, Zenon
<1> HIDE DEF d, r, final
\* A definitive result: the path is settled.
<1>6. ASSUME Applied(final), Settle(d), UNCHANGED stoppedBudget, answered' = answered \cup {d},
             BudgetInv', CandidateInv', VerdictInv', outputs' \subseteq Derivations,
             confirmed' \in [Derivations -> Verdict \cup {Conflict, None}],
             liveConfirmed' \in [Derivations -> Verdict \cup {None}],
             liveNotifications' = liveNotifications \ {d},
             unknownBudget' \in 0 .. MaxNodes, liveBudget' \in 0 .. MaxNodes,
             reported' \in [Derivations -> SUBSET Reports]
      PROVE  IInv'
  <2>1. /\ UNCHANGED <<stream, live, batch, found, forwarder, main, detached, cancelRequested,
                       taken, events, records, queued, told>>
        /\ delivering' = final /\ line' = "delivering" /\ record' = None /\ ThreadInv'
    BY <1>1, <1>6, AppliedKeeps
  <2>2. /\ stopped' = stopped \ {d} /\ UNCHANGED livePending
        /\ stopped' \subseteq Derivations /\ liveNotifications' \subseteq Derivations
        /\ answered' \subseteq Derivations
    BY <1>2, <1>6 DEF Settle, IInv, TypeOK
  <2>3. TypeOK'
    <3>1. delivering' \in Seq(Event) /\ Len(delivering') <= 2
      BY <1>5, <2>1, Zenon
    <3>2. parents' = parents /\ stoppedBudget' = stoppedBudget
      BY <1>1, <1>6
    <3>3. QED BY <1>3, <1>6, <2>1, <2>2, <3>1, <3>2 DEF IInv, TypeOK
  <2>4. TellInv'
    <3>1. /\ Event1("final", d).type # "live"
          /\ \A e : e # d => Event1("final", e) # Event1("final", d)
      BY DEF Event1
    <3>2. QED BY <1>1, <1>5, <1>6, <2>2, <3>1, AppliedTells
  <2>5. QED BY <1>3, <1>6, <2>1, <2>3, <2>4 DEF IInv
<1>7. ASSUME Applied(final)
      PROVE  UNCHANGED <<batch, main, taken, detached>> /\ (main = "running" \/ detached)
  BY <1>1, <1>7, AppliedKeeps
<1>8. CASE /\ r.success /\ r.state # "Odd"
           /\ Settle(d)
           /\ Retain(d, Outcome(d, r))
           /\ outputs' = outputs \cup
                {e \in {d} : confirmed'[d] \notin {Conflict, None} \/ liveConfirmed'[d] # None}
           /\ reported' = [reported EXCEPT ![d] = @ \cup {r}]
           /\ answered' = answered \cup {d}
           /\ Applied(final)
           /\ UNCHANGED stoppedBudget
  <2>1. r.success = TRUE
    BY <1>2, <1>8 DEF Reports
  <2>2. /\ BudgetInv' /\ CandidateInv' /\ VerdictInv'
        /\ confirmed' \in [Derivations -> Verdict \cup {Conflict, None}]
        /\ liveConfirmed' \in [Derivations -> Verdict \cup {None}]
        /\ liveNotifications' = liveNotifications \ {d}
        /\ unknownBudget' \in 0 .. MaxNodes /\ liveBudget' \in 0 .. MaxNodes
    BY <1>2, <1>7, <1>8, <2>1, SuccessKeeps
  <2>3. outputs' \subseteq Derivations /\ reported' \in [Derivations -> SUBSET Reports]
    BY <1>2, <1>8 DEF IInv, TypeOK
  <2>4. QED BY <1>6, <1>8, <2>2, <2>3
<1>9. CASE /\ Settle(d)
           /\ RemoveLive(d)
           /\ answered' = answered \cup {d}
           /\ Applied(final)
           /\ UNCHANGED <<outputs, confirmed, unknownBudget, stoppedBudget, reported>>
  <2>1. /\ BudgetInv' /\ CandidateInv' /\ VerdictInv'
        /\ liveConfirmed' \in [Derivations -> Verdict \cup {None}]
        /\ liveNotifications' = liveNotifications \ {d} /\ liveBudget' \in 0 .. MaxNodes
    BY <1>2, <1>7, <1>9, FailureKeeps
  <2>2. /\ outputs' \subseteq Derivations
        /\ confirmed' \in [Derivations -> Verdict \cup {Conflict, None}]
        /\ unknownBudget' \in 0 .. MaxNodes /\ reported' \in [Derivations -> SUBSET Reports]
    BY <1>9 DEF IInv, TypeOK
  <2>3. QED BY <1>6, <1>9, <2>1, <2>2
<1>10. QED BY <1>4, <1>8, <1>9 DEF Result, d, r, final

\* One event is told, or the rest is given up.
LEMMA DeliverIInv == ASSUME IInv, Deliver PROVE IInv'
<1>1. /\ line = "delivering"
      /\ UNCHANGED <<activities, parents, running, completedBuilds, outputs, confirmed,
                     liveConfirmed, liveNotifications, livePending, stopped, unknownBudget,
                     liveBudget, stoppedBudget, record, records, reported, answered>>
      /\ UNCHANGED <<stream, live, batch, found, forwarder, main, detached, cancelRequested, taken>>
  BY DEF Deliver, DeliverUnchanged, OthersThanLine, activityVars, liveVars, budgetVars, probeVars,
         threadVars
<1>2. delivering \in Seq(Event) /\ Len(delivering) <= 2 /\ Len(delivering) \in Nat
  BY LenProperties DEF IInv, TypeOK
<1>3. CountsAgree' /\ BudgetInv' /\ CandidateInv' /\ VerdictInv'
  BY <1>1, CountsFrame, BudgetFrame, CandidateFrame, VerdictFrame DEF IInv, budgetVars
<1>4. ASSUME line' = "idle", delivering' = <<>>, UNCHANGED <<queued, told>>,
             events' \in BOOLEAN, Disconnected => Disconnected',
             delivering = <<>> \/ Disconnected
      PROVE  IInv'
  <2>1. delivering' \in Seq(Event) /\ Len(delivering') = 0 /\ \A x : ~InSeq(x, delivering')
    BY <1>4, EmptySeq DEF InSeq
  <2>2. TypeOK'
    BY <1>1, <1>4, <2>1 DEF IInv, TypeOK
  <2>3. ThreadInv'
    BY <1>1, <1>4 DEF IInv, ThreadInv
  <2>4. TellInv'
    <3>1. ASSUME NEW d \in stopped
          PROVE  Disconnected' \/ told'[d] \in {"provisional", "live"}
      <4>1. delivering = <<>> => ~InSeq(Event1("provisional", d), delivering)
        BY EmptySeq DEF InSeq
      <4>2. QED BY <1>4, <4>1 DEF IInv, TellInv
    <3>2. QED BY <1>1, <2>1, <3>1 DEF TellInv
  <2>5. QED BY <1>3, <2>2, <2>3, <2>4 DEF IInv
<1>5. CASE delivering = <<>> /\ EndLine /\ UNCHANGED <<events, queued, told>>
  <2>1. events' \in BOOLEAN
    BY <1>5 DEF IInv, TypeOK
  <2>2. Disconnected => Disconnected'
    BY <1>1, <1>5 DEF Disconnected
  <2>3. QED BY <1>4, <1>5, <2>1, <2>2 DEF EndLine
<1>6. CASE Disconnected /\ DropSender /\ EndLine /\ UNCHANGED <<queued, told>>
  <2>1. events' \in {events, FALSE}
    BY <1>6, Zenon DEF DropSender, IInv, TypeOK
  <2>2. events' \in BOOLEAN
    BY <2>1 DEF IInv, TypeOK
  <2>3. Disconnected => Disconnected'
    BY <1>1, <2>1 DEF Disconnected
  <2>4. QED BY <1>4, <1>6, <2>2, <2>3 DEF EndLine
<1>7. CASE /\ delivering # <<>> /\ ~Disconnected /\ ~Full
           /\ queued' = queued + 1
           /\ told' = Telling(told, Head(delivering))
           /\ delivering' = Tail(delivering)
           /\ UNCHANGED <<events, line>>
  <2> DEFINE event == Head(delivering)
  <2>1. /\ event \in Event /\ event = delivering[1] /\ 1 \in 1 .. Len(delivering)
        /\ delivering' \in Seq(Event) /\ Len(delivering') = Len(delivering) - 1
        /\ \A i \in 1 .. Len(delivering') : delivering'[i] = delivering[i + 1]
    BY <1>2, <1>7, EmptySeq, HeadTailProperties
  <2>2. queued' \in 0 .. ChannelCapacity
    BY <1>7, ObserverAssumption DEF IInv, TypeOK, Full
  <2>3. event.drv \in Derivations /\ event.type \in {"started", "activityStopped", "provisional",
                                                     "final", "live", "log"}
    BY <2>1 DEF Event
  <2> HIDE DEF event
  <2>4. /\ Verdicts(event) => told' = [told EXCEPT ![event.drv] = event.type]
        /\ ~Verdicts(event) => told' = told
    BY <1>7 DEF Telling, event
  <2>5. told \in [Derivations -> {"nothing", "provisional", "live", "final"}]
    BY DEF IInv, TypeOK
  <2>6. told' \in [Derivations -> {"nothing", "provisional", "live", "final"}]
    BY <2>3, <2>4, <2>5 DEF Verdicts
  <2>7. TypeOK'
    BY <1>1, <1>2, <1>7, <2>1, <2>2, <2>6 DEF IInv, TypeOK
  <2>8. ThreadInv'
    BY <1>1, <1>7 DEF IInv, ThreadInv
  <2>9. \A x : InSeq(x, delivering) <=> x = event \/ InSeq(x, delivering')
    <3>1. \A i \in 1 .. Len(delivering) : i = 1 \/ i - 1 \in 1 .. Len(delivering')
      BY <1>2, <2>1
    <3>2. \A i \in 1 .. Len(delivering') : i + 1 \in 1 .. Len(delivering)
      BY <1>2, <2>1
    <3>3. \A i \in 1 .. Len(delivering) : i # 1 => delivering'[i - 1] = delivering[i]
      BY <1>2, <2>1, <3>1
    <3>4. QED BY <2>1, <3>1, <3>2, <3>3 DEF InSeq
  <2>10. TellInv'
    <3>1. \A i \in 1 .. Len(delivering') : delivering'[i].type # "live"
      <4>1. \A i \in 1 .. Len(delivering') : i + 1 \in 1 .. Len(delivering)
        BY <1>2, <2>1
      <4>2. QED BY <2>1, <4>1 DEF IInv, TellInv
    <3>2. ASSUME NEW d \in stopped
          PROVE  /\ ~InSeq(Event1("final", d), delivering')
                 /\ \/ told'[d] \in {"provisional", "live"}
                    \/ InSeq(Event1("provisional", d), delivering')
      <4>1. d \in Derivations
        BY DEF IInv, TypeOK
      <4>2. ~InSeq(Event1("final", d), delivering') /\ event # Event1("final", d)
        BY <2>9 DEF IInv, TellInv
      <4>3. event.type = "final" => event.drv # d
        BY <2>1, <4>2 DEF Event, Event1
      <4>4. event = Event1("provisional", d) => told'[d] = "provisional"
        BY <2>4, <2>5, <4>1 DEF Verdicts, Event1
      <4>5. told[d] \in {"provisional", "live"} => told'[d] \in {"provisional", "live"}
        BY <2>3, <2>4, <2>5, <4>1, <4>3 DEF Verdicts
      <4>6. QED BY <1>7, <2>9, <4>2, <4>4, <4>5 DEF IInv, TellInv
    <3>3. QED BY <1>1, <3>1, <3>2 DEF TellInv
  <2>11. QED BY <1>3, <2>7, <2>8, <2>10 DEF IInv
<1>8. QED BY <1>5, <1>6, <1>7 DEF Deliver

\* Every step of every thread keeps the invariant.
LEMMA NextIInv == ASSUME IInv, [Next]_vars PROVE IInv'
<1>1. CASE Line
  BY <1>1, BeginLineIInv, StartIInv, StopIInv, LogIInv, ResultIInv, DeliverIInv DEF Line
<1>2. CASE Live
  BY <1>2, FlushIInv, ProbeIInv, ConfirmIInv DEF Live
<1>3. CASE Forward \/ ForwarderPanics \/ Main \/ RequestCancel
  BY <1>3, MainIInv, TakeIInv DEF Main
<1>4. CASE UNCHANGED vars
  <2>1. /\ UNCHANGED <<stream, activities, parents, running, completedBuilds, outputs, confirmed>>
        /\ UNCHANGED <<liveConfirmed, liveNotifications, livePending, stopped>>
        /\ UNCHANGED <<unknownBudget, liveBudget, stoppedBudget, events>>
        /\ UNCHANGED <<line, record, delivering, records, live, batch, found, queued>>
        /\ UNCHANGED <<forwarder, main, detached, cancelRequested>>
        /\ UNCHANGED <<taken, told, reported, answered>>
    BY <1>4 DEF vars, activityVars, liveVars, budgetVars, lineVars, probeVars, threadVars
  <2>2. TypeOK'
    BY <2>1 DEF IInv, TypeOK
  <2>3. ThreadInv'
    BY <2>1 DEF IInv, ThreadInv
  <2>4. CountsAgree' /\ BudgetInv' /\ CandidateInv' /\ VerdictInv' /\ TellInv'
    BY <2>1, CountsFrame, BudgetFrame, CandidateFrame, VerdictFrame, TellFrame
       DEF IInv, budgetVars, Disconnected
  <2>5. QED BY <2>2, <2>3, <2>4 DEF IInv
<1>5. QED BY <1>1, <1>2, <1>3, <1>4 DEF Next

\* Whatever Nix reports and however the threads interleave, the observer stays
\* in a state the induction knows.
THEOREM InvariantHolds == Spec => []IInv
<1>1. Init => IInv
  BY InitIInv
<1>2. IInv /\ [Next]_vars => IInv'
  BY NextIInv
<1>3. QED BY <1>1, <1>2, PTL DEF Spec

\* The count of a derivation is the number of its activities that run: a stop
\* never takes one from zero, and the last one to stop is recognised.
THEOREM CountsAlwaysAgree == Spec => []CountsAgree
<1>1. IInv => CountsAgree
  BY DEF IInv
<1>2. QED BY <1>1, InvariantHolds, PTL

\* No unit of a budget leaks, the queue of the probe stays within what was
\* spent on it, and no candidate of the probe is lost.
THEOREM BudgetsAreConserved == Spec => []BudgetsConserved
<1>1. IInv => BudgetsConserved
  BY DEF IInv, BudgetsConserved, BudgetInv, CandidateInv, LiveFound, Unknown
<1>2. QED BY <1>1, InvariantHolds, PTL

\* What the caller gets was reported by Nix, or was found in the store for a
\* build without a result since it stopped, unless the callback was given up.
THEOREM VerdictsAreReported == Spec => []VerdictIsReported
<1>1. IInv => VerdictIsReported
  BY DEF IInv, VerdictIsReported, VerdictInv, ReportedAs
<1>2. QED BY <1>1, InvariantHolds, PTL

\* A live success is told behind the end of the build and never after a result.
THEOREM LiveIsToldBetween == Spec => LiveComesBetween
<1> DEFINE Between == \A d \in Derivations :
                        told'[d] = "live" /\ told[d] # "live" => told[d] = "provisional"
<1>1. ASSUME IInv, [Next]_vars PROVE Between
  <2>1. CASE Tick \/ ConfirmFlushes
    <3>1. Flush /\ UNCHANGED <<threadVars, stopped>>
      BY <2>1 DEF Tick, ConfirmFlushes, LiveUnchanged
    <3>2. QED BY <1>1, <3>1, FlushTells
  <2>2. CASE Deliver
    <3>1. CASE UNCHANGED told
      BY <3>1
    <3>2. CASE delivering # <<>> /\ told' = Telling(told, Head(delivering))
      <4>1. Head(delivering) = delivering[1] /\ 1 \in 1 .. Len(delivering)
        BY <1>1, <3>2, EmptySeq, LenProperties, HeadTailProperties DEF IInv, TypeOK
      <4>2. Head(delivering).type # "live"
        BY <1>1, <4>1 DEF IInv, TellInv
      <4>3. told \in [Derivations -> {"nothing", "provisional", "live", "final"}]
        BY <1>1 DEF IInv, TypeOK
      <4>4. QED BY <3>2, <4>2, <4>3 DEF Telling
    <3>3. QED BY <2>2, <3>1, <3>2 DEF Deliver
  <2>3. CASE \/ BeginLine \/ Start \/ Stop \/ Log \/ Result
             \/ LiveEnds \/ TakeBatch \/ Probe \/ Confirm \/ RetryLive
             \/ Forward \/ ForwarderPanics \/ Main \/ RequestCancel \/ UNCHANGED vars
    <3>1. UNCHANGED told
      BY <2>3 DEF BeginLine, Start, Stop, Log, Result, Applied, LiveEnds, TakeBatch, Probe, Confirm,
                  RetryLive, Forward, ForwarderPanics, Main, RunReturns, Close, JoinThreads, Take,
                  RequestCancel, MainUnchanged, observerVars, vars
    <3>2. QED BY <3>1
  <2>4. QED BY <1>1, <2>1, <2>2, <2>3 DEF Next, Line, Live
<1>2. IInv /\ [Next]_vars => [Between]_vars
  BY <1>1
<1>3. QED BY <1>2, InvariantHolds, PTL DEF Spec, LiveComesBetween

================================================================================
