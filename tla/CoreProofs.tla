------------------------------ MODULE CoreProofs ------------------------------
(***************************************************************************)
(* Proofs about the two components of nix-tools-core that decide who may   *)
(* go on and what is done together: CancellationGate, for any sets of      *)
(* threads and signals, and Schedule with its Planner, for any requests    *)
(* and durations.                                                          *)
(*                                                                         *)
(* The gate.  The invariants of the runs are not inductive one by one:     *)
(* that a request returns outside every commit rests on the flag standing  *)
(* for exactly one running committer, and that a sleeper will be notified  *)
(* rests on it too; that a requester which slept finds a signal when it    *)
(* settles rests on its own request having made one visible.  IInv joins   *)
(* them to GateInv, which says these two things.                           *)
(*                                                                         *)
(* The scheduler.  Its invariant says little: what was decided is what     *)
(* schedule returns for what it was asked.  The work is in the planner,    *)
(* whose loops are folds: each is turned into the function of how many     *)
(* values were taken (FoldInTurn), over which formulas are carried by      *)
(* counting (OneByOne).                                                    *)
(***************************************************************************)
EXTENDS CancellationGate, Schedule, FiniteSetTheorems, SequenceTheorems, WellFoundedInduction,
        TLAPS

--------------------------------------------------------------------------------
(* The gate *)

\* The committing flag is raised exactly while one committer is running, and a
\* signal is visible from the moment a requester has entered the gate.
GateInv ==
  /\ committing => \E c \in Committers : Running = {c}
  /\ ~committing => Running = {}
  /\ \A r \in Requesters : requester[r] # "idle" => Visible # NoSignal

IInv ==
  /\ TypeOK
  /\ GateInv
  /\ RequestWaitsForCommit
  /\ SubscribersAreWoken
  /\ SleepersHaveACommit

\* The gate starts open, with nobody in it.
LEMMA InitIInv == Init => IInv
  BY NoSignalAssumption
  DEF Init, IInv, TypeOK, GateInv, RequestWaitsForCommit, SubscribersAreWoken,
      SleepersHaveACommit, Running, Returned, Visible, Or, OptionalSignal,
      RequesterStates, CommitterStates, SocketStates

\* A requester may enter at any time: it settles the signal outside commits
\* and only queues during one, and wakes every subscriber in both cases.
LEMMA RequestIInv ==
  ASSUME IInv, NEW r \in Requesters, NEW s \in Signals, Request(r, s)
  PROVE  IInv'
<1>. USE NoSignalAssumption
<1>0. Running' = Running
  BY DEF Request, Running
<1>1. TypeOK'
  BY DEF IInv, TypeOK, Request, ShutWakeups, SettleRequest, FirstRequest, Visible, Or,
         OptionalSignal, RequesterStates, SocketStates
<1>2. GateInv'
  BY <1>0 DEF IInv, GateInv, TypeOK, Request, SettleRequest, FirstRequest, Visible, Or,
              OptionalSignal
<1>3. RequestWaitsForCommit'
  BY <1>0 DEF IInv, GateInv, TypeOK, RequestWaitsForCommit, Returned, Request, SettleRequest,
         FirstRequest, Visible, Or, OptionalSignal
<1>4. SubscribersAreWoken'
  BY DEF IInv, TypeOK, SubscribersAreWoken, Request, ShutWakeups, SocketStates
<1>5. SleepersHaveACommit'
  BY <1>0 DEF IInv, GateInv, TypeOK, SleepersHaveACommit, Request, SettleRequest
<1>6. QED BY <1>1, <1>2, <1>3, <1>4, <1>5 DEF IInv

\* A notified requester settles the pending signal, or goes back to sleep
\* because another commit took the gate first.
LEMMA ResumeRequestIInv ==
  ASSUME IInv, NEW r \in Requesters, ResumeRequest(r)
  PROVE  IInv'
<1>. USE NoSignalAssumption
<1>0. Running' = Running
  BY DEF ResumeRequest, Running
<1>1. TypeOK'
  BY DEF IInv, TypeOK, ResumeRequest, SettleRequest, Or, OptionalSignal, RequesterStates
<1>2. GateInv'
  BY <1>0 DEF IInv, GateInv, TypeOK, ResumeRequest, SettleRequest, Visible, Or
<1>3. RequestWaitsForCommit'
  BY <1>0 DEF IInv, GateInv, TypeOK, RequestWaitsForCommit, Returned, ResumeRequest,
              SettleRequest, Visible, Or, OptionalSignal
<1>4. SubscribersAreWoken'
  BY DEF IInv, TypeOK, SubscribersAreWoken, ResumeRequest, SettleRequest, Visible, Or
<1>5. SleepersHaveACommit'
  BY <1>0 DEF IInv, GateInv, TypeOK, SleepersHaveACommit, ResumeRequest, SettleRequest
<1>6. QED BY <1>1, <1>2, <1>3, <1>4, <1>5 DEF IInv

\* Entering the gate as a committer: the commit begins only when no other
\* runs and nothing is visible, which no requester is inside for.
LEMMA EnterCommitIInv ==
  ASSUME IInv, NEW c \in Committers, committer[c] \in {"idle", "woken"}, EnterCommit(c),
         UNCHANGED <<signal, pendingSignal, wakeups, socket, requester>>
  PROVE  IInv'
<1>. USE NoSignalAssumption
<1>1. TypeOK'
  BY DEF IInv, TypeOK, EnterCommit, CommitterStates, Visible, Or
<1>2. GateInv'
  <2>1. CASE committing' = committing
    <3>1. Running' = Running
      BY <2>1 DEF EnterCommit, Running, IInv, TypeOK, CommitterStates
    <3>2. QED BY <2>1, <3>1 DEF IInv, GateInv, Visible
  <2>2. CASE committing' # committing
    <3>1. Running = {} /\ committing' /\ committer' = [committer EXCEPT ![c] = "running"]
      BY <2>2 DEF EnterCommit, IInv, GateInv
    <3>2. Running' = {c}
      BY <3>1 DEF Running, IInv, TypeOK
    <3>3. QED BY <3>1, <3>2 DEF IInv, GateInv, Visible
  <2>3. QED BY <2>1, <2>2
<1>3. RequestWaitsForCommit'
  <2>1. SUFFICES ASSUME Returned # {}
                 PROVE  Running' = {} /\ ~committing' /\ signal' # NoSignal
    BY DEF RequestWaitsForCommit, Returned
  <2>2. ~committing /\ Running = {} /\ signal # NoSignal
    BY <2>1 DEF IInv, RequestWaitsForCommit
  <2>3. QED BY <2>2 DEF EnterCommit, Running, Visible, Or, IInv, TypeOK
<1>4. SubscribersAreWoken'
  BY DEF IInv, SubscribersAreWoken, Visible
<1>5. SleepersHaveACommit'
  <2>1. CASE committing
    BY <2>1 DEF IInv, GateInv, TypeOK, SleepersHaveACommit, EnterCommit, Running
  <2>2. CASE ~committing
    BY <2>2 DEF IInv, GateInv, TypeOK, SleepersHaveACommit, EnterCommit, Running
  <2>3. QED BY <2>1, <2>2
<1>6. QED BY <1>1, <1>2, <1>3, <1>4, <1>5 DEF IInv

\* The end of a commit settles the pending signal and leaves nobody asleep.
LEMMA FinishCommitIInv ==
  ASSUME IInv, NEW c \in Committers, FinishCommit(c)
  PROVE  IInv'
<1>. USE NoSignalAssumption
<1>1. TypeOK'
  BY DEF IInv, TypeOK, FinishCommit, NotifyRequesters, NotifyCommitters, Or,
         OptionalSignal, RequesterStates, CommitterStates
<1>2. Running' = {}
  <2>1. Running = {c}
    BY DEF FinishCommit, IInv, GateInv, Running
  <2>2. QED BY <2>1 DEF FinishCommit, NotifyCommitters, Running
<1>3. Visible' = Visible
  BY DEF FinishCommit, IInv, TypeOK, Visible, Or, OptionalSignal
<1>4. GateInv'
  BY <1>2, <1>3 DEF GateInv, FinishCommit, NotifyRequesters, IInv
<1>5. RequestWaitsForCommit'
  <2>1. Returned = {}
    BY DEF FinishCommit, IInv, RequestWaitsForCommit, Running
  <2>2. Returned' = {}
    BY <2>1 DEF Returned, FinishCommit, NotifyRequesters
  <2>3. QED BY <2>2 DEF RequestWaitsForCommit
<1>6. SubscribersAreWoken'
  BY <1>3 DEF IInv, SubscribersAreWoken, FinishCommit
<1>7. SleepersHaveACommit'
  BY DEF SleepersHaveACommit, FinishCommit, NotifyRequesters, NotifyCommitters
<1>8. QED BY <1>1, <1>4, <1>5, <1>6, <1>7 DEF IInv

\* A supervisor that subscribes late finds its socket already shut; one that
\* leaves takes nothing away from the others.
LEMMA WatcherIInv ==
  ASSUME IInv, NEW w \in Watchers, Subscribe(w) \/ Unsubscribe(w)
  PROVE  IInv'
<1>1. TypeOK'
  BY DEF IInv, TypeOK, Subscribe, Unsubscribe, SocketStates
<1>2. Running' = Running /\ Returned' = Returned /\ Visible' = Visible
  BY DEF Subscribe, Unsubscribe, Running, Returned, Visible
<1>3. GateInv' /\ RequestWaitsForCommit' /\ SleepersHaveACommit'
  BY <1>2 DEF IInv, GateInv, RequestWaitsForCommit, SleepersHaveACommit, Subscribe, Unsubscribe
<1>4. SubscribersAreWoken'
  BY <1>2 DEF IInv, TypeOK, SubscribersAreWoken, Subscribe, Unsubscribe, SocketStates
<1>5. QED BY <1>1, <1>3, <1>4 DEF IInv

\* Every step of the gate keeps the strengthened invariant.
LEMMA NextIInv == IInv /\ [Next]_vars => IInv'
<1>1. SUFFICES ASSUME IInv, [Next]_vars PROVE IInv'
  OBVIOUS
<1>2. ASSUME NEW r \in Requesters, ResumeRequest(r) PROVE IInv'
  BY <1>1, <1>2, ResumeRequestIInv
<1>3. ASSUME NEW r \in Requesters, NEW s \in Signals, Request(r, s) PROVE IInv'
  BY <1>1, <1>3, RequestIInv
<1>4. ASSUME NEW c \in Committers, Commit(c) \/ ResumeCommit(c) PROVE IInv'
  BY <1>1, <1>4, EnterCommitIInv DEF Commit, ResumeCommit
<1>5. ASSUME NEW c \in Committers, FinishCommit(c) PROVE IInv'
  BY <1>1, <1>5, FinishCommitIInv
<1>6. ASSUME NEW w \in Watchers, Subscribe(w) \/ Unsubscribe(w) PROVE IInv'
  BY <1>1, <1>6, WatcherIInv
<1>7. CASE UNCHANGED vars
  BY <1>1, <1>7
  DEF vars, IInv, TypeOK, GateInv, RequestWaitsForCommit, SubscribersAreWoken,
      SleepersHaveACommit, Running, Returned, Visible
<1>8. QED BY <1>1, <1>2, <1>3, <1>4, <1>5, <1>6, <1>7 DEF Next

\* The strengthened invariant holds in every reachable state.
LEMMA Invariant == Spec => []IInv
  BY InitIInv, NextIInv, PTL DEF Spec

\* Cancellation keeps its options well formed: a signal is pending only behind
\* a commit (CancellationGate and CommitGuard::drop).
THEOREM TypeCorrect == Spec => []TypeOK
<1>1. IInv => TypeOK
  BY DEF IInv
<1>2. QED BY Invariant, <1>1, PTL

\* Cancellation::request returns only once no commit is under way, whatever
\* the number of threads at the gate.
THEOREM RequestsWaitForCommits == Spec => []RequestWaitsForCommit
<1>1. IInv => RequestWaitsForCommit
  BY DEF IInv
<1>2. QED BY Invariant, <1>1, PTL

\* Cancellation::subscribe and request never leave a live supervisor asleep
\* beside a visible cancellation.
THEOREM SubscribersWake == Spec => []SubscribersAreWoken
<1>1. IInv => SubscribersAreWoken
  BY DEF IInv
<1>2. QED BY Invariant, <1>1, PTL

\* No thread sleeps at the condition variable without a commit whose end
\* notifies it: the safety half of "every request returns".
THEOREM NoLostNotification == Spec => []SleepersHaveACommit
<1>1. IInv => SleepersHaveACommit
  BY DEF IInv
<1>2. QED BY Invariant, <1>1, PTL

\* A committer that enters either stays out, or begins alone before any signal.
LEMMA EnterCommitOrder ==
  ASSUME IInv, NEW c \in Committers, committer[c] \in {"idle", "woken"}, EnterCommit(c),
         UNCHANGED <<signal, pendingSignal, wakeups, socket, requester>>
  PROVE  [Order!Next]_(Order!vars)
<1>1. Visible' = Visible /\ Returned' = Returned
  BY DEF Visible, Returned
<1>2. CASE committing' = committing
  <2>1. Running' = Running
    BY <1>2 DEF EnterCommit, Running, IInv, TypeOK, CommitterStates
  <2>2. QED BY <1>1, <2>1 DEF Order!vars
<1>3. CASE committing' # committing
  <2>1. Visible = NoSignal /\ Running = {}
        /\ committer' = [committer EXCEPT ![c] = "running"]
    BY <1>3 DEF EnterCommit, IInv, GateInv
  <2>2. Running' = {c}
    BY <2>1 DEF Running, IInv, TypeOK
  <2>3. Order!Begin(c)
    BY <1>1, <2>1, <2>2 DEF Order!Begin
  <2>4. QED BY <2>3 DEF Order!Next
<1>4. QED BY <1>2, <1>3

\* Every step of the gate is a step of the promised order, or none of it.
LEMMA NextOrder ==
  ASSUME IInv, [Next]_vars
  PROVE  [Order!Next]_(Order!vars)
<1>. USE NoSignalAssumption
<1>1. ASSUME NEW r \in Requesters, NEW s \in Signals, Request(r, s)
      PROVE  [Order!Next]_(Order!vars)
  <2>1. Running' = Running
    BY <1>1 DEF Request, Running
  <2>2. Visible # NoSignal => Visible' = Visible
    BY <1>1 DEF Request, SettleRequest, FirstRequest, Visible, Or
  <2>3. Visible = NoSignal => Visible' = s
    BY <1>1 DEF Request, SettleRequest, FirstRequest, Visible, Or
  <2>4. CASE committing
    <3>1. Returned' = Returned
      BY <1>1, <2>4 DEF Request, Returned, IInv, TypeOK
    <3>2. CASE Visible = NoSignal
      BY <2>1, <2>3, <3>1, <3>2 DEF Order!Cancel, Order!Next
    <3>3. CASE Visible # NoSignal
      BY <2>1, <2>2, <3>1, <3>3 DEF Order!vars
    <3>4. QED BY <3>2, <3>3
  <2>5. CASE ~committing
    <3>1. Running = {}
      BY <2>5 DEF IInv, GateInv
    <3>2. r \notin Returned /\ Returned' = Returned \cup {r}
      BY <1>1, <2>5 DEF Request, SettleRequest, Returned, IInv, TypeOK
    <3>3. CASE Visible = NoSignal
      BY <2>1, <2>3, <3>1, <3>2, <3>3 DEF Order!CancelAndReturn, Order!Next
    <3>4. CASE Visible # NoSignal
      BY <2>1, <2>2, <3>1, <3>2, <3>4 DEF Order!Return, Order!Next
    <3>5. QED BY <3>3, <3>4
  <2>6. QED BY <2>4, <2>5
<1>2. ASSUME NEW r \in Requesters, ResumeRequest(r)
      PROVE  [Order!Next]_(Order!vars)
  <2>1. Running' = Running
    BY <1>2 DEF ResumeRequest, Running
  <2>2. Visible # NoSignal /\ Visible' = Visible
    BY <1>2 DEF ResumeRequest, SettleRequest, Visible, Or, IInv, GateInv
  <2>3. CASE committing
    <3>1. Returned' = Returned
      BY <1>2, <2>3 DEF ResumeRequest, Returned, IInv, TypeOK
    <3>2. QED BY <2>1, <2>2, <3>1 DEF Order!vars
  <2>4. CASE ~committing
    <3>1. Running = {}
      BY <2>4 DEF IInv, GateInv
    <3>2. r \notin Returned /\ Returned' = Returned \cup {r}
      BY <1>2, <2>4 DEF ResumeRequest, SettleRequest, Returned, IInv, TypeOK
    <3>3. QED BY <2>1, <2>2, <3>1, <3>2 DEF Order!Return, Order!Next
  <2>5. QED BY <2>3, <2>4
<1>3. ASSUME NEW c \in Committers, Commit(c) \/ ResumeCommit(c)
      PROVE  [Order!Next]_(Order!vars)
  BY <1>3, EnterCommitOrder DEF Commit, ResumeCommit
<1>4. ASSUME NEW c \in Committers, FinishCommit(c)
      PROVE  [Order!Next]_(Order!vars)
  <2>1. Running = {c}
    BY <1>4 DEF FinishCommit, IInv, GateInv, Running
  <2>2. Running' = {}
    BY <1>4, <2>1 DEF FinishCommit, NotifyCommitters, Running
  <2>3. Visible' = Visible
    BY <1>4 DEF FinishCommit, Visible, Or
  <2>4. Returned' = Returned
    BY <1>4 DEF FinishCommit, NotifyRequesters, Returned
  <2>5. QED BY <2>1, <2>2, <2>3, <2>4 DEF Order!End, Order!Next
<1>5. ASSUME NEW w \in Watchers, Subscribe(w) \/ Unsubscribe(w)
      PROVE  [Order!Next]_(Order!vars)
  BY <1>5 DEF Subscribe, Unsubscribe, Running, Returned, Visible, Order!vars
<1>6. CASE UNCHANGED vars
  BY <1>6 DEF vars, Running, Returned, Visible, Order!vars
<1>7. QED BY <1>1, <1>2, <1>3, <1>4, <1>5, <1>6 DEF Next

\* The gate implements the total order its documentation promises: commits one
\* at a time, none after a cancellation has won, requests returning outside
\* commits, and the first signal final.
THEOREM GateImplementsCommitOrder == Spec => ImplementsCommitOrder
<1>1. Init => Order!Init
  BY DEF Init, Order!Init, Visible, Or, Running, Returned
<1>2. IInv /\ [Next]_vars => [Order!Next]_(Order!vars)
  BY NextOrder
<1>3. QED BY Invariant, <1>1, <1>2, PTL DEF Spec, ImplementsCommitOrder, Order!Spec

--------------------------------------------------------------------------------
(* Folds, and numbers one after the other *)

\* Every set of numbers that is not empty has a least one.
LEMMA LeastNumber ==
  ASSUME NEW T \in SUBSET Nat, T # {}
  PROVE  \E n \in T : \A m \in T : n <= m
<1> DEFINE less == {r \in Nat \X Nat : r[1] < r[2]}
<1>1. IsWellFoundedOn(less, Nat)
  BY NatLessThanWellFounded DEF OpToRel, IsWellFoundedOn
<1>2. PICK x \in T : \A y \in T : ~(<<y, x>> \in less)
  BY <1>1, WFMin
<1>3. ASSUME NEW y \in T PROVE x <= y
  <2>1. ~(y < x)
    BY <1>2
  <2>2. x \in Nat /\ y \in Nat
    OBVIOUS
  <2>3. QED BY <2>1, <2>2
<1>4. QED BY <1>3

\* What holds of nothing, and of each more if of one less, holds all the way.
LEMMA OneByOne ==
  ASSUME NEW n \in Nat, NEW P, 0 \in P, \A i \in 1..n : i - 1 \in P => i \in P
  PROVE  \A i \in 0..n : i \in P
<1> DEFINE bad == {i \in 0..n : i \notin P}
<1>1. SUFFICES ASSUME bad # {} PROVE FALSE
  OBVIOUS
<1>2. PICK i \in bad : \A j \in bad : i <= j
  <2>1. bad \in SUBSET Nat
    OBVIOUS
  <2> HIDE DEF bad
  <2>2. QED BY <1>1, <2>1, LeastNumber
<1>3. i # 0
  BY <1>2
<1>4. i - 1 \in 0..n /\ i - 1 < i /\ i \in 1..n
  BY <1>2, <1>3
<1>5. i - 1 \notin bad
  BY <1>2, <1>4
<1>6. QED BY <1>2, <1>4, <1>5

\* A fold takes the indices in ascending order.
LEMMA UpTo ==
  ASSUME NEW m \in Nat
  PROVE  /\ \A s \in SUBSET (1..m) : s # {} => Max(s) \in s /\ \A i \in s : i <= Max(s)
         /\ \A s \in SUBSET (1..m) : m \in s => Max(s) = m
         /\ \A s \in SUBSET (1..m) : m # 0 /\ m \notin s => s \in SUBSET (1..(m - 1))
         /\ m # 0 => (1..m) \ {m} = 1..(m - 1)
<1>1. ASSUME NEW s \in SUBSET (1..m), s # {}
      PROVE  Max(s) \in s /\ \A i \in s : i <= Max(s)
  <2> DEFINE above == {k \in Nat : \A i \in s : i <= k}
  <2>1. m \in above
    OBVIOUS
  <2>2. PICK k \in above : \A j \in above : k <= j
    <3>1. above \in SUBSET Nat
      OBVIOUS
    <3> HIDE DEF above
    <3>2. QED BY <2>1, <3>1, LeastNumber
  <2>3. k \in s
    <3>1. SUFFICES ASSUME k \notin s PROVE FALSE
      OBVIOUS
    <3>2. \A i \in s : i <= k /\ i # k /\ i \in Nat /\ i >= 1
      BY <2>2, <3>1
    <3>3. PICK x \in s : TRUE
      BY <1>1
    <3>4. k \in Nat /\ k > x /\ x >= 1 /\ x \in Nat
      BY <2>2, <3>2, <3>3
    <3>5. k - 1 \in Nat /\ \A i \in s : i <= k - 1
      <4>1. ASSUME NEW i \in s PROVE i <= k - 1
        BY <3>2, <3>4
      <4>2. QED BY <3>4, <4>1
    <3>6. k - 1 \in above /\ ~(k <= k - 1)
      BY <3>4, <3>5
    <3>7. QED BY <2>2, <3>6
  <2>4. \E x \in s : \A i \in s : x >= i
    BY <2>2, <2>3
  <2>5. Max(s) \in s /\ \A i \in s : Max(s) >= i
    BY <2>4 DEF Max
  <2>6. QED BY <2>5
<1>2. ASSUME NEW s \in SUBSET (1..m), m \in s PROVE Max(s) = m
  <2>1. s # {}
    BY <1>2
  <2>2. Max(s) \in s /\ m <= Max(s)
    BY <1>1, <1>2, <2>1
  <2>3. PICK x \in 1..m : x = Max(s)
    BY <2>2
  <2>4. m <= x /\ x <= m /\ x \in Nat
    BY <2>2, <2>3
  <2>5. m = x
    BY <2>4
  <2>6. QED BY <2>3, <2>5
<1>3. QED BY <1>1, <1>2

\* The folds of the planner.
Step(fold, a, x) ==
  CASE fold.of = "order" -> IF Ready(fold.p, a) = {} THEN a ELSE Append(a, Min(Ready(fold.p, a)))
    [] fold.of = "closure" -> a \cup UNION {Below(fold.p, id) : id \in a}
    [] fold.of = "chains" -> Extended(fold.p, a, x, Heaviest(a, Below(fold.p, x)))
    [] fold.of = "trace" -> IF fold.best[Head(a)].from = None THEN a
                            ELSE <<fold.best[Head(a)].from>> \o a
    [] fold.of = "groups" -> [a EXCEPT ![Chosen(fold.p, a, x)] = @ \cup {x}]
    [] fold.of = "workers" -> IF x \in DOMAIN fold.walls /\ fold.walls[x] < a.wall
                                THEN [wall |-> fold.walls[x], workers |-> x] ELSE a

Taken(fold, base, value, g, s) ==
  IF s = {} THEN base ELSE Step(fold, g[s \ {Max(s)}], value[Max(s)])

IsFold(fold, base, value, n, g) ==
  g = [s \in SUBSET (1..n) |-> Taken(fold, base, value, g, s)]

\* A fold is well defined.
LEMMA FoldExists ==
  ASSUME NEW fold, NEW base, NEW value, NEW n \in Nat
  PROVE  \E g : IsFold(fold, base, value, n, g)
<1> DEFINE P == {m \in 0..n : \E g : IsFold(fold, base, value, m, g)}
<1>1. 0 \in P
  <2> DEFINE h == [s \in SUBSET (1..0) |-> base]
  <2>1. \A s \in SUBSET (1..0) : Taken(fold, base, value, h, s) = base
    BY DEF Taken
  <2>2. h = [s \in SUBSET (1..0) |-> Taken(fold, base, value, h, s)]
    BY <2>1
  <2> HIDE DEF h
  <2>3. IsFold(fold, base, value, 0, h)
    BY <2>2 DEF IsFold
  <2>4. QED BY <2>3
<1>2. ASSUME NEW m \in 1..n, m - 1 \in P PROVE m \in P
  <2>1. PICK g : IsFold(fold, base, value, m - 1, g)
    BY <1>2
  <2> DEFINE h == [s \in SUBSET (1..m) |->
                     IF m \in s THEN Step(fold, g[s \ {m}], value[m]) ELSE g[s]]
  <2>2. ASSUME NEW s \in SUBSET (1..m) PROVE h[s] = Taken(fold, base, value, h, s)
    <3>1. CASE m \in s
      <4>1. Max(s) = m /\ s # {} /\ s \ {m} \in SUBSET (1..m) /\ m \notin s \ {m}
        BY <3>1, UpTo
      <4>2. QED BY <3>1, <4>1 DEF Taken
    <3>2. CASE m \notin s /\ s # {}
      <4>1. s \in SUBSET (1..(m - 1)) /\ Max(s) \in s
        BY <3>2, UpTo
      <4>2. s \ {Max(s)} \in SUBSET (1..m) /\ m \notin s \ {Max(s)}
        BY <3>2
      <4>3. g[s] = Taken(fold, base, value, g, s)
        BY <2>1, <4>1 DEF IsFold
      <4>4. QED BY <3>2, <4>2, <4>3 DEF Taken
    <3>3. CASE s = {}
      <4>1. g[s] = Taken(fold, base, value, g, s)
        BY <2>1, <3>3 DEF IsFold
      <4>2. QED BY <3>3, <4>1 DEF Taken
    <3>4. QED BY <3>1, <3>2, <3>3
  <2>3. IsFold(fold, base, value, m, h)
    <3>1. h = [s \in SUBSET (1..m) |-> h[s]]
      OBVIOUS
    <3> HIDE DEF h
    <3>2. QED BY <2>2, <3>1 DEF IsFold
  <2> HIDE DEF h
  <2>4. QED BY <2>3
<1>3. n \in P
  <2> HIDE DEF P
  <2>1. QED BY <1>1, <1>2, OneByOne
<1>4. QED BY <1>3

\* It takes one after the other, and so any formula that holds of what it starts with and
\* of each step holds at its end: `read' is what was made of the first so many.
InTurn(fold, base, value, n, read) ==
  /\ read[0] = base
  /\ \A i \in 1..n : read[i] = Step(fold, read[i - 1], value[i])

\* A fold of n values, as what was made of the first so many of them.
LEMMA FoldInTurn ==
  ASSUME NEW fold, NEW base, NEW value, NEW n \in Nat, NEW g,
         IsFold(fold, base, value, n, g)
  PROVE  \E read : InTurn(fold, base, value, n, read) /\ read[n] = g[1..n]
<1> DEFINE read == [i \in 0..n |-> g[1..i]]
<1>1. read[0] = base
  <2>1. 1..0 = {} /\ {} \in SUBSET (1..n)
    OBVIOUS
  <2>2. QED BY <2>1 DEF Taken, IsFold
<1>2. ASSUME NEW i \in 1..n PROVE read[i] = Step(fold, read[i - 1], value[i])
  <2>1. 1..i \in SUBSET (1..n) /\ i \in Nat /\ 1..i # {} /\ i \in 1..i
    OBVIOUS
  <2>2. Max(1..i) = i /\ (1..i) \ {i} = 1..(i - 1)
    BY <2>1, UpTo
  <2>3. g[1..i] = Step(fold, g[1..(i - 1)], value[i])
    BY <2>1, <2>2 DEF Taken, IsFold
  <2>4. i \in 0..n /\ i - 1 \in 0..n
    OBVIOUS
  <2>5. QED BY <2>3, <2>4
<1>3. read[n] = g[1..n]
  OBVIOUS
<1> HIDE DEF read
<1>4. QED BY <1>1, <1>2, <1>3 DEF InTurn

\* Each fold as a function of how many members were taken.
LEMMA OrderInTurn ==
  ASSUME NEW p, NEW n \in Nat, DOMAIN p.targets = 1..n
  PROVE  \E read : /\ InTurn([of |-> "order", p |-> p], <<>>, p.targets, n, read)
                   /\ TopologicalOrder(p) = read[n]
<1> DEFINE fold == [of |-> "order", p |-> p]
           base == <<>>
           value == p.targets
           E(a, x) == IF Ready(p, a) = {} THEN a ELSE Append(a, Min(Ready(p, a)))
           Body(g, s) == IF s = {} THEN base ELSE E(g[s \ {Max(s)}], value[Max(s)])
           Run1(g) == g = [s \in SUBSET (1..n) |-> Body(g, s)]
           iter == CHOOSE g : Run1(g)
<1>1. TopologicalOrder(p) = iter[1..n]
  BY DEF TopologicalOrder, FoldLeft, MapThenFoldSet
<1>2. \A a, x : Step(fold, a, x) = E(a, x)
  BY DEF Step
<1> HIDE DEF fold, base, value, E
<1>3. \A g, s : Body(g, s) = Taken(fold, base, value, g, s)
  BY <1>2 DEF Taken
<1> HIDE DEF Body
<1>4. ASSUME NEW g PROVE Run1(g) <=> IsFold(fold, base, value, n, g)
  BY <1>3 DEF IsFold
<1>5. IsFold(fold, base, value, n, iter)
  <2> HIDE DEF Run1
  <2>1. \E g : Run1(g)
    BY <1>4, FoldExists
  <2>2. Run1(iter)
    BY <2>1
  <2> HIDE DEF iter
  <2>3. QED BY <1>4, <2>2
<1> HIDE DEF iter
<1>6. PICK read : InTurn(fold, base, value, n, read) /\ read[n] = iter[1..n]
  BY <1>5, FoldInTurn
<1>7. QED BY <1>1, <1>6 DEF fold, base, value

\* root_closures, target by target.
LEMMA ClosureInTurn ==
  ASSUME NEW p, NEW n \in Nat, DOMAIN p.targets = 1..n, NEW root
  PROVE  \E read : /\ InTurn([of |-> "closure", p |-> p],
                             {id \in Ids(p) : root \in Target(p, id).roots}, p.targets, n, read)
                   /\ Closure(p, root) = read[n]
<1> DEFINE fold == [of |-> "closure", p |-> p]
           base == {id \in Ids(p) : root \in Target(p, id).roots}
           value == p.targets
           E(a, x) == a \cup UNION {Below(p, id) : id \in a}
           Body(g, s) == IF s = {} THEN base ELSE E(g[s \ {Max(s)}], value[Max(s)])
           Run1(g) == g = [s \in SUBSET (1..n) |-> Body(g, s)]
           iter == CHOOSE g : Run1(g)
<1>1. Closure(p, root) = iter[1..n]
  BY DEF Closure, FoldLeft, MapThenFoldSet
<1>2. \A a, x : Step(fold, a, x) = E(a, x)
  BY DEF Step
<1> HIDE DEF fold, base, value, E
<1>3. \A g, s : Body(g, s) = Taken(fold, base, value, g, s)
  BY <1>2 DEF Taken
<1> HIDE DEF Body
<1>4. ASSUME NEW g PROVE Run1(g) <=> IsFold(fold, base, value, n, g)
  BY <1>3 DEF IsFold
<1>5. IsFold(fold, base, value, n, iter)
  <2> HIDE DEF Run1
  <2>1. \E g : Run1(g)
    BY <1>4, FoldExists
  <2>2. Run1(iter)
    BY <2>1
  <2> HIDE DEF iter
  <2>3. QED BY <1>4, <2>2
<1> HIDE DEF iter
<1>6. PICK read : InTurn(fold, base, value, n, read) /\ read[n] = iter[1..n]
  BY <1>5, FoldInTurn
<1>7. QED BY <1>1, <1>6 DEF fold, base, value

\* critical_path's table, in dependency order.
LEMMA ChainsInTurn ==
  ASSUME NEW p, NEW n \in Nat, DOMAIN TopologicalOrder(p) = 1..n
  PROVE  \E read : /\ InTurn([of |-> "chains", p |-> p], <<>>, TopologicalOrder(p), n, read)
                   /\ BestChains(p) = read[n]
<1> DEFINE fold == [of |-> "chains", p |-> p]
           base == <<>>
           value == TopologicalOrder(p)
           E(a, x) == Extended(p, a, x, Heaviest(a, Below(p, x)))
           Body(g, s) == IF s = {} THEN base ELSE E(g[s \ {Max(s)}], value[Max(s)])
           Run1(g) == g = [s \in SUBSET (1..n) |-> Body(g, s)]
           iter == CHOOSE g : Run1(g)
<1>1. BestChains(p) = iter[1..n]
  BY DEF BestChains, FoldLeft, MapThenFoldSet
<1>2. \A a, x : Step(fold, a, x) = E(a, x)
  BY DEF Step
<1> HIDE DEF fold, base, value, E
<1>3. \A g, s : Body(g, s) = Taken(fold, base, value, g, s)
  BY <1>2 DEF Taken
<1> HIDE DEF Body
<1>4. ASSUME NEW g PROVE Run1(g) <=> IsFold(fold, base, value, n, g)
  BY <1>3 DEF IsFold
<1>5. IsFold(fold, base, value, n, iter)
  <2> HIDE DEF Run1
  <2>1. \E g : Run1(g)
    BY <1>4, FoldExists
  <2>2. Run1(iter)
    BY <2>1
  <2> HIDE DEF iter
  <2>3. QED BY <1>4, <2>2
<1> HIDE DEF iter
<1>6. PICK read : InTurn(fold, base, value, n, read) /\ read[n] = iter[1..n]
  BY <1>5, FoldInTurn
<1>7. QED BY <1>1, <1>6 DEF fold, base, value

\* critical_path's way back along the table.
LEMMA TraceInTurn ==
  ASSUME NEW best, NEW id, NEW rounds, NEW n \in Nat, DOMAIN rounds = 1..n
  PROVE  \E read : /\ InTurn([of |-> "trace", best |-> best], <<id>>, rounds, n, read)
                   /\ Trace(best, id, rounds) = read[n]
<1> DEFINE fold == [of |-> "trace", best |-> best]
           base == <<id>>
           value == rounds
           E(a, x) == IF best[Head(a)].from = None THEN a ELSE <<best[Head(a)].from>> \o a
           Body(g, s) == IF s = {} THEN base ELSE E(g[s \ {Max(s)}], value[Max(s)])
           Run1(g) == g = [s \in SUBSET (1..n) |-> Body(g, s)]
           iter == CHOOSE g : Run1(g)
<1>1. Trace(best, id, rounds) = iter[1..n]
  BY DEF Trace, FoldLeft, MapThenFoldSet
<1>2. \A a, x : Step(fold, a, x) = E(a, x)
  BY DEF Step
<1> HIDE DEF fold, base, value, E
<1>3. \A g, s : Body(g, s) = Taken(fold, base, value, g, s)
  BY <1>2 DEF Taken
<1> HIDE DEF Body
<1>4. ASSUME NEW g PROVE Run1(g) <=> IsFold(fold, base, value, n, g)
  BY <1>3 DEF IsFold
<1>5. IsFold(fold, base, value, n, iter)
  <2> HIDE DEF Run1
  <2>1. \E g : Run1(g)
    BY <1>4, FoldExists
  <2>2. Run1(iter)
    BY <2>1
  <2> HIDE DEF iter
  <2>3. QED BY <1>4, <2>2
<1> HIDE DEF iter
<1>6. PICK read : InTurn(fold, base, value, n, read) /\ read[n] = iter[1..n]
  BY <1>5, FoldInTurn
<1>7. QED BY <1>1, <1>6 DEF fold, base, value

\* group_roots, root by root.
LEMMA GroupsInTurn ==
  ASSUME NEW p, NEW w, NEW n \in Nat, DOMAIN InOrder(Roots(p), Heavier(p)) = 1..n
  PROVE  \E read : /\ InTurn([of |-> "groups", p |-> p], [i \in 1..w |-> {}],
                             InOrder(Roots(p), Heavier(p)), n, read)
                   /\ Placed(p, w) = read[n]
<1> DEFINE fold == [of |-> "groups", p |-> p]
           base == [i \in 1..w |-> {}]
           value == InOrder(Roots(p), Heavier(p))
           E(a, x) == [a EXCEPT ![Chosen(p, a, x)] = @ \cup {x}]
           Body(g, s) == IF s = {} THEN base ELSE E(g[s \ {Max(s)}], value[Max(s)])
           Run1(g) == g = [s \in SUBSET (1..n) |-> Body(g, s)]
           iter == CHOOSE g : Run1(g)
<1>1. Placed(p, w) = iter[1..n]
  BY DEF Placed, FoldLeft, MapThenFoldSet
<1>2. \A a, x : Step(fold, a, x) = E(a, x)
  BY DEF Step
<1> HIDE DEF fold, base, value, E
<1>3. \A g, s : Body(g, s) = Taken(fold, base, value, g, s)
  BY <1>2 DEF Taken
<1> HIDE DEF Body
<1>4. ASSUME NEW g PROVE Run1(g) <=> IsFold(fold, base, value, n, g)
  BY <1>3 DEF IsFold
<1>5. IsFold(fold, base, value, n, iter)
  <2> HIDE DEF Run1
  <2>1. \E g : Run1(g)
    BY <1>4, FoldExists
  <2>2. Run1(iter)
    BY <2>1
  <2> HIDE DEF iter
  <2>3. QED BY <1>4, <2>2
<1> HIDE DEF iter
<1>6. PICK read : InTurn(fold, base, value, n, read) /\ read[n] = iter[1..n]
  BY <1>5, FoldInTurn
<1>7. QED BY <1>1, <1>6 DEF fold, base, value

\* best_worker_count, count by count.
LEMMA WorkersInTurn ==
  ASSUME NEW walls, NEW single, NEW n \in Nat
  PROVE  \E read : /\ InTurn([of |-> "workers", walls |-> walls],
                             [wall |-> single, workers |-> 1], [i \in 1..n |-> i], n, read)
                   /\ BestOf(walls, single, n) = read[n].workers
<1> DEFINE fold == [of |-> "workers", walls |-> walls]
           base == [wall |-> single, workers |-> 1]
           value == [i \in 1..n |-> i]
           E(a, x) == IF x \in DOMAIN walls /\ walls[x] < a.wall
                        THEN [wall |-> walls[x], workers |-> x] ELSE a
           Body(g, s) == IF s = {} THEN base ELSE E(g[s \ {Max(s)}], value[Max(s)])
           Run1(g) == g = [s \in SUBSET (1..n) |-> Body(g, s)]
           iter == CHOOSE g : Run1(g)
<1>1. BestOf(walls, single, n) = iter[1..n].workers
  BY DEF BestOf, FoldLeft, MapThenFoldSet
<1>2. \A a, x : Step(fold, a, x) = E(a, x)
  BY DEF Step
<1> HIDE DEF fold, base, value, E
<1>3. \A g, s : Body(g, s) = Taken(fold, base, value, g, s)
  BY <1>2 DEF Taken
<1> HIDE DEF Body
<1>4. ASSUME NEW g PROVE Run1(g) <=> IsFold(fold, base, value, n, g)
  BY <1>3 DEF IsFold
<1>5. IsFold(fold, base, value, n, iter)
  <2> HIDE DEF Run1
  <2>1. \E g : Run1(g)
    BY <1>4, FoldExists
  <2>2. Run1(iter)
    BY <2>1
  <2> HIDE DEF iter
  <2>3. QED BY <1>4, <2>2
<1> HIDE DEF iter
<1>6. PICK read : InTurn(fold, base, value, n, read) /\ read[n] = iter[1..n]
  BY <1>5, FoldInTurn
<1>7. QED BY <1>1, <1>6 DEF fold, base, value

--------------------------------------------------------------------------------
(* The members of a set in the order they are taken in *)

Linear(S, before) ==
  /\ \A x \in S : <<x, x>> \notin before
  /\ \A x, y \in S : x = y \/ <<x, y>> \in before \/ <<y, x>> \in before
  /\ \A x, y, z \in S : <<x, y>> \in before /\ <<y, z>> \in before => <<x, z>> \in before

\* How many come before.
Rank(S, before, x) == Cardinality({y \in S : <<y, x>> \in before})

\* Of two members, the later one has more before it.
LEMMA RankGrows ==
  ASSUME NEW S, IsFiniteSet(S), NEW before, Linear(S, before), NEW x \in S
  PROVE  /\ Rank(S, before, x) \in 0..(Cardinality(S) - 1)
         /\ \A y \in S : <<x, y>> \in before => Rank(S, before, x) < Rank(S, before, y)
<1>1. ASSUME NEW T \in SUBSET S, {y \in S : <<y, x>> \in before} \cup {x} \subseteq T
      PROVE  /\ Rank(S, before, x) \in Nat /\ Cardinality(T) \in Nat
             /\ Rank(S, before, x) + 1 <= Cardinality(T)
  <2> DEFINE below == {y \in S : <<y, x>> \in before}
  <2>1. IsFiniteSet(below) /\ IsFiniteSet(T)
    BY FS_Subset
  <2>2. x \notin below /\ below \cup {x} \in SUBSET T
    BY <1>1 DEF Linear
  <2> HIDE DEF below
  <2>3. Cardinality(below \cup {x}) = Cardinality(below) + 1
    BY <2>1, <2>2, FS_AddElement
  <2>4. Cardinality(below \cup {x}) <= Cardinality(T)
    BY <2>1, <2>2, FS_Subset
  <2>5. Cardinality(below) \in Nat /\ Cardinality(T) \in Nat
    BY <2>1, FS_CardinalityType
  <2>6. QED BY <2>3, <2>4, <2>5 DEF Rank, below
<1>2. Rank(S, before, x) \in 0..(Cardinality(S) - 1)
  <2>1. /\ Rank(S, before, x) \in Nat /\ Cardinality(S) \in Nat
        /\ Rank(S, before, x) + 1 <= Cardinality(S)
    BY <1>1
  <2>2. QED BY <2>1
<1>3. ASSUME NEW y \in S, <<x, y>> \in before PROVE Rank(S, before, x) < Rank(S, before, y)
  <2> DEFINE T == {z \in S : <<z, y>> \in before}
  <2>1. T \in SUBSET S /\ {z \in S : <<z, x>> \in before} \cup {x} \subseteq T
    BY <1>3 DEF Linear
  <2> HIDE DEF T
  <2>2. /\ Rank(S, before, x) \in Nat /\ Cardinality(T) \in Nat
        /\ Rank(S, before, x) + 1 <= Cardinality(T)
    BY <1>1, <2>1
  <2>3. QED BY <2>2 DEF Rank, T
<1>4. QED BY <1>2, <1>3

\* Every member is listed once, after those that come before it.
LEMMA InOrderLists ==
  ASSUME NEW S, IsFiniteSet(S), NEW before, Linear(S, before)
  PROVE  /\ DOMAIN InOrder(S, before) = 1..Cardinality(S) /\ Cardinality(S) \in Nat
         /\ \A i \in 1..Cardinality(S) : InOrder(S, before)[i] \in S
         /\ \A i, j \in 1..Cardinality(S) :
              i < j => <<InOrder(S, before)[i], InOrder(S, before)[j]>> \in before
         /\ \A x \in S : \E i \in 1..Cardinality(S) : x = InOrder(S, before)[i]
<1> DEFINE n == Cardinality(S)
           rank == [x \in S |-> Rank(S, before, x)]
           list == InOrder(S, before)
<1>1. n \in Nat
  BY FS_CardinalityType
<1>2. rank \in Injection(S, 0..(n - 1))
  <2>1. rank \in [S -> 0..(n - 1)]
    BY RankGrows
  <2>2. ASSUME NEW x \in S, NEW y \in S, rank[x] = rank[y] PROVE x = y
    <3>1. Rank(S, before, x) = Rank(S, before, y) /\ Rank(S, before, x) \in Int
      BY <2>2, RankGrows
    <3>2. ~(<<x, y>> \in before) /\ ~(<<y, x>> \in before)
      BY <3>1, RankGrows
    <3>3. QED BY <3>2 DEF Linear
  <2> HIDE DEF rank
  <2>3. QED BY <2>1, <2>2 DEF Injection, IsInjective
<1>3. \A i \in 1..n : \E x \in S : Rank(S, before, x) = i - 1
  <2>1. IsFiniteSet(0..(n - 1)) /\ Cardinality(0..(n - 1)) = n
    <3>1. 0 \in Int /\ n - 1 \in Int
      BY <1>1
    <3>2. QED BY <1>1, <3>1, FS_Interval
  <2>2. rank \in Surjection(S, 0..(n - 1))
    BY <1>2, <2>1, FS_Injection DEF n
  <2>3. \A i \in 1..n : i - 1 \in 0..(n - 1)
    BY <1>1
  <2>4. QED BY <2>2, <2>3 DEF Surjection
<1>4. DOMAIN list = 1..n
  BY DEF InOrder
<1>5. ASSUME NEW i \in 1..n PROVE list[i] \in S /\ Rank(S, before, list[i]) = i - 1
  BY <1>3 DEF InOrder, Rank
<1> HIDE DEF rank
<1>6. ASSUME NEW i \in 1..n, NEW j \in 1..n, i < j PROVE <<list[i], list[j]>> \in before
  <2> DEFINE x == list[i]
             y == list[j]
  <2>1. x \in S /\ y \in S /\ Rank(S, before, x) = i - 1 /\ Rank(S, before, y) = j - 1
    BY <1>5
  <2> HIDE DEF x, y
  <2>2. ~(<<y, x>> \in before) /\ x # y
    <3>1. <<y, x>> \in before => Rank(S, before, y) < Rank(S, before, x)
      BY <2>1, RankGrows
    <3>2. QED BY <1>1, <1>6, <2>1, <3>1
  <2>3. <<x, y>> \in before
    BY <2>1, <2>2 DEF Linear
  <2>4. QED BY <2>3 DEF x, y
<1>7. ASSUME NEW x \in S PROVE \E i \in 1..n : x = list[i]
  <2>1. Rank(S, before, x) \in 0..(n - 1)
    BY RankGrows
  <2> DEFINE i == Rank(S, before, x) + 1
             y == list[i]
  <2>2. i \in 1..n /\ i - 1 = Rank(S, before, x)
    BY <1>1, <2>1
  <2>3. y \in S /\ Rank(S, before, y) = Rank(S, before, x) /\ Rank(S, before, x) \in Int
    BY <1>5, <2>1, <2>2
  <2> HIDE DEF y, i
  <2>4. ~(<<x, y>> \in before) /\ ~(<<y, x>> \in before)
    BY <2>3, RankGrows
  <2>5. x = y
    BY <2>3, <2>4 DEF Linear
  <2>6. QED BY <2>2, <2>5 DEF y
<1>8. QED BY <1>1, <1>4, <1>5, <1>6, <1>7 DEF n

\* None is listed twice.
LEMMA InOrderOnce ==
  ASSUME NEW S, IsFiniteSet(S), NEW before, Linear(S, before),
         NEW i \in 1..Cardinality(S), NEW j \in 1..Cardinality(S),
         InOrder(S, before)[i] = InOrder(S, before)[j]
  PROVE  i = j
<1>1. /\ i < j => <<InOrder(S, before)[i], InOrder(S, before)[j]>> \in before
      /\ j < i => <<InOrder(S, before)[j], InOrder(S, before)[i]>> \in before
      /\ InOrder(S, before)[i] \in S
  BY InOrderLists
<1>2. ~(i < j) /\ ~(j < i)
  BY <1>1 DEF Linear
<1>3. QED BY <1>2

\* Numbers from 1 on are listed as they are.
LEMMA InOrderUpTo ==
  ASSUME NEW w \in Nat, NEW S \in SUBSET (1..w), NEW before,
         \A i, j \in S : <<i, j>> \in before <=> i < j
  PROVE  /\ Linear(S, before)
         /\ Cardinality(S) = w => \A i \in 1..w : InOrder(S, before)[i] = i
<1>1. Linear(S, before)
  BY DEF Linear
<1>2. ASSUME Cardinality(S) = w, NEW i \in 1..w PROVE InOrder(S, before)[i] = i
  <2>1. S = 1..w
    <3>1. 1 \in Int /\ w \in Int /\ IsFiniteSet(1..w) /\ Cardinality(1..w) = w
      BY FS_Interval
    <3>2. QED BY <1>2, <3>1, FS_Subset
  <2>2. {y \in S : <<y, i>> \in before} = 1..(i - 1)
    BY <2>1
  <2>3. Cardinality({y \in S : <<y, i>> \in before}) = i - 1
    <3>1. 1 \in Int /\ i - 1 \in Int /\ Cardinality(1..(i - 1)) = i - 1
      BY FS_Interval
    <3>2. QED BY <2>2, <3>1
  <2>4. IsFiniteSet(S)
    BY <2>1, FS_Interval
  <2>5. PICK k \in 1..w : InOrder(S, before)[k] = i
    <3>1. i \in S
      BY <2>1
    <3>2. \E k \in 1..Cardinality(S) : i = InOrder(S, before)[k]
      BY <1>1, <2>4, <3>1, InOrderLists
    <3>3. QED BY <1>2, <3>2
  <2>6. \E x \in S : Cardinality({y \in S : <<y, x>> \in before}) = k - 1
    <3>1. {y \in S : <<y, k>> \in before} = 1..(k - 1)
      BY <2>1
    <3>2. 1 \in Int /\ k - 1 \in Int /\ Cardinality(1..(k - 1)) = k - 1
      BY FS_Interval
    <3>3. QED BY <2>1, <3>1, <3>2
  <2>7. Cardinality({y \in S : <<y, i>> \in before}) = k - 1
    BY <1>2, <2>5, <2>6 DEF InOrder
  <2>8. k = i
    BY <2>3, <2>7
  <2>9. QED BY <2>5, <2>8
<1>3. QED BY <1>1, <1>2

--------------------------------------------------------------------------------
(* What a set of targets costs *)

\* Finitely many targets, each with a duration.
Weighs(p) == IsFiniteSet(Ids(p)) /\ \A id \in Ids(p) : Duration(p, id) \in 0..MaxMs

\* Saturating addition: commutative, associative, monotone.
LEMMA AddFacts ==
  /\ \A a, b \in 0..MaxMs : Add(a, b) \in 0..MaxMs /\ a <= Add(a, b) /\ Add(a, b) = Add(b, a)
  /\ \A a, b, c \in 0..MaxMs : /\ Add(Add(a, b), c) = Add(Add(a, c), b)
                               /\ Add(Add(a, b), c) = Add(a, Add(b, c))
                               /\ a <= b => Add(a, c) <= Add(b, c)
  /\ \A a \in 0..MaxMs : Add(a, 0) = a /\ Add(0, a) = a
BY PlannerAssumption DEF Add

OneOf(s) == CHOOSE x \in s : TRUE
Added(p, g, s) == IF s = {} THEN 0 ELSE Add(g[s \ {OneOf(s)}], Duration(p, OneOf(s)))
IsSum(p, S, g) == g = [s \in SUBSET S |-> Added(p, g, s)]

\* A sum is well defined.
LEMMA SumExists ==
  ASSUME NEW p, NEW S, IsFiniteSet(S)
  PROVE  \E g : IsSum(p, S, g)
<1> DEFINE n == Cardinality(S)
           Small(m) == {s \in SUBSET S : Cardinality(s) <= m}
           P == {m \in 0..n : \E g : g = [s \in Small(m) |-> Added(p, g, s)]}
<1>1. n \in Nat /\ \A s \in SUBSET S : IsFiniteSet(s) /\ Cardinality(s) \in 0..n
  BY FS_CardinalityType, FS_Subset
<1>2. ASSUME NEW s \in SUBSET S, s # {}
      PROVE  s \ {OneOf(s)} \in SUBSET S /\ Cardinality(s \ {OneOf(s)}) = Cardinality(s) - 1
  BY <1>1, <1>2, FS_RemoveElement DEF OneOf
<1>3. 0 \in P
  <2> DEFINE g == [s \in Small(0) |-> 0]
  <2>1. \A s \in Small(0) : s = {}
    <3>1. ASSUME NEW s \in Small(0) PROVE s = {}
      <4>1. Cardinality(s) = 0 /\ IsFiniteSet(s)
        BY <1>1
      <4>2. QED BY <4>1, FS_EmptySet
    <3>2. QED BY <3>1
  <2>2. g = [s \in Small(0) |-> Added(p, g, s)]
    BY <2>1 DEF Added
  <2> HIDE DEF g, Small
  <2>3. \E h : h = [s \in Small(0) |-> Added(p, h, s)]
    BY <2>2
  <2>4. QED BY <1>1, <2>3
<1>4. ASSUME NEW m \in 1..n, m - 1 \in P PROVE m \in P
  <2>1. PICK g : g = [s \in Small(m - 1) |-> Added(p, g, s)]
    BY <1>4
  <2> DEFINE h == [s \in Small(m) |-> Added(p, g, s)]
  <2>2. ASSUME NEW s \in Small(m) PROVE Added(p, g, s) = Added(p, h, s)
    <3>1. CASE s = {}
      BY <3>1 DEF Added
    <3>2. CASE s # {}
      <4> DEFINE t == s \ {OneOf(s)}
      <4>1. t \in SUBSET S /\ Cardinality(t) = Cardinality(s) - 1 /\ Cardinality(s) \in Nat
        BY <1>1, <1>2, <3>2
      <4>2. t \in Small(m - 1) /\ t \in Small(m)
        BY <4>1
      <4>3. g[t] = Added(p, g, t) /\ h[t] = Added(p, g, t)
        <5> HIDE DEF t, Small
        <5>1. QED BY <2>1, <4>2
      <4>4. QED BY <3>2, <4>3 DEF Added
    <3>3. QED BY <3>1, <3>2
  <2>3. h = [s \in Small(m) |-> Added(p, h, s)]
    BY <2>2
  <2> HIDE DEF h, Small
  <2>4. \E k : k = [s \in Small(m) |-> Added(p, k, s)]
    BY <2>3
  <2>5. QED BY <2>4
<1>5. n \in P
  <2> HIDE DEF P
  <2>1. QED BY <1>1, <1>3, <1>4, OneByOne
<1>6. Small(n) = SUBSET S
  BY <1>1
<1>7. QED BY <1>5, <1>6 DEF IsSum

\* The sums over the subsets of a set do not depend on the order or on that set.
LEMMA SumsAgree ==
  ASSUME NEW p, NEW S, NEW T, IsFiniteSet(S), IsFiniteSet(T), NEW g, NEW h, IsSum(p, S, g), IsSum(p, T, h)
  PROVE  \A s \in SUBSET (S \cap T) : g[s] = h[s]
<1> DEFINE n == Cardinality(S)
           P == {m \in 0..n : \A s \in SUBSET (S \cap T) : Cardinality(s) = m => g[s] = h[s]}
<1>1. n \in Nat /\ \A s \in SUBSET (S \cap T) : IsFiniteSet(s) /\ Cardinality(s) \in 0..n
  <2>1. \A s \in SUBSET (S \cap T) : s \in SUBSET S
    OBVIOUS
  <2>2. QED BY <2>1, FS_CardinalityType, FS_Subset
<1>2. \A s \in SUBSET (S \cap T) : g[s] = Added(p, g, s) /\ h[s] = Added(p, h, s)
  BY DEF IsSum
<1>3. 0 \in P
  <2>1. ASSUME NEW s \in SUBSET (S \cap T), Cardinality(s) = 0 PROVE g[s] = h[s]
    <3>1. s = {}
      BY <1>1, <2>1, FS_EmptySet
    <3>2. QED BY <1>2, <3>1 DEF Added
  <2>2. QED BY <1>1, <2>1
<1>4. ASSUME NEW m \in 1..n, m - 1 \in P PROVE m \in P
  <2>1. ASSUME NEW s \in SUBSET (S \cap T), Cardinality(s) = m PROVE g[s] = h[s]
    <3>1. s # {}
      BY <2>1, FS_EmptySet
    <3> DEFINE t == s \ {OneOf(s)}
    <3>2. Cardinality(t) = m - 1
      BY <1>1, <2>1, <3>1, FS_RemoveElement DEF OneOf
    <3>3. t \in SUBSET (S \cap T)
      OBVIOUS
    <3> HIDE DEF t
    <3>4. g[t] = h[t]
      BY <1>4, <3>2, <3>3
    <3>5. QED BY <1>2, <3>1, <3>4 DEF Added, t
  <2>2. QED BY <2>1
<1>5. \A m \in 0..n : m \in P
  <2> HIDE DEF P
  <2>1. QED BY <1>1, <1>3, <1>4, OneByOne
<1>6. QED BY <1>1, <1>5

\* Each target adds its duration, whatever the order they are counted in.
LEMMA CostGrows ==
  ASSUME NEW p, Weighs(p)
  PROVE  /\ Cost(p, {}) = 0
         /\ \A S \in SUBSET Ids(p) : Cost(p, S) \in 0..MaxMs
         /\ \A S \in SUBSET Ids(p) : \A x \in Ids(p) \ S :
              Cost(p, S \cup {x}) = Add(Cost(p, S), Duration(p, x))
<1> DEFINE U == Ids(p)
           n == Cardinality(U)
<1>1. IsFiniteSet(U) /\ (\A id \in U : Duration(p, id) \in 0..MaxMs) /\ n \in Nat
  BY FS_CardinalityType DEF Weighs
<1>2. \A s \in SUBSET U : IsFiniteSet(s) /\ Cardinality(s) \in 0..n
  BY <1>1, FS_CardinalityType, FS_Subset
<1> HIDE DEF U, n
<1>3. PICK g : IsSum(p, U, g)
  BY <1>1, SumExists
<1>4. \A s \in SUBSET U : g[s] = Added(p, g, s)
  BY <1>3 DEF IsSum
<1>5. ASSUME NEW S \in SUBSET U PROVE Cost(p, S) = g[S]
  <2> DEFINE Body(h, s) == IF s = {} THEN 0
                           ELSE Add(h[s \ {CHOOSE x \in s : TRUE}],
                                    Duration(p, CHOOSE x \in s : TRUE))
             Run1(h) == h = [s \in SUBSET S |-> Body(h, s)]
             iter == CHOOSE h : Run1(h)
  <2>1. Cost(p, S) = iter[S]
    BY DEF Cost, FoldSet, MapThenFoldSet
  <2>2. \A h, s : Body(h, s) = Added(p, h, s)
    BY DEF Added, OneOf
  <2> HIDE DEF Body
  <2>3. ASSUME NEW h PROVE Run1(h) <=> IsSum(p, S, h)
    BY <2>2 DEF IsSum
  <2>4. IsSum(p, S, iter)
    <3> HIDE DEF Run1
    <3>1. \E h : Run1(h)
      BY <1>2, <2>3, SumExists
    <3>2. Run1(iter)
      BY <3>1
    <3> HIDE DEF iter
    <3>3. QED BY <2>3, <3>2
  <2> HIDE DEF iter
  <2>5. QED BY <1>1, <1>2, <1>3, <2>1, <2>4, SumsAgree
<1>6. \A s \in SUBSET U : g[s] \in 0..MaxMs
  <2> DEFINE P == {m \in 0..n : \A s \in SUBSET U : Cardinality(s) = m => g[s] \in 0..MaxMs}
  <2>1. 0 \in P
    <3>1. ASSUME NEW s \in SUBSET U, Cardinality(s) = 0 PROVE g[s] \in 0..MaxMs
      <4>1. s = {}
        BY <1>2, <3>1, FS_EmptySet
      <4>2. g[s] = 0
        BY <1>4, <4>1 DEF Added
      <4>3. QED BY <4>2, PlannerAssumption
    <3>2. QED BY <1>1, <3>1
  <2>2. ASSUME NEW m \in 1..n, m - 1 \in P PROVE m \in P
    <3>1. ASSUME NEW s \in SUBSET U, Cardinality(s) = m PROVE g[s] \in 0..MaxMs
      <4> DEFINE c == OneOf(s)
                 t == s \ {c}
      <4>1. s # {} /\ IsFiniteSet(s)
        BY <1>2, <3>1, FS_EmptySet
      <4>2. c \in s /\ g[s] = Add(g[t], Duration(p, c))
        BY <1>4, <4>1 DEF Added, OneOf
      <4> HIDE DEF c
      <4>3. t \in SUBSET U /\ Cardinality(t) = m - 1
        BY <3>1, <4>1, <4>2, FS_RemoveElement
      <4> HIDE DEF t
      <4>4. g[t] \in 0..MaxMs /\ Duration(p, c) \in 0..MaxMs
        BY <1>1, <2>2, <4>2, <4>3
      <4>5. QED BY <4>2, <4>4, AddFacts
    <3>2. QED BY <3>1
  <2>3. \A m \in 0..n : m \in P
    <3> HIDE DEF P
    <3>1. QED BY <1>1, <2>1, <2>2, OneByOne
  <2>4. QED BY <1>2, <2>3
<1> DEFINE Sums(s) == \A x \in s : g[s] = Add(g[s \ {x}], Duration(p, x))
           P == {m \in 0..n : \A s \in SUBSET U : Cardinality(s) = m => Sums(s)}
<1>7. 0 \in P
  <2>1. ASSUME NEW s \in SUBSET U, Cardinality(s) = 0 PROVE Sums(s)
    <3>1. s = {}
      BY <1>2, <2>1, FS_EmptySet
    <3>2. QED BY <3>1
  <2> HIDE DEF Sums
  <2>2. QED BY <1>1, <2>1
<1>8. ASSUME NEW m \in 1..n, m - 1 \in P PROVE m \in P
  <2>1. ASSUME NEW s \in SUBSET U, Cardinality(s) = m PROVE Sums(s)
    <3> DEFINE c == OneOf(s)
    <3>1. s # {} /\ IsFiniteSet(s)
      BY <1>2, <2>1, FS_EmptySet
    <3>2. c \in s /\ g[s] = Add(g[s \ {c}], Duration(p, c))
      BY <1>4, <3>1 DEF Added, OneOf
    <3> HIDE DEF c
    <3>3. ASSUME NEW x \in s PROVE  Sums(s \ {x})
      <4>1. s \ {x} \in SUBSET U /\ Cardinality(s \ {x}) = m - 1
        BY <2>1, <3>1, FS_RemoveElement
      <4> HIDE DEF Sums
      <4>2. QED BY <1>8, <4>1
    <3>4. \A x \in s : Duration(p, x) \in 0..MaxMs
      BY <1>1
    <3>5. ASSUME NEW x \in s, x # c PROVE g[s] = Add(g[s \ {x}], Duration(p, x))
      <4> DEFINE r == s \ {x, c}
      <4>1. (s \ {c}) \ {x} = r /\ (s \ {x}) \ {c} = r /\ r \in SUBSET U
        OBVIOUS
      <4>2. x \in s \ {c} /\ c \in s \ {x}
        BY <3>2, <3>5
      <4> HIDE DEF r
      <4>3. Sums(s \ {x}) /\ Sums(s \ {c})
        <5> HIDE DEF Sums
        <5>1. QED BY <3>2, <3>3
      <4>4. g[s \ {c}] = Add(g[r], Duration(p, x)) /\ g[s \ {x}] = Add(g[r], Duration(p, c))
        BY <4>1, <4>2, <4>3
      <4>5. g[r] \in 0..MaxMs /\ Duration(p, x) \in 0..MaxMs /\ Duration(p, c) \in 0..MaxMs
        BY <1>6, <3>2, <3>4, <4>1
      <4>6. QED BY <3>2, <4>4, <4>5, AddFacts
    <3>6. QED BY <3>2, <3>5
  <2> HIDE DEF Sums
  <2>2. QED BY <2>1
<1>9. \A s \in SUBSET U : Sums(s)
  <2>1. \A m \in 0..n : m \in P
    <3> HIDE DEF P
    <3>1. QED BY <1>1, <1>7, <1>8, OneByOne
  <2> HIDE DEF Sums
  <2>2. QED BY <1>2, <2>1
<1>10. ASSUME NEW S \in SUBSET U, NEW x \in U \ S
       PROVE  Cost(p, S \cup {x}) = Add(Cost(p, S), Duration(p, x))
  <2>1. S \cup {x} \in SUBSET U /\ (S \cup {x}) \ {x} = S /\ x \in S \cup {x}
    OBVIOUS
  <2>2. g[S \cup {x}] = Add(g[(S \cup {x}) \ {x}], Duration(p, x))
    BY <1>9, <2>1
  <2>3. QED BY <1>5, <2>1, <2>2
<1>11. Cost(p, {}) = 0
  BY <1>4, <1>5 DEF Added
<1>12. QED BY <1>5, <1>6, <1>10, <1>11 DEF U

\* More targets cost no less.
LEMMA CostMonotone ==
  ASSUME NEW p, Weighs(p), NEW B \in SUBSET Ids(p), NEW A \in SUBSET B
  PROVE  Cost(p, A) <= Cost(p, B)
<1> DEFINE n == Cardinality(B)
           P == {m \in 0..n : \A s \in SUBSET B :
                   A \subseteq s /\ Cardinality(s) = m => Cost(p, A) <= Cost(p, s)}
<1>1. /\ n \in Nat /\ IsFiniteSet(B)
      /\ \A s \in SUBSET B : IsFiniteSet(s) /\ Cardinality(s) \in Nat /\ s \in SUBSET Ids(p)
  BY FS_CardinalityType, FS_Subset DEF Weighs
<1>2. Cost(p, A) \in 0..MaxMs
  BY CostGrows
<1>3. 0 \in P
  <2>1. ASSUME NEW s \in SUBSET B, A \subseteq s, Cardinality(s) = 0
        PROVE  Cost(p, A) <= Cost(p, s)
    <3>1. s = {} /\ A = s
      BY <1>1, <2>1, FS_EmptySet
    <3>2. QED BY <1>2, <3>1
  <2>2. QED BY <1>1, <2>1
<1>4. ASSUME NEW m \in 1..n, m - 1 \in P PROVE m \in P
  <2>1. ASSUME NEW s \in SUBSET B, A \subseteq s, Cardinality(s) = m
        PROVE  Cost(p, A) <= Cost(p, s)
    <3>1. CASE A = s
      BY <1>2, <3>1
    <3>2. CASE A # s
      <4>1. PICK x \in s : x \notin A
        BY <2>1, <3>2
      <4> DEFINE t == s \ {x}
      <4>2. Cardinality(t) = m - 1
        BY <1>1, <2>1, FS_RemoveElement
      <4>3. A \subseteq t /\ t \in SUBSET B /\ t \cup {x} = s /\ x \in Ids(p) \ t /\ t \in SUBSET Ids(p)
        BY <2>1, <4>1
      <4> HIDE DEF t
      <4>4. Cost(p, A) <= Cost(p, t)
        BY <1>4, <4>2, <4>3
      <4>5. Cost(p, s) = Add(Cost(p, t), Duration(p, x)) /\ Cost(p, t) \in 0..MaxMs
        BY <4>3, CostGrows
      <4>6. Duration(p, x) \in 0..MaxMs
        BY <4>3 DEF Weighs
      <4>7. Cost(p, t) <= Cost(p, s) /\ Cost(p, s) \in 0..MaxMs
        BY <4>5, <4>6, AddFacts
      <4>8. QED BY <1>2, <4>4, <4>5, <4>7
    <3>3. QED BY <3>1, <3>2
  <2>2. QED BY <2>1
<1>5. n \in P
  <2> HIDE DEF P
  <2>1. QED BY <1>1, <1>3, <1>4, OneByOne
<1>6. QED BY <1>1, <1>5

--------------------------------------------------------------------------------
(* What the planner is asked for *)

Sane(p) ==
  /\ DOMAIN p.targets = 1..Len(p.targets) /\ Len(p.targets) \in Nat
  /\ \A i \in DOMAIN p.targets : IsTarget(p.targets[i])
  /\ p.config.maxWorkers \in Nat
  /\ p.config.startup \in 0..MaxMs /\ p.config.default \in 0..MaxMs
  /\ \A key \in DOMAIN p.history : p.history[key].duration \in 0..MaxMs

\* What validate_graph lets pass.
Valid(p) == Sane(p) /\ GraphError(p) = "none"

\* The ids and roots are finitely many numbers, and each id has its target.
LEMMA SaneFacts ==
  ASSUME NEW p, Sane(p)
  PROVE  /\ Ids(p) \in SUBSET Nat /\ Weighs(p)
         /\ \A id \in Ids(p) : Target(p, id).id = id /\ IsTarget(Target(p, id))
         /\ Roots(p) \in SUBSET Nat /\ IsFiniteSet(Roots(p))
         /\ \A id \in Ids(p) : Target(p, id).roots \subseteq Roots(p)
<1> DEFINE n == Len(p.targets)
<1>1. n \in Nat /\ DOMAIN p.targets = 1..n /\ IsFiniteSet(1..n)
  <2>1. n \in Nat /\ DOMAIN p.targets = 1..n
    BY DEF Sane
  <2>2. 1 \in Int /\ n \in Int
    BY <2>1
  <2>3. IsFiniteSet(1..n)
    BY <2>2, FS_Interval
  <2>4. QED BY <2>1, <2>3
<1> HIDE DEF n
<1>2. \A i \in 1..n : IsTarget(p.targets[i])
  BY <1>1 DEF Sane
<1>3. Ids(p) = {p.targets[i].id : i \in 1..n}
  BY <1>1 DEF Ids
<1>4. Ids(p) \in SUBSET Nat
  BY <1>2, <1>3 DEF IsTarget
<1>5. IsFiniteSet(Ids(p))
  <2> DEFINE f == [i \in 1..n |-> p.targets[i].id]
  <2>1. f \in Surjection(1..n, Ids(p))
    <3>1. f \in [1..n -> Ids(p)]
      BY <1>3
    <3>2. \A id \in Ids(p) : \E i \in 1..n : f[i] = id
      BY <1>3
    <3> HIDE DEF f
    <3>3. QED BY <3>1, <3>2 DEF Surjection
  <2> HIDE DEF f
  <2>2. QED BY <1>1, <2>1, FS_Surjection
<1>6. ASSUME NEW id \in Ids(p)
      PROVE  \E i \in 1..n : Target(p, id) = p.targets[i] /\ p.targets[i].id = id
  <2>1. \E i \in DOMAIN p.targets : p.targets[i].id = id
    BY <1>1, <1>3
  <2>2. QED BY <1>1, <2>1 DEF Target
<1>7. ASSUME NEW id \in Ids(p) PROVE Target(p, id).id = id /\ IsTarget(Target(p, id))
  BY <1>2, <1>6
<1>8. ASSUME NEW id \in Ids(p) PROVE Duration(p, id) \in 0..MaxMs
  <2>1. /\ p.config.default \in 0..MaxMs /\ MaxMs \in Nat
        /\ \A key \in DOMAIN p.history : p.history[key].duration \in 0..MaxMs
    BY PlannerAssumption DEF Sane
  <2>2. QED BY <2>1 DEF Duration, Predicted, Fresh
<1>9. Roots(p) \in SUBSET Nat
  <2>1. \A i \in 1..n : p.targets[i].roots \in SUBSET Nat
    BY <1>2 DEF IsTarget
  <2>2. QED BY <1>1, <2>1 DEF Roots
<1>10. IsFiniteSet(Roots(p))
  <2> DEFINE T == {p.targets[i].roots : i \in 1..n}
             f == [i \in 1..n |-> p.targets[i].roots]
  <2>1. f \in Surjection(1..n, T)
    <3>1. f \in [1..n -> T] /\ \A t \in T : \E i \in 1..n : f[i] = t
      OBVIOUS
    <3> HIDE DEF f, T
    <3>2. QED BY <3>1 DEF Surjection
  <2>2. \A t \in T : IsFiniteSet(t)
    BY <1>2 DEF IsTarget
  <2> HIDE DEF f, T
  <2>3. IsFiniteSet(T)
    BY <1>1, <2>1, FS_Surjection
  <2>4. IsFiniteSet(UNION T)
    BY <2>2, <2>3, FS_UNION
  <2>5. QED BY <1>1, <2>4 DEF Roots, T
<1>11. \A id \in Ids(p) : Target(p, id).roots \subseteq Roots(p)
  BY <1>1, <1>6 DEF Roots
<1>12. QED BY <1>4, <1>5, <1>7, <1>8, <1>9, <1>10, <1>11 DEF Weighs

\* Dependencies are among the targets, which a valid graph lists once each.
LEMMA ValidFacts ==
  ASSUME NEW p, Valid(p)
  PROVE  /\ Sane(p) /\ p.config.maxWorkers \in Nat \ {0}
         /\ Cardinality(Ids(p)) = Len(p.targets)
         /\ \A id \in Ids(p) : Below(p, id) \subseteq Ids(p)
         /\ Len(TopologicalOrder(p)) = Len(p.targets)
BY DEF Valid, Sane, GraphError

\* root_closures stays among the targets.
LEMMA ClosureAmong ==
  ASSUME NEW p, Valid(p)
  PROVE  /\ \A root : Closure(p, root) \subseteq Ids(p)
         /\ \A roots : ClosureOf(p, roots) \subseteq Ids(p)
         /\ \A roots : Cost(p, ClosureOf(p, roots)) \in 0..MaxMs
<1>1. ASSUME NEW root PROVE Closure(p, root) \subseteq Ids(p)
  <2> DEFINE n == Len(p.targets)
  <2>1. n \in Nat /\ DOMAIN p.targets = 1..n
    BY DEF Valid, Sane
  <2> HIDE DEF n
  <2>2. PICK read :
          /\ InTurn([of |-> "closure", p |-> p], {id \in Ids(p) : root \in Target(p, id).roots},
                    p.targets, n, read)
          /\ Closure(p, root) = read[n]
    BY <2>1, ClosureInTurn
  <2> DEFINE P == {i \in 0..n : read[i] \subseteq Ids(p)}
  <2>3. 0 \in P
    BY <2>1, <2>2 DEF InTurn
  <2>4. ASSUME NEW i \in 1..n, i - 1 \in P PROVE i \in P
    <3>1. read[i] = read[i - 1] \cup UNION {Below(p, id) : id \in read[i - 1]}
      BY <2>2 DEF InTurn, Step
    <3>2. read[i - 1] \subseteq Ids(p)
      BY <2>4
    <3>3. QED BY <3>1, <3>2, ValidFacts
  <2>5. n \in P
    <3> HIDE DEF P
    <3>1. QED BY <2>1, <2>3, <2>4, OneByOne
  <2>6. QED BY <2>2, <2>5
<1>2. ASSUME NEW roots PROVE ClosureOf(p, roots) \in SUBSET Ids(p)
  BY <1>1 DEF ClosureOf
<1>3. Weighs(p)
  BY SaneFacts, ValidFacts
<1>4. QED BY <1>1, <1>2, <1>3, CostGrows

--------------------------------------------------------------------------------
(* Groups of roots *)

\* group_roots takes the roots in one order: by cost, equal ones by number.
LEMMA HeavierLinear ==
  ASSUME NEW p, Valid(p)
  PROVE  Linear(Roots(p), Heavier(p))
<1> DEFINE C == [r \in Roots(p) |-> Cost(p, Closure(p, r))]
<1>1. \A r \in Roots(p) : C[r] \in Nat /\ r \in Nat
  <2>1. ASSUME NEW r \in Roots(p) PROVE C[r] \in Nat
    <3>1. Closure(p, r) \in SUBSET Ids(p) /\ Weighs(p)
      BY ClosureAmong, SaneFacts, ValidFacts
    <3>2. QED BY <3>1, CostGrows
  <2>2. QED BY <2>1, SaneFacts, ValidFacts
<1>2. \A r, s \in Roots(p) : <<r, s>> \in Heavier(p) <=> C[r] > C[s] \/ (C[r] = C[s] /\ r < s)
  <2>1. ASSUME NEW r \in Roots(p), NEW s \in Roots(p)
        PROVE  <<r, s>> \in Heavier(p) <=> C[r] > C[s] \/ (C[r] = C[s] /\ r < s)
    <3>1. <<r, s>> \in Roots(p) \X Roots(p) /\ <<r, s>>[1] = r /\ <<r, s>>[2] = s
      OBVIOUS
    <3>2. C[r] = Cost(p, Closure(p, r)) /\ C[s] = Cost(p, Closure(p, s))
      OBVIOUS
    <3> HIDE DEF C
    <3>3. QED BY <3>1, <3>2 DEF Heavier
  <2>2. QED BY <2>1
<1> HIDE DEF C
<1> DEFINE R == Roots(p)
           H == Heavier(p)
<1> HIDE DEF R, H
<1>3. /\ \A r \in R : C[r] \in Nat /\ r \in Nat
      /\ \A r, s \in R : <<r, s>> \in H <=> C[r] > C[s] \/ (C[r] = C[s] /\ r < s)
  BY <1>1, <1>2 DEF R, H
<1>4. \A x \in R : <<x, x>> \notin H
  BY <1>3
<1>5. ASSUME NEW x \in R, NEW y \in R PROVE x = y \/ <<x, y>> \in H \/ <<y, x>> \in H
  <2>1. C[x] \in Nat /\ C[y] \in Nat /\ x \in Nat /\ y \in Nat
    BY <1>3
  <2>2. x = y \/ C[x] > C[y] \/ (C[x] = C[y] /\ x < y) \/ C[y] > C[x] \/ (C[y] = C[x] /\ y < x)
    BY <2>1
  <2>3. QED BY <1>3, <2>2
<1>6. ASSUME NEW x \in R, NEW y \in R, NEW z \in R, <<x, y>> \in H, <<y, z>> \in H
      PROVE  <<x, z>> \in H
  <2>1. C[x] \in Nat /\ C[y] \in Nat /\ C[z] \in Nat /\ x \in Nat /\ y \in Nat /\ z \in Nat
    BY <1>3
  <2>2. (C[x] > C[y] \/ (C[x] = C[y] /\ x < y)) /\ (C[y] > C[z] \/ (C[y] = C[z] /\ y < z))
    BY <1>3, <1>6
  <2>3. C[x] > C[z] \/ (C[x] = C[z] /\ x < z)
    BY <2>1, <2>2
  <2>4. QED BY <1>3, <2>3
<1>7. Linear(R, H)
  BY <1>4, <1>5, <1>6 DEF Linear
<1>8. QED BY <1>7 DEF R, H

\* There is a group to choose.
LEMMA ChosenOne ==
  ASSUME NEW p, Valid(p), NEW w \in Nat \ {0}, NEW groups, DOMAIN groups = 1..w, NEW root
  PROVE  Chosen(p, groups, root) \in 1..w
<1> DEFINE merged == [i \in 1..w |-> Cost(p, ClosureOf(p, groups[i] \cup {root}))]
<1>1. \A i \in 1..w : merged[i] \in Nat
  BY ClosureAmong
<1>2. \A i \in 1..w : merged[i] = Cost(p, ClosureOf(p, groups[i] \cup {root}))
  OBVIOUS
<1> HIDE DEF merged
<1>3. PICK c \in {merged[i] : i \in 1..w} : \A d \in {merged[i] : i \in 1..w} : c <= d
  <2>1. {merged[i] : i \in 1..w} \in SUBSET Nat /\ 1 \in 1..w
    BY <1>1
  <2>2. {merged[i] : i \in 1..w} # {}
    BY <2>1
  <2>3. QED BY <2>1, <2>2, LeastNumber
<1>4. PICK i \in {k \in 1..w : merged[k] = c} : \A j \in {k \in 1..w : merged[k] = c} : i <= j
  <2>1. {k \in 1..w : merged[k] = c} \in SUBSET Nat /\ {k \in 1..w : merged[k] = c} # {}
    BY <1>3
  <2>2. QED BY <2>1, LeastNumber
<1>5. ASSUME NEW j \in 1..w PROVE merged[i] < merged[j] \/ (merged[i] = merged[j] /\ i <= j)
  <2>1. merged[i] = c /\ c <= merged[j] /\ merged[j] \in Nat /\ c \in Nat
    BY <1>1, <1>3, <1>4
  <2>2. merged[j] = c => i <= j
    BY <1>4
  <2>3. c < merged[j] \/ c = merged[j]
    BY <2>1
  <2>4. QED BY <2>1, <2>2, <2>3
<1>6. \E k \in DOMAIN groups : \A j \in DOMAIN groups :
        \/ Cost(p, ClosureOf(p, groups[k] \cup {root})) < Cost(p, ClosureOf(p, groups[j] \cup {root}))
        \/ /\ Cost(p, ClosureOf(p, groups[k] \cup {root})) = Cost(p, ClosureOf(p, groups[j] \cup {root}))
           /\ k <= j
  BY <1>2, <1>4, <1>5
<1>7. QED BY <1>6 DEF Chosen

\* Every member of S in exactly one group.
Splits(groups, S) ==
  /\ \A i \in DOMAIN groups : groups[i] \subseteq S
  /\ \A r \in S : \E i \in DOMAIN groups : r \in groups[i]
  /\ \A i, j \in DOMAIN groups : \A r \in groups[i] : r \in groups[j] => i = j

\* group_roots puts every root into exactly one group.
LEMMA PlacedSplits ==
  ASSUME NEW p, Valid(p), NEW w \in Nat \ {0}
  PROVE  DOMAIN Placed(p, w) = 1..w /\ Splits(Placed(p, w), Roots(p))
<1> DEFINE list == InOrder(Roots(p), Heavier(p))
           n == Cardinality(Roots(p))
<1>1. IsFiniteSet(Roots(p)) /\ Linear(Roots(p), Heavier(p))
  BY SaneFacts, ValidFacts, HeavierLinear
<1>2. /\ DOMAIN list = 1..n /\ n \in Nat
      /\ \A x \in Roots(p) : \E i \in 1..n : x = list[i]
      /\ \A i, j \in 1..n : list[i] = list[j] => i = j
      /\ \A i \in 1..n : list[i] \in Roots(p)
  <2>1. \A i, j \in 1..n : list[i] = list[j] => i = j
    BY <1>1, InOrderOnce
  <2>2. QED BY <1>1, <2>1, InOrderLists
<1>3. PICK read : /\ InTurn([of |-> "groups", p |-> p], [i \in 1..w |-> {}], list, n, read)
                  /\ Placed(p, w) = read[n]
  BY <1>2, GroupsInTurn
<1> HIDE DEF list, n
<1> DEFINE Upto(i) == {list[k] : k \in 1..i}
           P == {i \in 0..n : DOMAIN read[i] = 1..w /\ Splits(read[i], Upto(i))}
<1>4. 0 \in P
  <2>1. Upto(0) = {} /\ read[0] = [i \in 1..w |-> {}]
    BY <1>3 DEF InTurn
  <2> HIDE DEF Upto
  <2>2. QED BY <1>2, <2>1 DEF Splits
<1>5. ASSUME NEW i \in 1..n, i - 1 \in P PROVE i \in P
  <2> DEFINE a == read[i - 1]
             x == list[i]
             c == Chosen(p, a, x)
             b == [a EXCEPT ![c] = @ \cup {x}]
             S == Upto(i - 1)
  <2>1. DOMAIN a = 1..w /\ Splits(a, S)
    BY <1>5
  <2>2. read[i] = b
    BY <1>3 DEF InTurn, Step
  <2>3. c \in 1..w
    BY <2>1, ChosenOne
  <2>4. Upto(i) = S \cup {x} /\ x \notin S
    <3>1. 1..i = 1..(i - 1) \cup {i}
      BY <1>2
    <3>2. Upto(i) = S \cup {x}
      BY <3>1
    <3>3. \A k \in 1..(i - 1) : list[k] # x
      <4>1. \A k \in 1..(i - 1) : k \in 1..n /\ k # i
        BY <1>2
      <4>2. QED BY <1>2, <4>1
    <3>4. QED BY <3>2, <3>3
  <2> HIDE DEF S, x, c, a, Upto
  <2>5. DOMAIN b = 1..w /\ Splits(b, S \cup {x})
    <3>1. /\ DOMAIN b = 1..w
          /\ \A j \in 1..w : b[j] = IF j = c THEN a[j] \cup {x} ELSE a[j]
      BY <2>1, <2>3
    <3> HIDE DEF b
    <3>2. \A j \in 1..w : b[j] \subseteq S \cup {x}
      BY <2>1, <3>1 DEF Splits
    <3>3. \A r \in S \cup {x} : \E j \in 1..w : r \in b[j]
      BY <2>1, <2>3, <3>1 DEF Splits
    <3>4. ASSUME NEW j \in 1..w, NEW k \in 1..w, NEW r \in b[j], r \in b[k] PROVE j = k
      <4>1. CASE r = x
        <5>1. r \notin a[j] /\ r \notin a[k]
          BY <2>1, <2>4, <4>1 DEF Splits
        <5>2. QED BY <3>1, <3>4, <5>1
      <4>2. CASE r # x
        <5>1. r \in a[j] /\ r \in a[k]
          BY <3>1, <3>4, <4>2
        <5>2. QED BY <2>1, <5>1 DEF Splits
      <4>3. QED BY <4>1, <4>2
    <3>5. QED BY <3>1, <3>2, <3>3, <3>4 DEF Splits
  <2>6. b = read[i] /\ S \cup {x} = Upto(i) /\ i \in 0..n
    BY <1>2, <2>2, <2>4
  <2> HIDE DEF b
  <2>7. QED BY <2>5, <2>6
<1>6. n \in P
  <2> HIDE DEF P
  <2>1. QED BY <1>2, <1>4, <1>5, OneByOne
<1>7. Upto(n) = Roots(p)
  BY <1>2
<1>8. QED BY <1>3, <1>6, <1>7

\* The groups split the roots, and there are as many as their list is long.
LEMMA GroupsSplit ==
  ASSUME NEW p, Valid(p), NEW w \in Nat
  PROVE  /\ Splits(Groups(p, w), Roots(p))
         /\ w <= 1 => Groups(p, w) = <<Roots(p)>>
         /\ DOMAIN Groups(p, w) = 1..Len(Groups(p, w)) /\ Len(Groups(p, w)) \in Nat
<1>1. CASE w <= 1
  <2>1. Groups(p, w) = <<Roots(p)>>
    BY <1>1 DEF Groups
  <2>2. DOMAIN <<Roots(p)>> = {1} /\ <<Roots(p)>>[1] = Roots(p) /\ Len(<<Roots(p)>>) = 1 /\ 1..1 = {1}
    OBVIOUS
  <2>3. QED BY <2>1, <2>2 DEF Splits
<1>2. CASE ~(w <= 1)
  <2> DEFINE placed == Placed(p, w)
             kept == {i \in 1..w : placed[i] # {}}
             before == {ij \in kept \X kept : ij[1] < ij[2]}
             order == InOrder(kept, before)
             n == Cardinality(kept)
  <2>1. Groups(p, w) = [k \in DOMAIN order |-> placed[order[k]]]
    BY <1>2 DEF Groups
  <2>2. DOMAIN placed = 1..w /\ Splits(placed, Roots(p))
    BY <1>2, PlacedSplits
  <2>3. kept \in SUBSET (1..w) /\ IsFiniteSet(kept)
    <3>1. 1 \in Int /\ w \in Int
      OBVIOUS
    <3>2. kept \in SUBSET (1..w)
      OBVIOUS
    <3> HIDE DEF kept
    <3>3. QED BY <3>1, <3>2, FS_Interval, FS_Subset
  <2>4. \A i, j \in kept : <<i, j>> \in before <=> i < j
    OBVIOUS
  <2>5. \A i \in 1..w : i \in kept <=> placed[i] # {}
    OBVIOUS
  <2> HIDE DEF placed, kept, before
  <2>6. Linear(kept, before)
    BY <2>3, <2>4, InOrderUpTo
  <2>7. /\ DOMAIN order = 1..n /\ n \in Nat
        /\ \A i \in 1..n : order[i] \in kept
        /\ \A x \in kept : \E i \in 1..n : x = order[i]
    BY <2>3, <2>6, InOrderLists
  <2>8. \A i, j \in 1..n : order[i] = order[j] => i = j
    BY <2>3, <2>6, InOrderOnce
  <2> HIDE DEF order, n
  <2> DEFINE g == [k \in 1..n |-> placed[order[k]]]
  <2>9. Groups(p, w) = g
    BY <2>1, <2>7
  <2>10. DOMAIN g = 1..n /\ \A i \in 1..n : g[i] = placed[order[i]]
    OBVIOUS
  <2>11. Len(g) = n
    BY <2>7
  <2> HIDE DEF g
  <2>12. \A i \in 1..n : order[i] \in 1..w
    BY <2>3, <2>7
  <2>13. \A i \in 1..n : g[i] \subseteq Roots(p)
    BY <2>2, <2>10, <2>12 DEF Splits
  <2>14. ASSUME NEW r \in Roots(p) PROVE \E i \in 1..n : r \in g[i]
    <3>1. PICK j \in 1..w : r \in placed[j]
      BY <2>2 DEF Splits
    <3>2. j \in kept
      BY <2>5, <3>1
    <3>3. QED BY <2>7, <2>10, <3>1, <3>2
  <2>15. \A i, j \in 1..n : \A r \in g[i] : r \in g[j] => i = j
    BY <2>2, <2>8, <2>10, <2>12 DEF Splits
  <2>16. QED BY <1>2, <2>7, <2>9, <2>10, <2>11, <2>13, <2>14, <2>15 DEF Splits
<1>3. QED BY <1>1, <1>2

--------------------------------------------------------------------------------
(* Units *)

\* build_units gives every target to one unit, and counts what a unit needs and another owns.
LEMMA UnitsOwn ==
  ASSUME NEW p, Valid(p), NEW m \in Nat \ {0}, NEW groups, DOMAIN groups = 1..m,
         Splits(groups, Roots(p)), NEW units, units = Units(p, groups)
  PROVE  /\ DOMAIN units = 1..m
         /\ \A id \in Ids(p) : Cardinality({i \in DOMAIN units : id \in units[i].targets}) = 1
         /\ \A r \in Roots(p) : Cardinality({i \in DOMAIN units : r \in units[i].roots}) = 1
         /\ \A i \in DOMAIN units :
              units[i].shared = Cardinality(ClosureOf(p, units[i].roots) \ units[i].targets)
<1> DEFINE U == [i \in 1..m |-> ClosureOf(p, groups[i])]
           O == [i \in 1..m |-> UNION {ClosureOf(p, groups[j]) : j \in 1..(i - 1)}]
<1>1. DOMAIN units = 1..m
  BY DEF Units
<1>2. ASSUME NEW i \in 1..m
      PROVE  /\ units[i].roots = groups[i]
             /\ units[i].targets = (U[i] \ O[i]) \cup IF i = 1 THEN Orphans(p) ELSE {}
             /\ units[i].shared = Cardinality(U[i] \cap O[i])
             /\ ClosureOf(p, units[i].roots) = U[i]
  BY DEF Units
<1>3. \A i \in 1..m : \A id : id \in O[i] <=> \E j \in 1..m : j < i /\ id \in U[j]
  <2>1. ASSUME NEW i \in 1..m PROVE \A j : j \in 1..(i - 1) <=> j \in 1..m /\ j < i
    OBVIOUS
  <2>2. QED BY <2>1
<1>4. \A i \in 1..m : \A id : id \in U[i] <=> \E r \in groups[i] : id \in Closure(p, r)
  BY DEF ClosureOf
<1>5. \A id : id \in Orphans(p) <=> id \in Ids(p) /\ \A r \in Roots(p) : id \notin Closure(p, r)
  BY DEF Orphans, ClosureOf
<1> HIDE DEF U, O
<1>6. \A i \in 1..m : \A id : id \in units[i].targets <=>
         (id \in U[i] /\ id \notin O[i]) \/ (i = 1 /\ id \in Orphans(p))
  <2>1. ASSUME NEW i \in 1..m, NEW id
        PROVE  id \in units[i].targets <=>
                 (id \in U[i] /\ id \notin O[i]) \/ (i = 1 /\ id \in Orphans(p))
    <3>1. CASE i = 1
      <4>1. units[i].targets = (U[i] \ O[i]) \cup Orphans(p)
        BY <1>2, <3>1
      <4>2. QED BY <3>1, <4>1
    <3>2. CASE i # 1
      <4>1. units[i].targets = U[i] \ O[i]
        BY <1>2, <3>2
      <4>2. QED BY <3>2, <4>1
    <3>3. QED BY <3>1, <3>2
  <2>2. QED BY <2>1
<1>7. ASSUME NEW i \in 1..m PROVE U[i] \cap Orphans(p) = {}
  BY <1>4, <1>5 DEF Splits
<1>8. ASSUME NEW id \in Ids(p)
      PROVE  Cardinality({i \in DOMAIN units : id \in units[i].targets}) = 1
  <2>1. \E h \in 1..m : \A i \in 1..m : id \in units[i].targets <=> i = h
    <3>1. CASE id \in Orphans(p)
      <4>1. \A i \in 1..m : id \notin U[i]
        BY <1>7, <3>1
      <4>2. 1 \in 1..m /\ \A i \in 1..m : id \in units[i].targets <=> i = 1
        BY <1>6, <3>1, <4>1
      <4>3. QED BY <4>2
    <3>2. CASE id \notin Orphans(p)
      <4> DEFINE T == {i \in 1..m : id \in U[i]}
      <4>1. T # {}
        <5>1. PICK r \in Roots(p) : id \in Closure(p, r)
          BY <1>5, <3>2
        <5>2. PICK i \in 1..m : r \in groups[i]
          BY DEF Splits
        <5>3. QED BY <1>4, <5>1, <5>2
      <4>2. T \in SUBSET Nat
        OBVIOUS
      <4>3. PICK h \in T : \A i \in T : h <= i
        <5> HIDE DEF T
        <5>1. QED BY <4>1, <4>2, LeastNumber
      <4>4. \A i \in 1..m : id \in U[i] \ O[i] <=> i = h
        BY <1>3, <4>3
      <4>5. QED BY <1>6, <3>2, <4>3, <4>4
    <3>3. QED BY <3>1, <3>2
  <2>2. PICK h \in 1..m : \A i \in 1..m : id \in units[i].targets <=> i = h
    BY <2>1
  <2>3. {i \in DOMAIN units : id \in units[i].targets} = {h}
    BY <1>1, <2>2
  <2>4. QED BY <2>3, FS_Singleton
<1>9. ASSUME NEW r \in Roots(p)
      PROVE  Cardinality({i \in DOMAIN units : r \in units[i].roots}) = 1
  <2>1. PICK h \in 1..m : r \in groups[h]
    BY DEF Splits
  <2>2. \A i \in 1..m : r \in groups[i] => i = h
    BY <2>1 DEF Splits
  <2>3. \A i \in DOMAIN units : r \in units[i].roots <=> i = h
    BY <1>1, <1>2, <2>1, <2>2
  <2>4. {i \in DOMAIN units : r \in units[i].roots} = {h}
    BY <1>1, <2>3
  <2>5. QED BY <2>4, FS_Singleton
<1>10. ASSUME NEW i \in 1..m
      PROVE  units[i].shared = Cardinality(ClosureOf(p, units[i].roots) \ units[i].targets)
  <2>1. ASSUME NEW id \in U[i] PROVE id \notin units[i].targets <=> id \in O[i]
    <3>1. id \notin Orphans(p)
      BY <1>7
    <3>2. QED BY <1>6, <3>1
  <2>2. U[i] \ units[i].targets = U[i] \cap O[i]
    BY <2>1
  <2>3. units[i].shared = Cardinality(U[i] \cap O[i]) /\ ClosureOf(p, units[i].roots) = U[i]
    BY <1>2
  <2>4. Cardinality(U[i] \ units[i].targets) = Cardinality(U[i] \cap O[i])
    BY <2>2
  <2>5. QED BY <2>3, <2>4
<1>11. QED BY <1>1, <1>8, <1>9, <1>10

--------------------------------------------------------------------------------
(* How many workers *)

\* Numbers up to a bound have a largest one.
LEMMA Largest ==
  ASSUME NEW m \in Nat, NEW T \in SUBSET (0..m), T # {}
  PROVE  Max(T) \in T /\ \A t \in T : t <= Max(T)
<1> DEFINE D == {m - t : t \in T}
<1>1. D \in SUBSET Nat /\ D # {}
  <2>1. \A t \in T : m - t \in Nat
    OBVIOUS
  <2>2. QED BY <2>1
<1>2. PICK d \in D : \A e \in D : d <= e
  <2> HIDE DEF D
  <2>1. QED BY <1>1, LeastNumber
<1>3. PICK x \in T : d = m - x
  OBVIOUS
<1>4. ASSUME NEW t \in T PROVE x >= t
  <2>1. m - x <= m - t /\ x \in 0..m /\ t \in 0..m
    BY <1>2, <1>3
  <2>2. QED BY <2>1
<1>5. \E y \in T : \A t \in T : y >= t
  BY <1>4
<1>6. Max(T) \in T /\ \A t \in T : Max(T) >= t
  BY <1>5 DEF Max
<1>7. QED BY <1>6

\* The count that is kept is 1, or the cheapest that was tried and cheaper than one worker.
LEMMA BestIsBest ==
  ASSUME NEW n \in Nat, NEW single \in Nat, NEW walls, DOMAIN walls \subseteq 1..n,
         \A w \in DOMAIN walls : walls[w] \in Nat
  PROVE  LET b == BestOf(walls, single, n)
         IN \/ b = 1 /\ \A w \in DOMAIN walls : single <= walls[w]
            \/ /\ b \in DOMAIN walls /\ walls[b] < single
               /\ \A w \in DOMAIN walls : walls[b] <= walls[w]
<1>1. PICK read : /\ InTurn([of |-> "workers", walls |-> walls],
                            [wall |-> single, workers |-> 1], [i \in 1..n |-> i], n, read)
                  /\ BestOf(walls, single, n) = read[n].workers
  BY WorkersInTurn
<1> DEFINE Best(b, i) == /\ b.wall \in Nat
                         /\ \A w \in DOMAIN walls : w <= i => b.wall <= walls[w]
                         /\ \/ b.wall = single /\ b.workers = 1
                            \/ /\ b.workers \in DOMAIN walls /\ walls[b.workers] = b.wall
                               /\ b.wall < single
           P == {i \in 0..n : Best(read[i], i)}
<1>2. 0 \in P
  <2>1. read[0] = [wall |-> single, workers |-> 1]
    BY <1>1 DEF InTurn
  <2>2. Best([wall |-> single, workers |-> 1], 0)
    <3>1. \A w \in DOMAIN walls : ~(w <= 0)
      OBVIOUS
    <3>2. QED BY <3>1
  <2>3. QED BY <2>1, <2>2
<1>3. ASSUME NEW i \in 1..n, i - 1 \in P PROVE i \in P
  <2> DEFINE a == read[i - 1]
  <2>1. Best(a, i - 1)
    BY <1>3
  <2>2. read[i] = IF i \in DOMAIN walls /\ walls[i] < a.wall
                    THEN [wall |-> walls[i], workers |-> i] ELSE a
    BY <1>1 DEF InTurn, Step
  <2> HIDE DEF a
  <2>3. \A w \in DOMAIN walls : w \in 1..n /\ (w <= i => w <= i - 1 \/ w = i)
    OBVIOUS
  <2>4. CASE i \in DOMAIN walls /\ walls[i] < a.wall
    <3>1. read[i].wall = walls[i] /\ read[i].workers = i /\ walls[i] \in Nat /\ a.wall \in Nat
      BY <2>1, <2>2, <2>4
    <3>2. \A w \in DOMAIN walls : w <= i => walls[i] <= walls[w]
      <4>1. ASSUME NEW w \in DOMAIN walls, w <= i - 1 PROVE walls[i] <= walls[w]
        <5>1. a.wall <= walls[w] /\ walls[w] \in Nat
          BY <2>1, <4>1
        <5>2. QED BY <2>4, <3>1, <5>1
      <4>2. QED BY <2>3, <3>1, <4>1
    <3>3. walls[i] < single
      BY <2>1, <2>4, <3>1
    <3>4. Best(read[i], i)
      BY <2>4, <3>1, <3>2, <3>3
    <3>5. QED BY <3>4
  <2>5. CASE ~(i \in DOMAIN walls /\ walls[i] < a.wall)
    <3>1. read[i] = a
      BY <2>2, <2>5
    <3>2. ASSUME NEW w \in DOMAIN walls, w <= i PROVE a.wall <= walls[w]
      <4>1. w <= i - 1 => a.wall <= walls[w]
        BY <2>1, <3>2
      <4>2. w = i => a.wall <= walls[w]
        <5>1. a.wall \in Nat /\ walls[w] \in Nat
          BY <2>1
        <5>2. QED BY <2>5, <3>2, <5>1
      <4>3. QED BY <2>3, <3>2, <4>1, <4>2
    <3>3. Best(a, i)
      BY <2>1, <3>2
    <3>4. QED BY <3>1, <3>3
  <2>6. QED BY <2>4, <2>5
<1>4. n \in P
  <2> HIDE DEF P
  <2>1. QED BY <1>2, <1>3, OneByOne
<1>5. Best(read[n], n) /\ \A w \in DOMAIN walls : w <= n
  BY <1>4
<1> DEFINE b == read[n]
<1> HIDE DEF b
<1>6. Best(b, n) /\ (\A w \in DOMAIN walls : w <= n) /\ BestOf(walls, single, n) = b.workers
  BY <1>1, <1>5 DEF b
<1>7. QED BY <1>6

\* Walls are numbers, and so is the ceiling.
LEMMA WallFacts ==
  ASSUME NEW p, Valid(p), NEW w \in Nat
  PROVE  LET groups == Groups(p, w)
         IN /\ WallOf(p, w) = Add(Slowest(p, groups), p.config.startup)
            /\ WallOf(p, w) \in 0..MaxMs /\ Slowest(p, groups) \in 0..MaxMs
            /\ p.config.startup \in 0..MaxMs
            /\ \A i \in DOMAIN groups : Cost(p, ClosureOf(p, groups[i])) <= Slowest(p, groups)
<1> DEFINE groups == Groups(p, w)
           T == {0} \cup {Cost(p, ClosureOf(p, groups[i])) : i \in DOMAIN groups}
<1>1. T \in SUBSET (0..MaxMs) /\ T # {} /\ MaxMs \in Nat
  BY ClosureAmong, PlannerAssumption
<1>2. Slowest(p, groups) = Max(T)
  BY DEF Slowest
<1>3. Slowest(p, groups) \in 0..MaxMs /\ \A t \in T : t <= Slowest(p, groups)
  <2> HIDE DEF T
  <2>1. QED BY <1>1, <1>2, Largest
<1>4. \A i \in DOMAIN groups : Cost(p, ClosureOf(p, groups[i])) <= Slowest(p, groups)
  BY <1>3
<1>5. WallOf(p, w) = Add(Slowest(p, groups), p.config.startup) /\ p.config.startup \in 0..MaxMs
  BY DEF WallOf, Valid, Sane
<1>6. WallOf(p, w) \in 0..MaxMs
  BY <1>3, <1>5, AddFacts
<1>7. QED BY <1>3, <1>4, <1>5, <1>6

\* best_worker_count: one worker, or a count tried that beats one and every other count.
LEMMA WorkersChosen ==
  ASSUME NEW p, Valid(p), NEW single \in Nat, NEW b, b = BestWorkerCount(p, single)
  PROVE  /\ \A w \in Tried(p) : w \in Nat /\ w >= 2 /\ Len(Groups(p, w)) = w
         /\ \/ b = 1 /\ \A w \in Tried(p) : single <= WallOf(p, w)
            \/ /\ b \in Tried(p) /\ WallOf(p, b) < single
               /\ \A w \in Tried(p) : WallOf(p, b) <= WallOf(p, w)
<1> DEFINE n == Ceiling(p)
           walls == [w \in Tried(p) |-> WallOf(p, w)]
<1>1. n \in Nat
  <2>1. p.config.maxWorkers \in Nat /\ Cardinality(Roots(p)) \in Nat
    BY ValidFacts, SaneFacts, FS_CardinalityType
  <2>2. \E x \in {p.config.maxWorkers, Cardinality(Roots(p))} :
           \A y \in {p.config.maxWorkers, Cardinality(Roots(p))} : x <= y
    BY <2>1
  <2>3. n \in {p.config.maxWorkers, Cardinality(Roots(p))}
    BY <2>2 DEF Ceiling, Min
  <2>4. QED BY <2>1, <2>3
<1> HIDE DEF n
<1>2. \A w \in Tried(p) : w \in 2..n /\ Len(Groups(p, w)) = w
  BY DEF Tried, n
<1>3. Tried(p) \subseteq 1..n /\ \A w \in Tried(p) : w \in Nat
  BY <1>1, <1>2
<1>4. \A w \in Tried(p) : WallOf(p, w) \in Nat
  BY <1>3, WallFacts
<1>5. /\ DOMAIN walls = Tried(p) /\ \A w \in Tried(p) : walls[w] = WallOf(p, w)
      /\ b = BestOf(walls, single, n)
  BY DEF BestWorkerCount, n
<1> HIDE DEF walls
<1>6. \/ b = 1 /\ \A w \in DOMAIN walls : single <= walls[w]
      \/ /\ b \in DOMAIN walls /\ walls[b] < single
         /\ \A w \in DOMAIN walls : walls[b] <= walls[w]
  BY <1>1, <1>3, <1>4, <1>5, BestIsBest
<1>7. QED BY <1>1, <1>2, <1>5, <1>6

--------------------------------------------------------------------------------
(* What a plan that is made holds *)

\* What schedule returns when it refuses nothing.
LEMMA Decided ==
  ASSUME NEW p, Sane(p), NEW d, Decides(p, d), d.error = "none"
  PROVE  LET fallback == Unpredicted(p) # {} \/ Cardinality(Roots(p)) < 2
             workers == IF fallback THEN 1 ELSE BestWorkerCount(p, d.single)
             slowest == Max({d.units[i].ms : i \in DOMAIN d.units})
         IN /\ Valid(p)
            /\ d.workers = Len(d.units) /\ d.units = Units(p, Groups(p, workers))
            /\ d.single = Cost(p, Ids(p)) /\ d.fallback = fallback
            /\ d.wall = IF Len(d.units) > 1 THEN Add(slowest, p.config.startup) ELSE slowest
            /\ d.critical = CriticalPath(p)
<1>1. GraphError(p) = "none" /\ p.required \subseteq Roots(p)
  BY DEF Decides, Refused
<1>2. d = Proposal(p, Units(p, Groups(p, Workers(p))))
  BY <1>1 DEF Decides
<1>3. Valid(p)
  BY <1>1 DEF Valid
<1>4. QED BY <1>2, <1>3 DEF Proposal, Workers, Fallback

\* The number of workers that a plan is made for, and its units.
LEMMA Divided ==
  ASSUME NEW p, Sane(p), NEW d, Decides(p, d), d.error = "none"
  PROVE  \E w \in Nat \ {0} :
           /\ DOMAIN d.units = 1..w /\ Len(d.units) = w
           /\ DOMAIN Groups(p, w) = 1..w
           /\ d.units = Units(p, Groups(p, w)) /\ d.single \in Nat
           /\ w > 1 => /\ ~d.fallback /\ w \in Tried(p) /\ WallOf(p, w) < d.single
                       /\ \A v \in Tried(p) : WallOf(p, w) <= WallOf(p, v)
           /\ w = 1 /\ ~d.fallback => \A v \in Tried(p) : d.single <= WallOf(p, v)
<1> DEFINE w == IF d.fallback THEN 1 ELSE BestWorkerCount(p, d.single)
<1>1. /\ Valid(p) /\ d.units = Units(p, Groups(p, w)) /\ d.single = Cost(p, Ids(p))
      /\ d.fallback = (Unpredicted(p) # {} \/ Cardinality(Roots(p)) < 2)
  BY Decided
<1>2. d.single \in Nat
  <2>1. Weighs(p)
    BY <1>1, SaneFacts
  <2>2. QED BY <1>1, <2>1, CostGrows
<1>3. \/ w = 1 /\ (~d.fallback => \A v \in Tried(p) : d.single <= WallOf(p, v))
      \/ /\ ~d.fallback /\ w \in Tried(p) /\ WallOf(p, w) < d.single
         /\ \A v \in Tried(p) : WallOf(p, w) <= WallOf(p, v)
  BY <1>1, <1>2, WorkersChosen
<1>4. w \in Tried(p) => w \in Nat /\ w >= 2 /\ Len(Groups(p, w)) = w
  BY <1>1, <1>2, WorkersChosen
<1> HIDE DEF w
<1>5. w \in Nat \ {0} /\ Len(Groups(p, w)) = w /\ DOMAIN Groups(p, w) = 1..w
  <2>1. w \in Nat \ {0}
    BY <1>3, <1>4
  <2>2. /\ w <= 1 => Groups(p, w) = <<Roots(p)>>
        /\ DOMAIN Groups(p, w) = 1..Len(Groups(p, w))
    BY <1>1, <2>1, GroupsSplit
  <2>3. CASE w = 1
    <3>1. Len(<<Roots(p)>>) = 1
      OBVIOUS
    <3>2. Groups(p, w) = <<Roots(p)>> /\ DOMAIN Groups(p, w) = 1..Len(Groups(p, w))
      BY <2>2, <2>3
    <3>3. Len(Groups(p, w)) = 1
      BY <3>1, <3>2
    <3>4. QED BY <2>1, <2>3, <3>2, <3>3
  <2>4. CASE w # 1
    BY <1>3, <1>4, <2>1, <2>2, <2>4
  <2>5. QED BY <2>3, <2>4
<1>6. DOMAIN d.units = 1..w
  BY <1>1, <1>5 DEF Units
<1>7. Len(d.units) = w
  <2> DEFINE groups == Groups(p, w)
  <2>1. DOMAIN Units(p, groups) = 1..w /\ Len(Units(p, groups)) = w
    BY <1>5 DEF Units
  <2>2. QED BY <1>1, <2>1
<1>8. w > 1 => /\ ~d.fallback /\ w \in Tried(p) /\ WallOf(p, w) < d.single
               /\ \A v \in Tried(p) : WallOf(p, w) <= WallOf(p, v)
  BY <1>3, <1>5
<1>9. w = 1 /\ ~d.fallback => \A v \in Tried(p) : d.single <= WallOf(p, v)
  BY <1>3, <1>4
<1>10. /\ w \in Nat \ {0} /\ DOMAIN d.units = 1..w /\ Len(d.units) = w
       /\ DOMAIN Groups(p, w) = 1..w
       /\ d.units = Units(p, Groups(p, w)) /\ d.single \in Nat
  BY <1>1, <1>2, <1>5, <1>6, <1>7
<1>11. QED BY <1>8, <1>9, <1>10

Owned(p, d) ==
  LET units == d.units
      Holders(id) == {i \in DOMAIN units : id \in units[i].targets}
  IN /\ \A id \in Ids(p) : Cardinality(Holders(id)) = 1
     /\ \A r \in Roots(p) : Cardinality({i \in DOMAIN units : r \in units[i].roots}) = 1
     /\ \A i \in DOMAIN units :
          units[i].shared = Cardinality(ClosureOf(p, units[i].roots) \ units[i].targets)

\* OwnedOnce, of what schedule returns.
LEMMA PlanOwnsOnce ==
  ASSUME NEW p, Sane(p), NEW d, Decides(p, d), d.error = "none"
  PROVE  Owned(p, d)
<1>1. PICK w \in Nat \ {0} : DOMAIN Groups(p, w) = 1..w /\ d.units = Units(p, Groups(p, w))
  BY Divided
<1>2. Valid(p)
  BY Decided
<1>3. Splits(Groups(p, w), Roots(p))
  BY <1>2, GroupsSplit
<1> DEFINE groups == Groups(p, w)
           units == d.units
<1>4. DOMAIN groups = 1..w /\ Splits(groups, Roots(p)) /\ units = Units(p, groups)
  BY <1>1, <1>3
<1> HIDE DEF groups, units
<1>5. /\ \A id \in Ids(p) : Cardinality({i \in DOMAIN units : id \in units[i].targets}) = 1
      /\ \A r \in Roots(p) : Cardinality({i \in DOMAIN units : r \in units[i].roots}) = 1
      /\ \A i \in DOMAIN units :
           units[i].shared = Cardinality(ClosureOf(p, units[i].roots) \ units[i].targets)
  BY <1>2, <1>4, UnitsOwn
<1>6. QED BY <1>5 DEF Owned, units

Pays(p, d) ==
  /\ d.workers > 1 => /\ Unpredicted(p) = {} /\ Cardinality(Roots(p)) >= 2
                      /\ d.wall < d.single + Cost(p, Orphans(p))
  /\ ~d.fallback /\ Orphans(p) = {} => \A w \in Tried(p) : d.wall <= WallOf(p, w)

\* A saturated sum is no more than the sum.
LEMMA FarSum ==
  \A s, c, u \in 0..MaxMs : Add(Add(s, c), u) <= Add(s, u) + c
BY PlannerAssumption DEF Add

\* FanOutPays, of what schedule returns: a unit costs what its group does, the first one also
\* what no root needs.
LEMMA PlanPays ==
  ASSUME NEW p, Sane(p), NEW d, Decides(p, d), d.error = "none"
  PROVE  Pays(p, d)
<1>1. PICK w \in Nat \ {0} :
        /\ DOMAIN d.units = 1..w /\ Len(d.units) = w
        /\ DOMAIN Groups(p, w) = 1..w
        /\ d.units = Units(p, Groups(p, w)) /\ d.single \in Nat
        /\ w > 1 => /\ ~d.fallback /\ w \in Tried(p) /\ WallOf(p, w) < d.single
                    /\ \A v \in Tried(p) : WallOf(p, w) <= WallOf(p, v)
        /\ w = 1 /\ ~d.fallback => \A v \in Tried(p) : d.single <= WallOf(p, v)
  BY Divided
<1> DEFINE ms == {d.units[i].ms : i \in DOMAIN d.units}
           groups == Groups(p, w)
           orphans == Cost(p, Orphans(p))
           slowest == Slowest(p, groups)
           startup == p.config.startup
<1>2. /\ Valid(p) /\ d.workers = w /\ d.single = Cost(p, Ids(p))
      /\ d.fallback = (Unpredicted(p) # {} \/ Cardinality(Roots(p)) < 2)
      /\ d.wall = IF w > 1 THEN Add(Max(ms), startup) ELSE Max(ms)
      /\ ~d.fallback => Unpredicted(p) = {} /\ ~(Cardinality(Roots(p)) < 2)
  BY <1>1, Decided
<1>3. Weighs(p) /\ Cardinality(Roots(p)) \in Nat
  BY SaneFacts, FS_CardinalityType
<1>4. orphans \in 0..MaxMs /\ Cost(p, {}) = 0
  <2>1. Orphans(p) \in SUBSET Ids(p)
    BY DEF Orphans
  <2>2. QED BY <1>3, <2>1, CostGrows
<1>5. /\ WallOf(p, w) = Add(slowest, startup) /\ slowest \in 0..MaxMs /\ startup \in 0..MaxMs
      /\ \A i \in 1..w : Cost(p, ClosureOf(p, groups[i])) <= slowest
      /\ \A v \in Tried(p) : WallOf(p, v) \in Nat
  <2>1. \A v \in Tried(p) : v \in Nat
    BY <1>1, <1>2, WorkersChosen
  <2>2. \A v \in Tried(p) : WallOf(p, v) \in 0..MaxMs
    BY <1>2, <2>1, WallFacts
  <2>3. /\ WallOf(p, w) = Add(slowest, startup) /\ slowest \in 0..MaxMs /\ startup \in 0..MaxMs
        /\ \A i \in DOMAIN groups : Cost(p, ClosureOf(p, groups[i])) <= slowest
    BY <1>2, WallFacts
  <2>4. QED BY <1>1, <2>2, <2>3
<1>6. ASSUME NEW i \in 1..w
      PROVE  /\ d.units[i].ms = IF i = 1 THEN Add(Cost(p, ClosureOf(p, groups[i])), orphans)
                                ELSE Cost(p, ClosureOf(p, groups[i]))
             /\ Cost(p, ClosureOf(p, groups[i])) \in 0..MaxMs
             /\ d.units[i].ms \in 0..MaxMs /\ d.units[i].ms <= Add(slowest, orphans)
  <2> DEFINE c == Cost(p, ClosureOf(p, groups[i]))
  <2>1. d.units[i].ms = IF i = 1 THEN Add(c, orphans) ELSE c
    BY <1>1 DEF Units
  <2>2. c \in 0..MaxMs /\ c <= slowest
    BY <1>2, <1>5, ClosureAmong
  <2> HIDE DEF c, slowest, orphans
  <2>3. Add(c, orphans) <= Add(slowest, orphans) /\ slowest <= Add(slowest, orphans)
    BY <1>4, <1>5, <2>2, AddFacts
  <2>4. Add(slowest, orphans) \in 0..MaxMs /\ Add(c, orphans) \in 0..MaxMs
    BY <1>4, <1>5, <2>2, AddFacts
  <2>5. d.units[i].ms \in 0..MaxMs
    BY <2>1, <2>2, <2>4
  <2>6. d.units[i].ms <= Add(slowest, orphans)
    BY <1>5, <2>1, <2>2, <2>3, <2>4
  <2>7. QED BY <2>1, <2>2, <2>5, <2>6 DEF c, slowest, orphans
<1>7. ms \in SUBSET (0..MaxMs) /\ ms # {} /\ MaxMs \in Nat
  BY <1>1, <1>6, PlannerAssumption
<1>8. Max(ms) \in ms
  <2> HIDE DEF ms
  <2>1. QED BY <1>7, Largest
<1>9. PICK k \in 1..w : Max(ms) = d.units[k].ms
  BY <1>1, <1>8
<1>10. Max(ms) \in 0..MaxMs /\ Max(ms) <= Add(slowest, orphans)
  BY <1>6, <1>9
<1>11. ASSUME w > 1
       PROVE  /\ Unpredicted(p) = {} /\ Cardinality(Roots(p)) >= 2
              /\ d.wall < d.single + orphans
  <2>1. ~d.fallback /\ WallOf(p, w) < d.single /\ d.wall = Add(Max(ms), startup)
    BY <1>1, <1>2, <1>11
  <2>2. Unpredicted(p) = {} /\ Cardinality(Roots(p)) >= 2
    BY <1>2, <1>3, <2>1
  <2> DEFINE m == Max(ms)
  <2>3. m \in 0..MaxMs /\ m <= Add(slowest, orphans) /\ d.wall = Add(m, startup)
    BY <1>10, <2>1
  <2> HIDE DEF m, slowest, orphans, startup
  <2>4. /\ Add(m, startup) <= Add(Add(slowest, orphans), startup)
        /\ Add(m, startup) \in 0..MaxMs /\ Add(Add(slowest, orphans), startup) \in 0..MaxMs
        /\ Add(slowest, startup) \in 0..MaxMs
    <3>1. Add(slowest, orphans) \in 0..MaxMs
      BY <1>4, <1>5, AddFacts
    <3>2. QED BY <1>4, <1>5, <2>3, <3>1, AddFacts
  <2>5. Add(Add(slowest, orphans), startup) <= Add(slowest, startup) + orphans
    BY <1>4, <1>5, FarSum
  <2>6. Add(slowest, startup) < d.single
    BY <1>5, <2>1
  <2>7. d.wall < d.single + orphans
    BY <1>1, <1>4, <2>3, <2>4, <2>5, <2>6, PlannerAssumption
  <2>8. QED BY <2>2, <2>7
<1>12. ASSUME ~d.fallback, Orphans(p) = {}, NEW v \in Tried(p)
       PROVE  d.wall <= WallOf(p, v)
  <2>1. orphans = 0
    BY <1>4, <1>12
  <2>2. CASE w > 1
    <3> DEFINE m == Max(ms)
    <3>1. /\ d.wall = Add(m, startup) /\ WallOf(p, w) <= WallOf(p, v)
          /\ m \in 0..MaxMs /\ m <= Add(slowest, 0)
      BY <1>1, <1>2, <1>10, <2>1, <2>2
    <3> HIDE DEF m, slowest, startup
    <3>2. Add(slowest, 0) = slowest
      BY <1>5, AddFacts
    <3>3. Add(m, startup) <= Add(slowest, startup)
      BY <1>5, <3>1, <3>2, AddFacts
    <3>4. Add(m, startup) \in Nat /\ Add(slowest, startup) \in Nat /\ WallOf(p, v) \in Nat
      BY <1>5, <3>1, AddFacts
    <3>5. QED BY <1>5, <3>1, <3>3, <3>4
  <2>3. CASE ~(w > 1)
    <3>1. w = 1 /\ k = 1
      BY <2>3
    <3>2. ClosureOf(p, groups[1]) = Ids(p)
      <4>1. groups = <<Roots(p)>>
        BY <1>2, <3>1, GroupsSplit
      <4>2. groups[1] = Roots(p)
        BY <4>1
      <4>3. ClosureOf(p, Roots(p)) = Ids(p)
        BY <1>2, <1>12, ClosureAmong DEF Orphans
      <4>4. QED BY <4>2, <4>3
    <3>3. d.units[1].ms = Add(d.single, 0) /\ d.single \in 0..MaxMs
      BY <1>2, <1>6, <2>1, <3>1, <3>2
    <3>4. d.wall = d.single
      BY <1>2, <1>9, <2>3, <3>1, <3>3, AddFacts
    <3>5. QED BY <1>1, <1>12, <3>1, <3>4
  <2>4. QED BY <2>2, <2>3
<1>13. QED BY <1>2, <1>11, <1>12 DEF Pays

--------------------------------------------------------------------------------
(* The order that chains are built in *)

\* Each target once, after what it depends on.
Ordered(p, order) ==
  /\ order \in Seq(Ids(p))
  /\ \A j, k \in 1..Len(order) : order[j] = order[k] => j = k
  /\ \A k \in 1..Len(order) : \A d \in Below(p, order[k]) : \E j \in 1..(k - 1) : d = order[j]

\* topological_order places an id after all its dependencies.
LEMMA StillOrdered ==
  ASSUME NEW p, NEW order, Ordered(p, order), NEW id \in Ready(p, order)
  PROVE  Ordered(p, Append(order, id))
<1> DEFINE n == Len(order)
           b == Append(order, id)
<1>1. /\ id \in Ids(p) /\ order \in Seq(Ids(p))
      /\ \A k \in DOMAIN order : order[k] # id
      /\ \A d \in Below(p, id) : \E k \in DOMAIN order : d = order[k]
  BY DEF Ready, ToSet, Ordered
<1>2. n \in Nat /\ DOMAIN order = 1..n
  BY <1>1, LenProperties
<1>3. /\ b \in Seq(Ids(p)) /\ Len(b) = n + 1
      /\ \A k \in 1..n : b[k] = order[k]
      /\ b[n + 1] = id
  BY <1>1, AppendProperties
<1> HIDE DEF b
<1>4. \A k \in 1..(n + 1) : k \in 1..n \/ k = n + 1
  BY <1>2
<1>5. ASSUME NEW j \in 1..(n + 1), NEW k \in 1..(n + 1), b[j] = b[k] PROVE j = k
  <2>1. CASE j \in 1..n /\ k \in 1..n
    BY <1>3, <1>5, <2>1 DEF Ordered
  <2>2. CASE j = n + 1 \/ k = n + 1
    BY <1>1, <1>2, <1>3, <1>4, <1>5, <2>2
  <2>3. QED BY <1>4, <2>1, <2>2
<1>6. ASSUME NEW k \in 1..(n + 1), NEW d \in Below(p, b[k]) PROVE \E j \in 1..(k - 1) : d = b[j]
  <2>1. CASE k \in 1..n
    <3>1. PICK j \in 1..(k - 1) : d = order[j]
      BY <1>3, <1>6, <2>1 DEF Ordered
    <3>2. j \in 1..n
      BY <1>2, <2>1
    <3>3. QED BY <1>3, <3>1, <3>2
  <2>2. CASE k = n + 1
    <3>1. PICK j \in 1..n : d = order[j]
      BY <1>1, <1>2, <1>3, <1>6, <2>2
    <3>2. j \in 1..(k - 1)
      BY <1>2, <2>2
    <3>3. QED BY <1>3, <3>1, <3>2
  <2>3. QED BY <1>4, <2>1, <2>2
<1>7. QED BY <1>3, <1>5, <1>6 DEF Ordered

Orders(p, n, o) ==
  /\ n \in Nat /\ DOMAIN p.targets = 1..n /\ DOMAIN o = 1..n
  /\ \A k \in 1..n : o[k] \in Ids(p)
  /\ \A j, k \in 1..n : o[j] = o[k] => j = k
  /\ \A id \in Ids(p) : \E k \in 1..n : id = o[k]
  /\ \A k \in 1..n : \A d \in Below(p, o[k]) : \E j \in 1..(k - 1) : d = o[j]

\* In a graph without a cycle it places every id.
LEMMA OrderHolds ==
  ASSUME NEW p, Valid(p)
  PROVE  Orders(p, Len(p.targets), TopologicalOrder(p))
<1> DEFINE n == Len(p.targets)
           o == TopologicalOrder(p)
<1>1. n \in Nat /\ DOMAIN p.targets = 1..n
  BY ValidFacts DEF Sane
<1>2. PICK read : InTurn([of |-> "order", p |-> p], <<>>, p.targets, n, read) /\ o = read[n]
  BY <1>1, OrderInTurn
<1>3. Len(o) = n /\ Cardinality(Ids(p)) = n
  BY ValidFacts
<1> HIDE DEF n, o
<1> DEFINE P == {i \in 0..n : Ordered(p, read[i])}
<1>4. 0 \in P
  <2>1. read[0] = <<>> /\ 0 \in 0..n
    BY <1>1, <1>2 DEF InTurn
  <2>2. <<>> \in Seq(Ids(p)) /\ Len(<<>>) = 0 /\ 1..0 = {}
    BY EmptySeq
  <2>3. Ordered(p, <<>>)
    BY <2>2 DEF Ordered
  <2>4. QED BY <2>1, <2>3
<1>5. ASSUME NEW i \in 1..n, i - 1 \in P PROVE i \in P
  <2> DEFINE a == read[i - 1]
  <2>1. Ordered(p, a)
    BY <1>5
  <2>2. read[i] = IF Ready(p, a) = {} THEN a ELSE Append(a, Min(Ready(p, a)))
    BY <1>2 DEF InTurn, Step
  <2>3. Ready(p, a) # {} => Min(Ready(p, a)) \in Ready(p, a)
    <3>1. Ready(p, a) \in SUBSET Nat
      BY ValidFacts, SaneFacts DEF Ready
    <3>2. Ready(p, a) # {} => \E x \in Ready(p, a) : \A y \in Ready(p, a) : x <= y
      BY <3>1, LeastNumber
    <3>3. QED BY <3>2 DEF Min
  <2>4. Ordered(p, read[i])
    BY <2>1, <2>2, <2>3, StillOrdered
  <2>5. i \in 0..n
    BY <1>1
  <2>6. QED BY <2>4, <2>5
<1>6. n \in P
  <2> HIDE DEF P
  <2>1. \A i \in 1..n : i - 1 \in P => i \in P
    BY <1>5
  <2>2. \A i \in 0..n : i \in P
    BY <1>1, <1>4, <2>1, OneByOne
  <2>3. QED BY <1>1, <2>2
<1>7. Ordered(p, o) /\ Len(o) = n
  BY <1>2, <1>6, <1>3
<1>8. /\ DOMAIN o = 1..n /\ o \in [1..n -> Ids(p)]
      /\ \A k \in 1..n : o[k] \in Ids(p)
  BY <1>7, LenProperties DEF Ordered
<1>9. \A j, k \in 1..n : o[j] = o[k] => j = k
  BY <1>7 DEF Ordered
<1>10. \A id \in Ids(p) : \E k \in 1..n : id = o[k]
  <2>1. o \in Injection(1..n, Ids(p))
    BY <1>8, <1>9 DEF Injection, IsInjective
  <2>2. IsFiniteSet(Ids(p)) /\ Cardinality(Ids(p)) = n
    BY <1>3, ValidFacts, SaneFacts DEF Weighs
  <2>3. 1 \in Int /\ n \in Int /\ Cardinality(1..n) = n
    BY <1>1, FS_Interval
  <2>4. o \in Surjection(1..n, Ids(p))
    BY <2>1, <2>2, <2>3, FS_Injection
  <2>5. QED BY <2>4 DEF Surjection
<1>11. \A k \in 1..n : \A d \in Below(p, o[k]) : \E j \in 1..(k - 1) : d = o[j]
  BY <1>7 DEF Ordered
<1>12. QED BY <1>1, <1>8, <1>9, <1>10, <1>11 DEF Orders, n, o

--------------------------------------------------------------------------------
(* The costliest chains *)

\* What the entry of an id must be, by the entries of what it depends on.
Solved(p, best, id) ==
  LET e == best[id]
  IN /\ e.cost \in 0..MaxMs
     /\ Duration(p, id) <= e.cost
     /\ e.from = None => e.cost = Duration(p, id)
     /\ e.from # None => /\ e.from \in Below(p, id)
                         /\ e.cost = Add(best[e.from].cost, Duration(p, id))
     /\ \A d \in Below(p, id) : Add(best[d].cost, Duration(p, id)) <= e.cost

\* Of what depends on nothing that costs anything, the entry is its own duration; of
\* others it is what the costliest costs, and more.
LEMMA HeaviestFacts ==
  ASSUME NEW best, NEW ids, \A d \in ids : best[d].cost \in 0..MaxMs
  PROVE  \/ Heaviest(best, ids) = {} /\ \A d \in ids : best[d].cost = 0
         \/ /\ Heaviest(best, ids) # {}
            /\ \A h \in Heaviest(best, ids) :
                 h \in ids /\ best[h].cost > 0 /\ \A d \in ids : best[d].cost <= best[h].cost
<1>1. \A h \in Heaviest(best, ids) :
        h \in ids /\ best[h].cost > 0 /\ \A d \in ids : best[d].cost <= best[h].cost
  BY DEF Heaviest
<1>2. ASSUME NEW d \in ids, best[d].cost # 0 PROVE Heaviest(best, ids) # {}
  <2> DEFINE T == {best[e].cost : e \in ids}
  <2>1. T \in SUBSET (0..MaxMs) /\ T # {} /\ MaxMs \in Nat
    BY PlannerAssumption
  <2>2. Max(T) \in T /\ \A t \in T : t <= Max(T)
    <3> HIDE DEF T
    <3>1. QED BY <2>1, Largest
  <2>3. PICK h \in ids : best[h].cost = Max(T)
    BY <2>2
  <2>4. \A e \in ids : best[e].cost <= best[h].cost
    BY <2>2, <2>3
  <2>5. best[h].cost > 0
    <3>1. best[d].cost <= best[h].cost /\ best[d].cost \in 0..MaxMs /\ best[h].cost \in 0..MaxMs
      BY <2>4
    <3>2. QED BY <1>2, <3>1, PlannerAssumption
  <2>6. QED BY <2>4, <2>5 DEF Heaviest
<1>3. QED BY <1>1, <1>2

\* An entry that is added is right, and the earlier ones stay so.
LEMMA ExtendedSolves ==
  ASSUME NEW p, Valid(p), NEW best, NEW id \in Ids(p) \ DOMAIN best,
         Below(p, id) \subseteq DOMAIN best,
         DOMAIN best \subseteq Ids(p),
         \A d \in DOMAIN best : Below(p, d) \subseteq DOMAIN best,
         \A d \in DOMAIN best : Solved(p, best, d)
  PROVE  LET b == Extended(p, best, id, Heaviest(best, Below(p, id)))
         IN DOMAIN b = DOMAIN best \cup {id} /\ \A d \in DOMAIN b : Solved(p, b, d)
<1> DEFINE b == Extended(p, best, id, Heaviest(best, Below(p, id)))
           from == Heaviest(best, Below(p, id))
           D == Duration(p, id)
<1>1. /\ DOMAIN b = DOMAIN best \cup {id}
      /\ \A d \in DOMAIN best : b[d] = best[d]
      /\ b[id].cost = Add(IF from = {} THEN 0 ELSE best[Min(from)].cost, D)
      /\ b[id].from = IF from = {} THEN None ELSE Min(from)
  BY DEF Extended
<1>2. \A d \in DOMAIN best : best[d].cost \in 0..MaxMs
  BY DEF Solved
<1>3. D \in 0..MaxMs /\ Ids(p) \in SUBSET Nat
  BY ValidFacts, SaneFacts DEF Weighs
<1>4. \/ from = {} /\ \A d \in Below(p, id) : best[d].cost = 0
      \/ /\ from # {}
         /\ \A h \in from : /\ h \in Below(p, id)
                            /\ \A d \in Below(p, id) : best[d].cost <= best[h].cost
  BY <1>2, HeaviestFacts
<1>5. from # {} => Min(from) \in from
  <2>1. from \in SUBSET Nat
    BY <1>3 DEF Heaviest
  <2>2. from # {} => \E x \in from : \A y \in from : x <= y
    <3> HIDE DEF from
    <3>1. QED BY <2>1, LeastNumber
  <2>3. QED BY <2>2 DEF Min
<1> HIDE DEF b, from, D
<1>6. Solved(p, b, id)
  <2>1. CASE from = {}
    <3>1. b[id].cost = D /\ b[id].from = None
      BY <1>1, <1>3, <2>1, AddFacts
    <3>2. ASSUME NEW d \in Below(p, id) PROVE Add(b[d].cost, D) <= b[id].cost
      <4>1. b[d].cost = 0
        BY <1>1, <1>4, <2>1
      <4>2. Add(0, D) = D
        BY <1>3, AddFacts
      <4>3. QED BY <1>3, <3>1, <4>1, <4>2
    <3>3. QED BY <1>3, <3>1, <3>2 DEF Solved, D
  <2>2. CASE from # {}
    <3> DEFINE h == Min(from)
    <3>1. /\ h \in Below(p, id) /\ \A d \in Below(p, id) : best[d].cost <= best[h].cost
          /\ b[id].cost = Add(best[h].cost, D) /\ b[id].from = h
      BY <1>1, <1>4, <1>5, <2>2
    <3> HIDE DEF h
    <3>2. h # None /\ b[h] = best[h] /\ best[h].cost \in 0..MaxMs
      BY <1>1, <1>2, <1>3, <3>1, PlannerAssumption
    <3>3. b[id].cost \in 0..MaxMs /\ D <= b[id].cost
      <4>1. Add(best[h].cost, D) = Add(D, best[h].cost)
        BY <1>3, <3>2, AddFacts
      <4>2. QED BY <1>3, <3>1, <3>2, <4>1, AddFacts
    <3>4. ASSUME NEW d \in Below(p, id) PROVE Add(b[d].cost, D) <= b[id].cost
      <4>1. b[d].cost = best[d].cost /\ best[d].cost \in 0..MaxMs /\ best[d].cost <= best[h].cost
        BY <1>1, <1>2, <3>1
      <4>2. QED BY <1>3, <3>1, <3>2, <4>1, AddFacts
    <3>5. QED BY <3>1, <3>2, <3>3, <3>4 DEF Solved, D
  <2>3. QED BY <2>1, <2>2
<1>7. ASSUME NEW d \in DOMAIN best PROVE Solved(p, b, d)
  <2>1. Solved(p, best, d) /\ b[d] = best[d]
    BY <1>1
  <2>2. \A e \in Below(p, d) : b[e] = best[e]
    BY <1>1
  <2>3. QED BY <2>1, <2>2 DEF Solved
<1>8. DOMAIN b = DOMAIN best \cup {id} /\ \A d \in DOMAIN b : Solved(p, b, d)
  BY <1>1, <1>6, <1>7
<1>9. QED BY <1>8 DEF b

\* Every target has an entry, and it is right.
LEMMA ChainsSolved ==
  ASSUME NEW p, Valid(p)
  PROVE  DOMAIN BestChains(p) = Ids(p) /\ \A id \in Ids(p) : Solved(p, BestChains(p), id)
<1> DEFINE n == Len(p.targets)
           o == TopologicalOrder(p)
<1>1. Orders(p, n, o)
  BY OrderHolds
<1>2. n \in Nat /\ DOMAIN o = 1..n
  BY <1>1 DEF Orders
<1>3. PICK read : InTurn([of |-> "chains", p |-> p], <<>>, o, n, read) /\ BestChains(p) = read[n]
  BY <1>2, ChainsInTurn
<1> HIDE DEF n, o
<1>4. /\ n \in Nat
      /\ \A k \in 1..n : o[k] \in Ids(p)
      /\ \A j, k \in 1..n : o[j] = o[k] => j = k
      /\ \A id \in Ids(p) : \E k \in 1..n : id = o[k]
      /\ \A k \in 1..n : \A d \in Below(p, o[k]) : \E j \in 1..(k - 1) : d = o[j]
  BY <1>1 DEF Orders
<1> DEFINE Upto(i) == {o[k] : k \in 1..i}
           P == {i \in 0..n : /\ DOMAIN read[i] = Upto(i)
                              /\ \A d \in Upto(i) : Solved(p, read[i], d)}
<1>5. 0 \in P
  <2>1. read[0] = <<>> /\ DOMAIN <<>> = {} /\ Upto(0) = {} /\ 0 \in 0..n
    BY <1>4, <1>3 DEF InTurn
  <2>2. DOMAIN read[0] = Upto(0) /\ \A d \in Upto(0) : Solved(p, read[0], d)
    BY <2>1
  <2>3. QED BY <2>1, <2>2
<1>6. ASSUME NEW i \in 1..n, i - 1 \in P PROVE i \in P
  <2> DEFINE a == read[i - 1]
             S == Upto(i - 1)
             id == o[i]
  <2>1. DOMAIN a = S /\ \A d \in S : Solved(p, a, d)
    BY <1>6
  <2>2. read[i] = Extended(p, a, id, Heaviest(a, Below(p, id)))
    BY <1>3 DEF InTurn, Step
  <2>3. i \in 0..n /\ 1..i = 1..(i - 1) \cup {i} /\ \A k \in 1..(i - 1) : k \in 1..n /\ k # i
    BY <1>4
  <2>4. Upto(i) = S \cup {id}
    BY <2>3
  <2>5. id \in Ids(p) /\ id \notin S /\ S \subseteq Ids(p) /\ Below(p, id) \subseteq S
    <3>1. id \in Ids(p) /\ id \notin S /\ S \subseteq Ids(p)
      BY <1>4, <2>3
    <3>2. ASSUME NEW d \in Below(p, id) PROVE d \in S
      BY <1>4
    <3>3. QED BY <3>1, <3>2
  <2>6. ASSUME NEW d \in S PROVE Below(p, d) \subseteq S
    <3>1. PICK k \in 1..(i - 1) : d = o[k]
      OBVIOUS
    <3>2. k \in 1..n /\ \A j \in 1..(k - 1) : j \in 1..(i - 1)
      BY <1>4, <2>3
    <3>3. \A e \in Below(p, d) : \E j \in 1..(k - 1) : e = o[j]
      BY <1>4, <3>1, <3>2
    <3>4. QED BY <3>2, <3>3
  <2> DEFINE b == read[i]
  <2> HIDE DEF a, S, id, b
  <2>7. /\ id \in Ids(p) \ DOMAIN a /\ Below(p, id) \subseteq DOMAIN a
        /\ DOMAIN a \subseteq Ids(p)
        /\ \A d \in DOMAIN a : Below(p, d) \subseteq DOMAIN a
        /\ \A d \in DOMAIN a : Solved(p, a, d)
        /\ b = Extended(p, a, id, Heaviest(a, Below(p, id)))
    BY <2>1, <2>2, <2>5, <2>6 DEF b
  <2>8. DOMAIN b = DOMAIN a \cup {id} /\ \A d \in DOMAIN b : Solved(p, b, d)
    <3> DEFINE x == Extended(p, a, id, Heaviest(a, Below(p, id)))
    <3>1. DOMAIN x = DOMAIN a \cup {id} /\ \A d \in DOMAIN x : Solved(p, x, d)
      BY <2>7, ExtendedSolves
    <3> HIDE DEF x
    <3>2. b = x
      BY <2>7 DEF x
    <3>3. QED BY <3>1, <3>2
  <2>9. DOMAIN b = Upto(i) /\ \A d \in Upto(i) : Solved(p, b, d)
    BY <2>1, <2>4, <2>8
  <2>10. QED BY <2>3, <2>9 DEF b
<1>7. n \in P
  <2> HIDE DEF P
  <2>1. QED BY <1>4, <1>5, <1>6, OneByOne
<1>8. Upto(n) = Ids(p)
  BY <1>4
<1>9. QED BY <1>3, <1>7, <1>8

--------------------------------------------------------------------------------
(* The critical path *)

\* Numbers that grow along dependencies.
LEMMA Positions ==
  ASSUME NEW p, Valid(p)
  PROVE  /\ Len(p.targets) \in Nat /\ DOMAIN p.targets = 1..Len(p.targets)
         /\ \E pos : /\ \A id \in Ids(p) : pos[id] \in 1..Len(p.targets)
                     /\ \A id \in Ids(p) : \A d \in Below(p, id) : d \in Ids(p) /\ pos[d] < pos[id]
<1> DEFINE n == Len(p.targets)
           o == TopologicalOrder(p)
<1>1. Orders(p, n, o)
  BY OrderHolds
<1> HIDE DEF n, o
<1>2. /\ n \in Nat /\ DOMAIN p.targets = 1..n
      /\ \A k \in 1..n : o[k] \in Ids(p)
      /\ \A j, k \in 1..n : o[j] = o[k] => j = k
      /\ \A id \in Ids(p) : \E k \in 1..n : id = o[k]
      /\ \A k \in 1..n : \A d \in Below(p, o[k]) : \E j \in 1..(k - 1) : d = o[j]
  BY <1>1 DEF Orders
<1> DEFINE pos == [id \in Ids(p) |-> CHOOSE k \in 1..n : id = o[k]]
<1>3. \A id \in Ids(p) : pos[id] \in 1..n /\ id = o[pos[id]]
  BY <1>2
<1> HIDE DEF pos
<1>4. ASSUME NEW id \in Ids(p), NEW d \in Below(p, id) PROVE d \in Ids(p) /\ pos[d] < pos[id]
  <2> DEFINE k == pos[id]
  <2>1. k \in 1..n /\ id = o[k]
    BY <1>3
  <2> HIDE DEF k
  <2>2. PICK j \in 1..(k - 1) : d = o[j]
    BY <1>2, <2>1
  <2>3. j \in 1..n /\ j < k
    BY <1>2, <2>1
  <2>4. d \in Ids(p) /\ pos[d] \in 1..n /\ o[pos[d]] = o[j]
    BY <1>2, <1>3, <2>2, <2>3
  <2>5. pos[d] = j
    BY <1>2, <2>3, <2>4
  <2>6. QED BY <2>3, <2>4, <2>5 DEF k
<1>5. QED BY <1>2, <1>3, <1>4 DEF n

\* What has been traced back after i rounds.
Traced(p, best, pos, s, n, i, a) ==
  /\ a \in Seq(Ids(p)) /\ Len(a) >= 1 /\ IsChain(p, a)
  /\ \A j \in 2..Len(a) : pos[a[1]] < pos[a[j]]
  /\ Add(best[a[1]].cost, Cost(p, ToSet(a) \ {a[1]})) = best[s].cost
  /\ best[a[1]].from = None \/ pos[a[1]] + i <= n

\* One round back.
LEMMA TracedOn ==
  ASSUME NEW p, Valid(p), NEW best, \A id \in Ids(p) : Solved(p, best, id), NEW pos, NEW n \in Nat,
         \A id \in Ids(p) : pos[id] \in 1..n,
         \A id \in Ids(p) : \A d \in Below(p, id) : d \in Ids(p) /\ pos[d] < pos[id],
         NEW s \in Ids(p), NEW i \in 1..n, NEW a, Traced(p, best, pos, s, n, i - 1, a)
  PROVE  Traced(p, best, pos, s, n, i,
                IF best[a[1]].from = None THEN a ELSE <<best[a[1]].from>> \o a)
<1>1. CASE best[a[1]].from = None
  BY <1>1 DEF Traced
<1>2. CASE best[a[1]].from # None
  <2> DEFINE h == a[1]
             f == best[h].from
             m == Len(a)
             b == <<f>> \o a
  <2>1. a \in Seq(Ids(p)) /\ m \in Nat \ {0} /\ DOMAIN a = 1..m /\ \A j \in 1..m : a[j] \in Ids(p)
    <3>1. a \in Seq(Ids(p)) /\ Len(a) >= 1
      BY DEF Traced
    <3>2. QED BY <3>1, LenProperties
  <2>2. h \in Ids(p) /\ Solved(p, best, h)
    BY <2>1
  <2>3. f \in Below(p, h) /\ best[h].cost = Add(best[f].cost, Duration(p, h))
    BY <1>2, <2>2 DEF Solved
  <2>4. f \in Ids(p) /\ pos[f] < pos[h] /\ pos[f] \in Nat /\ pos[h] \in Nat
    BY <2>2, <2>3
  <2> HIDE DEF f, h
  <2>5. /\ b \in Seq(Ids(p)) /\ Len(b) = m + 1
        /\ b[1] = f /\ \A j \in 1..m : b[j + 1] = a[j]
    <3>1. <<f>> \in Seq(Ids(p)) /\ Len(<<f>>) = 1 /\ <<f>>[1] = f
      BY <2>4
    <3>2. /\ b \in Seq(Ids(p)) /\ Len(b) = 1 + m
          /\ \A j \in 1..(1 + m) : b[j] = IF j <= 1 THEN <<f>>[j] ELSE a[j - 1]
      BY <2>1, <3>1, ConcatProperties
    <3> HIDE DEF b, m
    <3>3. b[1] = f
      BY <2>1, <3>1, <3>2
    <3>4. ASSUME NEW j \in 1..m PROVE b[j + 1] = a[j]
      <4>1. j + 1 \in 1..(1 + m) /\ ~(j + 1 <= 1) /\ (j + 1) - 1 = j
        BY <2>1
      <4>2. QED BY <3>2, <4>1
    <3>5. QED BY <2>1, <3>2, <3>3, <3>4
  <2> HIDE DEF b, m
  <2>6. \A j \in 1..(m + 1) : j = 1 \/ (j - 1 \in 1..m /\ b[j] = a[j - 1])
    <3>1. ASSUME NEW j \in 1..(m + 1), j # 1 PROVE j - 1 \in 1..m /\ b[j] = a[j - 1]
      <4>1. j - 1 \in 1..m /\ (j - 1) + 1 = j
        BY <2>1, <3>1
      <4>2. QED BY <2>5, <4>1
    <3>2. QED BY <3>1
  <2>7. IsChain(p, b)
    <3>1. ASSUME NEW j \in 1..m PROVE b[j] \in Below(p, b[j + 1])
      <4>1. CASE j = 1
        <5>1. b[1] = f /\ b[2] = h
          BY <2>5, <4>1 DEF h
        <5>2. QED BY <2>3, <4>1, <5>1
      <4>2. CASE j # 1
        <5>1. j - 1 \in 1..m /\ b[j] = a[j - 1] /\ b[j + 1] = a[j]
          BY <2>1, <2>5, <2>6, <4>2
        <5>2. j - 1 \in 1..(m - 1) /\ (j - 1) + 1 = j
          BY <2>1, <4>2
        <5>3. a[j - 1] \in Below(p, a[j])
          BY <5>2 DEF Traced, IsChain, m
        <5>4. QED BY <5>1, <5>3
      <4>3. QED BY <4>1, <4>2
    <3>2. (m + 1) - 1 = m
      BY <2>1
    <3>3. QED BY <2>5, <3>1, <3>2 DEF IsChain
  <2>8. \A j \in 1..m : pos[f] < pos[a[j]]
    <3>1. ASSUME NEW j \in 1..m PROVE pos[f] < pos[a[j]]
      <4>1. j = 1 \/ j \in 2..m
        BY <2>1
      <4>2. j = 1 \/ pos[h] < pos[a[j]]
        BY <4>1 DEF Traced, m, h
      <4>3. pos[a[j]] \in Nat
        BY <2>1
      <4>4. QED BY <2>4, <4>2, <4>3 DEF h
    <3>2. QED BY <3>1
  <2>9. \A j \in 2..(m + 1) : pos[b[1]] < pos[b[j]]
    <3>1. ASSUME NEW j \in 2..(m + 1) PROVE pos[f] < pos[b[j]]
      <4>1. j \in 1..(m + 1) /\ j # 1
        BY <2>1
      <4>2. j - 1 \in 1..m /\ b[j] = a[j - 1]
        BY <2>6, <4>1
      <4>3. QED BY <2>8, <4>2
    <3>2. QED BY <2>5, <3>1
  <2>10. ToSet(b) \ {f} = ToSet(a) /\ h \in ToSet(a) /\ ToSet(a) \in SUBSET Ids(p)
    <3>1. DOMAIN b = 1..(m + 1)
      BY <2>5, LenProperties
    <3>2. \A x : x \in ToSet(b) <=> \E j \in 1..(m + 1) : x = b[j]
      BY <3>1 DEF ToSet
    <3>3. \A x : x \in ToSet(a) <=> \E j \in 1..m : x = a[j]
      BY <2>1 DEF ToSet
    <3>4. f \notin ToSet(a)
      <4>1. \A j \in 1..m : pos[a[j]] \in Nat /\ pos[f] < pos[a[j]]
        BY <2>1, <2>8
      <4>2. QED BY <2>4, <3>3, <4>1
    <3>5. ASSUME NEW x PROVE x \in ToSet(b) /\ x # f <=> x \in ToSet(a)
      <4>1. x \in ToSet(b) /\ x # f => x \in ToSet(a)
        BY <2>5, <2>6, <3>2, <3>3
      <4>2. ASSUME x \in ToSet(a) PROVE x \in ToSet(b)
        <5>1. PICK j \in 1..m : x = a[j]
          BY <3>3, <4>2
        <5>2. j + 1 \in 1..(m + 1) /\ b[j + 1] = x
          BY <2>1, <2>5, <5>1
        <5>3. QED BY <3>2, <5>2
      <4>3. QED BY <3>4, <4>1, <4>2
    <3>6. 1 \in 1..m
      BY <2>1
    <3>7. QED BY <2>1, <3>3, <3>5, <3>6 DEF h
  <2>11. Add(best[f].cost, Cost(p, ToSet(b) \ {f})) = best[s].cost
    <3> DEFINE T == ToSet(a) \ {h}
               c == Cost(p, T)
               D == Duration(p, h)
    <3>1. T \in SUBSET Ids(p) /\ h \in Ids(p) \ T /\ T \cup {h} = ToSet(a) /\ Weighs(p)
      BY <2>2, <2>10, ValidFacts, SaneFacts
    <3>2. Cost(p, ToSet(a)) = Add(c, D) /\ c \in 0..MaxMs
      <4> HIDE DEF T
      <4>1. Cost(p, T \cup {h}) = Add(c, D) /\ c \in 0..MaxMs
        BY <3>1, CostGrows
      <4>2. QED BY <3>1, <4>1
    <3>3. D \in 0..MaxMs /\ best[f].cost \in 0..MaxMs
      BY <2>2, <2>4, <3>1 DEF Weighs, Solved
    <3>4. Add(Add(best[f].cost, D), c) = best[s].cost
      BY <2>3 DEF Traced, h
    <3> DEFINE e == best[f].cost
    <3> HIDE DEF T, c, D, e
    <3>5. e \in 0..MaxMs /\ D \in 0..MaxMs /\ c \in 0..MaxMs
      BY <3>2, <3>3 DEF e
    <3>6. Add(Add(e, D), c) = Add(Add(e, c), D)
      BY <3>5, AddFacts
    <3>7. Add(Add(e, c), D) = Add(e, Add(c, D))
      BY <3>5, AddFacts
    <3>8. QED BY <2>10, <3>2, <3>4, <3>6, <3>7 DEF e
  <2>12. pos[f] + i <= n
    <3>1. pos[h] + (i - 1) <= n
      BY <1>2 DEF Traced, h, f
    <3>2. QED BY <2>4, <3>1
  <2>13. Traced(p, best, pos, s, n, i, b)
    BY <2>1, <2>5, <2>7, <2>9, <2>11, <2>12 DEF Traced
  <2>14. QED BY <1>2, <2>13 DEF b, f, h
<1>3. QED BY <1>1, <1>2

\* What is traced back from a target is a chain that costs what its entry says.
LEMMA TraceIsChain ==
  ASSUME NEW p, Valid(p), NEW best, \A id \in Ids(p) : Solved(p, best, id), NEW s \in Ids(p)
  PROVE  /\ IsChain(p, Trace(best, s, p.targets))
         /\ ToSet(Trace(best, s, p.targets)) \in SUBSET Ids(p)
         /\ Cost(p, ToSet(Trace(best, s, p.targets))) = best[s].cost
<1> DEFINE n == Len(p.targets)
           path == Trace(best, s, p.targets)
<1>1. PICK pos : /\ \A id \in Ids(p) : pos[id] \in 1..n
                 /\ \A id \in Ids(p) : \A d \in Below(p, id) : d \in Ids(p) /\ pos[d] < pos[id]
  BY Positions
<1>2. n \in Nat /\ DOMAIN p.targets = 1..n
  BY Positions
<1>3. PICK read : /\ InTurn([of |-> "trace", best |-> best], <<s>>, p.targets, n, read)
                  /\ path = read[n]
  BY <1>2, TraceInTurn
<1> HIDE DEF n, path
<1>4. Weighs(p)
  BY ValidFacts, SaneFacts
<1> DEFINE P == {i \in 0..n : Traced(p, best, pos, s, n, i, read[i])}
<1>5. 0 \in P
  <2>1. read[0] = <<s>> /\ 0 \in 0..n
    BY <1>2, <1>3 DEF InTurn
  <2> DEFINE a == <<s>>
  <2>2. a \in Seq(Ids(p)) /\ Len(a) = 1 /\ a[1] = s /\ DOMAIN a = 1..1
    OBVIOUS
  <2> HIDE DEF a
  <2>3. IsChain(p, a) /\ \A j \in 2..Len(a) : pos[a[1]] < pos[a[j]]
    <3>1. 1..(Len(a) - 1) = {} /\ 2..Len(a) = {}
      BY <2>2
    <3>2. QED BY <3>1 DEF IsChain
  <2>4. Add(best[a[1]].cost, Cost(p, ToSet(a) \ {a[1]})) = best[s].cost
    <3>1. ToSet(a) \ {a[1]} = {}
      BY <2>2 DEF ToSet
    <3>2. Cost(p, {}) = 0
      BY <1>4, CostGrows
    <3> DEFINE c == best[s].cost
    <3>3. c \in 0..MaxMs
      BY DEF Solved
    <3> HIDE DEF c
    <3>4. Add(c, 0) = c
      BY <3>3, AddFacts
    <3>5. QED BY <2>2, <3>1, <3>2, <3>4 DEF c
  <2>5. pos[a[1]] + 0 <= n
    BY <1>1, <1>2, <2>2
  <2>6. Traced(p, best, pos, s, n, 0, a)
    BY <2>2, <2>3, <2>4, <2>5 DEF Traced
  <2>7. QED BY <2>1, <2>6 DEF a
<1>6. ASSUME NEW i \in 1..n, i - 1 \in P PROVE i \in P
  <2> DEFINE a == read[i - 1]
             b == IF best[a[1]].from = None THEN a ELSE <<best[a[1]].from>> \o a
  <2>1. Traced(p, best, pos, s, n, i - 1, a)
    BY <1>6
  <2>2. read[i] = b
    <3>1. read[i] = IF best[Head(a)].from = None THEN a ELSE <<best[Head(a)].from>> \o a
      BY <1>3 DEF InTurn, Step
    <3>2. a \in Seq(Ids(p)) /\ Len(a) >= 1
      BY <2>1 DEF Traced
    <3> HIDE DEF a
    <3>3. Head(a) = a[1]
      BY <3>2
    <3>4. QED BY <3>1, <3>3
  <2> HIDE DEF a
  <2>3. Traced(p, best, pos, s, n, i, b)
    BY <1>1, <1>2, <2>1, TracedOn
  <2> HIDE DEF b
  <2>4. i \in 0..n
    BY <1>2
  <2>5. QED BY <2>2, <2>3, <2>4
<1>7. Traced(p, best, pos, s, n, n, path)
  <2> HIDE DEF P
  <2>1. \A i \in 1..n : i - 1 \in P => i \in P
    BY <1>6
  <2>2. \A i \in 0..n : i \in P
    BY <1>2, <1>5, <2>1, OneByOne
  <2>3. n \in P
    BY <1>2, <2>2
  <2>4. QED BY <1>3, <2>3 DEF P
<1> DEFINE h == path[1]
           T == ToSet(path) \ {h}
<1>8. /\ path \in Seq(Ids(p)) /\ Len(path) >= 1 /\ IsChain(p, path)
      /\ Add(best[h].cost, Cost(p, T)) = best[s].cost
      /\ best[h].from = None \/ pos[h] + n <= n
  BY <1>7 DEF Traced
<1>9. DOMAIN path = 1..Len(path) /\ Len(path) \in Nat /\ \A j \in 1..Len(path) : path[j] \in Ids(p)
  BY <1>8, LenProperties
<1>10. h \in Ids(p) /\ h \in ToSet(path) /\ ToSet(path) \in SUBSET Ids(p)
  <2>1. 1 \in 1..Len(path)
    BY <1>8, <1>9
  <2>2. QED BY <1>9, <2>1 DEF ToSet
<1> HIDE DEF h
<1>11. best[h].cost = Duration(p, h)
  <2>1. pos[h] \in 1..n
    BY <1>1, <1>10
  <2>2. best[h].from = None
    BY <1>2, <1>8, <2>1
  <2>3. QED BY <1>10, <2>2 DEF Solved
<1>12. Cost(p, ToSet(path)) = best[s].cost
  <2>1. T \in SUBSET Ids(p) /\ h \in Ids(p) \ T /\ T \cup {h} = ToSet(path)
    BY <1>10
  <2> HIDE DEF T
  <2> DEFINE c == Cost(p, T)
             D == Duration(p, h)
  <2>2. Cost(p, T \cup {h}) = Add(c, D) /\ c \in 0..MaxMs
    BY <1>4, <2>1, CostGrows
  <2>3. D \in 0..MaxMs
    BY <1>4, <1>10 DEF Weighs
  <2>4. Add(D, c) = best[s].cost
    BY <1>8, <1>11
  <2> HIDE DEF c, D
  <2>5. Add(c, D) = Add(D, c)
    BY <2>2, <2>3, AddFacts
  <2>6. QED BY <2>1, <2>2, <2>4, <2>5
<1>13. QED BY <1>8, <1>10, <1>12 DEF path

\* No chain costs more than the entry of the target it ends in.
LEMMA ChainCosts ==
  ASSUME NEW p, Valid(p), NEW best, \A id \in Ids(p) : Solved(p, best, id),
         NEW ids \in SUBSET Ids(p), ids # {}, NEW s \in SetToSeqs(ids), IsChain(p, s)
  PROVE  \E id \in ids : Cost(p, ids) <= best[id].cost
<1> DEFINE m == Cardinality(ids)
<1>1. Weighs(p) /\ IsFiniteSet(ids) /\ m \in Nat \ {0}
  <2>1. Weighs(p)
    BY ValidFacts, SaneFacts
  <2>2. IsFiniteSet(ids)
    BY <2>1, FS_Subset DEF Weighs
  <2>3. m \in Nat /\ m # 0
    BY <2>2, FS_CardinalityType, FS_EmptySet
  <2>4. QED BY <2>1, <2>2, <2>3
<1>2. s \in [1..m -> ids] /\ \A i, j \in 1..m : i # j => s[i] # s[j]
  BY DEF SetToSeqs
<1>3. Len(s) = m
  BY <1>1, <1>2
<1>4. \A x \in ids : \E i \in 1..m : s[i] = x
  <2>1. s \in Injection(1..m, ids)
    BY <1>2 DEF Injection, IsInjective
  <2>2. 1 \in Int /\ m \in Int /\ Cardinality(1..m) = m
    BY <1>1, FS_Interval
  <2>3. s \in Surjection(1..m, ids)
    BY <1>1, <2>1, <2>2, FS_Injection
  <2>4. QED BY <2>3 DEF Surjection
<1> HIDE DEF m
<1> DEFINE Upto(i) == {s[k] : k \in 1..i}
           P == {i \in 0..m : i = 0 \/ Cost(p, Upto(i)) <= best[s[i]].cost}
<1>5. 0 \in P
  BY <1>1
<1>6. ASSUME NEW i \in 1..m, i - 1 \in P PROVE i \in P
  <2> DEFINE x == s[i]
             S == Upto(i - 1)
             D == Duration(p, x)
  <2>1. x \in Ids(p) /\ Solved(p, best, x)
    BY <1>2
  <2>2. i \in 0..m /\ 1..i = 1..(i - 1) \cup {i} /\ \A k \in 1..(i - 1) : k \in 1..m /\ k # i
    BY <1>1
  <2>3. Upto(i) = S \cup {x} /\ S \in SUBSET Ids(p) /\ x \notin S
    <3>1. Upto(i) = S \cup {x}
      BY <2>2
    <3>2. S \in SUBSET Ids(p)
      BY <1>2, <2>2
    <3>3. x \notin S
      BY <1>2, <2>2
    <3>4. QED BY <3>1, <3>2, <3>3
  <2>4. Cost(p, Upto(i)) <= best[s[i]].cost
    <3> DEFINE c == Cost(p, S)
               e == best[x].cost
    <3>1. D \in 0..MaxMs /\ D <= e /\ e \in 0..MaxMs
      BY <1>1, <2>1 DEF Weighs, Solved
    <3>2. Cost(p, Upto(i)) = Add(c, D) /\ c \in 0..MaxMs
      <4> HIDE DEF S, x
      <4>1. Cost(p, S \cup {x}) = Add(c, D) /\ c \in 0..MaxMs
        BY <1>1, <2>1, <2>3, CostGrows
      <4>2. QED BY <2>3, <4>1
    <3>3. CASE i = 1
      <4>1. S = {}
        BY <3>3
      <4>2. c = 0
        BY <1>1, <4>1, CostGrows
      <4> HIDE DEF S, c, D, e
      <4>3. Add(0, D) = D
        BY <3>1, AddFacts
      <4>4. QED BY <3>1, <3>2, <4>2, <4>3 DEF e
    <3>4. CASE i # 1
      <4> DEFINE y == s[i - 1]
                 f == best[y].cost
      <4>1. i - 1 \in 1..(m - 1) /\ (i - 1) + 1 = i /\ i - 1 # 0 /\ i - 1 \in 1..m
        BY <1>1, <3>4
      <4>2. y \in Below(p, x)
        BY <1>3, <4>1 DEF IsChain
      <4>3. c <= f
        BY <1>6, <4>1
      <4>4. f \in 0..MaxMs /\ Add(f, D) <= e
        <5>1. Solved(p, best, y)
          BY <1>2, <4>1
        <5>2. QED BY <2>1, <4>2, <5>1 DEF Solved
      <4> HIDE DEF S, c, D, f, y
      <4>5. Add(c, D) <= Add(f, D) /\ Add(c, D) \in 0..MaxMs /\ Add(f, D) \in 0..MaxMs
        BY <3>1, <3>2, <4>3, <4>4, AddFacts
      <4>6. Add(c, D) <= e
        BY <3>1, <4>4, <4>5
      <4>7. QED BY <3>2, <4>6
    <3>5. QED BY <3>3, <3>4
  <2>5. QED BY <2>2, <2>4
<1>7. m \in P
  <2> HIDE DEF P
  <2>1. \A i \in 1..m : i - 1 \in P => i \in P
    BY <1>6
  <2>2. \A i \in 0..m : i \in P
    BY <1>1, <1>5, <2>1, OneByOne
  <2>3. QED BY <1>1, <2>2
<1>8. Upto(m) = ids
  BY <1>2, <1>4
<1>9. Cost(p, Upto(m)) <= best[s[m]].cost /\ s[m] \in ids
  BY <1>1, <1>2, <1>7
<1>10. QED BY <1>8, <1>9

IsLongest(p, d) ==
  /\ IsChain(p, d.critical.path)
  /\ Cost(p, ToSet(d.critical.path)) = d.critical.ms
  /\ d.critical.ms <= d.single
  /\ \A ids \in SUBSET Ids(p) : Cost(p, ids) > d.critical.ms =>
       \A s \in SetToSeqs(ids) : ~IsChain(p, s)

\* CriticalPathIsLongest, of what schedule returns.
LEMMA PathIsLongest ==
  ASSUME NEW p, Sane(p), NEW d, Decides(p, d), d.error = "none"
  PROVE  IsLongest(p, d)
<1> DEFINE best == BestChains(p)
           heaviest == Heaviest(best, Ids(p))
           path == d.critical.path
           ms == d.critical.ms
<1>1. Valid(p) /\ d.single = Cost(p, Ids(p)) /\ d.critical = CriticalPath(p)
  BY Decided
<1>2. DOMAIN best = Ids(p) /\ \A id \in Ids(p) : Solved(p, best, id)
  BY <1>1, ChainsSolved
<1>3. Weighs(p) /\ Ids(p) \in SUBSET Nat
  BY SaneFacts
<1>4. \A id \in Ids(p) : best[id].cost \in 0..MaxMs
  BY <1>2 DEF Solved
<1>5. /\ IsChain(p, path) /\ ToSet(path) \in SUBSET Ids(p) /\ Cost(p, ToSet(path)) = ms
      /\ ms \in 0..MaxMs /\ \A id \in Ids(p) : best[id].cost <= ms
  <2>1. CASE heaviest = {}
    <3>1. path = <<>> /\ ms = 0
      BY <1>1, <2>1 DEF CriticalPath
    <3>2. IsChain(p, <<>>) /\ ToSet(<<>>) = {} /\ {} \in SUBSET Ids(p)
      BY DEF IsChain, ToSet
    <3>3. Cost(p, {}) = 0
      BY <1>3, CostGrows
    <3>4. \A id \in Ids(p) : best[id].cost = 0
      BY <1>4, <2>1, HeaviestFacts
    <3> DEFINE none == <<>>
    <3> HIDE DEF path, ms, best, heaviest, none
    <3>5. path = none /\ ms = 0 /\ ms \in 0..MaxMs
      BY <3>1, PlannerAssumption DEF none
    <3>6. IsChain(p, none) /\ ToSet(none) = {} /\ Cost(p, ToSet(none)) = 0
      BY <3>2, <3>3 DEF none
    <3>7. \A id \in Ids(p) : best[id].cost <= ms
      BY <3>4, <3>5
    <3>8. QED BY <3>2, <3>5, <3>6, <3>7
  <2>2. CASE heaviest # {}
    <3> DEFINE s == Min(heaviest)
    <3>1. s \in heaviest
      <4>1. heaviest \in SUBSET Nat
        BY <1>3 DEF Heaviest
      <4>2. \E x \in heaviest : \A y \in heaviest : x <= y
        <5> HIDE DEF heaviest
        <5>1. QED BY <2>2, <4>1, LeastNumber
      <4>3. QED BY <4>2 DEF Min
    <3>2. path = Trace(best, s, p.targets) /\ ms = best[s].cost
      BY <1>1, <2>2 DEF CriticalPath
    <3>3. s \in Ids(p) /\ \A id \in Ids(p) : best[id].cost <= best[s].cost
      BY <3>1 DEF Heaviest
    <3> HIDE DEF s, best
    <3>4. /\ IsChain(p, Trace(best, s, p.targets))
          /\ ToSet(Trace(best, s, p.targets)) \in SUBSET Ids(p)
          /\ Cost(p, ToSet(Trace(best, s, p.targets))) = best[s].cost
      BY <1>1, <1>2, <3>3, TraceIsChain
    <3>5. QED BY <1>4, <3>2, <3>3, <3>4
  <2>3. QED BY <2>1, <2>2
<1> HIDE DEF best, path, ms, heaviest
<1>6. ms <= d.single
  <2>1. Ids(p) \in SUBSET Ids(p)
    OBVIOUS
  <2>2. Cost(p, ToSet(path)) <= Cost(p, Ids(p))
    BY <1>3, <1>5, <2>1, CostMonotone
  <2>3. QED BY <1>1, <1>5, <2>2
<1>7. ASSUME NEW ids \in SUBSET Ids(p), Cost(p, ids) > ms,
             NEW s \in SetToSeqs(ids), IsChain(p, s)
      PROVE  FALSE
  <2>1. Cost(p, ids) \in 0..MaxMs /\ Cost(p, {}) = 0
    BY <1>3, CostGrows
  <2>2. ids # {}
    BY <1>5, <1>7, <2>1
  <2>3. PICK id \in ids : Cost(p, ids) <= best[id].cost
    BY <1>1, <1>2, <1>7, <2>2, ChainCosts
  <2>4. best[id].cost <= ms /\ best[id].cost \in 0..MaxMs
    BY <1>4, <1>5
  <2>5. QED BY <1>5, <1>7, <2>1, <2>3, <2>4, PlannerAssumption
<1>8. QED BY <1>5, <1>6, <1>7 DEF IsLongest, path, ms

--------------------------------------------------------------------------------
(* The scheduler *)

\* What is measured is a duration, and what was decided is what schedule returns for what
\* it was asked: nothing is recorded, forgotten or asked for any more after it.
ScheduleInv ==
  /\ request \in Requests
  /\ \A key \in DOMAIN history : history[key].duration \in 0..MaxMs
  /\ decision # None => Decides(Asked, decision)

\* Nothing is measured and nothing decided at first.
LEMMA ScheduleInitInv == ScheduleInit => ScheduleInv
<1>1. DOMAIN <<>> = {}
  OBVIOUS
<1>2. QED BY <1>1 DEF ScheduleInit, ScheduleInv

\* Records change before the plan is made, not after.
LEMMA ScheduleNextInv == ScheduleInv /\ [ScheduleNext]_scheduleVars => ScheduleInv'
<1> SUFFICES ASSUME ScheduleInv, [ScheduleNext]_scheduleVars PROVE ScheduleInv'
  OBVIOUS
<1>1. CASE Record
  <2>1. PICK i \in DOMAIN request.targets, ms \in Durations :
          LET key == request.targets[i].key
          IN history' = [k \in DOMAIN history \cup {key} |->
                           IF k = key THEN [duration |-> ms, at |-> now] ELSE history[k]]
    BY <1>1 DEF Record
  <2>2. ms \in 0..MaxMs
    BY ScheduleAssumption
  <2>3. \A k \in DOMAIN history' : history'[k].duration \in 0..MaxMs
    BY <2>1, <2>2 DEF ScheduleInv
  <2>4. request' \in Requests /\ decision' = None
    BY <1>1 DEF Record, ScheduleInv
  <2>5. QED BY <2>3, <2>4 DEF ScheduleInv
<1>2. ASSUME NEW retention \in 0..MaxTime, ForgetStale(retention) PROVE ScheduleInv'
  <2>1. \A k \in DOMAIN history' : k \in DOMAIN history /\ history'[k] = history[k]
    BY <1>2 DEF ForgetStale
  <2>2. request' \in Requests /\ decision' = None
    BY <1>2 DEF ForgetStale, ScheduleInv
  <2>3. QED BY <2>1, <2>2 DEF ScheduleInv
<1>3. CASE SetClock
  <2>1. request' \in Requests /\ decision' = None /\ history' = history
    BY <1>3 DEF SetClock, ScheduleInv
  <2>2. QED BY <2>1 DEF ScheduleInv
<1>4. CASE Plan
  <2>1. request' = request /\ history' = history /\ now' = now /\ Decides(Asked, decision')
    BY <1>4 DEF Plan
  <2>2. Asked' = Asked
    BY <2>1 DEF Asked
  <2>3. QED BY <2>1, <2>2 DEF ScheduleInv
<1>5. CASE UNCHANGED scheduleVars
  <2>1. request' = request /\ history' = history /\ now' = now /\ decision' = decision
    BY <1>5 DEF scheduleVars
  <2>2. Asked' = Asked
    BY <2>1 DEF Asked
  <2>3. QED BY <2>1, <2>2 DEF ScheduleInv
<1>6. QED BY <1>1, <1>2, <1>3, <1>4, <1>5 DEF ScheduleNext

\* History and decision agree in every reachable state: a plan is the one schedule makes of the
\* graph, the policy, the history and the clock as they still are (history.rs, schedule.rs).
THEOREM ScheduleStays == ScheduleSpec => []ScheduleInv
<1>1. QED BY ScheduleInitInv, ScheduleNextInv, PTL DEF ScheduleSpec

\* What schedule is asked for is a state of the program.
LEMMA AskedIsSane == ScheduleInv => Sane(Asked)
<1> SUFFICES ASSUME ScheduleInv PROVE Sane(Asked)
  OBVIOUS
<1>1. /\ Asked.targets = request.targets /\ Asked.config = request.config
      /\ Asked.history = history
  BY DEF Asked
<1>2. /\ DOMAIN request.targets = 1..Len(request.targets) /\ Len(request.targets) \in Nat
      /\ \A i \in DOMAIN request.targets : IsTarget(request.targets[i])
      /\ request.config.maxWorkers \in Nat
      /\ request.config.startup \in 0..MaxMs /\ request.config.default \in 0..MaxMs
  BY ScheduleAssumption DEF ScheduleInv
<1>3. QED BY <1>1, <1>2 DEF ScheduleInv, Sane

\* What is true of what schedule returns is true of the decision.
LEMMA DecisionHolds ==
  ScheduleInv => OwnedOnce /\ CriticalPathIsLongest /\ FanOutPays
<1> SUFFICES ASSUME ScheduleInv PROVE OwnedOnce /\ CriticalPathIsLongest /\ FanOutPays
  OBVIOUS
<1>1. ASSUME Planned PROVE Sane(Asked) /\ Decides(Asked, decision) /\ decision.error = "none"
  BY <1>1, AskedIsSane DEF Planned, ScheduleInv
<1>2. OwnedOnce
  <2>1. Planned => Owned(Asked, decision)
    BY <1>1, PlanOwnsOnce
  <2>2. QED BY <2>1 DEF OwnedOnce, Owned
<1>3. CriticalPathIsLongest
  <2>1. Planned => IsLongest(Asked, decision)
    BY <1>1, PathIsLongest
  <2>2. QED BY <2>1 DEF CriticalPathIsLongest, IsLongest
<1>4. FanOutPays
  <2>1. Planned => Pays(Asked, decision)
    BY <1>1, PlanPays
  <2>2. QED BY <2>1 DEF FanOutPays, FansOut, Pays
<1>5. QED BY <1>2, <1>3, <1>4

\* Whatever the graph, the history and the policy, build_units gives every target and every
\* root to exactly one unit, and counts what is shared (schedule.rs:106).
THEOREM EveryTargetIsOwnedOnce == ScheduleSpec => []OwnedOnce
<1>1. ScheduleInv => OwnedOnce
  BY DecisionHolds
<1>2. QED BY <1>1, ScheduleStays, PTL

\* Whatever the graph and the measurements, critical_path returns a chain of dependencies with
\* the cost it states, and no chain of the graph costs more.
THEOREM NoChainCostsMore == ScheduleSpec => []CriticalPathIsLongest
<1>1. ScheduleInv => CriticalPathIsLongest
  BY DecisionHolds
<1>2. QED BY <1>1, ScheduleStays, PTL

\* Whatever the measurements and the start-up cost, best_worker_count fans out only when the
\* wall it states beats one worker, on fresh measurements of all work.
THEOREM WorkersPayOff == ScheduleSpec => []FanOutPays
<1>1. ScheduleInv => FanOutPays
  BY DecisionHolds
<1>2. QED BY <1>1, ScheduleStays, PTL
================================================================================
