--------------------------- MODULE RealizationProofs ---------------------------
(***************************************************************************)
(* Proofs about Realization for any flake, store, caches and documents, in *)
(* five parts, one for each invariant of RealizationInvariants: IInv, TInv,*)
(* OrderInv, CInv and ExactInv.                                            *)
(*                                                                         *)
(* In the third part there are no roots before the answers are put together*)
(* (InOrderOrdered), the answers sorted by ordinal are in the order of the *)
(* request (BatchesAscend, Ordered), and the weight counted by the fold is *)
(* the sum of the sizes (Tally), which is one number however the names are *)
(* enumerated (SumsAgree).                                                 *)
(*                                                                         *)
(* In the fourth part the graph that was accepted has no cycle, since      *)
(* Kahn's algorithm placed each of its nodes (OrderIsDependency), and the  *)
(* trail from a skipped node ends at a failure, because each node on it has*)
(* fewer nodes below it than the one before (BlamedFailed).                *)
(*                                                                         *)
(* In the fifth part a map that was filled one key after the other is the  *)
(* one that keeps the last value of each key (MapAtOnce), and a visitor    *)
(* that succeeds has paid at least for what it keeps (Solvent; the lemmas  *)
(* that end in Pays or Pay): less is kept than was paid for where a name   *)
(* comes twice.                                                            *)
(*                                                                         *)
(* The folds that the code's loops are modelled by are proved about one    *)
(* member at a time (OneByOne and the lemmas InTurn).                      *)
(***************************************************************************)
EXTENDS RealizationInvariants, FiniteSetTheorems, WellFoundedInduction, TLAPS

LEMMA StartedOpens ==
  ASSUME NEW S, Opened(S), NEW p \in Phases \ S, open' = Started(p)
  PROVE  Opened(S \cup {p})'
BY DEF Opened, Started

LEMMA FinishedCloses ==
  ASSUME NEW S, NEW p \in Phases, p \notin S, Opened(S \cup {p}), open' = Finished(p)
  PROVE  Opened(S)'
BY DEF Opened, Finished

LEMMA OpenTyped ==
  /\ \A S : Opened(S) => open \in [Phases -> 0..1]
  /\ \A S : Opened(S)' => open' \in [Phases -> 0..1]
BY DEF Opened

LEMMA InitIInv == Init => IInv
<1> SUFFICES ASSUME Init PROVE IInv
  OBVIOUS
<1>1. DOMAIN results = {} /\ DOMAIN executions = {} /\ DOMAIN availability = {}
  BY DEF Init
<1>2. Opened({})
  BY DEF Init, EvaluationInit, Opened
<1>3. /\ cancelled \in BOOLEAN /\ lightweight \in BOOLEAN /\ probeOpen \in BOOLEAN
      /\ ~lightweight /\ ~probeOpen
  BY DEF Init, EvaluationInit
<1>4. pc = "start" /\ outcome = "none"
  BY DEF Init, EvaluationInit
<1>5. TypeOK
  BY <1>1, <1>2, <1>3, <1>4, OpenTyped DEF TypeOK, PcStates
<1> QED
  BY <1>1, <1>2, <1>3, <1>4, <1>5 DEF IInv, PhaseInv, WayInv, Kept, SurvivesInv, ReportInv, Early

------------------------------------------------------------------------------
(* The evaluation *)

EvaluationPcs == {"start", "validate", "discover", "evaluate", "evaluateAll", "app", "complete"}

\* Where a step of the evaluation leads, and what it opens.
EvaluationWay ==
  \/ pc' = pc /\ open' = open /\ outcome' = outcome
  \/ pc' = "done" /\ open' = open /\ outcome' = "error"
  \/ pc' = "done" /\ Opened({})' /\ outcome' = "discovered"
  \/ pc' \in {"complete", "finish"} /\ Opened({})' /\ outcome' = outcome
  \/ pc' \in {"evaluate", "evaluateAll", "app"} /\ Opened({"Evaluation"})' /\ outcome' = outcome
  \/ pc' = "validate" /\ Opened({"Validation"})' /\ outcome' = outcome
  \/ pc' = "discover" /\ Opened({"Discovery"})' /\ outcome' = outcome

LEMMA Start1 ==
  ASSUME NEW p \in Phases, Opened({}), open' = Started(p)
  PROVE  Opened({p})'
<1>1. {} \cup {p} = {p} /\ p \in Phases \ {}
  OBVIOUS
<1> QED BY <1>1, StartedOpens

LEMMA Finish1 ==
  ASSUME NEW p \in Phases, Opened({p}), open' = Finished(p)
  PROVE  Opened({})'
<1>1. {} \cup {p} = {p} /\ p \notin {}
  OBVIOUS
<1> QED BY <1>1, FinishedCloses

LEMMA Switch1 ==
  ASSUME NEW p \in Phases, NEW q \in Phases, p # q, Opened({p}),
         open' = [Finished(p) EXCEPT ![q] = @ + 1]
  PROVE  Opened({q})'
BY DEF Opened, Finished

LEMMA EvaluationMoves ==
  ASSUME PhaseInv, EvaluationNext
  PROVE  EvaluationWay /\ pc \in EvaluationPcs /\ cancelled' = cancelled /\ request' = request
<1> USE DEF PhaseInv, EvaluationPcs, EvaluationWay, Phases
<1>1. CASE BeginNamed
  <2>1. Opened({})
    BY <1>1 DEF BeginNamed
  <2>2. CASE RefusesTargets
    BY <1>1, <2>2 DEF BeginNamed, Refuse
  <2>3. CASE ~RefusesTargets
    <3>1. /\ pc = "start" /\ pc' \in {"evaluate", "evaluateAll"} /\ open' = Started("Evaluation")
          /\ UNCHANGED <<outcome, cancelled, request>>
      BY <1>1, <2>3 DEF BeginNamed, StartEvaluation, Started
    <3>2. Opened({"Evaluation"})'
      BY <2>1, <3>1, Start1
    <3> QED BY <3>1, <3>2
  <2> QED BY <2>2, <2>3
<1>2. CASE BeginApp
  <2>1. pc = "start" /\ Opened({}) /\ UNCHANGED <<cancelled, request>>
    BY <1>2 DEF BeginApp
  <2>2. \/ Refuse
        \/ pc' = "app" /\ open' = Started("Evaluation") /\ outcome' = outcome
    BY <1>2 DEF BeginApp
  <2>3. open' = Started("Evaluation") => Opened({"Evaluation"})'
    BY <2>1, Start1
  <2> QED BY <2>1, <2>2, <2>3 DEF Refuse
<1>3. CASE BeginOther
  <2>1. pc = "start" /\ Opened({}) /\ UNCHANGED <<cancelled, request>>
    BY <1>3 DEF BeginOther
  <2>2. \/ Refuse
        \/ pc' = "validate" /\ open' = Started("Validation") /\ outcome' = outcome
        \/ pc' = "discover" /\ open' = Started("Discovery") /\ outcome' = outcome
    BY <1>3 DEF BeginOther
  <2>3. /\ open' = Started("Validation") => Opened({"Validation"})'
        /\ open' = Started("Discovery") => Opened({"Discovery"})'
    BY <2>1, Start1
  <2> QED BY <2>1, <2>2, <2>3 DEF Refuse
<1>4. CASE Discover
  <2>1. pc = "discover" /\ Opened({"Discovery"}) /\ UNCHANGED <<cancelled, request>>
    BY <1>4 DEF Discover
  <2>2. \/ Refuse
        \/ pc' = "done" /\ outcome' = "discovered" /\ open' = Finished("Discovery")
    BY <1>4 DEF Discover
  <2>3. open' = Finished("Discovery") => Opened({})'
    BY <2>1, Finish1
  <2> QED BY <2>1, <2>2, <2>3 DEF Refuse
<1>5. CASE Validate
  <2>1. pc = "validate" /\ Opened({"Validation"}) /\ UNCHANGED <<cancelled, request, outcome>>
    BY <1>5 DEF Validate
  <2>2. \/ StartEvaluation(Finished("Validation"))
        \/ pc' = "finish" /\ open' = Finished("Validation")
    BY <1>5 DEF Validate
  <2>3. open' = Finished("Validation") => Opened({})'
    BY <2>1, Finish1
  <2>4. open' = [Finished("Validation") EXCEPT !["Evaluation"] = @ + 1] => Opened({"Evaluation"})'
    BY <2>1, Switch1
  <2> QED BY <2>1, <2>2, <2>3, <2>4 DEF StartEvaluation
<1>6. CASE \E w \in DOMAIN worker : TakeBatch(w) \/ StopWorker(w) \/ EvaluateBatch(w)
  BY <1>6 DEF TakeBatch, StopWorker, EvaluateBatch
<1>7. CASE Assemble \/ EvaluateAll
  <2>1. /\ pc \in {"evaluate", "evaluateAll"} /\ Opened({"Evaluation"})
        /\ pc' = "complete" /\ open' = Finished("Evaluation")
        /\ UNCHANGED <<cancelled, request, outcome>>
    BY <1>7 DEF Assemble, EvaluateAll, EvaluationEnds
  <2>2. Opened({})'
    BY <2>1, Finish1
  <2> QED BY <2>1, <2>2
<1>8. CASE EvaluateApp
  <2>1. pc = "app" /\ Opened({"Evaluation"}) /\ UNCHANGED <<cancelled, request>>
    BY <1>8 DEF EvaluateApp, EvaluationEnds
  <2>2. Refuse \/ EvaluationEnds
    BY <1>8 DEF EvaluateApp
  <2>3. open' = Finished("Evaluation") => Opened({})'
    BY <2>1, Finish1
  <2> QED BY <2>1, <2>2, <2>3 DEF Refuse, EvaluationEnds
<1> QED
  BY <1>1, <1>2, <1>3, <1>4, <1>5, <1>6, <1>7, <1>8 DEF EvaluationNext

LEMMA EvaluationIInv ==
  ASSUME IInv, EvaluationNext, UNCHANGED <<streamVars, realizationVars>>
  PROVE  IInv'
<1>1. EvaluationWay /\ pc \in EvaluationPcs /\ cancelled' = cancelled /\ request' = request
  BY EvaluationMoves DEF IInv
<1>2. UNCHANGED <<availability, lightweight, probeOpen, executions, results, exit, confirmed, graph>>
  BY DEF realizationVars, probeVars, planVars, buildVars
<1>3. DOMAIN results = {} /\ ~lightweight /\ ~probeOpen /\ outcome = "none"
  BY <1>1 DEF IInv, WayInv, PhaseInv, EvaluationPcs, Early
<1>4. open' \in [Phases -> 0..1]
  <2>1. \A S : Opened(S)' => open' \in [Phases -> 0..1]
    BY DEF Opened
  <2> QED BY <1>1, <2>1 DEF EvaluationWay, IInv, TypeOK
<1>5. TypeOK'
  BY <1>1, <1>2, <1>4 DEF IInv, TypeOK, EvaluationWay, PcStates, EvaluationPcs
<1>6. PhaseInv'
  BY <1>1, <1>2, <1>3 DEF IInv, PhaseInv, EvaluationWay, Opened, EvaluationPcs
<1>7. WayInv'
  BY <1>1, <1>2, <1>3 DEF WayInv, EvaluationWay
<1>8. Kept' /\ SurvivesInv' /\ ReportInv'
  BY <1>1, <1>2, <1>3 DEF IInv, Kept, SurvivesInv, ReportInv, EvaluationWay, EvaluationPcs
<1> QED BY <1>5, <1>6, <1>7, <1>8 DEF IInv
------------------------------------------------------------------------------
(* The probes and the graph *)

AvailabilityStates == {"Unknown", "Local", "TrustedRemote", "Missing"}

LEMMA CompleteIInv == ASSUME IInv, Complete PROVE IInv'
<1>1. /\ pc = "complete" /\ Opened({})
      /\ UNCHANGED <<cancelled, request, outcome, availability, lightweight, probeOpen, executions,
                     results, exit, confirmed, graph>>
  BY DEF Complete, IInv, PhaseInv, realizationVars, probeVars, planVars, buildVars
<1>2. DOMAIN results = {} /\ ~lightweight /\ ~probeOpen /\ outcome = "none"
  BY <1>1 DEF IInv, WayInv, PhaseInv, Early
<1>3. \/ pc' = "finish" /\ open' = open
      \/ pc' = "probeRoots" /\ open' = Started("Probe")
      \/ pc' = "loadGraph" /\ open' = Started("Graph")
  BY DEF Complete
<1>4. /\ open' = Started("Probe") => Opened({"Probe"})'
      /\ open' = Started("Graph") => Opened({"Graph"})'
      /\ open' = open => Opened({})'
  BY <1>1, Start1 DEF Phases, Opened
<1>5. TypeOK'
  BY <1>1, <1>3, <1>4 DEF IInv, TypeOK, PcStates, Opened
<1>6. PhaseInv'
  BY <1>1, <1>2, <1>3, <1>4 DEF PhaseInv, Probing
<1>7. WayInv' /\ Kept' /\ SurvivesInv' /\ ReportInv'
  BY <1>1, <1>2, <1>3 DEF IInv, WayInv, Kept, SurvivesInv, ReportInv, Early
<1> QED BY <1>5, <1>6, <1>7 DEF IInv

LEMMA CachedPlain == \A d \in DOMAIN CachedRoots : Plain(CachedRoots[d])
BY DEF CachedRoots, Plain

LEMMA ProbeRootsIInv == ASSUME IInv, ProbeRoots PROVE IInv'
<1> DEFINE unknown == [p \in RootPaths |-> "Unknown"]
<1>1. PICK known : /\ \A p \in DOMAIN known : known[p] \in AvailabilityStates
                   /\ RootsProbed(known)
  <2>1. \/ RootsProbed(Mark(unknown, RootPaths \cap store, "Local"))
        \/ RootsProbed(unknown)
    BY DEF ProbeRoots, ProbeLocal
  <2>2. \A p \in DOMAIN unknown : unknown[p] \in AvailabilityStates
    BY DEF AvailabilityStates
  <2>3. \A p \in DOMAIN Mark(unknown, RootPaths \cap store, "Local") :
          Mark(unknown, RootPaths \cap store, "Local")[p] \in AvailabilityStates
    BY DEF Mark, AvailabilityStates
  <2> QED BY <2>1, <2>2, <2>3
<1>2. /\ pc = "probeRoots" /\ Opened({"Probe"})
      /\ UNCHANGED <<cancelled, request, outcome, results, exit, confirmed>>
  BY DEF ProbeRoots, IInv, PhaseInv, requestVars, buildVars
<1>3. DOMAIN results = {} /\ ~lightweight /\ ~probeOpen /\ outcome = "none"
  BY <1>2 DEF IInv, WayInv, PhaseInv, Early
<1>4. \A p \in DOMAIN Mark(known, In(known, "Unknown"), "Missing") :
        Mark(known, In(known, "Unknown"), "Missing")[p] \in AvailabilityStates
  BY <1>1 DEF Mark, AvailabilityStates
<1>5. \A p \in DOMAIN availability' : availability'[p] \in AvailabilityStates
  BY <1>1, <1>4 DEF RootsProbed
<1>6. \/ /\ pc' = "finish" /\ open' = Finished("Probe") /\ executions' = CachedRoots
         /\ UNCHANGED <<lightweight, probeOpen>>
      \/ /\ pc' = "loadGraph" /\ open' = Started("Graph") /\ probeOpen' = TRUE
         /\ UNCHANGED <<lightweight, executions>>
      \/ /\ pc' = "graphReady" /\ open' = Finished("Probe") /\ lightweight' = TRUE
         /\ UNCHANGED <<probeOpen, executions>>
  BY <1>1 DEF RootsProbed
<1>7. open' = Finished("Probe") => Opened({})'
  BY <1>2, Finish1 DEF Phases
<1>8. open' = Started("Graph") => Opened({"Probe"} \cup {"Graph"})'
  BY <1>2, StartedOpens DEF Phases
<1>9. open' = Started("Graph") => Opened({"Graph"} \cup {"Probe"})'
  <2>1. {"Probe"} \cup {"Graph"} = {"Graph"} \cup {"Probe"}
    OBVIOUS
  <2> QED BY <1>8, <2>1 DEF Opened
<1>10. TypeOK'
  <2>1. open' \in [Phases -> 0..1]
    BY <1>6, <1>7, <1>8, OpenTyped
  <2>2. pc' \in PcStates /\ lightweight' \in BOOLEAN /\ probeOpen' \in BOOLEAN
    BY <1>6, Zenon DEF PcStates, IInv, TypeOK
  <2>3. cancelled' \in BOOLEAN /\ outcome' = "none"
    BY <1>2, <1>3 DEF IInv, TypeOK
  <2> QED BY <1>5, <2>1, <2>2, <2>3 DEF TypeOK, AvailabilityStates
<1>11. PhaseInv'
  <2>1. CASE pc' = "finish"
    BY <1>2, <1>3, <1>6, <1>7, <2>1 DEF PhaseInv
  <2>2. CASE pc' = "loadGraph"
    BY <1>2, <1>3, <1>6, <1>9, <2>2 DEF PhaseInv, Probing
  <2>3. CASE pc' = "graphReady"
    <3>1. Probing' = {}
      BY <1>3, <1>6, <2>3 DEF Probing
    <3>2. Opened(Probing)'
      BY <1>6, <1>7, <2>3, <3>1 DEF Opened
    <3> QED BY <1>2, <1>3, <2>3, <3>2 DEF PhaseInv
  <2> QED BY <1>6, <2>1, <2>2, <2>3
<1>12. WayInv' /\ Kept' /\ SurvivesInv' /\ ReportInv'
  BY <1>2, <1>3, <1>6, CachedPlain DEF IInv, WayInv, Kept, SurvivesInv, ReportInv, Early
<1> QED BY <1>10, <1>11, <1>12 DEF IInv

LEMMA ReadGraphIInv == ASSUME IInv, ShowGraph \/ ReadGraph PROVE IInv'
<1>1. /\ pc \in {"loadGraph", "readGraph"} /\ pc' = "readGraph"
      /\ UNCHANGED <<cancelled, request, outcome, open, availability, lightweight, probeOpen,
                     executions, results, exit, confirmed, graph>>
  BY DEF ShowGraph, ReadGraph, evaluationVars, requestVars, realizationVars, probeVars, planVars,
         buildVars
<1>2. TypeOK'
  BY <1>1 DEF IInv, TypeOK, PcStates
<1>3. PhaseInv' /\ WayInv'
  BY <1>1 DEF IInv, PhaseInv, WayInv, Opened, Probing, Early
<1>4. Kept' /\ SurvivesInv' /\ ReportInv'
  BY <1>1 DEF IInv, Kept, SurvivesInv, ReportInv
<1> QED BY <1>2, <1>3, <1>4 DEF IInv

\* The phases a graph run closes.
LEMMA GraphCloses ==
  ASSUME IInv, pc \in {"loadGraph", "readGraph"}
  PROVE  /\ open' = ClosedPhases => Opened({})'
         /\ lightweight /\ open' = Finished("Graph") => Opened({})'
         /\ open' = Finished("Graph") /\ probeOpen' = probeOpen => Opened(Probing)'
<1>1. Opened({"Graph"} \cup Probing)
  BY DEF IInv, PhaseInv
<1>2. CASE probeOpen
  <2>1. Probing = {"Probe"} /\ ~lightweight
    BY <1>2 DEF Probing, IInv, WayInv
  <2>2. open' = Finished("Graph") => Opened({"Probe"})'
    <3>1. Opened({"Probe"} \cup {"Graph"}) /\ "Graph" \in Phases
      BY <1>1, <2>1 DEF Opened, Phases
    <3> QED BY <3>1, FinishedCloses
  <2>3. open' = ClosedPhases => Opened({})'
    <3>1. open = [p \in Phases |-> IF p \in {"Graph", "Probe"} THEN 1 ELSE 0]
      BY <1>1, <2>1 DEF Opened
    <3>2. "Graph" \in Phases /\ "Probe" \in Phases
      BY DEF Phases
    <3> QED BY <1>2, <3>1, <3>2 DEF Opened, Finished, ClosedPhases
  <2> QED BY <1>2, <2>1, <2>2, <2>3 DEF Probing, Opened
<1>3. CASE ~probeOpen
  <2>1. Probing = {} /\ Opened({"Graph"})
    BY <1>1, <1>3 DEF Probing
  <2>2. open' = Finished("Graph") => Opened({})'
    BY <2>1, Finish1 DEF Phases
  <2> QED BY <1>3, <2>1, <2>2 DEF Probing, ClosedPhases, Opened
<1> QED BY <1>2, <1>3

\* A node that is there is not skipped.
LEMMA MarkKeeps ==
  ASSUME NEW runs, NEW deps, NEW d \in DOMAIN runs
  PROVE  /\ DOMAIN MarkSkipped(runs, deps) = DOMAIN runs
         /\ runs[d].state \in ExistingStates =>
              MarkSkipped(runs, deps)[d] = runs[d]
         /\ Plain(runs[d]) => Plain(MarkSkipped(runs, deps)[d])
BY DEF MarkSkipped, ExistingStates, Plain

LEMMA ExplainKeeps ==
  ASSUME Kept, ExplainFailures
  PROVE  /\ Kept' /\ DOMAIN executions' = DOMAIN executions
         /\ \A d \in DOMAIN executions : executions[d].state \in ExistingStates =>
              executions'[d].state = executions[d].state
<1> DEFINE deps == [d \in DOMAIN executions |-> Deps(nodes, d) \cap DOMAIN executions]
           runs == [d \in DOMAIN executions |-> [executions[d] EXCEPT !.deps = deps[d]]]
<1>1. executions' = MarkSkipped(runs, deps)
  BY DEF ExplainFailures
<1>2. DOMAIN runs = DOMAIN executions
  OBVIOUS
<1>3. ASSUME NEW d \in DOMAIN executions
      PROVE  Plain(runs[d]) /\ runs[d].state = executions[d].state
  <2>1. Plain(executions[d]) /\ runs[d] = [executions[d] EXCEPT !.deps = deps[d]]
    BY DEF Kept
  <2> HIDE DEF runs, deps
  <2> QED BY <2>1 DEF Plain
<1> HIDE DEF runs, deps
<1>4. ASSUME NEW d \in DOMAIN executions
      PROVE  /\ DOMAIN executions' = DOMAIN executions
             /\ Plain(executions'[d])
             /\ executions[d].state \in ExistingStates => executions'[d].state = executions[d].state
  BY <1>1, <1>2, <1>3, MarkKeeps
<1>5. DOMAIN executions' = DOMAIN executions
  BY <1>1, <1>2 DEF MarkSkipped
<1> QED BY <1>4, <1>5 DEF Kept

LEMMA GraphIInv == ASSUME IInv, GraphRunFails \/ GraphLoaded PROVE IInv'
<1>1. /\ pc \in {"loadGraph", "readGraph"}
      /\ UNCHANGED <<cancelled, request, outcome, availability, lightweight, probeOpen, results,
                     exit, confirmed>>
  BY DEF GraphRunFails, GraphLoaded, requestVars, probeVars, planVars, buildVars
<1>2. outcome = "none" /\ (lightweight \/ DOMAIN results = {})
  BY <1>1 DEF IInv, PhaseInv, WayInv
<1>3. \/ /\ pc' \in {"settle", "finish"} /\ open' = ClosedPhases /\ executions' = executions
      \/ /\ pc' = "settle" /\ open' = Finished("Graph") /\ lightweight /\ ExplainFailures
      \/ /\ pc' = "graphReady" /\ open' = Finished("Graph") /\ ~lightweight
         /\ executions' = executions
  BY DEF GraphRunFails, GraphLoaded, GraphRefused
<1>4. \/ pc' \in {"settle", "finish"} /\ Opened({})'
      \/ pc' = "graphReady" /\ Opened(Probing)' /\ ~lightweight
  BY <1>1, <1>3, GraphCloses
<1>5. /\ Kept' /\ DOMAIN executions \subseteq DOMAIN executions'
      /\ \A d \in DOMAIN executions : executions[d].state \in ExistingStates =>
           executions'[d].state = executions[d].state
  BY <1>3, ExplainKeeps DEF IInv, Kept
<1>6. TypeOK'
  BY <1>1, <1>4 DEF IInv, TypeOK, PcStates, Opened
<1>7. PhaseInv' /\ WayInv'
  BY <1>1, <1>2, <1>4 DEF IInv, PhaseInv, WayInv, Early
<1>8. SurvivesInv' /\ ReportInv'
  BY <1>1, <1>4, <1>5 DEF IInv, SurvivesInv, ReportInv
<1> QED BY <1>5, <1>6, <1>7, <1>8 DEF IInv
------------------------------------------------------------------------------
(* The plan and its probes *)

\* Steps that only learn where paths are.
LEMMA ProbeKeeps ==
  ASSUME IInv, pc \in {"graphReady", "probeLocal", "probeRemote"},
         pc' \in {"probeLocal", "probeRemote", "plan"},
         IF pc' = "plan" THEN Opened({})' ELSE Opened({"Probe"})',
         \A p \in DOMAIN availability' : availability'[p] \in AvailabilityStates,
         UNCHANGED <<cancelled, outcome, lightweight, probeOpen, executions, results>>
  PROVE  IInv'
<1>1. DOMAIN results = {} /\ outcome = "none"
  BY DEF IInv, WayInv, PhaseInv
<1>2. open' \in [Phases -> 0..1]
  BY OpenTyped
<1>3. TypeOK'
  BY <1>2 DEF IInv, TypeOK, PcStates, AvailabilityStates
<1>4. PhaseInv' /\ WayInv'
  BY <1>1 DEF IInv, PhaseInv, WayInv, Early
<1>5. Kept' /\ SurvivesInv' /\ ReportInv'
  BY <1>1 DEF IInv, Kept, SurvivesInv, ReportInv
<1> QED BY <1>3, <1>4, <1>5 DEF IInv

LEMMA MarkTyped ==
  ASSUME NEW known, \A p \in DOMAIN known : known[p] \in AvailabilityStates,
         NEW paths, NEW state \in AvailabilityStates
  PROVE  \A p \in DOMAIN Mark(known, paths, state) :
           Mark(known, paths, state)[p] \in AvailabilityStates
BY DEF Mark

LEMMA PlanProbesIInv == ASSUME IInv, PlanProbes PROVE IInv'
<1>1. /\ pc = "graphReady" /\ Opened(Probing)
      /\ UNCHANGED <<cancelled, outcome, lightweight, probeOpen, executions, results>>
  BY DEF PlanProbes, IInv, PhaseInv, requestVars, planVars
<1>2. CASE lightweight /\ ~config.skipCached
  <2>1. pc' = "plan" /\ open' = open /\ availability' = availability
    BY <1>2 DEF PlanProbes
  <2>2. Opened({})'
    BY <1>1, <1>2, <2>1 DEF IInv, WayInv, Probing, Opened
  <2>3. \A p \in DOMAIN availability' : availability'[p] \in AvailabilityStates
    BY <2>1 DEF IInv, TypeOK, AvailabilityStates
  <2> QED BY <1>1, <2>1, <2>2, <2>3, ProbeKeeps
<1>3. CASE ~(lightweight /\ ~config.skipCached)
  <2>1. /\ pc' = "probeLocal" /\ open' = IF probeOpen THEN open ELSE Started("Probe")
        /\ availability' = [p \in DOMAIN availability \cup ProbedPaths |->
                              IF p \in DOMAIN availability THEN availability[p] ELSE "Unknown"]
    BY <1>3 DEF PlanProbes
  <2>2. Opened({"Probe"})'
    <3>1. CASE probeOpen
      BY <1>1, <2>1, <3>1 DEF Probing, Opened
    <3>2. CASE ~probeOpen
      BY <1>1, <2>1, <3>2, Start1 DEF Probing, Phases
    <3> QED BY <3>1, <3>2
  <2>3. \A p \in DOMAIN availability' : availability'[p] \in AvailabilityStates
    BY <2>1 DEF IInv, TypeOK, AvailabilityStates
  <2> QED BY <1>1, <2>1, <2>2, <2>3, ProbeKeeps
<1> QED BY <1>2, <1>3

LEMMA ProbeIInv == ASSUME IInv, ProbeUnknown \/ ProbeRemote \/ ProbesEnd PROVE IInv'
<1>1. /\ pc \in {"probeLocal", "probeRemote"} /\ Opened({"Probe"})
      /\ UNCHANGED <<cancelled, outcome, lightweight, probeOpen, executions, results>>
  BY DEF ProbeUnknown, ProbeRemote, ProbesEnd, IInv, PhaseInv, requestVars, planVars
<1>2. \/ pc' = "probeRemote" /\ open' = open
      \/ pc' = "plan" /\ open' = Finished("Probe")
  BY DEF ProbeUnknown, ProbeRemote, ProbesEnd
<1>3. IF pc' = "plan" THEN Opened({})' ELSE Opened({"Probe"})'
  <2>1. open' = Finished("Probe") => Opened({})'
    BY <1>1, Finish1 DEF Phases
  <2>2. open' = open => Opened({"Probe"})'
    BY <1>1 DEF Opened
  <2> QED BY <1>2, <2>1, <2>2
<1>4. \/ availability' = availability
      \/ \E paths : \E state \in AvailabilityStates : availability' = Mark(availability, paths, state)
  <2>1. CASE ProbeUnknown
    BY <2>1 DEF ProbeUnknown, ProbeLocal, AvailabilityStates
  <2>2. CASE ProbeRemote
    BY <2>2 DEF ProbeRemote, AvailabilityStates
  <2>3. CASE ProbesEnd
    BY <2>3 DEF ProbesEnd, AvailabilityStates
  <2> QED BY <2>1, <2>2, <2>3
<1>5. \A p \in DOMAIN availability' : availability'[p] \in AvailabilityStates
  <2>1. \A p \in DOMAIN availability : availability[p] \in AvailabilityStates
    BY DEF IInv, TypeOK, AvailabilityStates
  <2> QED BY <1>4, <2>1, MarkTyped
<1> QED BY <1>1, <1>2, <1>3, <1>5, ProbeKeeps

LEMMA PlanIInv == ASSUME IInv, Plan PROVE IInv'
<1>1. /\ pc = "plan" /\ pc' \in {"build", "realized"} /\ Opened({})
      /\ open' = Started("Realization") /\ executions' = [d \in RootDrvs |-> Execution(d)]
      /\ UNCHANGED <<cancelled, outcome, availability, lightweight, probeOpen, results>>
  BY DEF Plan, IInv, PhaseInv, requestVars, probeVars
<1>2. DOMAIN results = {} /\ outcome = "none"
  BY <1>1 DEF IInv, WayInv, PhaseInv
<1>3. Opened({"Realization"})'
  BY <1>1, Start1 DEF Phases
<1>4. \A d \in RootDrvs : Plain(Execution(d))
  BY DEF Execution, Plain
<1>5. Kept'
  BY <1>1, <1>4 DEF Kept
<1>6. TypeOK'
  BY <1>1, <1>3, OpenTyped DEF IInv, TypeOK, PcStates
<1>7. PhaseInv' /\ WayInv' /\ SurvivesInv' /\ ReportInv'
  BY <1>1, <1>2, <1>3 DEF IInv, PhaseInv, WayInv, SurvivesInv, ReportInv, Early
<1> QED BY <1>5, <1>6, <1>7 DEF IInv

LEMMA BuildIInv == ASSUME IInv, Build PROVE IInv'
<1>1. /\ pc = "build" /\ pc' = "gather"
      /\ UNCHANGED <<cancelled, outcome, open, availability, lightweight, probeOpen, executions,
                     results>>
  BY DEF Build, requestVars, probeVars, planVars
<1>2. TypeOK'
  BY <1>1 DEF IInv, TypeOK, PcStates
<1>3. PhaseInv' /\ WayInv' /\ Kept' /\ SurvivesInv' /\ ReportInv'
  BY <1>1 DEF IInv, PhaseInv, WayInv, Kept, SurvivesInv, ReportInv, Opened, Early
<1> QED BY <1>2, <1>3 DEF IInv

------------------------------------------------------------------------------
(* What became of the nodes *)

Runs(runs) == \A d \in DOMAIN runs : Run(runs[d])

LEMMA RunsOf ==
  /\ Runs(Parsed) /\ Runs(Unstarted)
  /\ \A runs : Runs(runs) => Runs(Recovered(runs))
BY DEF Runs, Run, Parsed, Unstarted, Recovered, NodeRun

\* What was reported with all that was needed is what the caller is told of it, and it
\* names its outputs.
LEMMA RetainKeeps ==
  ASSUME NEW runs, Runs(runs), ~request.outLink, NEW d \in Standing, confirmed[d].authoritative
  PROVE  /\ d \in DOMAIN RetainObserved(runs)
         /\ RetainObserved(runs)[d].state = confirmed[d].state
         /\ RetainObserved(runs)[d].produced # {}
<1>1. PathsOf(d, Wanted(d)) # {}
  BY DEF Standing, PathsOf
<1>2. CASE d \notin DOMAIN runs
  BY <1>1, <1>2 DEF RetainObserved, NodeRun
<1>3. CASE d \in DOMAIN runs
  BY <1>1, <1>3 DEF RetainObserved, NodeRun, Runs, Run
<1> QED BY <1>2, <1>3

\* Nothing that is found takes its place.
LEMMA FoundKeeps ==
  ASSUME NEW runs, Runs(runs), ~request.outLink, NEW d \in Standing, confirmed[d].authoritative,
         NEW elsewhere \in StoppedElsewhere(RetainObserved(runs)),
         NEW candidates,
         DOMAIN candidates \subseteq DOMAIN StoppedInGraph(RetainObserved(runs))
                                       \cup DOMAIN elsewhere,
         NEW found \in Found(candidates)
  PROVE  LET kept == WithFound(RetainObserved(runs), candidates, found)
         IN d \in DOMAIN kept /\ kept[d].state = confirmed[d].state
<1> DEFINE retained == RetainObserved(runs)
<1>1. d \in DOMAIN retained /\ retained[d].state = confirmed[d].state /\ retained[d].produced # {}
  BY RetainKeeps
<1> HIDE DEF retained
<1>2. d \notin DOMAIN StoppedInGraph(retained)
  BY <1>1 DEF StoppedInGraph
<1>3. \A e \in StoppedElsewhere(retained) : d \notin DOMAIN e
  BY <1>1 DEF StoppedElsewhere
<1>4. found \subseteq DOMAIN candidates
  BY DEF Found
<1>5. d \notin found
  BY <1>2, <1>3, <1>4 DEF retained
<1>6. d \in DOMAIN WithFound(retained, candidates, found)
      /\ WithFound(retained, candidates, found)[d] = retained[d]
  BY <1>1, <1>5 DEF WithFound
<1> QED BY <1>1, <1>6 DEF retained

\* The results of a run that the caller is told of.
LEMMA GatheredIInv ==
  ASSUME IInv, pc = "gather", NEW runs, Gathered(runs),
         exit # "error" /\ ~request.outLink =>
           \A d \in Standing : confirmed[d].authoritative =>
             d \in DOMAIN runs /\ runs[d].state = confirmed[d].state
  PROVE  IInv'
<1>1. /\ pc' = "apply" /\ results' = runs
      /\ UNCHANGED <<request, config, cancelled, outcome, open, availability, lightweight, probeOpen,
                     executions, exit, confirmed, graph>>
  BY DEF Gathered, requestVars, probeVars, planVars, buildVars
<1>2. Pending' = Pending /\ PendingOutputs' = PendingOutputs
  BY <1>1 DEF Pending, PendingOutputs
<1>3. LiveRequired' = LiveRequired
  BY <1>1, <1>2 DEF LiveRequired
<1>4. Standing' = Standing
  BY <1>1, <1>3 DEF Standing, Wanted
<1>5. ReportInv'
  BY <1>1, <1>4 DEF ReportInv
<1>6. TypeOK'
  BY <1>1 DEF IInv, TypeOK, PcStates
<1>7. PhaseInv' /\ WayInv' /\ Kept' /\ SurvivesInv'
  BY <1>1 DEF IInv, PhaseInv, WayInv, Kept, SurvivesInv, Opened, Early
<1> QED BY <1>5, <1>6, <1>7 DEF IInv

LEMMA GatherIInv ==
  ASSUME IInv, GatherSuccess \/ GatherFailure \/ GatherUnfinished
  PROVE  IInv'
<1> DEFINE Reported(runs) ==
             exit # "error" /\ ~request.outLink =>
               \A d \in Standing : confirmed[d].authoritative =>
                 d \in DOMAIN runs /\ runs[d].state = confirmed[d].state
<1>1. \A runs : Runs(runs) => Reported(RetainObserved(runs))
  BY RetainKeeps
<1>2. Runs(Parsed) /\ Runs(Recovered(Parsed)) /\ Runs(Unstarted)
  BY RunsOf
<1>3. pc = "gather"
  BY DEF GatherSuccess, GatherFailure, GatherUnfinished
<1> HIDE DEF Reported
<1>4. CASE GatherSuccess
  BY <1>1, <1>2, <1>3, <1>4, GatheredIInv DEF GatherSuccess, Reported
<1>5. CASE GatherFailure
  <2>1. CASE request.outLink
    <3>1. Gathered(RetainObserved(LinkFailed(Parsed)))
      BY <1>5, <2>1 DEF GatherFailure
    <3> QED BY <1>3, <2>1, <3>1, GatheredIInv
  <2>2. CASE ~request.outLink
    <3>1. \/ Gathered(RetainObserved(Parsed))
          \/ Gathered(RetainObserved(Recovered(Parsed)))
      BY <1>5, <2>2 DEF GatherFailure
    <3> QED BY <1>1, <1>2, <1>3, <3>1, GatheredIInv DEF Reported
  <2> QED BY <2>1, <2>2
<1>6. CASE GatherUnfinished
  <2>1. CASE exit = "error"
    <3>1. Gathered(Unstarted)
      BY <1>6, <2>1 DEF GatherUnfinished
    <3> QED BY <1>3, <2>1, <3>1, GatheredIInv
  <2>2. CASE exit # "error" /\ config.rebuild
    <3>1. Gathered(RetainObserved(Unstarted))
      BY <1>6, <2>2 DEF GatherUnfinished
    <3> QED BY <1>1, <1>2, <1>3, <3>1, GatheredIInv DEF Reported
  <2>3. CASE exit # "error" /\ ~config.rebuild
    <3>1. PICK elsewhere \in StoppedElsewhere(RetainObserved(Unstarted)) :
            LET inGraph == StoppedInGraph(RetainObserved(Unstarted))
                candidates == [d \in DOMAIN inGraph \cup DOMAIN elsewhere |->
                                 IF d \in DOMAIN inGraph THEN inGraph[d] ELSE elsewhere[d]]
            IN \E found \in Found(candidates) :
                 Gathered(WithFound(RetainObserved(Unstarted), candidates, found))
      BY <1>6, <2>3 DEF GatherUnfinished
    <3> DEFINE inGraph == StoppedInGraph(RetainObserved(Unstarted))
               candidates == [d \in DOMAIN inGraph \cup DOMAIN elsewhere |->
                                IF d \in DOMAIN inGraph THEN inGraph[d] ELSE elsewhere[d]]
    <3>2. PICK found \in Found(candidates) :
            Gathered(WithFound(RetainObserved(Unstarted), candidates, found))
      BY <3>1
    <3>3. DOMAIN candidates \subseteq DOMAIN StoppedInGraph(RetainObserved(Unstarted))
                                        \cup DOMAIN elsewhere
      OBVIOUS
    <3> HIDE DEF candidates
    <3>4. Reported(WithFound(RetainObserved(Unstarted), candidates, found))
      BY <1>2, <3>3, FoundKeeps DEF Reported
    <3> QED BY <1>3, <3>2, <3>4, GatheredIInv DEF Reported
  <2> QED BY <2>1, <2>2, <2>3
<1> QED BY <1>4, <1>5, <1>6

LEMMA ApplyIInv == ASSUME IInv, ApplyResults PROVE IInv'
<1> DEFINE joined == [d \in DOMAIN results \cup DOMAIN executions |->
                        IF d \in DOMAIN executions THEN executions[d].deps
                        ELSE Deps(graph, d) \cap (DOMAIN results \cup Pending)]
           marked == MarkSkipped(results, joined)
<1>1. /\ pc = "apply" /\ pc' = "realized"
      /\ executions' = [d \in DOMAIN joined |->
           IF d \in DOMAIN marked THEN Applied(d, marked[d], joined[d]) ELSE executions[d]]
      /\ UNCHANGED <<cancelled, outcome, open, availability, lightweight, probeOpen, results>>
  BY DEF ApplyResults, requestVars, probeVars, planVars
<1>2. DOMAIN joined = DOMAIN results \cup DOMAIN executions
  OBVIOUS
<1>3. DOMAIN marked = DOMAIN results
  BY DEF MarkSkipped
<1>4. \A d \in DOMAIN results : results[d].state \in ExistingStates => marked[d] = results[d]
  BY MarkKeeps
<1> HIDE DEF joined, marked
<1>5. \A d, run, deps : Plain(Applied(d, run, deps)) /\ Applied(d, run, deps).state = run.state
  BY DEF Applied, Plain
<1>6. Kept'
  BY <1>1, <1>2, <1>3, <1>5 DEF IInv, Kept
<1>7. SurvivesInv'
  BY <1>1, <1>2, <1>3, <1>4, <1>5 DEF SurvivesInv
<1>8. TypeOK'
  BY <1>1 DEF IInv, TypeOK, PcStates
<1>9. PhaseInv' /\ WayInv' /\ ReportInv'
  BY <1>1 DEF IInv, PhaseInv, WayInv, ReportInv, Opened, Early
<1> QED BY <1>6, <1>7, <1>8, <1>9 DEF IInv

LEMMA RealizedIInv == ASSUME IInv, Realized PROVE IInv'
<1>1. /\ pc = "realized" /\ Opened({"Realization"}) /\ outcome = "none"
      /\ UNCHANGED <<cancelled, outcome, availability, lightweight, probeOpen, executions, results>>
  BY DEF Realized, IInv, PhaseInv, requestVars, realizationVars, probeVars, planVars
<1>2. \/ pc' \in {"dependencies", "settle"} /\ open' = Finished("Realization")
      \/ /\ pc' = "loadGraph" /\ lightweight
         /\ open' = [Finished("Realization") EXCEPT !["Graph"] = @ + 1]
  BY DEF Realized
<1>3. open' = Finished("Realization") => Opened({})'
  BY <1>1, Finish1 DEF Phases
<1>4. open' = [Finished("Realization") EXCEPT !["Graph"] = @ + 1] => Opened({"Graph"})'
  BY <1>1, Switch1 DEF Phases
<1>5. \/ pc' \in {"dependencies", "settle"} /\ Opened({})'
      \/ pc' = "loadGraph" /\ lightweight /\ ~probeOpen /\ Opened({"Graph"} \cup Probing)'
  <2>1. CASE pc' = "loadGraph"
    <3>1. lightweight /\ ~probeOpen /\ Opened({"Graph"})'
      BY <1>2, <1>4, <2>1 DEF IInv, WayInv
    <3>2. ({"Graph"} \cup Probing)' = {"Graph"}
      BY <1>1, <3>1 DEF Probing
    <3> QED BY <2>1, <3>1, <3>2 DEF Opened
  <2> QED BY <1>2, <1>3, <2>1
<1>6. TypeOK'
  <2>1. open' \in [Phases -> 0..1]
    BY <1>5, OpenTyped
  <2> QED BY <1>1, <1>5, <2>1 DEF IInv, TypeOK, PcStates
<1>7. PhaseInv'
  BY <1>1, <1>5 DEF PhaseInv
<1>8. WayInv' /\ Kept' /\ SurvivesInv' /\ ReportInv'
  BY <1>1, <1>5 DEF IInv, WayInv, Kept, SurvivesInv, ReportInv, Early
<1> QED BY <1>6, <1>7, <1>8 DEF IInv

------------------------------------------------------------------------------
(* The manifest *)

\* A node that is there stays there when its dependencies are looked at again.
LEMMA ObservedKeeps ==
  ASSUME Kept, NEW known, NEW d
  PROVE  /\ Plain(Observed(known, d))
         /\ d \in DOMAIN executions /\ executions[d].state \in ExistingStates =>
              Observed(known, d).state \in ExistingStates
<1>1. CASE d \notin DOMAIN executions
  BY <1>1 DEF Observed, Plain
<1>2. CASE d \in DOMAIN executions
  BY <1>2 DEF Observed, Plain, Kept, ExistingStates
<1> QED BY <1>1, <1>2

LEMMA DependenciesIInv == ASSUME IInv, CompleteDependencies PROVE IInv'
<1>1. /\ pc = "dependencies" /\ pc' = "settle"
      /\ UNCHANGED <<cancelled, outcome, open, lightweight, probeOpen, results>>
  BY DEF CompleteDependencies, requestVars, planVars
<1>2. PICK known : /\ \A p \in DOMAIN known : known[p] \in AvailabilityStates
                   /\ RecordObserved(known)
  <2>1. \/ RecordObserved(availability)
        \/ RecordObserved(Mark(availability, UnresolvedDependencies \cap store, "Local"))
    BY DEF CompleteDependencies, ProbeLocal
  <2>2. \A p \in DOMAIN availability : availability[p] \in AvailabilityStates
    BY DEF IInv, TypeOK, AvailabilityStates
  <2>3. "Local" \in AvailabilityStates
    BY DEF AvailabilityStates
  <2> QED BY <2>1, <2>2, <2>3, MarkTyped
<1>3. PICK observed :
        executions' = [d \in DOMAIN executions \cup observed |->
                         IF d \in observed THEN Observed(known, d) ELSE executions[d]]
  BY <1>2 DEF RecordObserved
<1>4. Kept'
  BY <1>3, ObservedKeeps DEF IInv, Kept
<1>5. SurvivesInv'
  BY <1>1, <1>3, ObservedKeeps DEF IInv, SurvivesInv
<1>6. TypeOK'
  BY <1>1, <1>2 DEF IInv, TypeOK, PcStates, RecordObserved, AvailabilityStates
<1>7. PhaseInv' /\ WayInv' /\ ReportInv'
  BY <1>1 DEF IInv, PhaseInv, WayInv, ReportInv, Opened, Early
<1> QED BY <1>4, <1>5, <1>6, <1>7 DEF IInv

LEMMA FinishIInv == ASSUME IInv, Settle \/ Finish PROVE IInv'
<1>1. /\ pc \in {"settle", "finish"} /\ Opened({}) /\ outcome = "none"
      /\ UNCHANGED <<cancelled, open, availability, lightweight, probeOpen, executions, results>>
  BY DEF Settle, Finish, IInv, PhaseInv, requestVars, realizationVars, probeVars, planVars
<1>2. \/ pc' = "finish" /\ outcome' = outcome
      \/ pc' = "done" /\ outcome' \in {"Success", "Failed", "Cancelled"}
  BY DEF Settle, Finish, OutcomeOf
<1>3. TypeOK'
  BY <1>1, <1>2 DEF IInv, TypeOK, PcStates
<1>4. PhaseInv' /\ WayInv'
  BY <1>1, <1>2 DEF IInv, PhaseInv, WayInv, Opened, Early
<1>5. Kept' /\ SurvivesInv' /\ ReportInv'
  BY <1>1, <1>2 DEF IInv, Kept, SurvivesInv, ReportInv
<1> QED BY <1>3, <1>4, <1>5 DEF IInv

LEMMA CancelIInv ==
  ASSUME IInv, Cancel, UNCHANGED <<streamVars, realizationVars>>
  PROVE  IInv'
<1>1. /\ cancelled' = TRUE
      /\ UNCHANGED <<request, config, pc, open, outcome, availability, lightweight, probeOpen, graph,
                     executions, results, exit, confirmed>>
  BY DEF Cancel, realizationVars, probeVars, planVars, buildVars
<1>2. Standing' = Standing
  BY <1>1 DEF Standing, Wanted, LiveRequired, PendingOutputs, Pending
<1>3. TypeOK'
  BY <1>1 DEF IInv, TypeOK
<1>4. PhaseInv' /\ WayInv' /\ Kept' /\ SurvivesInv' /\ ReportInv'
  BY <1>1, <1>2 DEF IInv, PhaseInv, WayInv, Kept, SurvivesInv, ReportInv, Opened, Probing
<1> QED BY <1>3, <1>4 DEF IInv

LEMMA StutterIInv == ASSUME IInv, UNCHANGED vars PROVE IInv'
<1>1. UNCHANGED <<request, config, pc, cancelled, open, outcome, availability, lightweight,
                  probeOpen, graph, executions, results, exit, confirmed>>
  BY DEF vars, evaluationVars, realizationVars, probeVars, planVars, buildVars
<1>2. Standing' = Standing
  BY <1>1 DEF Standing, Wanted, LiveRequired, PendingOutputs, Pending
<1>3. TypeOK'
  BY <1>1 DEF IInv, TypeOK
<1>4. PhaseInv' /\ WayInv' /\ Kept' /\ SurvivesInv' /\ ReportInv'
  BY <1>1, <1>2 DEF IInv, PhaseInv, WayInv, Kept, SurvivesInv, ReportInv, Opened, Probing
<1> QED BY <1>3, <1>4 DEF IInv

LEMMA NextIInv == IInv /\ [Next]_vars => IInv'
<1> SUFFICES ASSUME IInv, [Next]_vars PROVE IInv'
  OBVIOUS
<1>1. CASE EvaluationNext /\ UNCHANGED <<streamVars, realizationVars>>
  BY <1>1, EvaluationIInv
<1>2. CASE Cancel /\ UNCHANGED <<streamVars, realizationVars>>
  BY <1>2, CancelIInv
<1>3. CASE Complete \/ ProbeRoots
  BY <1>3, CompleteIInv, ProbeRootsIInv
<1>4. CASE ShowGraph \/ ReadGraph \/ GraphRunFails \/ GraphLoaded
  BY <1>4, ReadGraphIInv, GraphIInv
<1>5. CASE PlanProbes \/ ProbeUnknown \/ ProbeRemote \/ ProbesEnd
  BY <1>5, PlanProbesIInv, ProbeIInv
<1>6. CASE Plan \/ Build
  BY <1>6, PlanIInv, BuildIInv
<1>7. CASE GatherSuccess \/ GatherFailure \/ GatherUnfinished \/ ApplyResults
  BY <1>7, GatherIInv, ApplyIInv
<1>8. CASE Realized \/ CompleteDependencies \/ Settle \/ Finish
  BY <1>8, RealizedIInv, DependenciesIInv, FinishIInv
<1>9. CASE Done \/ UNCHANGED vars
  BY <1>9, StutterIInv DEF Done
<1> QED
  BY <1>1, <1>2, <1>3, <1>4, <1>5, <1>6, <1>7, <1>8, <1>9 DEF Next

\* The invariant holds in every state of every request.
THEOREM InvariantHolds == Spec => []IInv
BY InitIInv, NextIInv, PTL DEF Spec

\* Whatever way a request takes through the engine, at most one start of a phase is open
\* at any time, and none is when the caller gets a manifest.
THEOREM PhasesAreBalanced == Spec => []PhasesBalance
<1>1. IInv => PhasesBalance
  BY DEF IInv, PhasesBalance, PhaseInv, TypeOK, Opened
<1> QED BY <1>1, InvariantHolds, PTL

\* However a build ended, what Nix reported as made with all that was needed of it is in
\* the results of the build, and what is there in them is there in the manifest.
THEOREM ReportsSurvive == Spec => []ReportedWorkSurvives
<1>1. IInv => ReportedWorkSurvives
  BY DEF IInv, ReportedWorkSurvives, ReportInv, SurvivesInv
<1> QED BY <1>1, InvariantHolds, PTL

------------------------------------------------------------------------------
(* Folds, and numbers one after the other *)

\* Every set of numbers that is not empty has a least one.
LEMMA LeastNumber ==
  ASSUME NEW T \in SUBSET Nat, T # {}
  PROVE  \E n \in T : \A m \in T : n <= m
<1> DEFINE less == {r \in Nat \X Nat : r[1] < r[2]}
<1>1. IsWellFoundedOn(less, Nat)
  BY NatLessThanWellFounded DEF OpToRel, IsWellFoundedOn
<1>2. PICK x \in T : \A y \in T : ~(<<y, x>> \in less)
  BY <1>1, WFMin
<1>3. ASSUME NEW y \in T PROVE x <= y
  <2>1. ~(y < x)
    BY <1>2
  <2>2. x \in Nat /\ y \in Nat
    OBVIOUS
  <2> QED BY <2>1, <2>2
<1> QED BY <1>3

\* What holds of nothing, and of each more if of one less, holds all the way.
LEMMA OneByOne ==
  ASSUME NEW n \in Nat, NEW P, 0 \in P, \A i \in 1..n : i - 1 \in P => i \in P
  PROVE  \A i \in 0..n : i \in P
<1> DEFINE bad == {i \in 0..n : i \notin P}
<1>1. SUFFICES ASSUME bad # {} PROVE FALSE
  OBVIOUS
<1>2. PICK i \in bad : \A j \in bad : i <= j
  <2>1. bad \in SUBSET Nat
    OBVIOUS
  <2> HIDE DEF bad
  <2> QED BY <1>1, <2>1, LeastNumber
<1>3. i # 0
  BY <1>2
<1>4. i - 1 \in 0..n /\ i - 1 < i /\ i \in 1..n
  BY <1>2, <1>3
<1>5. i - 1 \notin bad
  BY <1>2, <1>4
<1> QED BY <1>2, <1>4, <1>5

\* A fold takes the indices in ascending order.
LEMMA UpTo ==
  ASSUME NEW m \in Nat
  PROVE  /\ \A s \in SUBSET (1..m) : s # {} => Max(s) \in s /\ \A i \in s : i <= Max(s)
         /\ \A s \in SUBSET (1..m) : m \in s => Max(s) = m
         /\ \A s \in SUBSET (1..m) : m # 0 /\ m \notin s => s \in SUBSET (1..(m - 1))
         /\ m # 0 => (1..m) \ {m} = 1..(m - 1)
<1>1. ASSUME NEW s \in SUBSET (1..m), s # {}
      PROVE  Max(s) \in s /\ \A i \in s : i <= Max(s)
  <2> DEFINE above == {k \in Nat : \A i \in s : i <= k}
  <2>1. m \in above
    OBVIOUS
  <2>2. PICK k \in above : \A j \in above : k <= j
    <3>1. above \in SUBSET Nat
      OBVIOUS
    <3> HIDE DEF above
    <3> QED BY <2>1, <3>1, LeastNumber
  <2>3. k \in s
    <3>1. SUFFICES ASSUME k \notin s PROVE FALSE
      OBVIOUS
    <3>2. \A i \in s : i <= k /\ i # k /\ i \in Nat /\ i >= 1
      BY <2>2, <3>1
    <3>3. PICK x \in s : TRUE
      BY <1>1
    <3>4. k \in Nat /\ k > x /\ x >= 1 /\ x \in Nat
      BY <2>2, <3>2, <3>3
    <3>5. k - 1 \in Nat /\ \A i \in s : i <= k - 1
      <4>1. ASSUME NEW i \in s PROVE i <= k - 1
        BY <3>2, <3>4
      <4> QED BY <3>4, <4>1
    <3>6. k - 1 \in above /\ ~(k <= k - 1)
      BY <3>4, <3>5
    <3> QED BY <2>2, <3>6
  <2>4. \E x \in s : \A i \in s : x >= i
    BY <2>2, <2>3
  <2>5. Max(s) \in s /\ \A i \in s : Max(s) >= i
    BY <2>4 DEF Max
  <2> QED BY <2>5
<1>2. ASSUME NEW s \in SUBSET (1..m), m \in s PROVE Max(s) = m
  <2>1. s # {}
    BY <1>2
  <2>2. Max(s) \in s /\ m <= Max(s)
    BY <1>1, <1>2, <2>1
  <2>3. PICK x \in 1..m : x = Max(s)
    BY <2>2
  <2>4. m <= x /\ x <= m /\ x \in Nat
    BY <2>2, <2>3
  <2>5. m = x
    BY <2>4
  <2> QED BY <2>3, <2>5
<1> QED BY <1>1, <1>2

\* The nodes of a graph that can be placed next, and the order with the least of them.
ReadyAfter(known, order) ==
  {d \in DOMAIN known \ ToSet(order) : Deps(known, d) \subseteq ToSet(order)}
Placed(known, order) ==
  IF ReadyAfter(known, order) = {} THEN order ELSE Append(order, Min(ReadyAfter(known, order)))
Reached(known, reached) == reached \cup UNION {Deps(known, d) : d \in reached}

\* The folds of the model: the visitors of the reader, what is kept of the answers, the
\* order and the closure of a graph, and the trail of a failure.
Step(fold, a, x) ==
  CASE fold.of = "names" -> IF a.code = "ok" THEN OutputName(a, x) ELSE a
    [] fold.of = "outputs" -> IF a.code = "ok" THEN Output(a, x) ELSE a
    [] fold.of = "inputs" -> IF a.code = "ok" THEN Dependency(a, x) ELSE a
    [] fold.of = "fields" -> IF a.code = "ok" THEN NodeField(a, x) ELSE a
    [] fold.of = "entries" -> IF a.code = "ok" THEN Entry(a, x) ELSE a
    [] fold.of = "answers" -> Answer(a, fold.names, fold.batch, x)
    [] fold.of = "batches" -> Answers(a, fold.names, x)
    [] fold.of = "order" -> Placed(fold.nodes, a)
    [] fold.of = "closure" -> Reached(fold.nodes, a)
    [] fold.of = "blame" -> IF a \in DOMAIN fold.runs /\ fold.runs[a].state = "Skipped"
                              THEN fold.runs[a].dep ELSE a

Taken(fold, base, value, g, s) ==
  IF s = {} THEN base ELSE Step(fold, g[s \ {Max(s)}], value[Max(s)])

IsFold(fold, base, value, n, g) ==
  g = [s \in SUBSET (1..n) |-> Taken(fold, base, value, g, s)]

\* A fold is well defined.
LEMMA FoldExists ==
  ASSUME NEW fold, NEW base, NEW value, NEW n \in Nat
  PROVE  \E g : IsFold(fold, base, value, n, g)
<1> DEFINE P == {m \in 0..n : \E g : IsFold(fold, base, value, m, g)}
<1>1. 0 \in P
  <2> DEFINE h == [s \in SUBSET (1..0) |-> base]
  <2>1. \A s \in SUBSET (1..0) : Taken(fold, base, value, h, s) = base
    BY DEF Taken
  <2>2. h = [s \in SUBSET (1..0) |-> Taken(fold, base, value, h, s)]
    BY <2>1
  <2> HIDE DEF h
  <2>3. IsFold(fold, base, value, 0, h)
    BY <2>2 DEF IsFold
  <2> QED BY <2>3
<1>2. ASSUME NEW m \in 1..n, m - 1 \in P PROVE m \in P
  <2>1. PICK g : IsFold(fold, base, value, m - 1, g)
    BY <1>2
  <2> DEFINE h == [s \in SUBSET (1..m) |->
                     IF m \in s THEN Step(fold, g[s \ {m}], value[m]) ELSE g[s]]
  <2>2. ASSUME NEW s \in SUBSET (1..m) PROVE h[s] = Taken(fold, base, value, h, s)
    <3>1. CASE m \in s
      <4>1. Max(s) = m /\ s # {} /\ s \ {m} \in SUBSET (1..m) /\ m \notin s \ {m}
        BY <3>1, UpTo
      <4> QED BY <3>1, <4>1 DEF Taken
    <3>2. CASE m \notin s /\ s # {}
      <4>1. s \in SUBSET (1..(m - 1)) /\ Max(s) \in s
        BY <3>2, UpTo
      <4>2. s \ {Max(s)} \in SUBSET (1..m) /\ m \notin s \ {Max(s)}
        BY <3>2
      <4>3. g[s] = Taken(fold, base, value, g, s)
        BY <2>1, <4>1 DEF IsFold
      <4> QED BY <3>2, <4>2, <4>3 DEF Taken
    <3>3. CASE s = {}
      <4>1. g[s] = Taken(fold, base, value, g, s)
        BY <2>1, <3>3 DEF IsFold
      <4> QED BY <3>3, <4>1 DEF Taken
    <3> QED BY <3>1, <3>2, <3>3
  <2>3. IsFold(fold, base, value, m, h)
    <3>1. h = [s \in SUBSET (1..m) |-> h[s]]
      OBVIOUS
    <3> HIDE DEF h
    <3> QED BY <2>2, <3>1 DEF IsFold
  <2> HIDE DEF h
  <2> QED BY <2>3
<1>3. n \in P
  <2> HIDE DEF P
  <2> QED BY <1>1, <1>2, OneByOne
<1> QED BY <1>3

\* It takes one after the other, and so any formula that holds of what it starts with and
\* of each step holds at its end: `read' is what was made of the first so many.
InTurn(fold, base, value, n, read) ==
  /\ read[0] = base
  /\ \A i \in 1..n : read[i] = Step(fold, read[i - 1], value[i])

LEMMA FoldInTurn ==
  ASSUME NEW fold, NEW base, NEW value, NEW n \in Nat, NEW g,
         IsFold(fold, base, value, n, g)
  PROVE  \E read : InTurn(fold, base, value, n, read) /\ read[n] = g[1..n]
<1> DEFINE read == [i \in 0..n |-> g[1..i]]
<1>1. read[0] = base
  <2>1. 1..0 = {} /\ {} \in SUBSET (1..n)
    OBVIOUS
  <2> QED BY <2>1 DEF Taken, IsFold
<1>2. ASSUME NEW i \in 1..n PROVE read[i] = Step(fold, read[i - 1], value[i])
  <2>1. 1..i \in SUBSET (1..n) /\ i \in Nat /\ 1..i # {} /\ i \in 1..i
    OBVIOUS
  <2>2. Max(1..i) = i /\ (1..i) \ {i} = 1..(i - 1)
    BY <2>1, UpTo
  <2>3. g[1..i] = Step(fold, g[1..(i - 1)], value[i])
    BY <2>1, <2>2 DEF Taken, IsFold
  <2>4. i \in 0..n /\ i - 1 \in 0..n
    OBVIOUS
  <2> QED BY <2>3, <2>4
<1>3. read[n] = g[1..n]
  OBVIOUS
<1> HIDE DEF read
<1> QED BY <1>1, <1>2, <1>3 DEF InTurn

LEMMA NamesInTurn ==
  ASSUME NEW acc, NEW code, NEW value, value # Scalar, NEW n \in Nat, DOMAIN value = 1..n
  PROVE  \E read : /\ InTurn([of |-> "names"], Nested(acc, {}), value, n, read)
                   /\ Visit(OutputName, Nested(acc, {}), value, code) = read[n]
<1> DEFINE fold == [of |-> "names"]
           base == Nested(acc, {})
           E(a, x) == IF a.code = "ok" THEN OutputName(a, x) ELSE a
           Body(g, s) == IF s = {} THEN base ELSE E(g[s \ {Max(s)}], value[Max(s)])
           Run1(g) == g = [s \in SUBSET (1..n) |-> Body(g, s)]
           iter == CHOOSE g : Run1(g)
<1>1. Visit(OutputName, Nested(acc, {}), value, code) = iter[1..n]
  BY DEF Visit, FoldLeft, MapThenFoldSet
<1>2. \A a, x : Step(fold, a, x) = E(a, x)
  BY DEF Step
<1> HIDE DEF fold, base, E
<1>3. \A g, s : Body(g, s) = Taken(fold, base, value, g, s)
  BY <1>2 DEF Taken
<1> HIDE DEF Body
<1>4. ASSUME NEW g PROVE Run1(g) <=> IsFold(fold, base, value, n, g)
  BY <1>3 DEF IsFold
<1>5. IsFold(fold, base, value, n, iter)
  <2> HIDE DEF Run1
  <2>1. \E g : Run1(g)
    BY <1>4, FoldExists
  <2>2. Run1(iter)
    BY <2>1
  <2> HIDE DEF iter
  <2> QED BY <1>4, <2>2
<1> HIDE DEF iter
<1>6. PICK read : InTurn(fold, base, value, n, read) /\ read[n] = iter[1..n]
  BY <1>5, FoldInTurn
<1> QED BY <1>1, <1>6 DEF fold, base

LEMMA OutputsInTurn ==
  ASSUME NEW acc, NEW value, value # Scalar, NEW n \in Nat, DOMAIN value = 1..n
  PROVE  \E read : /\ InTurn([of |-> "outputs"], Nested(acc, <<>>), value, n, read)
                   /\ Outputs(acc, value) = read[n]
<1> DEFINE fold == [of |-> "outputs"]
           base == Nested(acc, <<>>)
           E(a, x) == IF a.code = "ok" THEN Output(a, x) ELSE a
           Body(g, s) == IF s = {} THEN base ELSE E(g[s \ {Max(s)}], value[Max(s)])
           Run1(g) == g = [s \in SUBSET (1..n) |-> Body(g, s)]
           iter == CHOOSE g : Run1(g)
<1>1. Outputs(acc, value) = iter[1..n]
  BY DEF Outputs, Visit, FoldLeft, MapThenFoldSet
<1>2. \A a, x : Step(fold, a, x) = E(a, x)
  BY DEF Step
<1> HIDE DEF fold, base, E
<1>3. \A g, s : Body(g, s) = Taken(fold, base, value, g, s)
  BY <1>2 DEF Taken
<1> HIDE DEF Body
<1>4. ASSUME NEW g PROVE Run1(g) <=> IsFold(fold, base, value, n, g)
  BY <1>3 DEF IsFold
<1>5. IsFold(fold, base, value, n, iter)
  <2> HIDE DEF Run1
  <2>1. \E g : Run1(g)
    BY <1>4, FoldExists
  <2>2. Run1(iter)
    BY <2>1
  <2> HIDE DEF iter
  <2> QED BY <1>4, <2>2
<1> HIDE DEF iter
<1>6. PICK read : InTurn(fold, base, value, n, read) /\ read[n] = iter[1..n]
  BY <1>5, FoldInTurn
<1> QED BY <1>1, <1>6 DEF fold, base

LEMMA InputsInTurn ==
  ASSUME NEW acc, NEW value, value # Scalar, NEW n \in Nat, DOMAIN value = 1..n
  PROVE  \E read : /\ InTurn([of |-> "inputs"], Nested(acc, <<>>), value, n, read)
                   /\ Inputs(acc, value) = read[n]
<1> DEFINE fold == [of |-> "inputs"]
           base == Nested(acc, <<>>)
           E(a, x) == IF a.code = "ok" THEN Dependency(a, x) ELSE a
           Body(g, s) == IF s = {} THEN base ELSE E(g[s \ {Max(s)}], value[Max(s)])
           Run1(g) == g = [s \in SUBSET (1..n) |-> Body(g, s)]
           iter == CHOOSE g : Run1(g)
<1>1. Inputs(acc, value) = iter[1..n]
  BY DEF Inputs, Visit, FoldLeft, MapThenFoldSet
<1>2. \A a, x : Step(fold, a, x) = E(a, x)
  BY DEF Step
<1> HIDE DEF fold, base, E
<1>3. \A g, s : Body(g, s) = Taken(fold, base, value, g, s)
  BY <1>2 DEF Taken
<1> HIDE DEF Body
<1>4. ASSUME NEW g PROVE Run1(g) <=> IsFold(fold, base, value, n, g)
  BY <1>3 DEF IsFold
<1>5. IsFold(fold, base, value, n, iter)
  <2> HIDE DEF Run1
  <2>1. \E g : Run1(g)
    BY <1>4, FoldExists
  <2>2. Run1(iter)
    BY <2>1
  <2> HIDE DEF iter
  <2> QED BY <1>4, <2>2
<1> HIDE DEF iter
<1>6. PICK read : InTurn(fold, base, value, n, read) /\ read[n] = iter[1..n]
  BY <1>5, FoldInTurn
<1> QED BY <1>1, <1>6 DEF fold, base

LEMMA FieldsInTurn ==
  ASSUME NEW acc, NEW value, value # Scalar, NEW n \in Nat, DOMAIN value = 1..n
  PROVE  \E read : /\ InTurn([of |-> "fields"], Nested(acc, NoFields), value, n, read)
                   /\ NodeFields(acc, value) = read[n]
<1> DEFINE fold == [of |-> "fields"]
           base == Nested(acc, NoFields)
           E(a, x) == IF a.code = "ok" THEN NodeField(a, x) ELSE a
           Body(g, s) == IF s = {} THEN base ELSE E(g[s \ {Max(s)}], value[Max(s)])
           Run1(g) == g = [s \in SUBSET (1..n) |-> Body(g, s)]
           iter == CHOOSE g : Run1(g)
<1>1. NodeFields(acc, value) = iter[1..n]
  BY DEF NodeFields, Visit, FoldLeft, MapThenFoldSet
<1>2. \A a, x : Step(fold, a, x) = E(a, x)
  BY DEF Step
<1> HIDE DEF fold, base, E
<1>3. \A g, s : Body(g, s) = Taken(fold, base, value, g, s)
  BY <1>2 DEF Taken
<1> HIDE DEF Body
<1>4. ASSUME NEW g PROVE Run1(g) <=> IsFold(fold, base, value, n, g)
  BY <1>3 DEF IsFold
<1>5. IsFold(fold, base, value, n, iter)
  <2> HIDE DEF Run1
  <2>1. \E g : Run1(g)
    BY <1>4, FoldExists
  <2>2. Run1(iter)
    BY <2>1
  <2> HIDE DEF iter
  <2> QED BY <1>4, <2>2
<1> HIDE DEF iter
<1>6. PICK read : InTurn(fold, base, value, n, read) /\ read[n] = iter[1..n]
  BY <1>5, FoldInTurn
<1> QED BY <1>1, <1>6 DEF fold, base

LEMMA EntriesInTurn ==
  ASSUME NEW acc, NEW value, value # Scalar, NEW n \in Nat, DOMAIN value = 1..n
  PROVE  \E read : /\ InTurn([of |-> "entries"], acc, value, n, read)
                   /\ Entries(acc, value) = read[n]
<1> DEFINE fold == [of |-> "entries"]
           base == acc
           E(a, x) == IF a.code = "ok" THEN Entry(a, x) ELSE a
           Body(g, s) == IF s = {} THEN base ELSE E(g[s \ {Max(s)}], value[Max(s)])
           Run1(g) == g = [s \in SUBSET (1..n) |-> Body(g, s)]
           iter == CHOOSE g : Run1(g)
<1>1. Entries(acc, value) = iter[1..n]
  BY DEF Entries, Visit, FoldLeft, MapThenFoldSet
<1>2. \A a, x : Step(fold, a, x) = E(a, x)
  BY DEF Step
<1> HIDE DEF fold, base, E
<1>3. \A g, s : Body(g, s) = Taken(fold, base, value, g, s)
  BY <1>2 DEF Taken
<1> HIDE DEF Body
<1>4. ASSUME NEW g PROVE Run1(g) <=> IsFold(fold, base, value, n, g)
  BY <1>3 DEF IsFold
<1>5. IsFold(fold, base, value, n, iter)
  <2> HIDE DEF Run1
  <2>1. \E g : Run1(g)
    BY <1>4, FoldExists
  <2>2. Run1(iter)
    BY <2>1
  <2> HIDE DEF iter
  <2> QED BY <1>4, <2>2
<1> HIDE DEF iter
<1>6. PICK read : InTurn(fold, base, value, n, read) /\ read[n] = iter[1..n]
  BY <1>5, FoldInTurn
<1> QED BY <1>1, <1>6 DEF fold, base

LEMMA AnswersInTurn ==
  ASSUME NEW acc, NEW names, NEW batch, NEW n \in Nat, DOMAIN batch.names = 1..n
  PROVE  \E read : /\ InTurn([of |-> "answers", names |-> names, batch |-> batch], acc, batch.names, n, read)
                   /\ Answers(acc, names, batch) = read[n]
<1> DEFINE fold == [of |-> "answers", names |-> names, batch |-> batch]
           base == acc
           E(a, x) == Answer(a, names, batch, x)
           Body(g, s) == IF s = {} THEN base ELSE E(g[s \ {Max(s)}], batch.names[Max(s)])
           Run1(g) == g = [s \in SUBSET (1..n) |-> Body(g, s)]
           iter == CHOOSE g : Run1(g)
<1>1. Answers(acc, names, batch) = iter[1..n]
  BY DEF Answers, FoldLeft, MapThenFoldSet
<1>2. \A a, x : Step(fold, a, x) = E(a, x)
  BY DEF Step
<1> HIDE DEF fold, base, E
<1>3. \A g, s : Body(g, s) = Taken(fold, base, batch.names, g, s)
  BY <1>2 DEF Taken
<1> HIDE DEF Body
<1>4. ASSUME NEW g PROVE Run1(g) <=> IsFold(fold, base, batch.names, n, g)
  BY <1>3 DEF IsFold
<1>5. IsFold(fold, base, batch.names, n, iter)
  <2> HIDE DEF Run1
  <2>1. \E g : Run1(g)
    BY <1>4, FoldExists
  <2>2. Run1(iter)
    BY <2>1
  <2> HIDE DEF iter
  <2> QED BY <1>4, <2>2
<1> HIDE DEF iter
<1>6. PICK read : InTurn(fold, base, batch.names, n, read) /\ read[n] = iter[1..n]
  BY <1>5, FoldInTurn
<1> QED BY <1>1, <1>6 DEF fold, base

LEMMA BatchesInTurn ==
  ASSUME NEW names, NEW batches, NEW n \in Nat, DOMAIN batches = 1..n
  PROVE  \E read : /\ InTurn([of |-> "batches", names |-> names], [bytes |-> 0, kept |-> {}, diags |-> {}], batches, n, read)
                   /\ Assembled(names, batches) = read[n]
<1> DEFINE fold == [of |-> "batches", names |-> names]
           base == [bytes |-> 0, kept |-> {}, diags |-> {}]
           E(a, x) == Answers(a, names, x)
           Body(g, s) == IF s = {} THEN base ELSE E(g[s \ {Max(s)}], batches[Max(s)])
           Run1(g) == g = [s \in SUBSET (1..n) |-> Body(g, s)]
           iter == CHOOSE g : Run1(g)
<1>1. Assembled(names, batches) = iter[1..n]
  BY DEF Assembled, FoldLeft, MapThenFoldSet
<1>2. \A a, x : Step(fold, a, x) = E(a, x)
  BY DEF Step
<1> HIDE DEF fold, base, E
<1>3. \A g, s : Body(g, s) = Taken(fold, base, batches, g, s)
  BY <1>2 DEF Taken
<1> HIDE DEF Body
<1>4. ASSUME NEW g PROVE Run1(g) <=> IsFold(fold, base, batches, n, g)
  BY <1>3 DEF IsFold
<1>5. IsFold(fold, base, batches, n, iter)
  <2> HIDE DEF Run1
  <2>1. \E g : Run1(g)
    BY <1>4, FoldExists
  <2>2. Run1(iter)
    BY <2>1
  <2> HIDE DEF iter
  <2> QED BY <1>4, <2>2
<1> HIDE DEF iter
<1>6. PICK read : InTurn(fold, base, batches, n, read) /\ read[n] = iter[1..n]
  BY <1>5, FoldInTurn
<1> QED BY <1>1, <1>6 DEF fold, base

LEMMA OrderInTurn ==
  ASSUME NEW known, NEW n \in Nat, Cardinality(DOMAIN known) = n
  PROVE  \E read : /\ InTurn([of |-> "order", nodes |-> known], <<>>, [i \in 1..n |-> i], n, read)
                   /\ TopologicalOrder(known) = read[n]
<1> DEFINE fold == [of |-> "order", nodes |-> known]
           base == <<>>
           value == [i \in 1..n |-> i]
           E(a, x) == Placed(known, a)
           Body(g, s) == IF s = {} THEN base ELSE E(g[s \ {Max(s)}], value[Max(s)])
           Run1(g) == g = [s \in SUBSET (1..n) |-> Body(g, s)]
           iter == CHOOSE g : Run1(g)
<1>1. TopologicalOrder(known) = iter[1..n]
  BY DEF TopologicalOrder, Placed, ReadyAfter, FoldLeft, MapThenFoldSet
<1>2. \A a, x : Step(fold, a, x) = E(a, x)
  BY DEF Step
<1> HIDE DEF fold, base, E, value
<1>3. \A g, s : Body(g, s) = Taken(fold, base, value, g, s)
  BY <1>2 DEF Taken
<1> HIDE DEF Body
<1>4. ASSUME NEW g PROVE Run1(g) <=> IsFold(fold, base, value, n, g)
  BY <1>3 DEF IsFold
<1>5. IsFold(fold, base, value, n, iter)
  <2> HIDE DEF Run1
  <2>1. \E g : Run1(g)
    BY <1>4, FoldExists
  <2>2. Run1(iter)
    BY <2>1
  <2> HIDE DEF iter
  <2> QED BY <1>4, <2>2
<1> HIDE DEF iter
<1>6. PICK read : InTurn(fold, base, value, n, read) /\ read[n] = iter[1..n]
  BY <1>5, FoldInTurn
<1> QED BY <1>1, <1>6 DEF fold, base, value

LEMMA ClosureInTurn ==
  ASSUME NEW known, NEW start, NEW n \in Nat, Cardinality(DOMAIN known) = n
  PROVE  \E read : /\ InTurn([of |-> "closure", nodes |-> known], start, [i \in 1..n |-> i], n, read)
                   /\ Closure(known, start) = read[n]
<1> DEFINE fold == [of |-> "closure", nodes |-> known]
           base == start
           value == [i \in 1..n |-> i]
           E(a, x) == Reached(known, a)
           Body(g, s) == IF s = {} THEN base ELSE E(g[s \ {Max(s)}], value[Max(s)])
           Run1(g) == g = [s \in SUBSET (1..n) |-> Body(g, s)]
           iter == CHOOSE g : Run1(g)
<1>1. Closure(known, start) = iter[1..n]
  BY DEF Closure, Reached, FoldLeft, MapThenFoldSet
<1>2. \A a, x : Step(fold, a, x) = E(a, x)
  BY DEF Step
<1> HIDE DEF fold, base, E, value
<1>3. \A g, s : Body(g, s) = Taken(fold, base, value, g, s)
  BY <1>2 DEF Taken
<1> HIDE DEF Body
<1>4. ASSUME NEW g PROVE Run1(g) <=> IsFold(fold, base, value, n, g)
  BY <1>3 DEF IsFold
<1>5. IsFold(fold, base, value, n, iter)
  <2> HIDE DEF Run1
  <2>1. \E g : Run1(g)
    BY <1>4, FoldExists
  <2>2. Run1(iter)
    BY <2>1
  <2> HIDE DEF iter
  <2> QED BY <1>4, <2>2
<1> HIDE DEF iter
<1>6. PICK read : InTurn(fold, base, value, n, read) /\ read[n] = iter[1..n]
  BY <1>5, FoldInTurn
<1> QED BY <1>1, <1>6 DEF fold, base, value

LEMMA BlameInTurn ==
  ASSUME NEW at, NEW n \in Nat, Cardinality(DOMAIN executions) = n
  PROVE  \E read : /\ InTurn([of |-> "blame", runs |-> executions], at, [i \in 1..n |-> i], n, read)
                   /\ Blamed(at) = read[n]
<1> DEFINE fold == [of |-> "blame", runs |-> executions]
           base == at
           value == [i \in 1..n |-> i]
           E(a, x) == IF a \in DOMAIN executions /\ executions[a].state = "Skipped"
                       THEN executions[a].dep ELSE a
           Body(g, s) == IF s = {} THEN base ELSE E(g[s \ {Max(s)}], value[Max(s)])
           Run1(g) == g = [s \in SUBSET (1..n) |-> Body(g, s)]
           iter == CHOOSE g : Run1(g)
<1>1. Blamed(at) = iter[1..n]
  BY DEF Blamed, FoldLeft, MapThenFoldSet
<1>2. \A a, x : Step(fold, a, x) = E(a, x)
  BY DEF Step
<1> HIDE DEF fold, base, E, value
<1>3. \A g, s : Body(g, s) = Taken(fold, base, value, g, s)
  BY <1>2 DEF Taken
<1> HIDE DEF Body
<1>4. ASSUME NEW g PROVE Run1(g) <=> IsFold(fold, base, value, n, g)
  BY <1>3 DEF IsFold
<1>5. IsFold(fold, base, value, n, iter)
  <2> HIDE DEF Run1
  <2>1. \E g : Run1(g)
    BY <1>4, FoldExists
  <2>2. Run1(iter)
    BY <2>1
  <2> HIDE DEF iter
  <2> QED BY <1>4, <2>2
<1> HIDE DEF iter
<1>6. PICK read : InTurn(fold, base, value, n, read) /\ read[n] = iter[1..n]
  BY <1>5, FoldInTurn
<1> QED BY <1>1, <1>6 DEF fold, base, value

------------------------------------------------------------------------------
(* What the reader makes of a true document *)

Shape(a) == DOMAIN a = {"code", "left", "value"}

LEMMA ChargeShape ==
  ASSUME NEW a, Shape(a), NEW string, NEW cost
  PROVE  LET b == Charge(a, string, cost)
         IN /\ Shape(b) /\ b.value = a.value
            /\ b.code = "ok" => a.code = "ok" /\ string # LongName
BY DEF Shape, Charge, Fail

\* One output more, unless something is wrong with it.
LEMMA OutputStep ==
  ASSUME NEW a, Shape(a), a.code = "ok", NEW x
  PROVE  LET b == Output(a, x)
         IN /\ Shape(b)
            /\ b.code = "ok" => ~Unacceptable(x) /\ b.value = With(a.value, x.key, x.value)
<1> DEFINE b == Output(a, x)
           charged == Charge(a, x.key, 1)
           path == Then(charged, LAMBDA c : OutputPath(c, x.value))
<1>1. CASE x.key = EmptyName
  BY <1>1 DEF Output, Fail, Shape
<1>2. CASE x.key # EmptyName
  <2>1. /\ Shape(charged) /\ charged.value = a.value
        /\ charged.code = "ok" => x.key # LongName
    BY ChargeShape
  <2> HIDE DEF charged
  <2>2. /\ Shape(path) /\ path.value = a.value
        /\ path.code = "ok" => charged.code = "ok" /\ x.value # Scalar /\ x.value # LongName
    <3>1. CASE charged.code # "ok"
      BY <2>1, <3>1 DEF Then
    <3>2. CASE charged.code = "ok"
      <4>1. path = OutputPath(charged, x.value)
        BY <3>2 DEF Then
      <4>2. CASE x.value = Scalar
        BY <2>1, <4>1, <4>2 DEF OutputPath, Fail, Shape
      <4>3. CASE x.value # Scalar /\ x.value = NoPath
        BY <2>1, <3>2, <4>1, <4>3, GraphStreamAssumption DEF OutputPath
      <4>4. CASE x.value # Scalar /\ x.value # NoPath
        <5>1. path = Charge(charged, x.value, 1)
          BY <4>1, <4>4 DEF OutputPath
        <5> HIDE DEF path
        <5> QED BY <2>1, <4>4, <5>1, ChargeShape
      <4> QED BY <4>2, <4>3, <4>4
    <3> QED BY <3>1, <3>2
  <2>3. b = Then(path, LAMBDA c : [c EXCEPT !.value = With(@, x.key, x.value)])
    BY <1>2 DEF Output, charged
  <2> HIDE DEF path
  <2> QED BY <1>2, <2>1, <2>2, <2>3 DEF Then, Shape, Unacceptable
<1> QED BY <1>1, <1>2

\* An outputs map that was read to its end is the one of the derivation.
LEMMA OutputsTruth ==
  ASSUME NEW acc, NEW d, NEW value, TrueOutputs(d, value), Outputs(acc, value).code = "ok"
  PROVE  TrueOuts(d, Outputs(acc, value).value)
<1>1. value # Scalar
  BY DEF Outputs, Visit, Nested, Fail
<1>2. value \in Seq(ToSet(value))
  BY <1>1 DEF TrueOutputs, Listing
<1>3. PICK n \in Nat : DOMAIN value = 1..n
  BY <1>2
<1>4. PICK read : /\ InTurn([of |-> "outputs"], Nested(acc, <<>>), value, n, read)
                  /\ Outputs(acc, value) = read[n]
  BY <1>1, <1>3, OutputsInTurn
<1>5. /\ read[0] = Nested(acc, <<>>)
      /\ \A i \in 1..n : read[i] = IF read[i - 1].code = "ok" THEN Output(read[i - 1], value[i])
                                   ELSE read[i - 1]
  BY <1>4 DEF InTurn, Step
<1> DEFINE So(i) ==
             /\ Shape(read[i])
             /\ read[i].code = "ok" =>
                  /\ \A j \in 1..i : ~Unacceptable(value[j])
                  /\ DOMAIN read[i].value = {value[j].key : j \in 1..i}
                  /\ \A k \in DOMAIN read[i].value : \E j \in 1..i :
                       value[j].key = k /\ read[i].value[k] = value[j].value
           P == {i \in 0..n : So(i)}
<1>6. 0 \in P
  <2>1. So(0)
    BY <1>5 DEF Nested, Shape
  <2> QED BY <2>1
<1>7. ASSUME NEW i \in 1..n, i - 1 \in P PROVE i \in P
  <2>1. So(i - 1) /\ i \in 0..n
    BY <1>7
  <2>2. CASE read[i - 1].code # "ok"
    <3>1. read[i] = read[i - 1]
      BY <1>5, <2>2
    <3>2. So(i)
      BY <2>1, <2>2, <3>1
    <3> QED BY <2>1, <3>2
  <2>3. CASE read[i - 1].code = "ok"
    <3>1. read[i] = Output(read[i - 1], value[i])
      BY <1>5, <2>3
    <3>2. /\ Shape(read[i])
          /\ read[i].code = "ok" =>
               /\ ~Unacceptable(value[i])
               /\ read[i].value = With(read[i - 1].value, value[i].key, value[i].value)
      BY <2>1, <2>3, <3>1, OutputStep
    <3>3. 1..i = (1..(i - 1)) \cup {i}
      OBVIOUS
    <3>4. So(i)
      <4> SUFFICES ASSUME read[i].code = "ok"
                   PROVE  /\ \A j \in 1..i : ~Unacceptable(value[j])
                          /\ DOMAIN read[i].value = {value[j].key : j \in 1..i}
                          /\ \A k \in DOMAIN read[i].value : \E j \in 1..i :
                               value[j].key = k /\ read[i].value[k] = value[j].value
        BY <3>2
      <4>1. \A j \in 1..i : ~Unacceptable(value[j])
        BY <2>1, <2>3, <3>2, <3>3
      <4>2. DOMAIN read[i].value = {value[j].key : j \in 1..i}
        BY <2>1, <2>3, <3>2, <3>3 DEF With
      <4>3. ASSUME NEW k \in DOMAIN read[i].value
            PROVE  \E j \in 1..i : value[j].key = k /\ read[i].value[k] = value[j].value
        <5>1. CASE k = value[i].key
          BY <3>2, <3>3, <5>1 DEF With
        <5>2. CASE k # value[i].key
          <6>1. k \in DOMAIN read[i - 1].value /\ read[i].value[k] = read[i - 1].value[k]
            BY <3>2, <5>2 DEF With
          <6> QED BY <2>1, <2>3, <3>3, <6>1
        <5> QED BY <5>1, <5>2
      <4> QED BY <4>1, <4>2, <4>3
    <3> QED BY <2>1, <3>4
  <2> QED BY <2>2, <2>3
<1>8. So(n)
  <2> HIDE DEF So
  <2>1. \A i \in 0..n : i \in P
    <3> HIDE DEF P
    <3> QED BY <1>6, <1>7, OneByOne
  <2>2. n \in 0..n
    OBVIOUS
  <2> QED BY <2>1, <2>2
<1>9. ToSet(value) = {value[j] : j \in 1..n} /\ Members(value) = ToSet(value)
  BY <1>1, <1>3 DEF ToSet, Members
<1>10. \A output \in Members(value) : ~Unacceptable(output)
  BY <1>4, <1>8, <1>9
<1>11. /\ \A output \in Members(value) : output.value \in {Path(d, output.key), NoPath}
       /\ d \in DOMAIN World =>
            {output.key : output \in Members(value)} = DOMAIN World[d].outs
  BY <1>1, <1>10 DEF TrueOutputs
<1> DEFINE outs == Outputs(acc, value).value
<1>12. /\ DOMAIN outs = {value[j].key : j \in 1..n}
       /\ \A k \in DOMAIN outs : \E j \in 1..n : value[j].key = k /\ outs[k] = value[j].value
  BY <1>4, <1>8
<1> HIDE DEF outs
<1>13. TruePaths(d, outs)
  BY <1>9, <1>11, <1>12 DEF TruePaths
<1>14. d \in DOMAIN World => DOMAIN outs = DOMAIN World[d].outs
  <2>1. {output.key : output \in Members(value)} = {value[j].key : j \in 1..n}
    BY <1>9
  <2> QED BY <1>11, <1>12, <2>1
<1> QED BY <1>13, <1>14 DEF TrueOuts, outs

\* What is read of the inputs of a node names derivations.
LEMMA DependencyStep ==
  ASSUME NEW a, Shape(a), DOMAIN a.value \in SUBSET Nat, NEW x, x.key \in Nat \cup {LongName}
  PROVE  Shape(Dependency(a, x)) /\ DOMAIN Dependency(a, x).value \in SUBSET Nat
<1> DEFINE charged == Charge(a, x.key, 1 + ContainerCost)
           read == Then(charged, LAMBDA c : Selection(c, x.value))
<1>1. charged.code = "ok" => x.key # LongName
  BY ChargeShape
<1> HIDE DEF charged
<1>2. read.code = "ok" => x.key \in Nat
  BY <1>1 DEF Then
<1>3. Dependency(a, x) = Resume(a, read, With(a.value, x.key, read.value))
  BY DEF Dependency, charged
<1> HIDE DEF read
<1> QED BY <1>2, <1>3 DEF Resume, With, Shape

LEMMA InputsTruth ==
  ASSUME NEW acc, NEW value, TrueInputs(value)
  PROVE  DOMAIN Inputs(acc, value).value \in SUBSET Nat
<1>1. Shape(Nested(acc, <<>>)) /\ DOMAIN Nested(acc, <<>>).value \in SUBSET Nat
  BY DEF Nested, Shape
<1>2. CASE value = Scalar
  <2>1. Inputs(acc, value) = Fail(Nested(acc, <<>>), "invalid_input_derivations")
    BY <1>2 DEF Inputs, Visit
  <2> QED BY <1>1, <2>1 DEF Fail, Shape
<1>3. CASE value # Scalar
  <2>1. PICK n \in Nat : DOMAIN value = 1..n
    BY <1>3 DEF TrueInputs, Listing
  <2>2. PICK read : /\ InTurn([of |-> "inputs"], Nested(acc, <<>>), value, n, read)
                    /\ Inputs(acc, value) = read[n]
    BY <1>3, <2>1, InputsInTurn
  <2>3. /\ read[0] = Nested(acc, <<>>)
        /\ \A i \in 1..n : read[i] = IF read[i - 1].code = "ok"
                                       THEN Dependency(read[i - 1], value[i]) ELSE read[i - 1]
    BY <2>2 DEF InTurn, Step
  <2>4. \A i \in 1..n : value[i].key \in Nat \cup {LongName}
    BY <1>3, <2>1 DEF TrueInputs, Members, ToSet
  <2> DEFINE P == {i \in 0..n : Shape(read[i]) /\ DOMAIN read[i].value \in SUBSET Nat}
  <2>5. 0 \in P
    BY <1>1, <2>3
  <2>6. ASSUME NEW i \in 1..n, i - 1 \in P PROVE i \in P
    <3>1. Shape(read[i - 1]) /\ DOMAIN read[i - 1].value \in SUBSET Nat /\ i \in 0..n
      BY <2>6
    <3>2. /\ Shape(Dependency(read[i - 1], value[i]))
          /\ DOMAIN Dependency(read[i - 1], value[i]).value \in SUBSET Nat
      BY <2>4, <3>1, DependencyStep
    <3> QED BY <2>3, <3>1, <3>2
  <2>7. \A i \in 0..n : i \in P
    <3> HIDE DEF P
    <3> QED BY <2>5, <2>6, OneByOne
  <2> QED BY <2>2, <2>7
<1> QED BY <1>2, <1>3

\* Whatever the outputs of a node were, they were those of the derivation, and its inputs
\* are derivations.
FieldsTrue(d, fields) ==
  /\ DOMAIN fields = {"outputs", "inputs", "inputDrvs"}
  /\ fields.outputs = <<>> \/ TrueOuts(d, fields.outputs[1])
  /\ fields.inputs = <<>> \/ DOMAIN fields.inputs[1] \in SUBSET Nat
  /\ fields.inputDrvs = <<>> \/ DOMAIN fields.inputDrvs[1] \in SUBSET Nat

LEMMA FieldStep ==
  ASSUME NEW d, NEW a, Shape(a), FieldsTrue(d, a.value), NEW field, TrueField(d, field)
  PROVE  Shape(NodeField(a, field)) /\ FieldsTrue(d, NodeField(a, field).value)
<1>1. \A name \in {"outputs", "inputs", "inputDrvs"} : \A read :
        /\ Shape(WithField(a, name, read))
        /\ WithField(a, name, read).value =
             IF read.code = "ok" THEN [a.value EXCEPT ![name] = <<read.value>>] ELSE a.value
  BY DEF WithField, Resume, Shape
<1>2. CASE field.key = "outputs"
  <2> DEFINE read == Outputs(a, field.value)
  <2>1. NodeField(a, field) = WithField(a, "outputs", read)
    BY <1>2 DEF NodeField
  <2>2. read.code = "ok" => TrueOuts(d, read.value)
    BY <1>2, OutputsTruth DEF TrueField
  <2> HIDE DEF read
  <2> DEFINE new == [a.value EXCEPT !["outputs"] = <<read.value>>]
  <2>3. /\ DOMAIN new = DOMAIN a.value
        /\ new.outputs = <<read.value>> /\ <<read.value>>[1] = read.value
        /\ new.inputs = a.value.inputs /\ new.inputDrvs = a.value.inputDrvs
    BY DEF FieldsTrue
  <2>4. WithField(a, "outputs", read).value = IF read.code = "ok" THEN new ELSE a.value
    BY <1>1
  <2>5. Shape(WithField(a, "outputs", read))
    BY <1>1
  <2> HIDE DEF new
  <2> QED BY <2>1, <2>2, <2>3, <2>4, <2>5 DEF FieldsTrue
<1>3. CASE field.key = "inputs" /\ field.value = NoPath
  BY <1>3 DEF NodeField, FieldsTrue, Shape
<1>4. CASE field.key \in {"inputs", "inputDrvs"} /\ ~(field.key = "inputs" /\ field.value = NoPath)
  <2>1. NodeField(a, field) = WithField(a, field.key, Inputs(a, field.value))
    BY <1>4 DEF NodeField
  <2> DEFINE read == Inputs(a, field.value)
             new == [a.value EXCEPT ![field.key] = <<read.value>>]
  <2>2. /\ DOMAIN new = DOMAIN a.value /\ new.outputs = a.value.outputs
        /\ new.inputs \in {<<read.value>>, a.value.inputs}
        /\ new.inputDrvs \in {<<read.value>>, a.value.inputDrvs}
    <3> HIDE DEF read
    <3> QED BY <1>4 DEF FieldsTrue
  <2>3. Shape(NodeField(a, field))
    BY <1>1, <1>4, <2>1
  <2>4. NodeField(a, field).value = IF read.code = "ok" THEN new ELSE a.value
    BY <1>1, <1>4, <2>1
  <2>5. DOMAIN read.value \in SUBSET Nat
    <3>1. TrueInputs(field.value)
      BY <1>4 DEF TrueField
    <3> QED BY <3>1, InputsTruth
  <2> HIDE DEF read, new
  <2>6. <<read.value>>[1] = read.value
    OBVIOUS
  <2> QED BY <2>2, <2>3, <2>4, <2>5, <2>6 DEF FieldsTrue
<1>5. CASE field.key \notin {"outputs", "inputs", "inputDrvs"}
  BY <1>5 DEF NodeField
<1> QED BY <1>2, <1>3, <1>4, <1>5

LEMMA FieldsTruth ==
  ASSUME NEW acc, Shape(acc), NEW d, NEW value, Listing(value),
         \A field \in Members(value) : TrueField(d, field)
  PROVE  Shape(NodeFields(acc, value)) /\ FieldsTrue(d, NodeFields(acc, value).value)
<1>1. Shape(Nested(acc, NoFields)) /\ FieldsTrue(d, Nested(acc, NoFields).value)
  BY DEF Nested, Shape, NoFields, FieldsTrue
<1>2. CASE value = Scalar
  <2>1. NodeFields(acc, value) = Fail(Nested(acc, NoFields), "invalid_graph_node")
    BY <1>2 DEF NodeFields, Visit
  <2> QED BY <1>1, <2>1 DEF Fail, Shape
<1>3. CASE value # Scalar
  <2>1. PICK n \in Nat : DOMAIN value = 1..n
    BY <1>3 DEF Listing
  <2>2. PICK read : /\ InTurn([of |-> "fields"], Nested(acc, NoFields), value, n, read)
                    /\ NodeFields(acc, value) = read[n]
    BY <1>3, <2>1, FieldsInTurn
  <2>3. /\ read[0] = Nested(acc, NoFields)
        /\ \A i \in 1..n : read[i] = IF read[i - 1].code = "ok"
                                       THEN NodeField(read[i - 1], value[i]) ELSE read[i - 1]
    BY <2>2 DEF InTurn, Step
  <2>4. \A i \in 1..n : TrueField(d, value[i])
    BY <1>3, <2>1 DEF Members, ToSet
  <2> DEFINE P == {i \in 0..n : Shape(read[i]) /\ FieldsTrue(d, read[i].value)}
  <2>5. 0 \in P
    BY <1>1, <2>3
  <2>6. ASSUME NEW i \in 1..n, i - 1 \in P PROVE i \in P
    <3>1. Shape(read[i - 1]) /\ FieldsTrue(d, read[i - 1].value) /\ i \in 0..n
      BY <2>6
    <3>2. Shape(NodeField(read[i - 1], value[i]))
          /\ FieldsTrue(d, NodeField(read[i - 1], value[i]).value)
      BY <2>4, <3>1, FieldStep
    <3> QED BY <2>3, <3>1, <3>2
  <2>7. \A i \in 0..n : i \in P
    <3> HIDE DEF P
    <3> QED BY <2>5, <2>6, OneByOne
  <2> QED BY <2>2, <2>7
<1> QED BY <1>2, <1>3

\* A member of a document, and what is known before and after it.
LEMMA InsertTruth ==
  ASSUME NEW acc, Shape(acc), TrueNodes(acc.value), NEW member, TrueNode(member),
         NEW speculative \in BOOLEAN
  PROVE  LET b == InsertNode(acc, member, speculative)
         IN Shape(b) /\ TrueNodes(b.value)
<1> DEFINE first == Charge(acc, member.key, 1)
           second == Then(first, LAMBDA a : Charge(a, member.key, 1))
           fields == Then(second, LAMBDA a : NodeFields(a, member.value))
           read == EndOfNode(fields, member.torn, speculative)
           new == With(acc.value, member.key, NodeOf(read.value))
           kept == Resume(acc, read, new)
<1>1. Shape(second) /\ (second.code = "ok" => member.key # LongName)
  <2>1. Shape(first) /\ (first.code = "ok" => member.key # LongName)
    BY ChargeShape
  <2> HIDE DEF first
  <2>2. Shape(Charge(first, member.key, 1))
    BY <2>1, ChargeShape
  <2> QED BY <2>1, <2>2 DEF Then
<1> HIDE DEF second
<1>2. /\ Shape(fields)
      /\ fields.code = "ok" => FieldsTrue(member.key, fields.value)
  <2>1. /\ Shape(NodeFields(second, member.value))
        /\ FieldsTrue(member.key, NodeFields(second, member.value).value)
    BY <1>1, FieldsTruth DEF TrueNode
  <2> QED BY <1>1, <2>1 DEF Then
<1> HIDE DEF fields
<1>3. read.code = "ok" => /\ TrueOuts(member.key, NodeOf(read.value).outs)
                          /\ DOMAIN NodeOf(read.value).deps \in SUBSET Nat
                          /\ member.key \in Nat
  <2>1. SUFFICES ASSUME read.code = "ok"
                 PROVE  /\ TrueOuts(member.key, NodeOf(read.value).outs)
                        /\ DOMAIN NodeOf(read.value).deps \in SUBSET Nat
                        /\ member.key \in Nat
    OBVIOUS
  <2>2. member.torn \in {"none"} \cup Torn /\ "ok" \notin Torn
    BY DEF TrueNode, Torn
  <2>3. read = fields /\ fields.value.outputs # <<>>
    BY <1>2, <2>1, <2>2 DEF EndOfNode, Fail, Shape
  <2>4. second.code = "ok" /\ member.key # LongName
    <3>1. second.code = "ok"
      BY <2>1, <2>3 DEF Then, fields
    <3> QED BY <1>1, <3>1
  <2> QED BY <1>2, <2>1, <2>3, <2>4 DEF FieldsTrue, NodeOf, TrueNode
<1> HIDE DEF read
<1>4. read.code = "ok" => TrueNodes(new)
  <2>1. SUFFICES ASSUME read.code = "ok"
                 PROVE  /\ IsFiniteSet(DOMAIN new) /\ DOMAIN new \in SUBSET Nat
                        /\ \A d \in DOMAIN new :
                             TrueOuts(d, new[d].outs) /\ DOMAIN new[d].deps \in SUBSET Nat
    BY DEF TrueNodes
  <2>2. IsFiniteSet(DOMAIN new) /\ DOMAIN new \in SUBSET Nat
    <3>1. DOMAIN new = DOMAIN acc.value \cup {member.key}
      BY DEF With
    <3>2. IsFiniteSet(DOMAIN acc.value \cup {member.key})
      BY FS_AddElement DEF TrueNodes
    <3> QED BY <1>3, <2>1, <3>1, <3>2 DEF TrueNodes
  <2>3. ASSUME NEW d \in DOMAIN new
        PROVE  TrueOuts(d, new[d].outs) /\ DOMAIN new[d].deps \in SUBSET Nat
    <3>1. CASE d = member.key
      BY <1>3, <2>1, <3>1 DEF With
    <3>2. CASE d # member.key
      BY <3>2 DEF With, TrueNodes
    <3> QED BY <3>1, <3>2
  <2> QED BY <2>2, <2>3
<1> HIDE DEF new
<1>5. Shape(kept) /\ TrueNodes(kept.value)
  BY <1>4 DEF Resume, Shape
<1>6. InsertNode(acc, member, speculative) = Then(kept, WithinLimit)
  BY DEF InsertNode, kept, new, read, fields, second, first
<1> HIDE DEF kept
<1> QED BY <1>5, <1>6 DEF Then, WithinLimit, Fail, Shape

LEMMA EntriesTruth ==
  ASSUME NEW acc, Shape(acc), TrueNodes(acc.value), NEW value, Listing(value),
         \A m \in Members(value) : m.kind # "version" => TrueNode(m)
  PROVE  TrueNodes(Entries(acc, value).value)
<1>1. CASE value = Scalar
  BY <1>1 DEF Entries, Visit, Fail, Shape
<1>2. CASE value # Scalar
  <2>1. PICK n \in Nat : DOMAIN value = 1..n
    BY <1>2 DEF Listing
  <2>2. PICK read : InTurn([of |-> "entries"], acc, value, n, read) /\ Entries(acc, value) = read[n]
    BY <1>2, <2>1, EntriesInTurn
  <2>3. /\ read[0] = acc
        /\ \A i \in 1..n : read[i] = IF read[i - 1].code = "ok"
                                       THEN Entry(read[i - 1], value[i]) ELSE read[i - 1]
    BY <2>2 DEF InTurn, Step
  <2>4. \A i \in 1..n : value[i].kind # "version" => TrueNode(value[i])
    BY <1>2, <2>1 DEF Members, ToSet
  <2> DEFINE P == {i \in 0..n : Shape(read[i]) /\ TrueNodes(read[i].value)}
  <2>5. 0 \in P
    BY <2>3
  <2>6. ASSUME NEW i \in 1..n, i - 1 \in P PROVE i \in P
    <3>1. Shape(read[i - 1]) /\ TrueNodes(read[i - 1].value) /\ i \in 0..n
      BY <2>6
    <3>2. Shape(Entry(read[i - 1], value[i])) /\ TrueNodes(Entry(read[i - 1], value[i]).value)
      BY <2>4, <3>1, InsertTruth DEF Entry
    <3> QED BY <2>3, <3>1, <3>2
  <2>7. \A i \in 0..n : i \in P
    <3> HIDE DEF P
    <3> QED BY <2>5, <2>6, OneByOne
  <2> QED BY <2>2, <2>7
<1> QED BY <1>1, <1>2

------------------------------------------------------------------------------
(* What is kept of the answers *)

Good(names) ==
  {n \in names \cap DOMAIN Flake : Selected(n) # {} /\ Selected(n) \subseteq Flake[n].outs}
Keeping(a, names) == DOMAIN a = {"bytes", "kept", "diags"} /\ a.kept \subseteq Good(names)
Readable(batch) ==
  batch.usable \subseteq DOMAIN Flake /\ \E n \in Nat : DOMAIN batch.names = 1..n

LEMMA AnswerKeeps ==
  ASSUME NEW names, NEW a, Keeping(a, names), NEW batch, batch.usable \subseteq DOMAIN Flake, NEW name
  PROVE  Keeping(Answer(a, names, batch, name), names)
<1>1. \A code : Keeping(Reject(a, code, name), names)
  BY DEF Reject, Keeping
<1>2. CASE name \in names /\ name \in batch.usable
  <2>1. Answer(a, names, batch, name) = Retain(a, name)
    BY <1>2 DEF Answer
  <2>2. \/ \E code : Retain(a, name) = Reject(a, code, name)
        \/ /\ Selected(name) # {} /\ Selected(name) \subseteq Flake[name].outs
           /\ Retain(a, name) = [a EXCEPT !.bytes = @ + Size[name], !.kept = @ \cup {name}]
    BY DEF Retain
  <2>3. CASE \E code : Retain(a, name) = Reject(a, code, name)
    BY <1>1, <2>1, <2>3
  <2>4. CASE /\ Selected(name) # {} /\ Selected(name) \subseteq Flake[name].outs
             /\ Retain(a, name) = [a EXCEPT !.bytes = @ + Size[name], !.kept = @ \cup {name}]
    <3>1. name \in Good(names)
      BY <1>2, <2>4 DEF Good
    <3> QED BY <2>1, <2>4, <3>1 DEF Keeping
  <2> QED BY <2>2, <2>3, <2>4
<1> QED BY <1>1, <1>2 DEF Answer

LEMMA AnswersKeep ==
  ASSUME NEW names, NEW a, Keeping(a, names), NEW batch, Readable(batch)
  PROVE  Keeping(Answers(a, names, batch), names)
<1>1. PICK n \in Nat : DOMAIN batch.names = 1..n
  BY DEF Readable
<1> DEFINE fold == [of |-> "answers", names |-> names, batch |-> batch]
<1>2. PICK read : /\ InTurn(fold, a, batch.names, n, read)
                  /\ Answers(a, names, batch) = read[n]
  BY <1>1, AnswersInTurn
<1>3. \A b, x : Step(fold, b, x) = Answer(b, names, batch, x)
  BY DEF Step
<1> HIDE DEF fold
<1>4. /\ read[0] = a
      /\ \A i \in 1..n : read[i] = Answer(read[i - 1], names, batch, batch.names[i])
  BY <1>2, <1>3 DEF InTurn
<1> DEFINE P == {i \in 0..n : Keeping(read[i], names)}
<1>5. 0 \in P
  BY <1>4
<1>6. \A i \in 1..n : i - 1 \in P => i \in P
  BY <1>4, AnswerKeeps DEF Readable
<1>7. \A i \in 0..n : i \in P
  <2> HIDE DEF P
  <2> QED BY <1>5, <1>6, OneByOne
<1> QED BY <1>2, <1>7

\* Nothing is kept but names that were asked for and have what is selected of them.
LEMMA AssembledKeeps ==
  ASSUME NEW names, NEW batches, NEW n \in Nat, DOMAIN batches = 1..n,
         \A i \in 1..n : Readable(batches[i])
  PROVE  Assembled(names, batches).kept \subseteq Good(names)
<1> DEFINE fold == [of |-> "batches", names |-> names]
           none == [bytes |-> 0, kept |-> {}, diags |-> {}]
<1>1. PICK read : InTurn(fold, none, batches, n, read) /\ Assembled(names, batches) = read[n]
  BY BatchesInTurn
<1>2. \A b, x : Step(fold, b, x) = Answers(b, names, x)
  BY DEF Step
<1>3. Keeping(none, names)
  BY DEF Keeping
<1> HIDE DEF fold, none
<1>4. read[0] = none /\ \A i \in 1..n : read[i] = Answers(read[i - 1], names, batches[i])
  BY <1>1, <1>2 DEF InTurn
<1> DEFINE P == {i \in 0..n : Keeping(read[i], names)}
<1>5. 0 \in P
  BY <1>3, <1>4
<1>6. \A i \in 1..n : i - 1 \in P => i \in P
  BY <1>4, AnswersKeep
<1>7. \A i \in 0..n : i \in P
  <2> HIDE DEF P
  <2> QED BY <1>5, <1>6, OneByOne
<1> QED BY <1>1, <1>7 DEF Keeping

\* The roots that are made of them.
LEMMA AssembleRoots ==
  ASSUME TInv, NEW names, NEW batches, NEW n \in Nat, DOMAIN batches = 1..n,
         \A i \in 1..n : Readable(batches[i]), AssembleInto(names, batches),
         ToSet(Targets) \subseteq names, request' = request, pc' = "complete"
  PROVE  RootInv'
<1> DEFINE kept == Assembled(names, batches).kept
           RootOf(name) == IF name \in kept
                             THEN Root("named", name, Flake[name].drv, Selected(name), "Failed")
                             ELSE Root("named", name, NoDrv, {},
                                       IF cancelled THEN "Cancelled" ELSE "Failed")
<1>1. kept \subseteq Good(names)
  BY AssembledKeeps
<1>2. /\ roots' = {RootOf(name) : name \in names}
      /\ evaluated' = {[kind |-> "named", name |-> name, drv |-> Flake[name].drv,
                        outs |-> Flake[name].outs, selected |-> Selected(name)] : name \in kept}
  BY DEF AssembleInto
<1> HIDE DEF kept
<1>3. \A root \in roots' : PlainRoot(root)
  BY <1>2 DEF Root, PlainRoot
<1>4. \A r \in evaluated' : \E root \in roots' : root.name = r.name /\ root.drv = r.drv
  <2>1. SUFFICES ASSUME NEW name \in kept
                 PROVE  \E root \in roots' : root.name = name /\ root.drv = Flake[name].drv
    BY <1>2
  <2>2. RootOf(name) \in roots'
    BY <1>1, <1>2, <2>1 DEF Good
  <2>3. RootOf(name).name = name /\ RootOf(name).drv = Flake[name].drv
    BY <2>1 DEF Root
  <2> QED BY <2>2, <2>3
<1>5. \A r \in evaluated' : r.drv \in DOMAIN World
  BY <1>1, <1>2, RealizationAssumption DEF Good
<1>6. \A r \in evaluated' : r.selected # {} /\ r.selected \subseteq r.outs
  BY <1>1, <1>2 DEF Good
<1>7. \A m \in ToSet(Targets) :
        \/ \E r \in evaluated' : r.name = m
        \/ \E root \in roots' : root.drv = NoDrv /\ root.state \notin ExistingStates
  <2>1. SUFFICES ASSUME NEW m \in ToSet(Targets)
                 PROVE  \/ \E r \in evaluated' : r.name = m
                        \/ \E root \in roots' : root.drv = NoDrv /\ root.state \notin ExistingStates
    OBVIOUS
  <2>2. CASE m \in kept
    <3> DEFINE r == [kind |-> "named", name |-> m, drv |-> Flake[m].drv,
                     outs |-> Flake[m].outs, selected |-> Selected(m)]
    <3>1. r \in evaluated' /\ r.name = m
      BY <1>2, <2>2
    <3> QED BY <3>1
  <2>3. CASE m \notin kept
    <3>1. RootOf(m) \in roots'
      BY <1>2
    <3>2. RootOf(m).drv = NoDrv /\ RootOf(m).state \in {"Cancelled", "Failed"}
      BY <2>3 DEF Root
    <3> QED BY <3>1, <3>2 DEF ExistingStates
  <2> QED BY <2>2, <2>3
<1>8. Targets' = Targets
  BY DEF Targets
<1> QED BY <1>3, <1>4, <1>5, <1>6, <1>7, <1>8 DEF RootInv

------------------------------------------------------------------------------
(* The evaluation *)

\* The names that are asked for are those of a sequence, and so are those of a batch.
LEMMA AscendingDomain ==
  ASSUME NEW S, IsFiniteSet(S)
  PROVE  \E n \in Nat : DOMAIN Ascending(S) = 1..n
BY FS_CardinalityType DEF Ascending

LEMMA Between == ASSUME NEW k \in Int PROVE \E n \in Nat : 1..k = 1..n
<1>1. CASE k \in Nat
  BY <1>1
<1>2. CASE k \notin Nat
  <2>1. 1..k = 1..0
    BY <1>2
  <2> QED BY <2>1
<1> QED BY <1>1, <1>2

LEMMA TargetsDomain ==
  ASSUME BatchInv
  PROVE  \E n \in Nat : DOMAIN Targets = 1..n /\ Len(Targets) = n /\ Targets \in Seq(ToSet(Targets))
<1>1. request.targets \in Seq(Nat)
  BY EvaluationAssumption DEF BatchInv
<1>2. IsFiniteSet(ToSet(request.targets))
  <2>1. PICK m \in Nat : DOMAIN request.targets = 1..m
    BY <1>1
  <2>2. IsFiniteSet(1..m)
    BY FS_Interval
  <2> DEFINE f == [i \in 1..m |-> request.targets[i]]
  <2>3. f \in Surjection(1..m, ToSet(request.targets))
    BY <2>1 DEF Surjection, ToSet
  <2> HIDE DEF f
  <2> QED BY <2>2, <2>3, FS_Surjection
<1>3. PICK n \in Nat : DOMAIN Targets = 1..n
  BY <1>2, AscendingDomain DEF Targets
<1>4. Targets = [i \in 1..n |-> Targets[i]]
  <2>1. PICK body : Targets = [i \in DOMAIN Targets |-> body[i]]
    <3>1. Targets = [i \in DOMAIN Targets |-> Targets[i]]
      BY DEF Targets, Ascending
    <3> HIDE DEF Targets
    <3> QED BY <3>1
  <2> QED BY <1>3, <2>1
<1>5. Targets \in Seq(ToSet(Targets)) /\ Len(Targets) = n
  BY <1>3, <1>4 DEF ToSet
<1> QED BY <1>3, <1>5

LEMMA BatchesDomain ==
  ASSUME BatchInv
  PROVE  /\ \E n \in Nat : DOMAIN Batches = 1..n
         /\ Batches \in Seq(BatchSet)
         /\ \A b \in BatchSet : \E n \in Nat : DOMAIN b.names = 1..n
<1>1. PICK n \in Nat : DOMAIN Targets = 1..n /\ Len(Targets) = n /\ Targets \in Seq(ToSet(Targets))
  BY TargetsDomain
<1>2. BatchSize \in Nat \ {0}
  BY EvaluationAssumption
<1> DEFINE k == (n + BatchSize - 1) \div BatchSize
<1>3. k \in Nat
  BY <1>2
<1>4. DOMAIN Batches = 1..k /\ Batches = [i \in 1..k |-> Batches[i]]
  BY <1>1 DEF Batches
<1> HIDE DEF k
<1>5. Batches \in Seq(BatchSet)
  <2>1. \A i \in 1..k : Batches[i] \in BatchSet
    BY <1>4 DEF BatchSet
  <2> HIDE DEF Batches
  <2>2. Batches \in [1..k -> BatchSet]
    BY <1>4, <2>1
  <2> QED BY <1>3, <2>2
<1>6. ASSUME NEW b \in BatchSet PROVE \E m \in Nat : DOMAIN b.names = 1..m
  <2>1. PICK i \in DOMAIN Batches : b = Batches[i]
    BY DEF BatchSet
  <2>2. i \in Nat
    BY <1>4, <2>1
  <2> DEFINE from == (i - 1) * BatchSize + 1
             to == Min({i * BatchSize, Len(Targets)})
  <2>3. b.names = SubSeq(Targets, from, to)
    BY <2>1 DEF Batches
  <2>4. from \in Int /\ to \in Int
    <3>1. i * BatchSize \in Nat /\ Len(Targets) \in Nat
      BY <1>1, <1>2, <2>2
    <3>2. to \in {i * BatchSize, Len(Targets)}
      <4>1. \A x, y \in Nat : Min({x, y}) \in {x, y}
        BY DEF Min
      <4> QED BY <3>1, <4>1
    <3> QED BY <1>2, <2>2, <3>1, <3>2
  <2> HIDE DEF from, to
  <2>5. DOMAIN SubSeq(Targets, from, to) = 1..(to - from + 1)
    BY <1>1, <2>4
  <2> QED BY <2>3, <2>4, <2>5, Between
<1> QED BY <1>3, <1>4, <1>5, <1>6

LEMMA SameTargets ==
  ASSUME request' = request
  PROVE  Targets' = Targets /\ Batches' = Batches /\ BatchSet' = BatchSet /\ AnswerSet' = AnswerSet
<1>1. Targets' = Targets
  BY DEF Targets
<1>2. Batches' = Batches
  BY <1>1 DEF Batches
<1> QED BY <1>1, <1>2 DEF BatchSet, AnswerSet

LEMMA EvaluationBatches == ASSUME BatchInv, EvaluationNext PROVE BatchInv'
<1>1. ASSUME request' = request, config' = config, completed = <<>>, completed' = completed,
             NEW opened, StartEvaluation(opened)
      PROVE  BatchInv'
  <2>1. /\ pc' = IF Targets = <<>> THEN "evaluateAll" ELSE "evaluate"
        /\ queue' = Batches
        /\ worker' = [w \in {v \in Workers : v <= Len(Batches)} |-> <<>>]
    BY <1>1 DEF StartEvaluation
  <2>2. Targets' = Targets /\ BatchSet' = BatchSet /\ AnswerSet' = AnswerSet
    BY <1>1, SameTargets
  <2>3. Batches \in Seq(BatchSet)
    BY BatchesDomain
  <2> QED BY <1>1, <2>1, <2>2, <2>3 DEF BatchInv
<1>2. CASE BeginNamed
  <2>1. /\ pc = "start" /\ UNCHANGED <<request, config, completed>>
        /\ Refuse \/ StartEvaluation(open)
    BY <1>2 DEF BeginNamed, Refuse
  <2> QED BY <1>1, <2>1, SameTargets DEF BatchInv, Refuse
<1>3. CASE BeginApp \/ BeginOther \/ Discover
  <2>1. /\ pc' \in {"app", "validate", "discover", "done"} /\ pc \in {"start", "discover"}
        /\ pc' = "app" => request.kind = "app"
        /\ pc' = "validate" => pc = "start"
        /\ UNCHANGED <<request, config, completed>>
    BY <1>3 DEF BeginApp, BeginOther, Discover, Refuse
  <2> QED BY <2>1, SameTargets DEF BatchInv
<1>4. CASE Validate
  <2>1. /\ pc = "validate" /\ UNCHANGED <<request, config, completed>>
        /\ pc' = "finish" \/ StartEvaluation(Finished("Validation"))
    BY <1>4 DEF Validate
  <2> QED BY <1>1, <2>1, SameTargets DEF BatchInv
<1>5. ASSUME NEW w \in DOMAIN worker, TakeBatch(w) \/ StopWorker(w) \/ EvaluateBatch(w)
      PROVE  BatchInv'
  <2>1. /\ pc = "evaluate" /\ pc' = pc /\ UNCHANGED <<request, config>>
        /\ queue \in Seq(BatchSet) /\ completed \in Seq(AnswerSet)
        /\ \A v \in DOMAIN worker : worker[v] = <<>> \/ \E b \in BatchSet : worker[v] = <<b>>
    BY <1>5 DEF TakeBatch, StopWorker, EvaluateBatch, BatchInv
  <2>2. BatchSet' = BatchSet /\ AnswerSet' = AnswerSet
    BY <2>1, SameTargets
  <2>3. CASE TakeBatch(w)
    <3>1. /\ worker' = [worker EXCEPT ![w] = <<Head(queue)>>] /\ queue' = Tail(queue)
          /\ queue # <<>> /\ completed' = completed
      BY <2>3 DEF TakeBatch
    <3>2. Head(queue) \in BatchSet /\ Tail(queue) \in Seq(BatchSet)
      BY <2>1, <3>1
    <3> QED BY <2>1, <2>2, <3>1, <3>2 DEF BatchInv
  <2>4. CASE StopWorker(w)
    BY <2>1, <2>2, <2>4 DEF StopWorker, BatchInv
  <2>5. CASE EvaluateBatch(w)
    <3>1. PICK b \in BatchSet : worker[w] = <<b>>
      BY <2>1, <2>5 DEF EvaluateBatch
    <3>2. PICK usable \in Usable(b.names) :
            completed' = Append(completed, [ordinal |-> b.ordinal, names |-> b.names,
                                            usable |-> usable])
      BY <2>5, <3>1 DEF EvaluateBatch
    <3>3. [ordinal |-> b.ordinal, names |-> b.names, usable |-> usable] \in AnswerSet
      <4>1. usable \in SUBSET DOMAIN Flake
        BY DEF Usable
      <4> QED BY <4>1 DEF AnswerSet
    <3>4. completed' \in Seq(AnswerSet)
      BY <2>1, <3>2, <3>3
    <3>5. queue' = queue /\ worker' = [worker EXCEPT ![w] = <<>>]
      BY <2>5 DEF EvaluateBatch
    <3> QED BY <2>1, <2>2, <3>4, <3>5 DEF BatchInv
  <2> QED BY <1>5, <2>3, <2>4, <2>5
<1>6. CASE Assemble \/ EvaluateAll \/ EvaluateApp
  <2>1. pc' \in {"complete", "done"} /\ UNCHANGED <<request, config>>
    BY <1>6 DEF Assemble, EvaluateAll, EvaluateApp, EvaluationEnds, Refuse
  <2> QED BY <2>1, SameTargets DEF BatchInv
<1> QED BY <1>2, <1>3, <1>4, <1>5, <1>6 DEF EvaluationNext

\* The answers, in the order of their batches, can be read.
LEMMA InOrderReadable ==
  ASSUME BatchInv, pc = "evaluate"
  PROVE  \E n \in Nat : DOMAIN InOrder = 1..n /\ \A i \in 1..n : Readable(InOrder[i])
<1>1. PICK n \in Nat : DOMAIN Batches = 1..n
  BY BatchesDomain
<1>2. DOMAIN InOrder = 1..n
  BY <1>1 DEF InOrder
<1>3. \A b \in ToSet(completed) : Readable(b)
  <2>1. ToSet(completed) \subseteq AnswerSet
    BY DEF BatchInv, ToSet
  <2>2. \A b \in AnswerSet : Readable(b)
    BY BatchesDomain DEF AnswerSet, Readable
  <2> QED BY <2>1, <2>2
<1>4. Readable([ordinal |-> 0, names |-> <<>>, usable |-> {}])
  <2>1. DOMAIN <<>> = 1..0
    OBVIOUS
  <2> QED BY <2>1 DEF Readable
<1>5. ASSUME NEW i \in 1..n PROVE Readable(InOrder[i])
  <2>1. CASE \E b \in ToSet(completed) : b.ordinal = i
    <3>1. InOrder[i] \in ToSet(completed)
      BY <1>1, <2>1 DEF InOrder
    <3> QED BY <1>3, <3>1
  <2>2. CASE ~\E b \in ToSet(completed) : b.ordinal = i
    <3>1. InOrder[i] = [ordinal |-> i, names |-> <<>>, usable |-> {}]
      BY <1>1, <2>2 DEF InOrder
    <3> QED BY <1>4, <3>1 DEF Readable
  <2> QED BY <2>1, <2>2
<1> QED BY <1>2, <1>5

LEMMA EvaluationRoots ==
  ASSUME TInv, EvaluationNext
  PROVE  RootInv' /\ (pc' = "finish" => Errors')
<1>1. BatchInv /\ RootInv
  BY DEF TInv
<1>2. CASE BeginNamed \/ BeginApp \/ BeginOther \/ Discover
  BY <1>1, <1>2 DEF BeginNamed, BeginApp, BeginOther, Discover, Refuse, StartEvaluation, RootInv,
     Evaluating
<1>3. CASE Validate
  <2>1. /\ UNCHANGED <<roots, evaluated>>
        /\ \/ pc' \in {"evaluate", "evaluateAll"}
           \/ pc' = "finish" /\ diags' = {Diagnostic("flake_validation_failed", "Error", <<>>)}
    BY <1>3 DEF Validate, StartEvaluation
  <2>2. ASSUME pc' = "finish" PROVE Errors'
    <3>1. Diagnostic("flake_validation_failed", "Error", <<>>) \in diags'
      BY <2>1, <2>2
    <3>2. Diagnostic("flake_validation_failed", "Error", <<>>).severity = "Error"
      BY DEF Diagnostic
    <3> QED BY <3>1, <3>2 DEF Errors
  <2> QED BY <1>1, <2>1, <2>2 DEF RootInv, Evaluating
<1>4. CASE \E w \in DOMAIN worker : TakeBatch(w) \/ StopWorker(w) \/ EvaluateBatch(w)
  <2>1. UNCHANGED <<roots, evaluated, pc>> /\ pc = "evaluate"
    BY <1>4 DEF TakeBatch, StopWorker, EvaluateBatch
  <2> QED BY <1>1, <2>1 DEF RootInv, Evaluating
<1>5. CASE Assemble
  <2>1. /\ pc = "evaluate" /\ pc' = "complete" /\ request' = request
        /\ AssembleInto(ToSet(Targets), InOrder)
    BY <1>5 DEF Assemble, EvaluationEnds, AssembleInto
  <2>2. PICK n \in Nat : DOMAIN InOrder = 1..n /\ \A i \in 1..n : Readable(InOrder[i])
    BY <1>1, <2>1, InOrderReadable
  <2>3. RootInv'
    BY <2>1, <2>2, AssembleRoots
  <2> QED BY <2>1, <2>3
<1>6. CASE EvaluateAll
  <2>1. pc = "evaluateAll" /\ pc' = "complete" /\ request' = request /\ Targets = <<>>
    BY <1>1, <1>6 DEF EvaluateAll, EvaluationEnds, BatchInv
  <2>2. ToSet(Targets) = {} /\ Targets' = Targets
    BY <2>1, SameTargets DEF ToSet
  <2>3. CASE UNCHANGED <<roots, evaluated>>
    BY <1>1, <2>1, <2>2, <2>3 DEF RootInv, Evaluating
  <2>4. CASE ~UNCHANGED <<roots, evaluated>>
    <3>1. PICK usable \in SUBSET DOMAIN Flake :
            AssembleInto(DOMAIN Flake,
                         <<[ordinal |-> 1, names |-> Ascending(DOMAIN Flake), usable |-> usable]>>)
      BY <1>6, <2>4 DEF EvaluateAll, AssembleInto
    <3> DEFINE batch == [ordinal |-> 1, names |-> Ascending(DOMAIN Flake), usable |-> usable]
    <3>2. Readable(batch)
      BY EvaluationAssumption, AscendingDomain DEF Readable
    <3> HIDE DEF batch
    <3>3. DOMAIN <<batch>> = 1..1 /\ \A i \in 1..1 : Readable(<<batch>>[i])
      BY <3>2
    <3>4. AssembleInto(DOMAIN Flake, <<batch>>)
      BY <3>1 DEF batch
    <3>5. 1 \in Nat /\ ToSet(Targets) \subseteq DOMAIN Flake
      BY <2>2
    <3>6. RootInv'
      BY <2>1, <3>3, <3>4, <3>5, AssembleRoots
    <3> QED BY <2>1, <3>6
  <2> QED BY <2>3, <2>4
<1>7. CASE EvaluateApp
  <2>1. pc = "app" /\ request.kind = "app" /\ request' = request
    BY <1>1, <1>7 DEF EvaluateApp, BatchInv, EvaluationEnds
  <2>2. CASE Refuse
    BY <1>1, <2>1, <2>2 DEF RootInv, Refuse, Evaluating
  <2>3. CASE ~Refuse
    <3>1. PICK context \in AppContexts :
            /\ roots' = IF DOMAIN context = {} THEN {Root("app", 0, NoDrv, {}, "Cached")}
                        ELSE {Root("app", 0, d, {}, "Failed") : d \in DOMAIN context}
            /\ evaluated' = {[kind |-> "app", name |-> 0, drv |-> d, outs |-> {},
                              selected |-> context[d]] : d \in DOMAIN context}
            /\ pc' = "complete"
      BY <1>7, <2>3 DEF EvaluateApp, EvaluationEnds
    <3>2. \A root \in roots' : PlainRoot(root)
      BY <3>1 DEF Root, PlainRoot
    <3>3. \A r \in evaluated' : \E root \in roots' : root.name = r.name /\ root.drv = r.drv
      <4>1. SUFFICES ASSUME NEW d \in DOMAIN context
                     PROVE  \E root \in roots' : root.name = 0 /\ root.drv = d
        BY <3>1
      <4>2. Root("app", 0, d, {}, "Failed") \in roots'
        BY <3>1
      <4> QED BY <4>2 DEF Root
    <3>4. \A r \in evaluated' : r.drv \in DOMAIN World /\ r.kind = "app"
      BY <3>1, RealizationAssumption
    <3> QED BY <2>1, <3>1, <3>2, <3>3, <3>4 DEF RootInv
  <2> QED BY <2>2, <2>3
<1> QED BY <1>2, <1>3, <1>4, <1>5, <1>6, <1>7 DEF EvaluationNext

------------------------------------------------------------------------------
(* Parts that a step leaves alone *)

\* After the evaluation only the request is of interest.
Answering == {"start", "validate", "app", "evaluateAll", "evaluate"}

LEMMA BatchStays ==
  ASSUME BatchInv, UNCHANGED <<request, config>>, pc' \notin Answering
  PROVE  BatchInv'
BY DEF BatchInv, Answering

LEMMA RootStays ==
  ASSUME RootInv, UNCHANGED <<request, roots, evaluated>>,
         pc \notin Evaluating \cup {"finish", "done"}, pc' # "probeRoots"
  PROVE  RootInv'
<1>1. Targets' = Targets
  BY SameTargets
<1> QED BY <1>1 DEF RootInv

LEMMA ReadStays ==
  ASSUME ReadInv, UNCHANGED streamVars, pc' # "readGraph"
  PROVE  ReadInv'
BY DEF ReadInv, streamVars, TrueNodes

LEMMA GraphStays ==
  ASSUME GraphInv, UNCHANGED <<graph, evaluated>>, pc' \in Planning => pc \in Planning
  PROVE  GraphInv'
<1>1. RootDrvs' = RootDrvs
  BY DEF RootDrvs
<1> QED BY <1>1 DEF GraphInv, TruePaths

LEMMA ProbeStays ==
  ASSUME ProbeInv, UNCHANGED <<availability, probeDiags, absent, asked>>, store \subseteq store',
         pc # "probeLocal", pc' # "probeLocal", pc' \in Early => pc \in Early
  PROVE  ProbeInv'
<1>1. Warned' = Warned
  BY DEF Warned
<1>3. /\ In(availability', "Local") = In(availability, "Local")
      /\ In(availability', "TrustedRemote") = In(availability, "TrustedRemote")
      /\ In(availability', "Missing") = In(availability, "Missing")
      /\ In(availability', "Unknown") = In(availability, "Unknown")
  OBVIOUS
<1> QED BY <1>1, <1>3 DEF ProbeInv

\* Where a failed probe must have been told of.
Telling ==
  \/ pc \in {"dependencies", "settle"}
  \/ pc \in {"loadGraph", "readGraph"} /\ lightweight

LEMMA ToldStays ==
  ASSUME ToldInv, UNCHANGED probeDiags, Telling' => Telling, Told => Told',
         pc' \notin {"finish", "done"}
  PROVE  ToldInv'
<1>1. Warned' = Warned
  BY DEF Warned
<1> QED BY <1>1 DEF ToldInv, Telling

\* Where nothing was built yet.
Before ==
  \/ pc \in Early \cup (Planning \ {"gather"})
  \/ pc \in {"loadGraph", "readGraph"} /\ ~lightweight

LEMMA BuildStays ==
  ASSUME BuildInv, UNCHANGED <<exit, json, confirmed, store>>, Before' => Before, pc' # "gather"
  PROVE  BuildInv'
BY DEF BuildInv, Before

LEMMA TruthStays ==
  ASSUME TruthInv, UNCHANGED executions, store \subseteq store'
  PROVE  TruthInv'
BY DEF TruthInv, True

\* Where the plan holds the roots and what they ask for, and where it holds the roots.
Asking == pc \in {"build", "gather", "apply"}

LEMMA PlanStays ==
  ASSUME PlanInv, UNCHANGED <<executions, evaluated, config>>, Asking' => Asking,
         Holding' => Asking \/ Holding, pc' \in Early => pc \in Early
  PROVE  PlanInv'
<1>1. RootDrvs' = RootDrvs
  BY DEF RootDrvs
<1> QED BY <1>1 DEF PlanInv, Asking, Holding

LEMMA HeldStays ==
  ASSUME HeldInv, UNCHANGED <<executions, evaluated, config, json, confirmed, store>>
  PROVE  HeldInv'
BY DEF HeldInv, Held

LEMMA FinishStays ==
  ASSUME IInv', pc' \notin {"finish", "done"}
  PROVE  FinishInv'
<1>1. outcome' # "Success"
  BY DEF IInv, PhaseInv
<1> QED BY <1>1 DEF FinishInv

\* Steps that change neither the plan nor what is known of it.
LEMMA PlanKept ==
  ASSUME TInv, IInv',
         UNCHANGED <<request, config, evaluated, executions, store, exit, json, confirmed>>,
         pc' \notin Answering \cup Early \cup {"gather", "apply", "finish", "done"},
         Before' => Before, Asking' => Asking, Holding' => Asking \/ Holding
  PROVE  /\ BatchInv' /\ BuildInv' /\ TruthInv' /\ ResultInv' /\ PlanInv' /\ HeldInv' /\ FinishInv'
<1>1. BatchInv' /\ FinishInv'
  BY BatchStays, FinishStays DEF TInv
<1>2. BuildInv' /\ TruthInv' /\ PlanInv' /\ HeldInv'
  BY BuildStays, TruthStays, PlanStays, HeldStays DEF TInv
<1>3. ResultInv'
  BY DEF ResultInv
<1> QED BY <1>1, <1>2, <1>3

------------------------------------------------------------------------------
(* The beginning, and the evaluation *)

LEMMA InitTInv == Init => TInv
<1> SUFFICES ASSUME Init PROVE TInv
  OBVIOUS
<1>1. /\ request \in Requests /\ config \in Configs /\ pc = "start" /\ completed = <<>>
      /\ roots = {} /\ evaluated = {} /\ outcome = "none"
      /\ unread = <<>> /\ nodes = <<>> /\ deferred = "none" /\ parsed = "idle"
      /\ graph = <<>> /\ availability = <<>> /\ asked = 0 /\ executions = <<>>
      /\ exit = "none" /\ json = {} /\ confirmed = <<>> /\ absent = {}
  BY DEF Init, EvaluationInit, StreamInit
<1>2. \A x : x \notin DOMAIN <<>>
  OBVIOUS
<1>3. BatchInv
  BY <1>1 DEF BatchInv
<1>4. RootInv
  BY <1>1 DEF RootInv, Evaluating
<1>5. ReadInv
  <2>1. ToSet(unread) = {}
    BY <1>1, <1>2 DEF ToSet
  <2>2. TrueNodes(nodes)
    <3>1. nodes = <<>> /\ DOMAIN nodes = {}
      BY <1>1, <1>2
    <3> QED BY <3>1, FS_EmptySet DEF TrueNodes
  <2>3. unread \in Seq({})
    BY <1>1
  <2> QED BY <1>1, <2>1, <2>2, <2>3 DEF ReadInv
<1>6. GraphInv
  BY <1>1, <1>2 DEF GraphInv, Planning
<1>7. ProbeInv
  <2>1. \A state : In(availability, state) = {}
    BY <1>1, <1>2 DEF In
  <2>2. DOMAIN availability = {}
    BY <1>1, <1>2
  <2>3. asked \in 0..Len(Caches)
    BY <1>1, RealizationAssumption
  <2> QED BY <1>1, <2>1, <2>2, <2>3 DEF ProbeInv
<1>8. ToldInv /\ BuildInv /\ TruthInv /\ ResultInv
  BY <1>1, <1>2 DEF ToldInv, BuildInv, TruthInv, ResultInv
<1>9. PlanInv /\ HeldInv /\ FinishInv
  BY <1>1, <1>2 DEF PlanInv, HeldInv, FinishInv
<1> QED BY <1>3, <1>4, <1>5, <1>6, <1>7, <1>8, <1>9 DEF TInv

\* Before the first probe nothing is known and nothing is planned.
LEMMA EarlyTInv ==
  ASSUME TInv, IInv, pc \in Early \ {"probeRoots"},
         pc' \notin Planning \cup {"readGraph", "apply", "realized", "dependencies", "settle"},
         pc' = "loadGraph" => ~lightweight',
         UNCHANGED <<streamVars, realizationVars>>
  PROVE  /\ ReadInv' /\ GraphInv' /\ ProbeInv' /\ ToldInv' /\ BuildInv' /\ TruthInv' /\ ResultInv'
         /\ PlanInv' /\ HeldInv'
<1>1. UNCHANGED <<availability, probeDiags, asked, absent, store, exit, json, confirmed, lightweight,
                  graph, executions>>
  BY DEF realizationVars, probeVars, buildVars, planVars
<1>2. DOMAIN availability = {} /\ DOMAIN executions = {} /\ exit = "none" /\ pc # "readGraph"
  BY DEF TInv, ProbeInv, PlanInv, BuildInv, Early
<1>3. \A state : In(availability, state) = {} /\ In(availability', state) = {}
  BY <1>1, <1>2 DEF In
<1>4. ReadInv'
  BY ReadStays DEF TInv
<1>5. GraphInv'
  BY <1>1 DEF TInv, GraphInv, TruePaths
<1>6. ProbeInv'
  BY <1>1, <1>2, <1>3, RealizationAssumption DEF TInv, ProbeInv
<1>7. ToldInv'
  BY <1>1, <1>3 DEF ToldInv
<1>8. BuildInv'
  BY <1>1, <1>2 DEF TInv, BuildInv, Planning
<1>9. TruthInv' /\ ResultInv' /\ HeldInv'
  BY <1>1, <1>2 DEF TruthInv, ResultInv, HeldInv
<1>10. PlanInv'
  BY <1>1, <1>2 DEF PlanInv, Planning
<1> QED BY <1>4, <1>5, <1>6, <1>7, <1>8, <1>9, <1>10

LEMMA EvaluationTInv ==
  ASSUME TInv, IInv, EvaluationNext, UNCHANGED <<streamVars, realizationVars>>
  PROVE  TInv'
<1>1. EvaluationWay /\ pc \in EvaluationPcs
  BY EvaluationMoves DEF IInv
<1>2. /\ pc' \in {"start", "validate", "discover", "evaluate", "evaluateAll", "app", "complete",
                  "finish", "done"}
      /\ outcome = "none" /\ outcome' # "Success"
  BY <1>1 DEF EvaluationWay, EvaluationPcs, IInv, PhaseInv
<1>3. BatchInv' /\ RootInv' /\ (pc' = "finish" => Errors')
  BY EvaluationBatches, EvaluationRoots DEF TInv
<1>4. FinishInv'
  BY <1>2, <1>3 DEF FinishInv
<1>5. /\ pc \in Early \ {"probeRoots"}
      /\ pc' \notin Planning \cup {"readGraph", "loadGraph", "apply", "realized", "dependencies",
                                   "settle"}
  BY <1>1, <1>2 DEF EvaluationPcs, Early, Planning
<1>6. /\ ReadInv' /\ GraphInv' /\ ProbeInv' /\ ToldInv' /\ BuildInv' /\ TruthInv' /\ ResultInv'
      /\ PlanInv' /\ HeldInv'
  BY <1>5, EarlyTInv
<1> QED BY <1>3, <1>4, <1>6 DEF TInv

LEMMA CompleteTInv == ASSUME TInv, IInv, Complete PROVE TInv'
<1>1. /\ pc = "complete" /\ pc' \in {"finish", "probeRoots", "loadGraph"}
      /\ UNCHANGED <<request, config, roots, evaluated, outcome, streamVars, realizationVars>>
      /\ pc' = "finish" => evaluated = {}
      /\ pc' = "probeRoots" => \A r \in evaluated : r.kind # "app"
  BY DEF Complete
<1>2. outcome = "none" /\ ~lightweight /\ lightweight' = lightweight
  BY <1>1 DEF IInv, PhaseInv, WayInv, Early, realizationVars, planVars
<1>3. BatchInv'
  BY <1>1, BatchStays DEF TInv, Answering
<1>4. RootInv'
  <2>1. Targets' = Targets
    BY <1>1, SameTargets
  <2> QED BY <1>1, <2>1 DEF TInv, RootInv, Evaluating
<1>5. FinishInv'
  BY <1>1, <1>2 DEF FinishInv
<1>6. /\ ReadInv' /\ GraphInv' /\ ProbeInv' /\ ToldInv' /\ BuildInv' /\ TruthInv' /\ ResultInv'
      /\ PlanInv' /\ HeldInv'
  <2>1. /\ pc \in Early \ {"probeRoots"}
        /\ pc' \notin Planning \cup {"readGraph", "apply", "realized", "dependencies", "settle"}
    BY <1>1 DEF Early, Planning
  <2> QED BY <1>1, <1>2, <2>1, EarlyTInv
<1> QED BY <1>3, <1>4, <1>5, <1>6 DEF TInv

\* A signal, or no step at all.
LEMMA StutterTInv ==
  ASSUME TInv, UNCHANGED <<request, config, pc, queue, worker, completed, roots, evaluated, diags,
                           outcome, streamVars, realizationVars>>
  PROVE  TInv'
<1>1. UNCHANGED <<unread, graphRoots, deferred, nodes, parsed, availability, probeDiags, asked,
                  absent, store, exit, json, confirmed, lightweight, graph, executions, results>>
  BY DEF streamVars, realizationVars, probeVars, buildVars, planVars
<1>2. Targets' = Targets /\ BatchSet' = BatchSet /\ AnswerSet' = AnswerSet
  BY SameTargets
<1>3. /\ RootDrvs' = RootDrvs /\ ProbedPaths' = ProbedPaths /\ Pending' = Pending
      /\ Warned' = Warned /\ Told' = Told /\ Errors' = Errors
  BY <1>1 DEF RootDrvs, ProbedPaths, Required, SelectedOutputs, RootsOf, Pending, Warned, Told, Errors
<1>4. BatchInv' /\ RootInv'
  BY <1>2, <1>3 DEF TInv, BatchInv, RootInv
<1>5. ReadInv' /\ GraphInv'
  BY <1>1, <1>3 DEF TInv, ReadInv, GraphInv, TrueNodes, TruePaths
<1>6. ProbeInv' /\ ToldInv' /\ BuildInv'
  BY <1>1, <1>3 DEF TInv, ProbeInv, ToldInv, BuildInv
<1>7. TruthInv' /\ ResultInv' /\ PlanInv' /\ HeldInv'
  BY <1>1, <1>3 DEF TInv, TruthInv, True, ResultInv, PlanInv, HeldInv, Held
<1>8. FinishInv'
  BY <1>1, <1>2, <1>3 DEF TInv, FinishInv, Held
<1> QED BY <1>4, <1>5, <1>6, <1>7, <1>8 DEF TInv

------------------------------------------------------------------------------
(* The roots are probed *)

\* What a look at the store tells, or that it could not tell.
Looked(known) ==
  /\ In(known, "Local") \subseteq store
  /\ In(known, "TrustedRemote") = {} /\ In(known, "Missing") = {}
  /\ Warned' \/ In(known, "Unknown") \subseteq absent'

LEMMA FailureWarns ==
  ASSUME NEW d \in ProbeFailures("local_cache_probe_failed", <<>>), probeDiags' = probeDiags \cup {d}
  PROVE  Warned'
<1>1. d.code = "local_cache_probe_failed"
  BY DEF ProbeFailures, Diagnostic
<1> QED BY <1>1 DEF Warned

LEMMA RootsLooked ==
  ASSUME ProbeRoots
  PROVE  \E known : DOMAIN known = RootPaths /\ Looked(known) /\ RootsProbed(known)
<1> DEFINE unknown == [p \in RootPaths |-> "Unknown"]
           answered == Mark(unknown, RootPaths \cap store, "Local")
<1>1. CASE RootsProbed(answered) /\ absent' = absent \cup (RootPaths \ store)
  <2>1. DOMAIN answered = RootPaths
    BY DEF Mark
  <2>2. Looked(answered)
    BY <1>1 DEF Looked, Mark, In
  <2> QED BY <1>1, <2>1, <2>2
<1>2. CASE /\ RootsProbed(unknown)
           /\ \E d \in ProbeFailures("local_cache_probe_failed", <<>>) :
                probeDiags' = probeDiags \cup {d}
  <2>1. Warned'
    BY <1>2, FailureWarns
  <2>2. Looked(unknown)
    BY <2>1 DEF Looked, In
  <2> QED BY <1>2, <2>2
<1> QED BY <1>1, <1>2 DEF ProbeRoots, ProbeLocal

\* All that is asked of the roots is there.
LEMMA CachedTruth ==
  ASSUME TInv, pc = "probeRoots", NEW known, DOMAIN known = RootPaths,
         In(known, "Local") \subseteq store, \A p \in DOMAIN known : known[p] = "Local"
  PROVE  /\ \A d \in DOMAIN CachedRoots : True(d, CachedRoots[d])
         /\ \A r \in evaluated : PathsOf(r.drv, AskedOf(r)) \subseteq store
<1>1. RootPaths \subseteq store
  BY DEF In
<1>2. \A r \in evaluated : r.selected # {} /\ r.selected \subseteq r.outs
  BY DEF TInv, RootInv
<1>3. \A r \in evaluated : PathsOf(r.drv, r.selected) \subseteq store
  <2>1. SUFFICES ASSUME NEW r \in evaluated PROVE PathsOf(r.drv, r.selected) \subseteq store
    OBVIOUS
  <2>2. r.selected \cap r.outs = r.selected
    BY <1>2
  <2>3. PathsOf(r.drv, r.selected \cap r.outs) \subseteq RootPaths
    BY DEF RootPaths
  <2> QED BY <1>1, <2>2, <2>3
<1>4. \A r \in evaluated : PathsOf(r.drv, AskedOf(r)) \subseteq store
  BY <1>2, <1>3 DEF AskedOf
<1>5. ASSUME NEW d \in DOMAIN CachedRoots PROVE True(d, CachedRoots[d])
  <2> DEFINE outs == UNION {r.selected : r \in RootsOf(d)}
  <2>1. CachedRoots[d].required = outs /\ CachedRoots[d].produced = PathsOf(d, outs)
    BY DEF CachedRoots
  <2>2. PathsOf(d, outs) \subseteq store
    <3>1. SUFFICES ASSUME NEW o \in outs PROVE Path(d, o) \in store
      BY DEF PathsOf
    <3>2. PICK r \in RootsOf(d) : o \in r.selected
      OBVIOUS
    <3>3. r \in evaluated /\ r.drv = d
      BY DEF RootsOf
    <3> QED BY <1>3, <3>2, <3>3 DEF PathsOf
  <2> QED BY <2>1, <2>2 DEF True
<1> QED BY <1>4, <1>5

LEMMA ProbeRootsTInv == ASSUME TInv, IInv, ProbeRoots PROVE TInv'
<1>1. PICK known : DOMAIN known = RootPaths /\ Looked(known) /\ RootsProbed(known)
  BY RootsLooked
<1>2. /\ pc = "probeRoots"
      /\ UNCHANGED <<request, config, evaluated, diags, outcome, streamVars, asked, store, exit, json,
                     confirmed>>
  BY DEF ProbeRoots, requestVars, buildVars
<1>3. /\ outcome = "none" /\ ~lightweight /\ exit = "none"
      /\ DOMAIN executions = {} /\ \A r \in evaluated : r.kind # "app" /\ r.selected # {}
  BY <1>2 DEF IInv, PhaseInv, WayInv, Early, TInv, BuildInv, PlanInv, RootInv
<1>4. /\ In(known, "Local") \subseteq store
      /\ In(known, "TrustedRemote") = {} /\ In(known, "Missing") = {}
      /\ Warned' \/ In(known, "Unknown") \subseteq absent'
  BY <1>1 DEF Looked
<1>5. /\ pc' \in {"finish", "loadGraph", "graphReady"}
      /\ pc' = "loadGraph" => ~lightweight'
  BY <1>1, <1>3 DEF RootsProbed
<1>6. BatchInv' /\ ReadInv'
  BY <1>2, <1>5, BatchStays, ReadStays DEF TInv, Answering
<1>7. RootDrvs' = RootDrvs /\ Targets' = Targets
  BY <1>2, SameTargets DEF RootDrvs
<1>8. \A r \in evaluated : r.drv \in DOMAIN World /\ r.drv # NoDrv
  BY RealizationAssumption DEF TInv, RootInv
<1>9. \A d \in DOMAIN LightweightNodes : TruePaths(d, LightweightNodes[d].outs)
  BY DEF LightweightNodes, TruePaths
<1>10. DOMAIN LightweightNodes = RootDrvs
  BY DEF LightweightNodes
<1>11. CASE /\ pc' = "finish" /\ availability' = known /\ executions' = CachedRoots
            /\ \A p \in DOMAIN known : known[p] = "Local"
            /\ ~config.rebuild
            /\ graph' = LightweightNodes
            /\ roots' = {IF r.drv # NoDrv THEN [r EXCEPT !.state = "Cached"] ELSE r : r \in roots}
  <2>1. /\ \A d \in DOMAIN CachedRoots : True(d, CachedRoots[d])
        /\ \A r \in evaluated : PathsOf(r.drv, AskedOf(r)) \subseteq store
    BY <1>1, <1>2, <1>4, <1>11, CachedTruth
  <2>2. DOMAIN CachedRoots = RootDrvs /\ \A d \in RootDrvs : CachedRoots[d].state = "Cached"
    BY DEF CachedRoots
  <2>3. RootInv' /\ FinishInv'
    <3> DEFINE Now(root) == IF root.drv # NoDrv THEN [root EXCEPT !.state = "Cached"] ELSE root
    <3>1. \A root \in roots :
            /\ PlainRoot(Now(root))
            /\ Now(root).name = root.name /\ Now(root).drv = root.drv
            /\ root.drv # NoDrv => Now(root).state = "Cached"
            /\ root.drv = NoDrv => Now(root) = root
      BY DEF TInv, RootInv, PlainRoot
    <3>2. roots' = {Now(root) : root \in roots}
      BY <1>11
    <3> HIDE DEF Now
    <3>3. \A root \in roots' : PlainRoot(root)
      BY <3>1, <3>2
    <3>4. ASSUME NEW r \in evaluated PROVE \E root \in roots' : root.name = r.name /\ root.drv = r.drv
      <4>1. PICK root \in roots : root.name = r.name /\ root.drv = r.drv
        BY DEF TInv, RootInv
      <4>2. Now(root) \in roots' /\ Now(root).name = r.name /\ Now(root).drv = r.drv
        BY <3>1, <3>2, <4>1
      <4> QED BY <4>2
    <3>5. ASSUME NEW n \in ToSet(Targets), request.kind # "app"
          PROVE  \/ \E r \in evaluated : r.name = n
                 \/ \E root \in roots' : root.drv = NoDrv /\ root.state \notin ExistingStates
      <4>1. \/ \E r \in evaluated : r.name = n
            \/ \E root \in roots : root.drv = NoDrv /\ root.state \notin ExistingStates
        BY <1>2, <3>5 DEF TInv, RootInv, Evaluating
      <4>2. ASSUME NEW root \in roots, root.drv = NoDrv /\ root.state \notin ExistingStates
            PROVE  root \in roots'
        BY <3>1, <3>2, <4>2
      <4> QED BY <4>1, <4>2
    <3>6. RootInv'
      <4>1. \A r \in evaluated : /\ r.drv \in DOMAIN World
                                 /\ r.kind # "app" => r.selected # {} /\ r.selected \subseteq r.outs
        BY DEF TInv, RootInv
      <4> QED BY <1>2, <1>7, <1>11, <3>3, <3>4, <3>5, <4>1 DEF RootInv
    <3>7. ASSUME NEW root \in roots', root.drv \in RootDrvs PROVE root.state = "Cached"
      <4>1. PICK old \in roots : root = Now(old)
        BY <3>2
      <4>2. old.drv \in RootDrvs /\ old.drv # NoDrv
        BY <1>8, <3>1, <3>7, <4>1 DEF RootDrvs
      <4> QED BY <3>1, <4>1, <4>2
    <3>8. FinishInv'
      BY <1>2, <1>3, <1>7, <1>11, <2>2, <3>7 DEF FinishInv
    <3> QED BY <3>6, <3>8
  <2>4. GraphInv'
    BY <1>9, <1>11 DEF GraphInv, Planning
  <2>5. ProbeInv' /\ ToldInv'
    BY <1>2, <1>4, <1>11 DEF TInv, ProbeInv, ToldInv, Early
  <2>6. BuildInv' /\ ResultInv'
    BY <1>2, <1>11 DEF TInv, BuildInv, ResultInv, Early, Planning
  <2>7. TruthInv'
    BY <1>2, <1>11, <2>1 DEF TruthInv, True
  <2>8. PlanInv'
    BY <1>11 DEF PlanInv, Early
  <2>9. HeldInv'
    <3>1. \A r \in evaluated : Held(r)'
      BY <1>2, <1>11, <2>1 DEF Held
    <3> QED BY <1>2, <3>1 DEF HeldInv
  <2> QED BY <1>6, <2>3, <2>4, <2>5, <2>6, <2>7, <2>8, <2>9 DEF TInv
<1>12. CASE pc' # "finish"
  <2>1. /\ UNCHANGED <<executions, roots>>
        /\ \/ availability' = known /\ graph' = LightweightNodes
           \/ /\ availability' = Mark(known, In(known, "Unknown"), "Missing")
              /\ graph' = graph /\ pc' = "loadGraph"
    BY <1>1, <1>12 DEF RootsProbed
  <2>2. RootInv'
    BY <1>2, <1>5, <2>1, RootStays DEF TInv, Evaluating
  <2>3. GraphInv'
    <3>1. CASE graph' = LightweightNodes
      BY <1>2, <1>3, <1>7, <1>9, <1>10, <3>1 DEF GraphInv
    <3>2. CASE graph' = graph /\ pc' = "loadGraph"
      BY <3>2 DEF TInv, GraphInv, Planning, TruePaths
    <3> QED BY <2>1, <3>1, <3>2
  <2>4. ProbeInv'
    <3>1. /\ In(availability', "Local") = In(known, "Local")
          /\ In(availability', "TrustedRemote") = In(known, "TrustedRemote")
          /\ In(availability', "Missing") \subseteq In(known, "Missing") \cup In(known, "Unknown")
          /\ In(availability', "Unknown") \subseteq In(known, "Unknown")
      BY <2>1 DEF Mark, In
    <3>2. pc' \notin Early /\ pc' # "probeLocal" /\ asked' \in 0..Len(Caches)
      BY <1>2, <1>5, <1>12 DEF Early, TInv, ProbeInv
    <3> QED BY <1>2, <1>4, <3>1, <3>2 DEF ProbeInv
  <2>5. ToldInv'
    BY <1>5, <1>12 DEF ToldInv
  <2>6. BuildInv' /\ TruthInv' /\ ResultInv' /\ PlanInv' /\ HeldInv' /\ FinishInv'
    <3>1. BuildInv' /\ ResultInv'
      BY <1>2, <1>3, <1>5, <1>12 DEF TInv, BuildInv, ResultInv
    <3>2. TruthInv' /\ HeldInv'
      BY <1>3, <2>1 DEF TruthInv, HeldInv
    <3>3. PlanInv'
      BY <1>3, <1>5, <1>12, <2>1 DEF PlanInv
    <3>4. FinishInv'
      BY <1>2, <1>3, <1>5, <1>12 DEF FinishInv
    <3> QED BY <3>1, <3>2, <3>3, <3>4
  <2> QED BY <1>6, <2>2, <2>3, <2>4, <2>5, <2>6 DEF TInv
<1> QED BY <1>1, <1>2, <1>11, <1>12 DEF RootsProbed

------------------------------------------------------------------------------
(* The graph is read *)

LEMMA ShowGraphTInv == ASSUME TInv, IInv, IInv', ShowGraph PROVE TInv'
<1>1. /\ pc = "loadGraph" /\ pc' = "readGraph"
      /\ UNCHANGED <<request, config, roots, evaluated, diags, outcome, realizationVars>>
  BY DEF ShowGraph, requestVars
<1>2. PICK document \in Documents[request] : StartStream(document, RootDrvs)
  BY DEF ShowGraph
<1>3. UNCHANGED <<availability, probeDiags, asked, absent, store, exit, json, confirmed, lightweight,
                  graph, executions, results>>
  BY <1>1 DEF realizationVars, probeVars, buildVars, planVars
<1>4. ReadInv'
  <2>1. TrueDocument(document)
    BY RealizationAssumption DEF TInv, BatchInv
  <2>2. /\ unread' = IF document = Scalar THEN <<>> ELSE document
        /\ deferred' = "none" /\ nodes' = <<>> /\ graphRoots' = RootDrvs /\ parsed' # "ok"
    BY <1>2 DEF StartStream
  <2>3. unread' \in Seq(ToSet(unread')) /\ \A member \in ToSet(unread') : TrueMember(member)
    <3>1. CASE document = Scalar
      <4>1. unread' = <<>> /\ ToSet(unread') = {}
        BY <2>2, <3>1 DEF ToSet
      <4> QED BY <4>1
    <3>2. CASE document # Scalar
      BY <2>1, <2>2, <3>2 DEF TrueDocument, Listing, Members
    <3> QED BY <3>1, <3>2
  <2>4. DOMAIN nodes' = {} /\ IsFiniteSet({})
    BY <2>2, FS_EmptySet
  <2>5. RootDrvs' = RootDrvs
    BY <1>1 DEF RootDrvs
  <2> QED BY <2>2, <2>3, <2>4, <2>5 DEF ReadInv, TrueNodes
<1>5. RootInv' /\ GraphInv' /\ ProbeInv' /\ ToldInv'
  <2>1. RootInv' /\ GraphInv' /\ ProbeInv'
    BY <1>1, <1>3, RootStays, GraphStays, ProbeStays DEF TInv, Evaluating, Planning, Early
  <2>2. Told' = Told /\ (Telling' => Telling)
    BY <1>1, <1>3 DEF Told, Telling
  <2> QED BY <1>1, <1>3, <2>1, <2>2, ToldStays DEF TInv
<1>6. /\ BatchInv' /\ BuildInv' /\ TruthInv' /\ ResultInv' /\ PlanInv' /\ HeldInv' /\ FinishInv'
  <2>1. /\ Before' => Before
        /\ Asking' => Asking
        /\ Holding' => Holding
    BY <1>1, <1>3 DEF Before, Asking, Holding, Planning, Early
  <2>2. pc' \notin Answering \cup Early \cup {"gather", "apply", "finish", "done"}
    BY <1>1 DEF Answering, Early
  <2> QED BY <1>1, <1>3, <2>1, <2>2, PlanKept
<1> QED BY <1>4, <1>5, <1>6 DEF TInv

\* A step of the reader.
LEMMA StreamTruth ==
  ASSUME ReadInv, StreamNext
  PROVE  /\ unread' \in Seq(ToSet(unread')) /\ \A member \in ToSet(unread') : TrueMember(member)
         /\ TrueNodes(nodes')
         /\ deferred' # "ok" /\ graphRoots' = graphRoots
         /\ parsed' = "ok" => graphRoots \subseteq DOMAIN nodes'
<1>1. CASE EndStream
  <2>1. UNCHANGED <<unread, nodes, deferred, graphRoots>>
    BY <1>1 DEF EndStream
  <2>2. parsed' = "ok" => GraphError(nodes, graphRoots, MaxNodes) \in {"none", "ok"}
    BY <1>1 DEF EndStream, ReadInv
  <2>3. GraphError(nodes, graphRoots, MaxNodes) \in {"none", "ok"} => graphRoots \subseteq DOMAIN nodes
    BY DEF GraphError
  <2> QED BY <2>1, <2>2, <2>3 DEF ReadInv
<1>2. ASSUME NEW kind, Reads(kind)
      PROVE  /\ unread' \in Seq(ToSet(unread')) /\ \A member \in ToSet(unread') : TrueMember(member)
             /\ graphRoots' = graphRoots
             /\ TrueMember(Head(unread)) /\ Head(unread).kind = kind
             /\ Ignored # "ok"
  <2>1. unread # <<>> /\ unread' = Tail(unread) /\ Head(unread).kind = kind /\ graphRoots' = graphRoots
    BY <1>2 DEF Reads
  <2>2. unread \in Seq(ToSet(unread)) /\ \A member \in ToSet(unread) : TrueMember(member)
    BY DEF ReadInv
  <2>3. Head(unread) \in ToSet(unread)
    BY <2>1, <2>2
  <2>4. PICK n \in Nat : unread \in [1..n -> ToSet(unread)] /\ Len(unread) = n /\ n >= 1
    BY <2>1, <2>2
  <2>5. Len(unread') = n - 1 /\ DOMAIN unread' = 1..(n - 1)
        /\ \A i \in 1..(n - 1) : unread'[i] = unread[i + 1]
    BY <2>1, <2>4
  <2>6. ToSet(unread') \subseteq ToSet(unread)
    BY <2>4, <2>5 DEF ToSet
  <2>7. unread' \in Seq(ToSet(unread'))
    <3>1. \A i \in 1..(n - 1) : unread'[i] \in ToSet(unread')
      BY <2>5 DEF ToSet
    <3>2. unread' \in Seq(ToSet(unread))
      BY <2>1, <2>2
    <3> QED BY <2>5, <3>1, <3>2
  <2>8. Ignored # "ok"
    BY <2>2, <2>3 DEF TrueMember, Ignored, Torn
  <2> QED BY <2>1, <2>2, <2>3, <2>6, <2>7, <2>8
<1>3. CASE ReadVersion \/ ReadSibling
  <2>1. /\ Reads("version") \/ Reads("derivation")
        /\ parsed' = Ignored /\ UNCHANGED <<deferred, nodes>>
    BY <1>3 DEF ReadVersion, ReadSibling
  <2> QED BY <1>2, <2>1 DEF ReadInv
<1>4. CASE ReadWrapper
  <2> DEFINE read == Entries(Reading(MaxRetained, <<>>), Head(unread).value)
  <2>1. /\ Reads("derivations") /\ deferred' = "none" /\ nodes' = read.value
        /\ parsed' = IF read.code # "ok" THEN read.code ELSE Ignored
    BY <1>4 DEF ReadWrapper
  <2>2. TrueNodes(read.value)
    <3>1. Shape(Reading(MaxRetained, <<>>)) /\ TrueNodes(Reading(MaxRetained, <<>>).value)
      <4>1. DOMAIN Reading(MaxRetained, <<>>).value = {}
        BY DEF Reading
      <4> QED BY <4>1, FS_EmptySet DEF Shape, Reading, TrueNodes
    <3>2. /\ Listing(Head(unread).value)
          /\ \A m \in Members(Head(unread).value) : m.kind # "version" => TrueNode(m)
      BY <1>2, <2>1 DEF TrueMember
    <3> QED BY <3>1, <3>2, EntriesTruth
  <2> HIDE DEF read
  <2> QED BY <1>2, <2>1, <2>2
<1>5. CASE ReadLegacyNode
  <2> DEFINE read == InsertNode(Reading(remaining, nodes), Head(unread), TRUE)
  <2>1. /\ Reads("derivation") /\ nodes' = read.value
        /\ \/ read.code \in Torn /\ parsed' = read.code /\ deferred' = deferred
           \/ /\ deferred' = IF read.code = "ok" THEN "none" ELSE read.code
              /\ parsed' = parsed
    BY <1>5 DEF ReadLegacyNode
  <2>2. TrueNodes(read.value)
    <3>1. Shape(Reading(remaining, nodes)) /\ TrueNodes(Reading(remaining, nodes).value)
      BY DEF Shape, Reading, ReadInv
    <3>2. TrueNode(Head(unread))
      BY <1>2, <2>1 DEF TrueMember
    <3> QED BY <3>1, <3>2, InsertTruth
  <2> HIDE DEF read
  <2>3. parsed' # "ok" /\ deferred' # "ok"
    <3>1. parsed = "reading"
      BY <2>1 DEF Reads
    <3> QED BY <2>1, <3>1 DEF ReadInv, Torn
  <2> QED BY <1>2, <2>1, <2>2, <2>3
<1> QED BY <1>1, <1>3, <1>4, <1>5 DEF StreamNext

LEMMA ReadGraphTInv == ASSUME TInv, IInv, IInv', ReadGraph PROVE TInv'
<1>1. /\ pc = "readGraph" /\ pc' = pc /\ StreamNext
      /\ UNCHANGED <<request, config, roots, evaluated, diags, outcome>>
      /\ UNCHANGED <<availability, probeDiags, asked, absent, store, exit, json, confirmed, lightweight,
                     graph, executions, results>>
  BY DEF ReadGraph, evaluationVars, realizationVars, probeVars, buildVars, planVars
<1>2. ReadInv'
  <2>1. RootDrvs' = RootDrvs
    BY <1>1 DEF RootDrvs
  <2> QED BY <1>1, <2>1, StreamTruth DEF TInv, ReadInv
<1>3. RootInv' /\ GraphInv' /\ ProbeInv' /\ ToldInv'
  <2>1. RootInv' /\ GraphInv' /\ ProbeInv'
    BY <1>1, RootStays, GraphStays, ProbeStays DEF TInv, Evaluating, Planning, Early
  <2>2. Told' = Told /\ (Telling' => Telling)
    BY <1>1 DEF Told, Telling
  <2> QED BY <1>1, <2>1, <2>2, ToldStays DEF TInv
<1>4. /\ BatchInv' /\ BuildInv' /\ TruthInv' /\ ResultInv' /\ PlanInv' /\ HeldInv' /\ FinishInv'
  <2>1. /\ Before' => Before
        /\ Asking' => Asking
        /\ Holding' => Holding
    BY <1>1 DEF Before, Asking, Holding, Planning, Early
  <2>2. pc' \notin Answering \cup Early \cup {"gather", "apply", "finish", "done"}
    BY <1>1 DEF Answering, Early
  <2> QED BY <1>1, <2>1, <2>2, PlanKept
<1> QED BY <1>2, <1>3, <1>4 DEF TInv

------------------------------------------------------------------------------
(* The end of the graph run *)

LEMMA DropReads == ASSUME DropStream, pc' # "readGraph" PROVE ReadInv'
<1>1. unread' = <<>> /\ deferred' = "none" /\ nodes' = <<>> /\ parsed' = "idle"
  BY DEF DropStream
<1>2. ToSet(unread') = {} /\ unread' \in Seq({}) /\ DOMAIN nodes' = {} /\ IsFiniteSet({})
  BY <1>1, FS_EmptySet DEF ToSet
<1> QED BY <1>1, <1>2 DEF ReadInv, TrueNodes

\* Refused or explained: what the run leaves alone in either case.
LEMMA GraphEnds ==
  ASSUME TInv, IInv', pc \in {"loadGraph", "readGraph"}, pc' \in {"settle", "finish", "graphReady"},
         pc' = "settle" => lightweight, pc' = "graphReady" => ~lightweight,
         pc' = "finish" => Errors',
         UNCHANGED <<request, config, roots, evaluated, availability, probeDiags, asked, absent, store,
                     exit, json, confirmed>>,
         Told => Told', DropStream
  PROVE  /\ BatchInv' /\ RootInv' /\ ReadInv' /\ ProbeInv' /\ ToldInv' /\ BuildInv' /\ ResultInv'
         /\ FinishInv'
<1>1. BatchInv' /\ ReadInv'
  BY BatchStays, DropReads DEF TInv, Answering
<1>2. RootInv'
  <2>1. Targets' = Targets
    BY SameTargets
  <2> QED BY <2>1 DEF TInv, RootInv, Evaluating
<1>3. ProbeInv'
  BY ProbeStays DEF TInv, Early
<1>4. ToldInv'
  <2>1. Warned' = Warned
    BY DEF Warned
  <2> QED BY <2>1 DEF TInv, ToldInv
<1>5. BuildInv' /\ ResultInv'
  BY DEF TInv, BuildInv, ResultInv, Planning, Early
<1>6. outcome' # "Success"
  BY DEF IInv, PhaseInv
<1>7. FinishInv'
  BY <1>6 DEF FinishInv
<1> QED BY <1>1, <1>2, <1>3, <1>4, <1>5, <1>7

LEMMA RefusedKeeps ==
  ASSUME NEW code, GraphRefused(code)
  PROVE  /\ Errors' /\ (Told => Told') /\ executions' = executions
         /\ pc' = IF lightweight THEN "settle" ELSE "finish"
<1>1. Diagnostic(code, "Error", <<>>) \in diags' /\ diags \subseteq diags'
  BY DEF GraphRefused
<1>2. Errors'
  BY <1>1 DEF Errors, Diagnostic
<1> QED BY <1>1, <1>2 DEF Told, GraphRefused

\* Only failures are told apart.
LEMMA ExplainTruth ==
  ASSUME Kept, ExplainFailures
  PROVE  /\ DOMAIN executions' = DOMAIN executions
         /\ \A d \in DOMAIN executions : executions'[d].state \in ExistingStates =>
              /\ executions'[d].state = executions[d].state
              /\ executions'[d].required = executions[d].required
              /\ executions'[d].produced = executions[d].produced
         /\ Told => Told'
<1> DEFINE deps == [d \in DOMAIN executions |-> Deps(nodes, d) \cap DOMAIN executions]
           runs == [d \in DOMAIN executions |-> [executions[d] EXCEPT !.deps = deps[d]]]
           skipped == Skipped(MarkSkipped(runs, deps)) \ Skipped(executions)
<1>1. /\ executions' = MarkSkipped(runs, deps)
      /\ diags' = {g \in diags : g.code = "realization_failed" =>
                                   \A d \in skipped : g.target # <<"node", d>>}
  BY DEF ExplainFailures
<1>2. Told => Told'
  <2> HIDE DEF skipped
  <2>1. \A g \in diags : g.code = "local_cache_probe_failed" => g \in diags'
    BY <1>1
  <2> QED BY <2>1 DEF Told
<1>3. DOMAIN runs = DOMAIN executions
  OBVIOUS
<1>4. ASSUME NEW d \in DOMAIN executions
      PROVE  /\ runs[d].state = executions[d].state /\ runs[d].required = executions[d].required
             /\ runs[d].produced = executions[d].produced /\ Plain(runs[d])
  <2>1. Plain(executions[d]) /\ runs[d] = [executions[d] EXCEPT !.deps = deps[d]]
    BY DEF Kept
  <2> HIDE DEF runs, deps
  <2> QED BY <2>1 DEF Plain
<1> HIDE DEF runs, deps, skipped
<1>5. ASSUME NEW d \in DOMAIN runs, MarkSkipped(runs, deps)[d].state \in ExistingStates
      PROVE  MarkSkipped(runs, deps)[d] = runs[d]
  BY <1>3, <1>4, <1>5 DEF MarkSkipped, ExistingStates, Plain
<1>6. DOMAIN executions' = DOMAIN executions
  BY <1>1, <1>3 DEF MarkSkipped
<1>7. ASSUME NEW d \in DOMAIN executions, executions'[d].state \in ExistingStates
      PROVE  /\ executions'[d].state = executions[d].state
             /\ executions'[d].required = executions[d].required
             /\ executions'[d].produced = executions[d].produced
  BY <1>1, <1>3, <1>4, <1>5, <1>7
<1> QED BY <1>2, <1>6, <1>7

LEMMA GraphTInv == ASSUME TInv, IInv, IInv', GraphRunFails \/ GraphLoaded PROVE TInv'
<1>1. /\ pc \in {"loadGraph", "readGraph"} /\ DropStream
      /\ UNCHANGED <<request, config, roots, evaluated, availability, probeDiags, asked, absent, store,
                     exit, json, confirmed, lightweight>>
      /\ graph' \in {graph, nodes}
      /\ \/ \E code : GraphRefused(code)
         \/ lightweight /\ ExplainFailures /\ pc' = "settle"
         \/ /\ pc = "readGraph" /\ parsed = "ok" /\ ~lightweight
            /\ graph' = nodes /\ pc' = "graphReady" /\ UNCHANGED <<executions, diags>>
  BY DEF GraphRunFails, GraphLoaded, ExplainFailures, requestVars, probeVars, buildVars, planVars
<1>2. /\ pc' \in {"settle", "finish", "graphReady"}
      /\ pc' = "settle" => lightweight
      /\ pc' = "graphReady" => ~lightweight
      /\ pc' = "finish" => Errors'
      /\ Told => Told'
      /\ DOMAIN executions' = DOMAIN executions
      /\ \A d \in DOMAIN executions : executions'[d].state \in ExistingStates =>
           /\ executions'[d].state = executions[d].state
           /\ executions'[d].required = executions[d].required
           /\ executions'[d].produced = executions[d].produced
  <2>1. CASE \E code : GraphRefused(code)
    BY <2>1, RefusedKeeps
  <2>2. CASE lightweight /\ ExplainFailures /\ pc' = "settle"
    BY <2>2, ExplainTruth DEF IInv
  <2>3. CASE UNCHANGED <<executions, diags>> /\ pc' = "graphReady" /\ ~lightweight
    BY <2>3 DEF Told
  <2> QED BY <1>1, <2>1, <2>2, <2>3
<1>3. /\ BatchInv' /\ RootInv' /\ ReadInv' /\ ProbeInv' /\ ToldInv' /\ BuildInv' /\ ResultInv'
      /\ FinishInv'
  BY <1>1, <1>2, GraphEnds
<1>4. RootDrvs' = RootDrvs
  BY <1>1 DEF RootDrvs
<1>5. GraphInv'
  <2>1. \A d \in DOMAIN graph' : TruePaths(d, graph'[d].outs)
    BY <1>1 DEF TInv, GraphInv, ReadInv, TrueNodes, TrueOuts
  <2>2. CASE pc' # "graphReady"
    BY <1>2, <2>1, <2>2 DEF GraphInv, Planning
  <2>3. CASE pc' = "graphReady"
    <3>1. /\ graph' = nodes /\ RootDrvs \subseteq DOMAIN nodes
      <4>1. pc = "readGraph" /\ parsed = "ok" /\ graph' = nodes
        BY <1>1, <2>3, RefusedKeeps
      <4> QED BY <4>1 DEF TInv, ReadInv
    <3>2. \A r \in evaluated : r.drv \in DOMAIN World /\ r.drv \in RootDrvs
      BY DEF TInv, RootInv, RootDrvs
    <3>3. \A r \in evaluated : DOMAIN World[r.drv].outs \subseteq DOMAIN nodes[r.drv].outs
      BY <3>1, <3>2 DEF TInv, ReadInv, TrueNodes, TrueOuts
    <3> QED BY <1>1, <1>4, <2>1, <3>1, <3>3 DEF GraphInv
  <2> QED BY <2>2, <2>3
<1>6. TruthInv'
  BY <1>1, <1>2 DEF TInv, TruthInv, True
<1>7. PlanInv'
  BY <1>1, <1>2, <1>4 DEF TInv, PlanInv, Early
<1>8. HeldInv'
  BY <1>1, <1>2 DEF TInv, HeldInv, Held
<1> QED BY <1>3, <1>5, <1>6, <1>7, <1>8 DEF TInv

------------------------------------------------------------------------------
(* The probes of the plan *)

LEMMA SameProbed ==
  ASSUME UNCHANGED <<graph, evaluated, config>>
  PROVE  ProbedPaths' = ProbedPaths /\ RootDrvs' = RootDrvs
<1>1. RootDrvs' = RootDrvs
  BY DEF RootDrvs
<1>2. SelectedOutputs' = SelectedOutputs
  BY <1>1 DEF SelectedOutputs, RootsOf
<1>3. Required' = Required
  BY <1>2 DEF Required
<1> QED BY <1>1, <1>2, <1>3 DEF ProbedPaths

\* A step of the probes is about paths only.
LEMMA ProbingKeeps ==
  ASSUME TInv, IInv', pc \in {"graphReady", "probeLocal", "probeRemote"},
         pc' \in {"probeLocal", "probeRemote", "plan"},
         UNCHANGED <<request, config, evaluated, streamVars, store, exit, json, confirmed, graph,
                     executions>>
  PROVE  /\ BatchInv' /\ ReadInv' /\ GraphInv' /\ ToldInv' /\ BuildInv' /\ TruthInv' /\ ResultInv'
         /\ PlanInv' /\ HeldInv' /\ FinishInv'
<1>1. ReadInv' /\ GraphInv'
  BY ReadStays, GraphStays DEF TInv, Planning
<1>2. ToldInv'
  BY DEF ToldInv
<1>3. /\ Before' => Before
      /\ Asking' => Asking
      /\ Holding' => Holding
      /\ pc' \notin Answering \cup Early \cup {"gather", "apply", "finish", "done"}
  BY DEF Before, Asking, Holding, Planning, Early, Answering
<1> QED BY <1>1, <1>2, <1>3, PlanKept

LEMMA PlanProbesTInv == ASSUME TInv, IInv, IInv', PlanProbes PROVE TInv'
<1>1. /\ pc = "graphReady" /\ pc' \in {"probeLocal", "plan"} /\ PopulateAppOutputs
      /\ UNCHANGED <<request, config, evaluated, streamVars, store, exit, json, confirmed, graph,
                     executions, probeDiags, asked, absent>>
  BY DEF PlanProbes, requestVars, buildVars, planVars
<1>2. /\ BatchInv' /\ ReadInv' /\ GraphInv' /\ ToldInv' /\ BuildInv' /\ TruthInv' /\ ResultInv'
      /\ PlanInv' /\ HeldInv' /\ FinishInv'
  BY <1>1, ProbingKeeps
<1>3. RootInv'
  <2> DEFINE Shown(r) == {o \in SelectedOutputs[r.drv] \cap DOMAIN graph[r.drv].outs :
                            graph[r.drv].outs[o] # NoPath}
             Now(r) == IF r.kind = "app" /\ r.drv \in RootDrvs THEN [r EXCEPT !.outs = Shown(r)] ELSE r
  <2>1. roots' = {Now(r) : r \in roots}
    BY <1>1 DEF PopulateAppOutputs
  <2> HIDE DEF Shown
  <2>2. \A root \in roots : /\ PlainRoot(Now(root)) /\ Now(root).name = root.name
                            /\ Now(root).drv = root.drv /\ Now(root).state = root.state
    BY DEF TInv, RootInv, PlainRoot
  <2> HIDE DEF Now
  <2>3. \A root \in roots' : PlainRoot(root)
    BY <2>1, <2>2
  <2>4. ASSUME NEW r \in evaluated PROVE \E root \in roots' : root.name = r.name /\ root.drv = r.drv
    <3>1. PICK root \in roots : root.name = r.name /\ root.drv = r.drv
      BY DEF TInv, RootInv
    <3>2. Now(root) \in roots' /\ Now(root).name = r.name /\ Now(root).drv = r.drv
      BY <2>1, <2>2, <3>1
    <3> QED BY <3>2
  <2>5. ASSUME NEW root \in roots, root.drv = NoDrv /\ root.state \notin ExistingStates
        PROVE  \E new \in roots' : new.drv = NoDrv /\ new.state \notin ExistingStates
    <3>1. /\ Now(root) \in roots' /\ Now(root).drv = NoDrv
          /\ Now(root).state \notin ExistingStates
      BY <2>1, <2>2, <2>5
    <3> QED BY <3>1
  <2>6. Targets' = Targets
    BY <1>1, SameTargets
  <2>7. \A r \in evaluated : /\ r.drv \in DOMAIN World
                             /\ r.kind # "app" => r.selected # {} /\ r.selected \subseteq r.outs
    BY DEF TInv, RootInv
  <2>8. request.kind # "app" =>
          \A n \in ToSet(Targets) :
            \/ \E r \in evaluated : r.name = n
            \/ \E root \in roots : root.drv = NoDrv /\ root.state \notin ExistingStates
    BY <1>1 DEF TInv, RootInv, Evaluating
  <2> QED BY <1>1, <2>3, <2>4, <2>5, <2>6, <2>7, <2>8 DEF RootInv
<1>4. ProbeInv'
  <2>1. ProbedPaths' = ProbedPaths /\ Warned' = Warned
    BY <1>1, SameProbed DEF Warned
  <2>2. CASE availability' = availability /\ pc' = "plan"
    BY <1>1, <2>2, ProbeStays DEF TInv, Early
  <2>3. CASE /\ availability' = [p \in DOMAIN availability \cup ProbedPaths |->
                                   IF p \in DOMAIN availability THEN availability[p] ELSE "Unknown"]
             /\ pc' = "probeLocal"
    <3>1. /\ In(availability', "Local") = In(availability, "Local")
          /\ In(availability', "TrustedRemote") = In(availability, "TrustedRemote")
          /\ In(availability', "Missing") = In(availability, "Missing")
          /\ In(availability', "Unknown") \subseteq In(availability, "Unknown") \cup ProbedPaths
      BY <2>3 DEF In
    <3>2. pc' \notin Early /\ asked' \in 0..Len(Caches)
      BY <1>1 DEF Early, TInv, ProbeInv
    <3> QED BY <1>1, <2>1, <2>3, <3>1, <3>2 DEF TInv, ProbeInv
  <2> QED BY <2>2, <2>3 DEF PlanProbes
<1> QED BY <1>2, <1>3, <1>4 DEF TInv

LEMMA ProbesTInv == ASSUME TInv, IInv, IInv', ProbeUnknown \/ ProbeRemote \/ ProbesEnd PROVE TInv'
<1>1. /\ pc \in {"probeLocal", "probeRemote"} /\ pc' \in {"probeRemote", "plan"}
      /\ UNCHANGED <<request, config, roots, evaluated, streamVars, store, exit, json, confirmed,
                     graph, executions>>
  BY DEF ProbeUnknown, ProbeRemote, ProbesEnd, requestVars, buildVars, planVars
<1>2. /\ BatchInv' /\ ReadInv' /\ GraphInv' /\ ToldInv' /\ BuildInv' /\ TruthInv' /\ ResultInv'
      /\ PlanInv' /\ HeldInv' /\ FinishInv'
  BY <1>1, ProbingKeeps
<1>3. RootInv'
  BY <1>1, RootStays DEF TInv, Evaluating
<1>4. pc' \notin Early /\ pc' # "probeLocal"
  BY <1>1 DEF Early
<1>5. ASSUME ProbeUnknown PROVE ProbeInv'
  <2> DEFINE unknown == ProbedPaths \cap In(availability, "Unknown")
  <2>1. pc = "probeLocal" /\ asked' = asked
    BY <1>5 DEF ProbeUnknown
  <2>2. /\ In(availability, "Local") \subseteq store
        /\ In(availability, "TrustedRemote") \subseteq InCaches
        /\ asked \in 0..Len(Caches)
        /\ \/ Warned
           \/ /\ In(availability, "Missing") \subseteq absent
              /\ In(availability, "Unknown") \subseteq absent \cup ProbedPaths
    BY <2>1 DEF TInv, ProbeInv
  <2>3. CASE unknown = {} /\ UNCHANGED <<availability, probeDiags, absent>>
    <3>1. Warned' = Warned
      BY <2>3 DEF Warned
    <3> QED BY <1>1, <1>4, <2>1, <2>2, <2>3, <3>1 DEF ProbeInv
  <2>4. CASE /\ availability' = Mark(availability, unknown \cap store, "Local")
             /\ absent' = absent \cup (unknown \ store) /\ UNCHANGED probeDiags
    <3>1. Warned' = Warned
      BY <2>4 DEF Warned
    <3>2. /\ In(availability', "Local") \subseteq In(availability, "Local") \cup store
          /\ In(availability', "TrustedRemote") \subseteq In(availability, "TrustedRemote")
          /\ In(availability', "Missing") \subseteq In(availability, "Missing")
          /\ In(availability', "Unknown") \subseteq In(availability, "Unknown") \ (unknown \cap store)
      BY <2>4 DEF Mark, In
    <3>3. \/ Warned
          \/ /\ In(availability', "Missing") \subseteq absent'
             /\ In(availability', "Unknown") \subseteq absent'
      BY <2>2, <2>4, <3>2
    <3> QED BY <1>1, <1>4, <2>1, <2>2, <3>1, <3>2, <3>3 DEF ProbeInv
  <2>5. CASE /\ \E d \in ProbeFailures("local_cache_probe_failed", <<>>) :
                  probeDiags' = probeDiags \cup {d}
             /\ availability' = availability
    <3>1. Warned'
      BY <2>5, FailureWarns
    <3> QED BY <1>1, <1>4, <2>1, <2>2, <2>5, <3>1 DEF ProbeInv
  <2> QED BY <1>5, <2>3, <2>4, <2>5 DEF ProbeUnknown, ProbeLocal
<1>6. ASSUME ProbeRemote PROVE ProbeInv'
  <2>1. pc = "probeRemote" /\ asked' = asked + 1 /\ asked # Len(Caches) /\ absent' = absent
        /\ probeDiags \subseteq probeDiags'
    BY <1>6 DEF ProbeRemote, RemoteIsOver
  <2>2. Warned => Warned'
    BY <2>1 DEF Warned
  <2>3. asked' \in 0..Len(Caches) /\ asked' \in DOMAIN Caches
    BY <2>1, RealizationAssumption DEF TInv, ProbeInv
  <2>4. CASE availability' = availability
    BY <1>1, <1>4, <2>1, <2>2, <2>3, <2>4 DEF TInv, ProbeInv
  <2>5. CASE availability' = Mark(availability, Unresolved \cap Remote[Caches[asked']],
                                  "TrustedRemote")
    <3>1. Remote[Caches[asked']] \subseteq InCaches
      BY <2>3 DEF InCaches
    <3>2. /\ In(availability', "Local") \subseteq In(availability, "Local")
          /\ In(availability', "TrustedRemote") \subseteq
               In(availability, "TrustedRemote") \cup Remote[Caches[asked']]
          /\ In(availability', "Missing") \subseteq In(availability, "Missing")
          /\ In(availability', "Unknown") \subseteq In(availability, "Unknown")
      BY <2>5 DEF Mark, In
    <3> QED BY <1>1, <1>4, <2>1, <2>2, <2>3, <3>1, <3>2 DEF TInv, ProbeInv
  <2> QED BY <1>6, <2>4, <2>5 DEF ProbeRemote
<1>7. ASSUME ProbesEnd PROVE ProbeInv'
  <2>1. /\ pc = "probeRemote" /\ asked' = 0 /\ absent' = absent /\ probeDiags' = probeDiags
        /\ \/ availability' = availability
           \/ availability' = Mark(availability, In(availability, "Unknown") \ degraded, "Missing")
    BY <1>7 DEF ProbesEnd
  <2>2. Warned' = Warned /\ asked' \in 0..Len(Caches)
    BY <2>1, RealizationAssumption DEF Warned
  <2>3. /\ In(availability', "Local") \subseteq In(availability, "Local")
        /\ In(availability', "TrustedRemote") \subseteq In(availability, "TrustedRemote")
        /\ In(availability', "Missing") \subseteq
             In(availability, "Missing") \cup In(availability, "Unknown")
        /\ In(availability', "Unknown") \subseteq In(availability, "Unknown")
    BY <2>1 DEF Mark, In
  <2> QED BY <1>1, <1>4, <2>1, <2>2, <2>3 DEF TInv, ProbeInv
<1>8. ProbeInv'
  BY <1>5, <1>6, <1>7
<1> QED BY <1>2, <1>3, <1>8 DEF TInv

------------------------------------------------------------------------------
(* The plan *)

\* The known paths of a node are those of its outputs.
LEMMA KnownTruth ==
  ASSUME GraphInv, NEW d, NEW outs
  PROVE  /\ KnownPaths(graph, d, outs) \subseteq PathsOf(d, outs)
         /\ AllKnown(graph, d, outs) => KnownPaths(graph, d, outs) = PathsOf(d, outs)
<1>1. d \in DOMAIN graph => \A o \in DOMAIN graph[d].outs : graph[d].outs[o] \in {Path(d, o), NoPath}
  BY DEF GraphInv, TruePaths
<1>2. KnownPaths(graph, d, outs) \subseteq PathsOf(d, outs)
  BY <1>1 DEF KnownPaths, PathsOf
<1>3. AllKnown(graph, d, outs) => PathsOf(d, outs) \subseteq KnownPaths(graph, d, outs)
  BY <1>1 DEF KnownPaths, PathsOf, AllKnown
<1> QED BY <1>2, <1>3

\* What is planned as there is there, here or with a trusted cache.
LEMMA ExecutionTruth ==
  ASSUME TInv, NEW d \in RootDrvs
  PROVE  LET planned == Execution(d)
         IN /\ planned.required = SelectedOutputs[d]
            /\ planned.state \in
                 {"pending"} \cup IF config.rebuild THEN {} ELSE {"Cached", "CachedRemote"}
            /\ planned.state = "Cached" =>
                 /\ planned.produced = PathsOf(d, planned.required)
                 /\ PathsOf(d, planned.required) \subseteq store
            /\ planned.state = "CachedRemote" =>
                 /\ config.skipCached
                 /\ PathsOf(d, planned.required) \subseteq store \cup InCaches
<1> DEFINE outs == SelectedOutputs[d]
           Seen(states) == /\ outs # {} /\ AllKnown(graph, d, outs)
                            /\ \A p \in KnownPaths(graph, d, outs) :
                                 p \in DOMAIN availability /\ availability[p] \in states
           planned == Execution(d)
<1>1. AllKnown(graph, d, outs) => KnownPaths(graph, d, outs) = PathsOf(d, outs)
  BY KnownTruth DEF TInv
<1>2. /\ In(availability, "Local") \subseteq store
      /\ In(availability, "TrustedRemote") \subseteq InCaches
  BY DEF TInv, ProbeInv
<1>3. /\ Seen({"Local"}) => PathsOf(d, outs) \subseteq store
      /\ Seen({"Local", "TrustedRemote"}) => PathsOf(d, outs) \subseteq store \cup InCaches
  BY <1>1, <1>2 DEF In
<1>4. /\ planned.required = outs
      /\ planned.state = IF Seen({"Local"}) /\ ~(request.outLink \/ config.rebuild) THEN "Cached"
                         ELSE IF /\ ~Seen({"Local"}) /\ Seen({"Local", "TrustedRemote"})
                                 /\ config.skipCached /\ ~request.outLink
                           THEN "CachedRemote"
                         ELSE "pending"
      /\ planned.produced = IF Seen({"Local"}) THEN KnownPaths(graph, d, outs) ELSE {}
  BY DEF Execution
<1>5. config.skipCached => ~config.rebuild
  BY EvaluationAssumption DEF TInv, BatchInv, ValidConfig
<1>6. Seen({"Local"}) => KnownPaths(graph, d, outs) = PathsOf(d, outs)
  BY <1>1
<1> HIDE DEF Seen, planned, outs
<1>7. /\ planned.required = outs
      /\ planned.state \in
           {"pending"} \cup IF config.rebuild THEN {} ELSE {"Cached", "CachedRemote"}
      /\ planned.state = "Cached" =>
           /\ planned.produced = PathsOf(d, planned.required)
           /\ PathsOf(d, planned.required) \subseteq store
      /\ planned.state = "CachedRemote" =>
           /\ config.skipCached
           /\ PathsOf(d, planned.required) \subseteq store \cup InCaches
  BY <1>3, <1>4, <1>5, <1>6
<1> QED BY <1>7 DEF planned, outs

LEMMA AskedSelected ==
  ASSUME TInv, pc \in Planning, NEW r \in evaluated
  PROVE  r.drv \in RootDrvs /\ AskedOf(r) \subseteq SelectedOutputs[r.drv]
<1>1. r.drv \in RootDrvs /\ r \in RootsOf(r.drv)
  BY DEF RootDrvs, RootsOf
<1>2. (IF r.selected = {} THEN DOMAIN graph[r.drv].outs ELSE r.selected) \subseteq SelectedOutputs[r.drv]
  <2>1. \A q \in RootsOf(r.drv) :
          (IF q.selected = {} THEN DOMAIN graph[r.drv].outs ELSE q.selected)
             \subseteq SelectedOutputs[r.drv]
    BY <1>1 DEF SelectedOutputs
  <2> QED BY <1>1, <2>1
<1>3. r.selected = {} => DOMAIN World[r.drv].outs \subseteq DOMAIN graph[r.drv].outs
  BY DEF TInv, GraphInv
<1> QED BY <1>1, <1>2, <1>3 DEF AskedOf

LEMMA PlanTInv == ASSUME TInv, IInv, IInv', Plan PROVE TInv'
<1>1. /\ pc = "plan" /\ pc' \in {"build", "realized"}
      /\ executions' = [d \in RootDrvs |-> Execution(d)]
      /\ UNCHANGED <<request, config, roots, evaluated, diags, streamVars, availability, probeDiags,
                     asked, absent, store, exit, json, confirmed, graph>>
  BY DEF Plan, requestVars, probeVars, buildVars
<1>2. RootDrvs' = RootDrvs
  BY <1>1 DEF RootDrvs
<1>3. BatchInv' /\ RootInv' /\ ReadInv' /\ GraphInv' /\ ProbeInv'
  BY <1>1, BatchStays, RootStays, ReadStays, GraphStays, ProbeStays
     DEF TInv, Answering, Evaluating, Planning, Early
<1>4. ToldInv' /\ BuildInv' /\ ResultInv' /\ FinishInv'
  <2>1. ToldInv' /\ ResultInv'
    BY <1>1 DEF ToldInv, ResultInv
  <2>2. BuildInv'
    BY <1>1, BuildStays DEF TInv, Before, Planning, Early
  <2> QED BY <1>1, <2>1, <2>2, FinishStays
<1>5. \A d \in RootDrvs :
        /\ Execution(d).required = SelectedOutputs[d]
        /\ Execution(d).state \in
             {"pending"} \cup IF config.rebuild THEN {} ELSE {"Cached", "CachedRemote"}
        /\ Execution(d).state = "Cached" =>
             /\ Execution(d).produced = PathsOf(d, Execution(d).required)
             /\ PathsOf(d, Execution(d).required) \subseteq store
        /\ Execution(d).state = "CachedRemote" =>
             /\ config.skipCached
             /\ PathsOf(d, Execution(d).required) \subseteq store \cup InCaches
  BY ExecutionTruth
<1>6. \A r \in evaluated : r.drv \in RootDrvs /\ AskedOf(r) \subseteq SelectedOutputs[r.drv]
  BY <1>1, AskedSelected DEF Planning
<1>7. TruthInv'
  BY <1>1, <1>5 DEF TruthInv, True, ExistingStates
<1>8. PlanInv'
  BY <1>1, <1>2, <1>5, <1>6 DEF PlanInv, Early
<1>9. HeldInv'
  <2>1. SUFFICES ASSUME NEW r \in evaluated, executions'[r.drv].state \in ExistingStates
                 PROVE  Held(r)'
    BY <1>1 DEF HeldInv
  <2>2. /\ executions'[r.drv] = Execution(r.drv) /\ r.drv \in RootDrvs
        /\ Execution(r.drv).state \in {"Cached", "CachedRemote"} /\ ~config.rebuild
    BY <1>1, <1>5, <1>6, <2>1 DEF ExistingStates
  <2>3. PathsOf(r.drv, AskedOf(r)) \subseteq PathsOf(r.drv, Execution(r.drv).required)
    BY <1>5, <1>6, <2>2 DEF PathsOf
  <2>4. PathsOf(r.drv, AskedOf(r)) \subseteq store \cup IF config.skipCached THEN InCaches ELSE {}
    BY <1>5, <2>2, <2>3
  <2> QED BY <1>1, <2>2, <2>4 DEF Held
<1> QED BY <1>3, <1>4, <1>7, <1>8, <1>9 DEF TInv

------------------------------------------------------------------------------
(* The build *)

LEMMA BuildTInv == ASSUME TInv, IInv, IInv', Build PROVE TInv'
<1>1. /\ pc = "build" /\ pc' = "gather"
      /\ UNCHANGED <<request, config, roots, evaluated, streamVars, availability, probeDiags, asked,
                     absent, graph, executions>>
  BY DEF Build, requestVars, probeVars, planVars
<1>2. /\ exit = "none" /\ json = {}
      /\ \A d \in DOMAIN confirmed : PathsOf(d, confirmed[d].outs) \subseteq store
  BY <1>1 DEF TInv, BuildInv, Planning
<1>3. /\ store \subseteq store'
      /\ json' # {} => exit' = "success"
      /\ exit' = "success" => \A d \in Pending : PathsOf(d, executions[d].required) \subseteq store'
      /\ \A d \in DOMAIN confirmed' : PathsOf(d, confirmed'[d].outs) \subseteq store'
  <2>1. CASE RunBuild
    <3>1. PICK fate, part :
            /\ store' = store \cup UNION {PathsOf(d, part[d]) : d \in Made(fate)}
            /\ confirmed' = [d \in {e \in Made(fate) : fate[e] \in {"reported", "live"}} |->
                               Confirmation(d, fate[d], part[d])]
            /\ \/ /\ exit' = "success"
                  /\ \A d \in Pending : PathsOf(d, executions[d].required) \subseteq store'
               \/ exit' \in {"failure", "cancelled"} /\ json' = {}
      BY <2>1 DEF RunBuild
    <3>2. ASSUME NEW d \in DOMAIN confirmed' PROVE PathsOf(d, confirmed'[d].outs) \subseteq store'
      <4>1. d \in Made(fate) /\ confirmed'[d].outs = part[d]
        BY <3>1, <3>2 DEF Confirmation
      <4>2. PathsOf(d, part[d]) \subseteq UNION {PathsOf(e, part[e]) : e \in Made(fate)}
        BY <4>1
      <4> QED BY <3>1, <4>1, <4>2
    <3> QED BY <3>1, <3>2
  <2>2. CASE exit' \in {"error", "cancelled"} /\ UNCHANGED <<store, json, confirmed, stopped>>
    BY <1>2, <2>2
  <2> QED BY <2>1, <2>2 DEF Build
<1>4. Pending' = Pending /\ RootDrvs' = RootDrvs
  BY <1>1 DEF Pending, RootDrvs
<1>5. BatchInv' /\ RootInv' /\ ReadInv' /\ GraphInv' /\ ProbeInv'
  BY <1>1, <1>3, BatchStays, RootStays, ReadStays, GraphStays, ProbeStays
     DEF TInv, Answering, Evaluating, Planning, Early
<1>6. ToldInv' /\ ResultInv'
  BY <1>1 DEF ToldInv, ResultInv
<1>7. BuildInv'
  BY <1>1, <1>3, <1>4 DEF BuildInv, Planning, Early
<1>8. TruthInv' /\ PlanInv' /\ FinishInv'
  BY <1>1, <1>3, TruthStays, PlanStays, FinishStays DEF TInv, Asking, Holding, Early
<1>9. HeldInv'
  <2>1. SUFFICES ASSUME NEW r \in evaluated, r.drv \in DOMAIN executions,
                        executions[r.drv].state \in ExistingStates
                 PROVE  Held(r)'
    BY <1>1 DEF HeldInv
  <2>2. Held(r)
    BY <2>1 DEF TInv, HeldInv
  <2>3. ~config.rebuild
    <3>1. DOMAIN executions = RootDrvs
          /\ executions[r.drv].state \in
               {"pending"} \cup IF config.rebuild THEN {} ELSE {"Cached", "CachedRemote"}
      BY <1>1, <2>1 DEF TInv, PlanInv
    <3> QED BY <2>1, <3>1 DEF ExistingStates
  <2> QED BY <1>1, <1>3, <2>2, <2>3 DEF Held
<1> QED BY <1>5, <1>6, <1>7, <1>8, <1>9 DEF TInv

------------------------------------------------------------------------------
(* What became of the nodes is true *)

\* A node that is there, or has anything, has all that was needed of it.
Truth(d, run) ==
  run.state \in ExistingStates \/ run.produced # {} => True(d, run)

\* The results of a build: of every pending node, with what the plan needs of it, and
\* repeated when it had to be.
TrueRuns(runs) ==
  /\ Runs(runs) /\ Pending \subseteq DOMAIN runs
  /\ \A d \in DOMAIN runs : Truth(d, runs[d])
  /\ \A d \in DOMAIN runs \cap DOMAIN LiveRequired : runs[d].required \subseteq LiveRequired[d]
  /\ \A d \in Pending :
       /\ runs[d].required = executions[d].required
       /\ runs[d].state \in ExistingStates /\ config.rebuild => d \in json \cup DOMAIN confirmed

\* The pending nodes need at least what the plan asks of them.
LEMMA LiveAsks ==
  ASSUME TInv, pc = "gather", NEW d \in Pending
  PROVE  /\ d \in DOMAIN graph
         /\ d \in DOMAIN LiveRequired => executions[d].required \subseteq LiveRequired[d]
         /\ d \in DOMAIN executions
<1>1. Pending \subseteq DOMAIN executions /\ DOMAIN executions = RootDrvs /\ RootDrvs \subseteq DOMAIN graph
  BY DEF Pending, TInv, PlanInv, GraphInv, Planning
<1>2. DOMAIN PendingOutputs = Pending /\ PendingOutputs[d] = executions[d].required
  BY DEF PendingOutputs
<1> DEFINE reached == Closure(graph, DOMAIN PendingOutputs) \cap DOMAIN graph
           More(e) == UNION {graph[p].deps[e] : p \in {q \in reached : e \in Deps(graph, q)}}
           Needed(e) == (IF e \in DOMAIN PendingOutputs THEN PendingOutputs[e] ELSE {}) \cup More(e)
<1>3. LiveRequired = [e \in {f \in reached : Needed(f) # {}} |-> Needed(e)]
  BY DEF LiveRequired, RequiredOutputs
<1> HIDE DEF reached, More
<1>4. d \in DOMAIN LiveRequired => LiveRequired[d] = Needed(d)
  BY <1>3
<1>5. executions[d].required \subseteq Needed(d)
  BY <1>2
<1> QED BY <1>1, <1>4, <1>5

LEMMA ParsedTruth ==
  ASSUME TInv, pc = "gather"
  PROVE  TrueRuns(Parsed)
<1>1. DOMAIN Parsed = Pending /\ Runs(Parsed)
  BY RunsOf DEF Parsed
<1>2. ASSUME NEW d \in Pending
      PROVE  /\ Parsed[d].required = executions[d].required
             /\ Truth(d, Parsed[d])
             /\ Parsed[d].state \in ExistingStates => d \in json
  <2>1. CASE Listed(d)
    <3>1. d \in json /\ exit = "success"
      BY <2>1 DEF Listed, TInv, BuildInv
    <3>2. PathsOf(d, executions[d].required) \subseteq store
      BY <3>1 DEF TInv, BuildInv
    <3>3. /\ Parsed[d].required = executions[d].required
          /\ Parsed[d].produced = PathsOf(d, executions[d].required)
      BY <2>1 DEF Parsed, NodeRun
    <3> QED BY <3>1, <3>2, <3>3 DEF Truth, True
  <2>2. CASE ~Listed(d)
    <3>1. /\ Parsed[d].required = executions[d].required
          /\ Parsed[d].produced = {} /\ Parsed[d].state = "Failed"
      BY <2>2 DEF Parsed, NodeRun
    <3> QED BY <3>1 DEF Truth, ExistingStates
  <2> QED BY <2>1, <2>2
<1>3. \A d \in Pending \cap DOMAIN LiveRequired : Parsed[d].required \subseteq LiveRequired[d]
  BY <1>2, LiveAsks
<1> HIDE DEF Parsed
<1> QED BY <1>1, <1>2, <1>3 DEF TrueRuns

LEMMA UnstartedTruth ==
  ASSUME TInv, pc = "gather"
  PROVE  TrueRuns(Unstarted)
<1>1. DOMAIN Unstarted = Pending /\ Runs(Unstarted)
  BY RunsOf DEF Unstarted
<1>2. \A d \in Pending : /\ Unstarted[d].required = executions[d].required
                         /\ Unstarted[d].produced = {}
                         /\ Unstarted[d].state \in {"Cancelled", "Failed"}
  BY DEF Unstarted, NodeRun
<1>3. \A d \in Pending \cap DOMAIN LiveRequired : Unstarted[d].required \subseteq LiveRequired[d]
  BY <1>2, LiveAsks
<1> QED BY <1>1, <1>2, <1>3 DEF TrueRuns, Truth, ExistingStates

LEMMA LinkFailedTruth ==
  ASSUME NEW runs, TrueRuns(runs)
  PROVE  TrueRuns(LinkFailed(runs))
<1> DEFINE failed == LinkFailed(runs)
<1>1. ASSUME NEW d \in DOMAIN runs
      PROVE  /\ Run(failed[d]) /\ failed[d].state = "Failed"
             /\ failed[d].required = runs[d].required /\ failed[d].produced = runs[d].produced
  BY DEF LinkFailed, TrueRuns, Runs, Run
<1>2. DOMAIN failed = DOMAIN runs
  BY DEF LinkFailed
<1> HIDE DEF failed
<1>3. TrueRuns(failed)
  BY <1>1, <1>2 DEF TrueRuns, Runs, Truth, True, ExistingStates
<1> QED BY <1>3 DEF failed

LEMMA RecoveredTruth ==
  ASSUME TInv, NEW runs, TrueRuns(runs), DOMAIN runs = Pending, ~config.rebuild
  PROVE  TrueRuns(Recovered(runs))
<1> DEFINE recovered == Recovered(runs)
<1>1. ASSUME NEW d \in Pending
      PROVE  /\ Run(recovered[d]) /\ recovered[d].required = runs[d].required
             /\ Truth(d, recovered[d])
  <2> DEFINE outs == executions[d].required
  <2>1. CASE recovered[d] = runs[d]
    BY <2>1 DEF TrueRuns, Runs
  <2>2. CASE recovered[d] # runs[d]
    <3>1. /\ AllKnown(graph, d, outs) /\ KnownPaths(graph, d, outs) \subseteq store
          /\ recovered[d] = NodeRun(executions[d].expected, runs[d].required,
                                    KnownPaths(graph, d, outs), "none")
      BY <2>2 DEF Recovered
    <3>2. KnownPaths(graph, d, outs) = PathsOf(d, outs) /\ runs[d].required = outs
      BY <3>1, KnownTruth DEF TInv, TrueRuns
    <3> QED BY <3>1, <3>2 DEF NodeRun, Run, Truth, True
  <2> QED BY <2>1, <2>2
<1>2. DOMAIN recovered = Pending
  BY DEF Recovered
<1> HIDE DEF recovered
<1>3. TrueRuns(recovered)
  BY <1>1, <1>2 DEF TrueRuns, Runs
<1> QED BY <1>3 DEF recovered

LEMMA RetainTruth ==
  ASSUME TInv, pc = "gather", NEW runs, TrueRuns(runs), DOMAIN runs = Pending
  PROVE  TrueRuns(RetainObserved(runs))
<1> DEFINE retained == RetainObserved(runs)
<1>1. ASSUME NEW d \in Standing
      PROVE  /\ PathsOf(d, Wanted(d)) \subseteq store /\ Wanted(d) # {} /\ d \in DOMAIN confirmed
             /\ d \in DOMAIN LiveRequired => Wanted(d) = LiveRequired[d]
             /\ d \in Pending => executions[d].required \subseteq Wanted(d)
  <2>1. Wanted(d) # {} /\ Wanted(d) \subseteq confirmed[d].outs /\ d \in DOMAIN confirmed
    BY DEF Standing
  <2>2. PathsOf(d, Wanted(d)) \subseteq store
    <3>1. PathsOf(d, Wanted(d)) \subseteq PathsOf(d, confirmed[d].outs)
      BY <2>1 DEF PathsOf
    <3> QED BY <2>1, <3>1 DEF TInv, BuildInv
  <2>3. d \in DOMAIN LiveRequired => Wanted(d) = LiveRequired[d]
    BY DEF Wanted
  <2>4. d \in Pending => d \in DOMAIN LiveRequired
    BY <2>1, LiveAsks DEF Wanted
  <2> QED BY <2>1, <2>2, <2>3, <2>4, LiveAsks
<1>2. ASSUME NEW d \in Pending, d \in Standing
      PROVE  /\ Run(retained[d]) /\ retained[d].required = executions[d].required
             /\ Truth(d, retained[d])
  <2>1. Run(runs[d]) /\ runs[d].required = executions[d].required /\ Truth(d, runs[d])
    BY DEF TrueRuns, Runs
  <2>2. \/ retained[d] = [runs[d] EXCEPT !.state = confirmed[d].state] /\ runs[d].produced # {}
        \/ retained[d] = runs[d]
        \/ retained[d] = [runs[d] EXCEPT !.produced = PathsOf(d, Wanted(d))]
        \/ retained[d] = NodeRun(confirmed[d].state, runs[d].required, PathsOf(d, Wanted(d)), "none")
    BY <1>2 DEF RetainObserved
  <2>3. PathsOf(d, executions[d].required) \subseteq PathsOf(d, Wanted(d))
    BY <1>1, <1>2 DEF PathsOf
  <2> HIDE DEF retained
  <2>4. CASE retained[d] = [runs[d] EXCEPT !.state = confirmed[d].state] /\ runs[d].produced # {}
    BY <2>1, <2>4 DEF Run, Truth, True
  <2>5. CASE retained[d] = runs[d]
    BY <2>1, <2>5
  <2>6. CASE retained[d] = [runs[d] EXCEPT !.produced = PathsOf(d, Wanted(d))]
    BY <1>1, <1>2, <2>1, <2>3, <2>6 DEF Run, Truth, True
  <2>7. CASE retained[d] = NodeRun(confirmed[d].state, runs[d].required, PathsOf(d, Wanted(d)), "none")
    BY <1>1, <1>2, <2>1, <2>3, <2>7 DEF Run, Truth, True, NodeRun
  <2> QED BY <2>2, <2>4, <2>5, <2>6, <2>7
<1>3. ASSUME NEW d \in Standing, d \notin Pending
      PROVE  /\ Run(retained[d]) /\ Truth(d, retained[d])
             /\ retained[d].required = Wanted(d)
  <2>1. retained[d] = NodeRun(confirmed[d].state, Wanted(d), PathsOf(d, Wanted(d)), "none")
    BY <1>3 DEF RetainObserved
  <2> QED BY <1>1, <2>1 DEF Run, Truth, True, NodeRun
<1>4. DOMAIN retained = Pending \cup Standing
  BY DEF RetainObserved
<1>5. \A d \in Pending \ Standing : retained[d] = runs[d]
  BY DEF RetainObserved
<1> HIDE DEF retained
<1>6. Runs(retained) /\ \A d \in DOMAIN retained : Truth(d, retained[d])
  BY <1>2, <1>3, <1>4, <1>5 DEF Runs, TrueRuns
<1>7. \A d \in Pending : /\ retained[d].required = executions[d].required
                         /\ retained[d].state \in ExistingStates /\ config.rebuild =>
                              d \in json \cup DOMAIN confirmed
  BY <1>1, <1>2, <1>5 DEF TrueRuns
<1>8. \A d \in DOMAIN retained \cap DOMAIN LiveRequired : retained[d].required \subseteq LiveRequired[d]
  BY <1>1, <1>3, <1>4, <1>7, LiveAsks
<1> QED BY <1>4, <1>6, <1>7, <1>8 DEF TrueRuns, retained

LEMMA FoundTruth ==
  ASSUME NEW runs, TrueRuns(runs), ~config.rebuild,
         NEW candidates, NEW found \in Found(candidates),
         \A d \in DOMAIN candidates : \/ d \notin DOMAIN runs /\ d \notin DOMAIN LiveRequired
                                      \/ d \in DOMAIN LiveRequired /\ candidates[d] = LiveRequired[d]
  PROVE  TrueRuns(WithFound(runs, candidates, found))
<1> DEFINE all == WithFound(runs, candidates, found)
<1>1. ASSUME NEW d \in found
      PROVE  /\ d \in DOMAIN candidates /\ PathsOf(d, candidates[d]) \subseteq store
             /\ d \in DOMAIN LiveRequired => candidates[d] = LiveRequired[d]
             /\ d \in DOMAIN runs => d \in DOMAIN LiveRequired
  BY DEF Found
<1>2. ASSUME NEW d \in found, d \in DOMAIN runs
      PROVE  /\ Run(all[d]) /\ Truth(d, all[d]) /\ all[d].required = runs[d].required
  <2>1. /\ Run(runs[d]) /\ runs[d].required \subseteq candidates[d]
    BY <1>1, <1>2 DEF TrueRuns, Runs
  <2>2. \/ all[d] = [runs[d] EXCEPT !.produced = PathsOf(d, candidates[d])]
        \/ all[d] = NodeRun("Realized", runs[d].required, PathsOf(d, candidates[d]), "none")
    BY <1>2 DEF WithFound
  <2>3. PathsOf(d, runs[d].required) \subseteq PathsOf(d, candidates[d])
    BY <2>1 DEF PathsOf
  <2> HIDE DEF all
  <2> QED BY <1>1, <2>1, <2>2, <2>3 DEF Run, Truth, True, NodeRun
<1>3. ASSUME NEW d \in found, d \notin DOMAIN runs
      PROVE  /\ Run(all[d]) /\ Truth(d, all[d]) /\ all[d].required = candidates[d]
  <2>1. all[d] = NodeRun("Realized", candidates[d], PathsOf(d, candidates[d]), "none")
    BY <1>3 DEF WithFound
  <2> QED BY <1>1, <2>1 DEF Run, Truth, True, NodeRun
<1>4. DOMAIN all = DOMAIN runs \cup found
  BY DEF WithFound
<1>5. \A d \in DOMAIN runs \ found : all[d] = runs[d]
  BY DEF WithFound
<1> HIDE DEF all
<1>6. Runs(all) /\ \A d \in DOMAIN all : Truth(d, all[d])
  BY <1>2, <1>3, <1>4, <1>5 DEF Runs, TrueRuns
<1>7. \A d \in Pending : d \in DOMAIN all /\ all[d].required = executions[d].required
  BY <1>2, <1>4, <1>5 DEF TrueRuns
<1>8. \A d \in DOMAIN all \cap DOMAIN LiveRequired : all[d].required \subseteq LiveRequired[d]
  BY <1>1, <1>2, <1>3, <1>4, <1>5 DEF TrueRuns
<1> QED BY <1>6, <1>7, <1>8 DEF TrueRuns, all

LEMMA GatheredTInv ==
  ASSUME TInv, IInv, IInv', pc = "gather", NEW runs, TrueRuns(runs), Gathered(runs)
  PROVE  TInv'
<1>1. /\ pc' = "apply" /\ results' = runs /\ diags \subseteq diags'
      /\ UNCHANGED <<request, config, roots, evaluated, streamVars, availability, probeDiags, asked,
                     absent, store, exit, json, confirmed, graph, executions>>
  BY DEF Gathered, requestVars, probeVars, buildVars, planVars
<1>2. BatchInv' /\ RootInv' /\ ReadInv' /\ GraphInv' /\ ProbeInv'
  BY <1>1, BatchStays, RootStays, ReadStays, GraphStays, ProbeStays
     DEF TInv, Answering, Evaluating, Planning, Early
<1>3. ToldInv'
  BY <1>1 DEF ToldInv
<1>4. BuildInv' /\ TruthInv' /\ PlanInv' /\ HeldInv' /\ FinishInv'
  <2>1. /\ Before' => Before
        /\ Asking' => Asking
        /\ Holding' => Holding
    BY <1>1 DEF Before, Asking, Holding, Planning, Early
  <2> QED BY <1>1, <2>1, BuildStays, TruthStays, PlanStays, HeldStays, FinishStays DEF TInv, Early
<1>5. ResultInv'
  <2>1. Pending' = Pending
    BY <1>1 DEF Pending
  <2> QED BY <1>1, <2>1 DEF ResultInv, TrueRuns, Truth, True
<1> QED BY <1>2, <1>3, <1>4, <1>5 DEF TInv

LEMMA GatherTInv ==
  ASSUME TInv, IInv, IInv', GatherSuccess \/ GatherFailure \/ GatherUnfinished
  PROVE  TInv'
<1>1. pc = "gather"
  BY DEF GatherSuccess, GatherFailure, GatherUnfinished
<1>2. TrueRuns(Parsed) /\ DOMAIN Parsed = Pending
  BY <1>1, ParsedTruth DEF Parsed
<1>3. TrueRuns(Unstarted) /\ DOMAIN Unstarted = Pending
  BY <1>1, UnstartedTruth DEF Unstarted
<1>4. CASE GatherSuccess
  <2>1. Gathered(RetainObserved(Parsed))
    BY <1>4 DEF GatherSuccess
  <2> QED BY <1>1, <1>2, <2>1, RetainTruth, GatheredTInv
<1>5. CASE GatherFailure
  <2>1. TrueRuns(LinkFailed(Parsed)) /\ DOMAIN LinkFailed(Parsed) = Pending
    BY <1>2, LinkFailedTruth DEF LinkFailed
  <2>2. ~config.rebuild => TrueRuns(Recovered(Parsed)) /\ DOMAIN Recovered(Parsed) = Pending
    BY <1>2, RecoveredTruth DEF Recovered
  <2>3. \/ Gathered(RetainObserved(LinkFailed(Parsed)))
        \/ Gathered(RetainObserved(Parsed))
        \/ ~config.rebuild /\ Gathered(RetainObserved(Recovered(Parsed)))
    BY <1>5 DEF GatherFailure
  <2> QED BY <1>1, <1>2, <2>1, <2>2, <2>3, RetainTruth, GatheredTInv
<1>6. CASE GatherUnfinished
  <2> DEFINE runs == RetainObserved(Unstarted)
             inGraph == StoppedInGraph(runs)
  <2>1. TrueRuns(runs)
    BY <1>1, <1>3, RetainTruth
  <2>2. CASE Gathered(Unstarted) \/ Gathered(runs)
    BY <1>1, <1>3, <2>1, <2>2, GatheredTInv
  <2>3. CASE ~(Gathered(Unstarted) \/ Gathered(runs))
    <3>1. ~config.rebuild
      BY <1>6, <2>3 DEF GatherUnfinished
    <3>2. PICK elsewhere \in StoppedElsewhere(runs) :
            LET candidates == [d \in DOMAIN inGraph \cup DOMAIN elsewhere |->
                                 IF d \in DOMAIN inGraph THEN inGraph[d] ELSE elsewhere[d]]
            IN \E found \in Found(candidates) : Gathered(WithFound(runs, candidates, found))
      BY <1>6, <2>3 DEF GatherUnfinished
    <3> DEFINE candidates == [d \in DOMAIN inGraph \cup DOMAIN elsewhere |->
                                IF d \in DOMAIN inGraph THEN inGraph[d] ELSE elsewhere[d]]
    <3> HIDE DEF runs
    <3>3. PICK found \in Found(candidates) : Gathered(WithFound(runs, candidates, found))
      BY <3>2
    <3>4. \A d \in DOMAIN inGraph : d \in DOMAIN LiveRequired /\ inGraph[d] = LiveRequired[d]
      BY DEF StoppedInGraph
    <3>5. \A d \in DOMAIN elsewhere : d \notin DOMAIN runs /\ d \notin DOMAIN LiveRequired
      <4>1. DOMAIN LiveRequired \subseteq DOMAIN graph
        BY DEF LiveRequired, RequiredOutputs
      <4>2. DOMAIN elsewhere \subseteq stopped \ (DOMAIN graph \cup DOMAIN runs)
        BY DEF StoppedElsewhere
      <4> QED BY <4>1, <4>2
    <3>6. \A d \in DOMAIN candidates :
            \/ d \notin DOMAIN runs /\ d \notin DOMAIN LiveRequired
            \/ d \in DOMAIN LiveRequired /\ candidates[d] = LiveRequired[d]
      BY <3>4, <3>5
    <3> HIDE DEF candidates
    <3>7. TrueRuns(WithFound(runs, candidates, found))
      BY <2>1, <3>1, <3>6, FoundTruth
    <3> QED BY <1>1, <3>3, <3>7, GatheredTInv
  <2> QED BY <2>2, <2>3
<1> QED BY <1>4, <1>5, <1>6

------------------------------------------------------------------------------
(* The results join the plan *)

LEMMA ApplyTInv == ASSUME TInv, IInv, IInv', ApplyResults PROVE TInv'
<1> DEFINE joined == [d \in DOMAIN results \cup DOMAIN executions |->
                        IF d \in DOMAIN executions THEN executions[d].deps
                        ELSE Deps(graph, d) \cap (DOMAIN results \cup Pending)]
           marked == MarkSkipped(results, joined)
<1>1. /\ pc = "apply" /\ pc' = "realized" /\ diags \subseteq diags'
      /\ executions' = [d \in DOMAIN joined |->
           IF d \in DOMAIN marked THEN Applied(d, marked[d], joined[d]) ELSE executions[d]]
      /\ UNCHANGED <<request, config, roots, evaluated, streamVars, availability, probeDiags, asked,
                     absent, store, exit, json, confirmed, graph>>
  BY DEF ApplyResults, requestVars, probeVars, buildVars, planVars
<1>2. DOMAIN joined = DOMAIN results \cup DOMAIN executions /\ DOMAIN marked = DOMAIN results
  BY DEF MarkSkipped
<1>3. \A d \in DOMAIN results : marked[d].state \in ExistingStates => marked[d] = results[d]
  <2> HIDE DEF joined
  <2>1. ASSUME NEW d \in DOMAIN results, marked[d] # results[d]
        PROVE  marked[d].state \notin ExistingStates
    <3>1. /\ marked[d] = [results[d] EXCEPT !.state = "Skipped",
                                            !.dep = Min(Culprits(results, joined, d))]
          /\ results[d].state = "Failed"
      BY <2>1 DEF MarkSkipped
    <3> HIDE DEF marked
    <3>2. marked[d].state \in {"Skipped", "Failed"} \/ "state" \notin DOMAIN results[d]
      BY <3>1
    <3> QED BY <3>1, <3>2 DEF ExistingStates
  <2> QED BY <2>1
<1> HIDE DEF joined, marked
<1>4. \A d, run, deps : /\ Applied(d, run, deps).state = run.state
                        /\ Applied(d, run, deps).required = run.required
                        /\ Applied(d, run, deps).produced = run.produced
  BY DEF Applied
<1>5. DOMAIN executions' = DOMAIN results \cup DOMAIN executions
  BY <1>1, <1>2
<1>6. ASSUME NEW d \in DOMAIN results, executions'[d].state \in ExistingStates
      PROVE  /\ executions'[d].state = results[d].state
             /\ executions'[d].required = results[d].required
             /\ executions'[d].produced = results[d].produced
  <2>1. executions'[d] = Applied(d, marked[d], joined[d])
    BY <1>1, <1>2
  <2> QED BY <1>3, <1>4, <1>6, <2>1
<1>7. \A d \in DOMAIN executions \ DOMAIN results : executions'[d] = executions[d]
  BY <1>1, <1>2
<1>8. BatchInv' /\ RootInv' /\ ReadInv' /\ GraphInv' /\ ProbeInv'
  BY <1>1, BatchStays, RootStays, ReadStays, GraphStays, ProbeStays
     DEF TInv, Answering, Evaluating, Planning, Early
<1>9. ToldInv' /\ ResultInv' /\ FinishInv'
  BY <1>1, FinishStays DEF ToldInv, ResultInv
<1>10. BuildInv'
  BY <1>1, BuildStays DEF TInv, Before, Planning, Early
<1>11. TruthInv'
  <2>1. SUFFICES ASSUME NEW d \in DOMAIN executions',
                        executions'[d].state \in ExistingStates \ {"CachedRemote"}
                 PROVE  True(d, executions'[d]) /\ store' = store
    BY <1>1 DEF TruthInv, True
  <2>2. CASE d \in DOMAIN results
    BY <1>1, <1>6, <2>1, <2>2 DEF TInv, ResultInv, True
  <2>3. CASE d \notin DOMAIN results
    BY <1>1, <1>5, <1>7, <2>1, <2>3 DEF TInv, TruthInv
  <2> QED BY <2>2, <2>3
<1>12. PlanInv'
  <2>1. RootDrvs' = RootDrvs /\ RootDrvs \subseteq DOMAIN executions'
    BY <1>1, <1>5 DEF TInv, PlanInv, RootDrvs
  <2> QED BY <1>1, <2>1 DEF PlanInv, Early
<1>13. HeldInv'
  <2>1. SUFFICES ASSUME NEW r \in evaluated, executions'[r.drv].state \in ExistingStates
                 PROVE  Held(r)
    BY <1>1 DEF HeldInv, Held
  <2>2. /\ r.drv \in RootDrvs /\ DOMAIN executions = RootDrvs
        /\ executions[r.drv].state \in {"pending", "Cached", "CachedRemote"}
        /\ AskedOf(r) \subseteq executions[r.drv].required
    BY <1>1 DEF TInv, PlanInv, RootDrvs
  <2>3. CASE executions[r.drv].state \in ExistingStates
    BY <2>2, <2>3 DEF TInv, HeldInv
  <2>4. CASE executions[r.drv].state \notin ExistingStates
    <3>1. r.drv \in Pending
      BY <2>2, <2>4 DEF Pending, ExistingStates
    <3>2. r.drv \in DOMAIN results
      BY <1>7, <2>1, <2>2, <2>4
    <3>3. results[r.drv].state \in ExistingStates
      BY <1>6, <2>1, <3>2
    <3>4. /\ True(r.drv, results[r.drv]) /\ results[r.drv].required = executions[r.drv].required
          /\ config.rebuild => r.drv \in json \cup DOMAIN confirmed
      BY <1>1, <3>1, <3>2, <3>3 DEF TInv, ResultInv
    <3>5. PathsOf(r.drv, AskedOf(r)) \subseteq PathsOf(r.drv, results[r.drv].required)
      BY <2>2, <3>4 DEF PathsOf
    <3>6. PathsOf(r.drv, AskedOf(r)) \subseteq store
      BY <3>4, <3>5 DEF True
    <3> QED BY <3>4, <3>6 DEF Held
  <2> QED BY <2>3, <2>4
<1> QED BY <1>8, <1>9, <1>10, <1>11, <1>12, <1>13 DEF TInv

LEMMA RealizedTInv == ASSUME TInv, IInv, IInv', Realized PROVE TInv'
<1>1. /\ pc = "realized" /\ pc' \in {"dependencies", "loadGraph", "settle"}
      /\ pc' = "loadGraph" => lightweight
      /\ diags' = diags \cup probeDiags
      /\ UNCHANGED <<request, config, roots, evaluated, streamVars, availability, probeDiags, asked,
                     absent, store, exit, json, confirmed, lightweight, graph, executions>>
  BY DEF Realized, requestVars, realizationVars, probeVars, buildVars, planVars
<1>2. BatchInv' /\ RootInv' /\ ReadInv' /\ GraphInv' /\ ProbeInv'
  BY <1>1, BatchStays, RootStays, ReadStays, GraphStays, ProbeStays
     DEF TInv, Answering, Evaluating, Planning, Early
<1>3. ToldInv'
  <2>1. Warned' => Told'
    BY <1>1 DEF Warned, Told
  <2> QED BY <1>1, <2>1 DEF ToldInv
<1>4. ResultInv' /\ FinishInv'
  BY <1>1, FinishStays DEF ResultInv
<1>5. BuildInv' /\ TruthInv' /\ PlanInv' /\ HeldInv'
  <2>1. /\ Before' => Before
        /\ Asking' => Asking
        /\ Holding' => Holding
    BY <1>1 DEF Before, Asking, Holding, Planning, Early
  <2> QED BY <1>1, <2>1, BuildStays, TruthStays, PlanStays, HeldStays DEF TInv, Early
<1> QED BY <1>2, <1>3, <1>4, <1>5 DEF TInv

------------------------------------------------------------------------------
(* The dependencies are looked at *)

LEMMA ObservedTruth ==
  ASSUME TInv, IInv, NEW known, In(known, "Local") \subseteq store, NEW d
  PROVE  LET seen == Observed(known, d)
         IN /\ seen.state \in ExistingStates \ {"CachedRemote"} => True(d, seen)
            /\ d \in DOMAIN executions /\ seen.state \in ExistingStates =>
                 executions[d].state \in ExistingStates
<1> DEFINE local == {o \in Required[d] : \E p \in KnownPaths(graph, d, {o}) :
                                           p \in DOMAIN known /\ known[p] = "Local"}
           new == IF d \in DOMAIN executions THEN local \ executions[d].required ELSE local
           seen == Observed(known, d)
<1>1. PathsOf(d, local) \subseteq store
  <2>1. SUFFICES ASSUME NEW o \in local PROVE Path(d, o) \in store
    BY DEF PathsOf
  <2>2. PICK p \in KnownPaths(graph, d, {o}) : p \in In(known, "Local")
    BY DEF In
  <2>3. p \in PathsOf(d, {o})
    BY <2>2, KnownTruth DEF TInv
  <2>4. p = Path(d, o)
    BY <2>3 DEF PathsOf
  <2> QED BY <2>2, <2>4
<1>2. PathsOf(d, new) \subseteq store
  BY <1>1 DEF PathsOf
<1>3. CASE d \notin DOMAIN executions
  <2>1. seen.required = local /\ seen.produced = PathsOf(d, local)
    BY <1>3 DEF Observed
  <2> HIDE DEF seen, local, new
  <2>2. True(d, seen)
    BY <1>1, <2>1 DEF True
  <2> QED BY <1>3, <2>2 DEF seen
<1>4. CASE d \in DOMAIN executions
  <2>1. Plain(executions[d])
    BY <1>4 DEF IInv, Kept
  <2>2. \E made : seen = [executions[d] EXCEPT
                !.required = @ \cup new, !.produced = @ \cup PathsOf(d, new),
                !.state = IF made /\ @ \in {"Cached", "Substituted"} THEN "Realized" ELSE @]
    BY <1>4 DEF Observed
  <2> HIDE DEF seen, local, new
  <2>3. /\ seen.required = executions[d].required \cup new
        /\ seen.produced = executions[d].produced \cup PathsOf(d, new)
        /\ \/ seen.state = executions[d].state
           \/ seen.state = "Realized" /\ executions[d].state \in {"Cached", "Substituted"}
    BY <2>1, <2>2 DEF Plain
  <2>4. PathsOf(d, seen.required) \subseteq PathsOf(d, executions[d].required) \cup PathsOf(d, new)
    BY <2>3 DEF PathsOf
  <2>5. executions[d].state \in ExistingStates \ {"CachedRemote"} => True(d, seen)
    BY <1>2, <1>4, <2>3, <2>4 DEF TInv, TruthInv, True
  <2>6. /\ seen.state \in ExistingStates \ {"CachedRemote"} =>
             executions[d].state \in ExistingStates \ {"CachedRemote"}
        /\ seen.state \in ExistingStates => executions[d].state \in ExistingStates
    BY <2>3 DEF ExistingStates
  <2> QED BY <2>5, <2>6 DEF seen
<1> QED BY <1>3, <1>4

LEMMA DependenciesTInv == ASSUME TInv, IInv, IInv', CompleteDependencies PROVE TInv'
<1>1. /\ pc = "dependencies" /\ pc' = "settle" /\ diags' = diags \cup probeDiags'
      /\ UNCHANGED <<request, config, roots, evaluated, streamVars, asked, store, exit, json, confirmed,
                     lightweight, graph>>
  BY DEF CompleteDependencies, requestVars, buildVars, planVars
<1>2. /\ In(availability, "Local") \subseteq store
      /\ In(availability, "TrustedRemote") \subseteq InCaches
      /\ Warned \/ /\ In(availability, "Missing") \subseteq absent
                   /\ In(availability, "Unknown") \subseteq absent
  BY <1>1 DEF TInv, ProbeInv
<1>3. PICK known :
        /\ RecordObserved(known)
        /\ In(known, "Local") \subseteq store
        /\ In(known, "TrustedRemote") \subseteq InCaches
        /\ Warned' \/ /\ In(known, "Missing") \subseteq absent'
                      /\ In(known, "Unknown") \subseteq absent'
  <2> DEFINE answered == Mark(availability, UnresolvedDependencies \cap store, "Local")
  <2>1. CASE RecordObserved(availability) /\ UNCHANGED <<probeDiags, absent>>
    <3>1. Warned' = Warned
      BY <2>1 DEF Warned
    <3> QED BY <1>2, <2>1, <3>1
  <2>2. CASE /\ RecordObserved(answered)
             /\ absent \subseteq absent' /\ UNCHANGED probeDiags
    <3>1. Warned' = Warned
      BY <2>2 DEF Warned
    <3>2. /\ In(answered, "Local") \subseteq In(availability, "Local") \cup store
          /\ In(answered, "TrustedRemote") \subseteq In(availability, "TrustedRemote")
          /\ In(answered, "Missing") \subseteq In(availability, "Missing")
          /\ In(answered, "Unknown") \subseteq In(availability, "Unknown")
      BY DEF Mark, In
    <3> HIDE DEF answered
    <3> QED BY <1>2, <2>2, <3>1, <3>2
  <2>3. CASE /\ RecordObserved(availability)
             /\ \E d \in ProbeFailures("local_cache_probe_failed", <<>>) :
                  probeDiags' = probeDiags \cup {d}
    BY <1>2, <2>3, FailureWarns
  <2> QED BY <2>1, <2>2, <2>3 DEF CompleteDependencies, ProbeLocal
<1>4. PICK observed :
        /\ availability' = known
        /\ executions' = [d \in DOMAIN executions \cup observed |->
                            IF d \in observed THEN Observed(known, d) ELSE executions[d]]
  BY <1>3 DEF RecordObserved
<1>5. \A d \in DOMAIN executions' :
        /\ executions'[d].state \in ExistingStates \ {"CachedRemote"} => True(d, executions'[d])
        /\ d \in DOMAIN executions /\ executions'[d].state \in ExistingStates =>
             executions[d].state \in ExistingStates
  BY <1>3, <1>4, ObservedTruth DEF TInv, TruthInv
<1>6. RootDrvs' = RootDrvs /\ RootDrvs \subseteq DOMAIN executions
  BY <1>1 DEF TInv, PlanInv, RootDrvs
<1>7. BatchInv' /\ RootInv' /\ ReadInv' /\ GraphInv'
  BY <1>1, BatchStays, RootStays, ReadStays, GraphStays DEF TInv, Answering, Evaluating, Planning
<1>8. ProbeInv' /\ ToldInv'
  <2>1. Warned' => Told'
    BY <1>1 DEF Warned, Told
  <2>2. pc' \notin Early /\ asked' \in 0..Len(Caches)
    BY <1>1 DEF Early, TInv, ProbeInv
  <2>3. ProbeInv'
    BY <1>1, <1>3, <1>4, <2>2 DEF ProbeInv
  <2> QED BY <1>1, <2>1, <2>3 DEF ToldInv
<1>9. BuildInv' /\ ResultInv' /\ FinishInv'
  BY <1>1, BuildStays, FinishStays DEF TInv, Before, Planning, Early, ResultInv
<1>10. TruthInv'
  BY <1>1, <1>5 DEF TruthInv, True
<1>11. PlanInv'
  BY <1>1, <1>4, <1>6 DEF PlanInv, Early
<1>12. HeldInv'
  <2>1. ASSUME NEW r \in evaluated, executions'[r.drv].state \in ExistingStates,
               r.drv \in DOMAIN executions'
        PROVE  Held(r)
    <3>1. r.drv \in DOMAIN executions
      BY <1>6 DEF RootDrvs
    <3> QED BY <1>5, <2>1, <3>1 DEF TInv, HeldInv
  <2> QED BY <1>1, <2>1 DEF HeldInv, Held
<1> QED BY <1>7, <1>8, <1>9, <1>10, <1>11, <1>12 DEF TInv

------------------------------------------------------------------------------
(* The manifest is made *)

\* Roots whose states change, and nothing else of them.
LEMMA RestatedRoots ==
  ASSUME TInv, pc \in {"settle", "finish"}, UNCHANGED <<request, evaluated>>,
         \A root \in roots' : PlainRoot(root),
         \A root \in roots : \E new \in roots' : new.name = root.name /\ new.drv = root.drv,
         \A root \in roots : root.drv = NoDrv => root \in roots',
         pc' # "done" => pc' = "finish" /\ pc = "settle"
  PROVE  RootInv'
<1>1. \A root \in roots' : PlainRoot(root)
  OBVIOUS
<1>2. ASSUME NEW r \in evaluated PROVE \E root \in roots' : root.name = r.name /\ root.drv = r.drv
  <2>1. PICK root \in roots : root.name = r.name /\ root.drv = r.drv
    BY DEF TInv, RootInv
  <2>2. PICK new \in roots' : new.name = root.name /\ new.drv = root.drv
    OBVIOUS
  <2> QED BY <2>1, <2>2
<1>3. \A root \in roots : root.drv = NoDrv => root \in roots'
  OBVIOUS
<1>4. Targets' = Targets
  BY SameTargets
<1>5. \A r \in evaluated : /\ r.drv \in DOMAIN World
                           /\ r.kind # "app" => r.selected # {} /\ r.selected \subseteq r.outs
  BY DEF TInv, RootInv
<1>6. ASSUME pc' = "finish", request.kind # "app", NEW n \in ToSet(Targets)
      PROVE  \/ \E r \in evaluated : r.name = n
             \/ \E root \in roots' : root.drv = NoDrv /\ root.state \notin ExistingStates
  <2>1. \/ \E r \in evaluated : r.name = n
        \/ \E root \in roots : root.drv = NoDrv /\ root.state \notin ExistingStates
    BY <1>6 DEF TInv, RootInv, Evaluating
  <2> QED BY <1>3, <2>1
<1> QED BY <1>1, <1>2, <1>4, <1>5, <1>6 DEF RootInv

LEMMA SettleTInv == ASSUME TInv, IInv, IInv', Settle PROVE TInv'
<1> DEFINE Now(root) == IF root.drv # NoDrv /\ root.drv \in DOMAIN executions
                          THEN [root EXCEPT !.state = executions[root.drv].state] ELSE root
<1>1. /\ pc = "settle" /\ pc' = "finish" /\ roots' = {Now(root) : root \in roots}
      /\ UNCHANGED <<request, config, evaluated, diags, outcome, streamVars, availability, probeDiags,
                     asked, absent, store, exit, json, confirmed, lightweight, graph, executions>>
  BY DEF Settle, requestVars, realizationVars, probeVars, buildVars, planVars
<1>2. \A root \in roots : /\ PlainRoot(Now(root)) /\ Now(root).name = root.name
                          /\ Now(root).drv = root.drv
                          /\ root.drv = NoDrv => Now(root) = root
                          /\ root.drv # NoDrv /\ root.drv \in DOMAIN executions =>
                               Now(root).state = executions[root.drv].state
  BY DEF TInv, RootInv, PlainRoot
<1> HIDE DEF Now
<1>3. RootInv'
  <2>1. \A root \in roots' : PlainRoot(root)
    BY <1>1, <1>2
  <2>2. ASSUME NEW root \in roots
        PROVE  \E new \in roots' : new.name = root.name /\ new.drv = root.drv
    <3>1. Now(root) \in roots' /\ Now(root).name = root.name /\ Now(root).drv = root.drv
      BY <1>1, <1>2
    <3> QED BY <3>1
  <2>3. \A root \in roots : root.drv = NoDrv => root \in roots'
    BY <1>1, <1>2
  <2> QED BY <1>1, <2>1, <2>2, <2>3, RestatedRoots
<1>4. /\ RootDrvs' = RootDrvs /\ RootDrvs \subseteq DOMAIN executions /\ NoDrv \notin RootDrvs
  BY <1>1, RealizationAssumption DEF TInv, PlanInv, RootInv, RootDrvs
<1>5. FinishInv'
  <2>1. ASSUME NEW root \in roots', root.drv \in RootDrvs
        PROVE  root.drv \in DOMAIN executions /\ root.state = executions[root.drv].state
    BY <1>1, <1>2, <1>4, <2>1
  <2>2. outcome' # "Success"
    BY <1>1 DEF IInv, PhaseInv
  <2> QED BY <1>1, <1>4, <2>1, <2>2 DEF FinishInv
<1>6. BatchInv' /\ ReadInv' /\ GraphInv' /\ ProbeInv'
  BY <1>1, BatchStays, ReadStays, GraphStays, ProbeStays DEF TInv, Answering, Planning, Early
<1>7. ToldInv'
  <2>1. Warned \/ In(availability, "Missing") \subseteq absent
    BY DEF TInv, ProbeInv
  <2>2. Warned => Told
    BY <1>1 DEF TInv, ToldInv
  <2>3. Told' = Told
    BY <1>1 DEF Told
  <2> QED BY <1>1, <2>1, <2>2, <2>3 DEF ToldInv
<1>8. BuildInv' /\ TruthInv' /\ ResultInv' /\ PlanInv' /\ HeldInv'
  BY <1>1, BuildStays, TruthStays, PlanStays, HeldStays
     DEF TInv, Before, Planning, Early, ResultInv, Asking, Holding
<1> QED BY <1>3, <1>5, <1>6, <1>7, <1>8 DEF TInv

\* A manifest that reports success has nothing to excuse.
LEMMA SuccessTruth ==
  ASSUME TInv, pc = "finish", OutcomeOf(roots, diags) = "Success"
  PROVE  /\ request.kind # "app" => ToSet(Targets) \subseteq {r.name : r \in evaluated}
         /\ \A r \in evaluated : Held(r)
<1>1. ~Errors /\ \A root \in roots : root.state \in ExistingStates
  BY DEF OutcomeOf, Errors
<1>2. ASSUME request.kind # "app" PROVE ToSet(Targets) \subseteq {r.name : r \in evaluated}
  <2>1. \A n \in ToSet(Targets) : \E r \in evaluated : r.name = n
    BY <1>1, <1>2 DEF TInv, RootInv, Evaluating
  <2> QED BY <2>1
<1>3. ASSUME NEW r \in evaluated PROVE Held(r)
  <2>1. PICK root \in roots : root.drv = r.drv
    BY DEF TInv, RootInv
  <2>2. r.drv \in DOMAIN executions /\ root.state = executions[r.drv].state
    BY <1>1, <2>1 DEF TInv, FinishInv, RootDrvs
  <2> QED BY <1>1, <2>1, <2>2 DEF TInv, HeldInv
<1> QED BY <1>2, <1>3

LEMMA FinishTInv == ASSUME TInv, IInv, IInv', Finish PROVE TInv'
<1> DEFINE Now(root) == IF outcome' = "Cancelled" /\ root.state = "Failed" /\ root.drv # NoDrv
                          THEN [root EXCEPT !.state = "Cancelled"] ELSE root
<1>1. /\ pc = "finish" /\ pc' = "done" /\ roots' = {Now(root) : root \in roots}
      /\ outcome' = OutcomeOf(roots, diags)
      /\ UNCHANGED <<request, config, evaluated, diags, streamVars, availability, probeDiags,
                     asked, absent, store, exit, json, confirmed, lightweight, graph, executions>>
  BY DEF Finish, requestVars, realizationVars, probeVars, buildVars, planVars
<1>2. \A root \in roots : /\ PlainRoot(Now(root)) /\ Now(root).name = root.name
                          /\ Now(root).drv = root.drv
                          /\ root.drv = NoDrv => Now(root) = root
  BY DEF TInv, RootInv, PlainRoot
<1> HIDE DEF Now
<1>3. RootInv'
  <2>1. \A root \in roots' : PlainRoot(root)
    BY <1>1, <1>2
  <2>2. ASSUME NEW root \in roots
        PROVE  \E new \in roots' : new.name = root.name /\ new.drv = root.drv
    <3>1. Now(root) \in roots' /\ Now(root).name = root.name /\ Now(root).drv = root.drv
      BY <1>1, <1>2
    <3> QED BY <3>1
  <2>3. \A root \in roots : root.drv = NoDrv => root \in roots'
    BY <1>1, <1>2
  <2> QED BY <1>1, <2>1, <2>2, <2>3, RestatedRoots
<1>4. FinishInv'
  <2>1. Targets' = Targets
    BY <1>1, SameTargets
  <2>2. outcome' = "Success" =>
          /\ request.kind # "app" => ToSet(Targets) \subseteq {r.name : r \in evaluated}
          /\ \A r \in evaluated : Held(r)
    BY <1>1, SuccessTruth
  <2> QED BY <1>1, <2>1, <2>2 DEF FinishInv, Held
<1>5. BatchInv' /\ ReadInv' /\ GraphInv' /\ ProbeInv'
  BY <1>1, BatchStays, ReadStays, GraphStays, ProbeStays DEF TInv, Answering, Planning, Early
<1>6. ToldInv'
  <2>1. Told' = Told /\ Errors' = Errors
    BY <1>1 DEF Told, Errors
  <2> QED BY <1>1, <2>1 DEF TInv, ToldInv
<1>7. BuildInv' /\ TruthInv' /\ ResultInv' /\ PlanInv' /\ HeldInv'
  BY <1>1, BuildStays, TruthStays, PlanStays, HeldStays
     DEF TInv, Before, Planning, Early, ResultInv, Asking, Holding
<1> QED BY <1>3, <1>4, <1>5, <1>6, <1>7 DEF TInv

LEMMA NextTInv == IInv /\ TInv /\ [Next]_vars /\ IInv' => TInv'
<1> SUFFICES ASSUME IInv, TInv, [Next]_vars, IInv' PROVE TInv'
  OBVIOUS
<1>1. CASE EvaluationNext /\ UNCHANGED <<streamVars, realizationVars>>
  BY <1>1, EvaluationTInv
<1>2. CASE Cancel /\ UNCHANGED <<streamVars, realizationVars>>
  BY <1>2, StutterTInv DEF Cancel
<1>3. CASE Complete \/ ProbeRoots
  BY <1>3, CompleteTInv, ProbeRootsTInv
<1>4. CASE ShowGraph \/ ReadGraph \/ GraphRunFails \/ GraphLoaded
  BY <1>4, ShowGraphTInv, ReadGraphTInv, GraphTInv
<1>5. CASE PlanProbes \/ ProbeUnknown \/ ProbeRemote \/ ProbesEnd
  BY <1>5, PlanProbesTInv, ProbesTInv
<1>6. CASE Plan \/ Build
  BY <1>6, PlanTInv, BuildTInv
<1>7. CASE GatherSuccess \/ GatherFailure \/ GatherUnfinished \/ ApplyResults
  BY <1>7, GatherTInv, ApplyTInv
<1>8. CASE Realized \/ CompleteDependencies \/ Settle \/ Finish
  BY <1>8, RealizedTInv, DependenciesTInv, SettleTInv, FinishTInv
<1>9. CASE Done \/ UNCHANGED vars
  BY <1>9, StutterTInv DEF Done, vars, evaluationVars
<1> QED
  BY <1>1, <1>2, <1>3, <1>4, <1>5, <1>6, <1>7, <1>8, <1>9 DEF Next

\* What the manifest says is so holds in every state of every request, for any documents
\* that tell the truth.
THEOREM TruthHolds == Spec => []TInv
BY InitTInv, NextTInv, InvariantHolds, PTL DEF Spec

\* However a build ended and whatever the observer heard of it, no node is called present
\* of which an output that was needed is missing, and no output is called missing that
\* nobody could look for without a word of it.
THEOREM NodesTellTheTruth == Spec => []NodesAreTruthful
<1>1. TInv => NodesAreTruthful
  <2>1. SUFFICES ASSUME TInv PROVE NodesAreTruthful
    OBVIOUS
  <2>2. ASSUME pc = "done", ~(In(availability, "Missing") \subseteq absent)
        PROVE  \E g \in diags : g.code = "local_cache_probe_failed" \/ g.severity = "Error"
    <3>1. Told \/ Errors
      BY <2>1, <2>2 DEF TInv, ToldInv
    <3> QED BY <3>1 DEF Told, Errors
  <2> QED BY <2>1, <2>2 DEF TInv, TruthInv, True, NodesAreTruthful
<1> QED BY <1>1, TruthHolds, PTL

\* A request that reports success has all that it was asked for, however many roots,
\* batches and caches there are and whatever went wrong on the way.
THEOREM SuccessIsReal == Spec => []SuccessIsRealized
<1>1. TInv => SuccessIsRealized
  BY DEF TInv, RootInv, FinishInv, Held, SuccessIsRealized
<1> QED BY <1>1, TruthHolds, PTL

------------------------------------------------------------------------------
(* Names in order, and what is kept of them *)

\* The rank of a number in a set.
Rank(S, x) == Cardinality({y \in S : y < x})

LEMMA RankGrows ==
  ASSUME NEW S \in SUBSET Nat, IsFiniteSet(S), NEW x \in S
  PROVE  /\ Rank(S, x) \in 0..(Cardinality(S) - 1)
         /\ \A y \in S : x < y => Rank(S, x) < Rank(S, y)
<1>1. ASSUME NEW T \in SUBSET S, {y \in S : y < x} \cup {x} \subseteq T
      PROVE  Rank(S, x) \in Nat /\ Cardinality(T) \in Nat /\ Rank(S, x) + 1 <= Cardinality(T)
  <2> DEFINE below == {y \in S : y < x}
  <2>1. IsFiniteSet(below) /\ IsFiniteSet(T)
    BY FS_Subset
  <2>2. x \notin below /\ below \cup {x} \in SUBSET T
    BY <1>1
  <2> HIDE DEF below
  <2>3. Cardinality(below \cup {x}) = Cardinality(below) + 1
    BY <2>1, <2>2, FS_AddElement
  <2>4. Cardinality(below \cup {x}) <= Cardinality(T)
    BY <2>1, <2>2, FS_Subset
  <2>5. Cardinality(below) \in Nat /\ Cardinality(T) \in Nat
    BY <2>1, FS_CardinalityType
  <2> QED BY <2>3, <2>4, <2>5 DEF Rank, below
<1>2. Rank(S, x) \in 0..(Cardinality(S) - 1)
  <2>1. Rank(S, x) \in Nat /\ Cardinality(S) \in Nat /\ Rank(S, x) + 1 <= Cardinality(S)
    BY <1>1
  <2> QED BY <2>1
<1>3. ASSUME NEW y \in S, x < y PROVE Rank(S, x) < Rank(S, y)
  <2> DEFINE T == {z \in S : z < y}
  <2>1. T \in SUBSET S /\ {z \in S : z < x} \cup {x} \subseteq T
    <3>1. \A z \in S : z < x => z < y
      <4>1. x \in Nat /\ y \in Nat /\ \A z \in S : z \in Nat
        OBVIOUS
      <4> QED BY <1>3, <4>1
    <3> QED BY <1>3, <3>1
  <2> HIDE DEF T
  <2>2. Rank(S, x) \in Nat /\ Cardinality(T) \in Nat /\ Rank(S, x) + 1 <= Cardinality(T)
    BY <1>1, <2>1
  <2> QED BY <2>2 DEF Rank, T
<1> QED BY <1>2, <1>3

\* Ascending lists the members of a set, each after those that are less.
LEMMA AscendingIsSorted ==
  ASSUME NEW S \in SUBSET Nat, IsFiniteSet(S)
  PROVE  /\ DOMAIN Ascending(S) = 1..Cardinality(S) /\ Cardinality(S) \in Nat
         /\ \A i \in 1..Cardinality(S) : Ascending(S)[i] \in S
         /\ \A i, j \in 1..Cardinality(S) : i < j => Ascending(S)[i] < Ascending(S)[j]
         /\ \A x \in S : \E i \in 1..Cardinality(S) : x = Ascending(S)[i]
<1> DEFINE n == Cardinality(S)
           rank == [x \in S |-> Rank(S, x)]
<1>1. n \in Nat
  BY FS_CardinalityType
<1>2. rank \in Injection(S, 0..(n - 1))
  <2>1. rank \in [S -> 0..(n - 1)]
    BY RankGrows
  <2>2. ASSUME NEW x \in S, NEW y \in S, rank[x] = rank[y] PROVE x = y
    <3>1. Rank(S, x) = Rank(S, y) /\ Rank(S, x) \in Int
      BY <2>2, RankGrows
    <3>2. ~(x < y) /\ ~(y < x)
      BY <3>1, RankGrows
    <3> QED BY <3>2
  <2> HIDE DEF rank
  <2> QED BY <2>1, <2>2 DEF Injection, IsInjective
<1>3. \A i \in 1..n : \E x \in S : Rank(S, x) = i - 1
  <2>1. IsFiniteSet(0..(n - 1)) /\ Cardinality(0..(n - 1)) = n
    <3>1. 0 \in Int /\ n - 1 \in Int
      BY <1>1
    <3> QED BY <1>1, <3>1, FS_Interval
  <2>2. rank \in Surjection(S, 0..(n - 1))
    BY <1>2, <2>1, FS_Injection DEF n
  <2>3. \A i \in 1..n : i - 1 \in 0..(n - 1)
    BY <1>1
  <2> QED BY <2>2, <2>3 DEF Surjection
<1>4. DOMAIN Ascending(S) = 1..n
  BY DEF Ascending
<1>5. ASSUME NEW i \in 1..n PROVE Ascending(S)[i] \in S /\ Rank(S, Ascending(S)[i]) = i - 1
  BY <1>3 DEF Ascending, Rank
<1> HIDE DEF rank
<1>6. ASSUME NEW i \in 1..n, NEW j \in 1..n, i < j PROVE Ascending(S)[i] < Ascending(S)[j]
  <2> DEFINE x == Ascending(S)[i]
             y == Ascending(S)[j]
  <2>1. x \in S /\ y \in S /\ Rank(S, x) = i - 1 /\ Rank(S, y) = j - 1
    BY <1>5
  <2> HIDE DEF x, y
  <2>2. ~(y < x) /\ x # y
    <3>1. y < x => Rank(S, y) < Rank(S, x)
      BY <2>1, RankGrows
    <3> QED BY <1>1, <1>6, <2>1, <3>1
  <2>3. x \in Nat /\ y \in Nat
    BY <2>1
  <2>4. x < y
    BY <2>2, <2>3
  <2> QED BY <2>4 DEF x, y
<1>7. ASSUME NEW x \in S PROVE \E i \in 1..n : x = Ascending(S)[i]
  <2>1. Rank(S, x) \in 0..(n - 1)
    BY RankGrows
  <2> DEFINE i == Rank(S, x) + 1
             y == Ascending(S)[i]
  <2>2. i \in 1..n /\ i - 1 = Rank(S, x)
    BY <1>1, <2>1
  <2>3. y \in S /\ Rank(S, y) = Rank(S, x) /\ Rank(S, x) \in Int
    BY <1>5, <2>1, <2>2
  <2> HIDE DEF y, i
  <2>4. ~(x < y) /\ ~(y < x)
    BY <2>3, RankGrows
  <2>5. x = y
    BY <2>3, <2>4
  <2> QED BY <2>2, <2>5 DEF y
<1> QED BY <1>1, <1>4, <1>5, <1>6, <1>7 DEF n

------------------------------------------------------------------------------
(* What the members of a set cost *)

\* A function of a set is taken member by member.
Chosen(s) == CHOOSE x \in s : TRUE
Added(w, g, s) == IF s = {} THEN 0 ELSE w[Chosen(s)] + g[s \ {Chosen(s)}]
IsSum(w, S, g) == g = [s \in SUBSET S |-> Added(w, g, s)]

\* A sum is well defined.
LEMMA SumExists ==
  ASSUME NEW S, IsFiniteSet(S), NEW w
  PROVE  \E g : IsSum(w, S, g)
<1> DEFINE n == Cardinality(S)
           Small(m) == {s \in SUBSET S : Cardinality(s) <= m}
           P == {m \in 0..n : \E g : g = [s \in Small(m) |-> Added(w, g, s)]}
<1>1. n \in Nat /\ \A s \in SUBSET S : IsFiniteSet(s) /\ Cardinality(s) \in 0..n
  BY FS_CardinalityType, FS_Subset
<1>2. ASSUME NEW s \in SUBSET S, s # {}
      PROVE  s \ {Chosen(s)} \in SUBSET S /\ Cardinality(s \ {Chosen(s)}) = Cardinality(s) - 1
  BY <1>1, <1>2, FS_RemoveElement DEF Chosen
<1>3. 0 \in P
  <2> DEFINE g == [s \in Small(0) |-> 0]
  <2>1. \A s \in Small(0) : s = {}
    <3>1. ASSUME NEW s \in Small(0) PROVE s = {}
      <4>1. Cardinality(s) = 0 /\ IsFiniteSet(s)
        BY <1>1
      <4> QED BY <4>1, FS_EmptySet
    <3> QED BY <3>1
  <2>2. g = [s \in Small(0) |-> Added(w, g, s)]
    BY <2>1 DEF Added
  <2> HIDE DEF g, Small
  <2>3. \E h : h = [s \in Small(0) |-> Added(w, h, s)]
    BY <2>2
  <2> QED BY <1>1, <2>3
<1>4. ASSUME NEW m \in 1..n, m - 1 \in P PROVE m \in P
  <2>1. PICK g : g = [s \in Small(m - 1) |-> Added(w, g, s)]
    BY <1>4
  <2> DEFINE h == [s \in Small(m) |-> Added(w, g, s)]
  <2>2. ASSUME NEW s \in Small(m) PROVE Added(w, g, s) = Added(w, h, s)
    <3>1. CASE s = {}
      BY <3>1 DEF Added
    <3>2. CASE s # {}
      <4> DEFINE t == s \ {Chosen(s)}
      <4>1. t \in SUBSET S /\ Cardinality(t) = Cardinality(s) - 1 /\ Cardinality(s) \in Nat
        BY <1>1, <1>2, <3>2
      <4>2. t \in Small(m - 1) /\ t \in Small(m)
        BY <4>1
      <4>3. g[t] = Added(w, g, t) /\ h[t] = Added(w, g, t)
        <5> HIDE DEF t, Small
        <5> QED BY <2>1, <4>2
      <4> QED BY <3>2, <4>3 DEF Added
    <3> QED BY <3>1, <3>2
  <2>3. h = [s \in Small(m) |-> Added(w, h, s)]
    BY <2>2
  <2> HIDE DEF h, Small
  <2>4. \E k : k = [s \in Small(m) |-> Added(w, k, s)]
    BY <2>3
  <2> QED BY <2>4
<1>5. n \in P
  <2> HIDE DEF P
  <2> QED BY <1>1, <1>3, <1>4, OneByOne
<1>6. Small(n) = SUBSET S
  BY <1>1
<1> QED BY <1>5, <1>6 DEF IsSum

\* The sums over the subsets of a set do not depend on the order or on that set.
LEMMA SumsAgree ==
  ASSUME NEW S, NEW T, IsFiniteSet(S), IsFiniteSet(T), NEW g, NEW h, NEW v, NEW w,
         IsSum(v, S, g), IsSum(w, T, h)
  PROVE  \A s \in SUBSET (S \cap T) : (\A x \in s : v[x] = w[x]) => g[s] = h[s]
<1> DEFINE n == Cardinality(S)
           Alike == {s \in SUBSET (S \cap T) : \A x \in s : v[x] = w[x]}
           P == {m \in 0..n : \A s \in Alike : Cardinality(s) = m => g[s] = h[s]}
<1>1. n \in Nat /\ \A s \in Alike : IsFiniteSet(s) /\ Cardinality(s) \in 0..n
  <2>1. \A s \in Alike : s \in SUBSET S
    OBVIOUS
  <2> QED BY <2>1, FS_CardinalityType, FS_Subset
<1>2. \A s \in SUBSET (S \cap T) : g[s] = Added(v, g, s) /\ h[s] = Added(w, h, s)
  BY DEF IsSum
<1>3. 0 \in P
  <2>1. ASSUME NEW s \in Alike, Cardinality(s) = 0 PROVE g[s] = h[s]
    <3>1. s = {}
      BY <1>1, <2>1, FS_EmptySet
    <3> QED BY <1>2, <3>1 DEF Added
  <2> QED BY <1>1, <2>1
<1>4. ASSUME NEW m \in 1..n, m - 1 \in P PROVE m \in P
  <2>1. ASSUME NEW s \in Alike, Cardinality(s) = m PROVE g[s] = h[s]
    <3>1. s # {}
      BY <2>1, FS_EmptySet
    <3> DEFINE t == s \ {Chosen(s)}
    <3>2. Cardinality(t) = m - 1
      BY <1>1, <2>1, <3>1, FS_RemoveElement DEF Chosen
    <3>3. t \in Alike /\ v[Chosen(s)] = w[Chosen(s)]
      BY <3>1 DEF Chosen
    <3> HIDE DEF t
    <3>4. g[t] = h[t]
      BY <1>4, <3>2, <3>3
    <3> QED BY <1>2, <3>1, <3>3, <3>4 DEF Added, t
  <2> QED BY <2>1
<1>5. \A m \in 0..n : m \in P
  <2> HIDE DEF P
  <2> QED BY <1>1, <1>3, <1>4, OneByOne
<1> QED BY <1>1, <1>5

\* Each member adds its part.
LEMMA SumGrows ==
  ASSUME NEW U, IsFiniteSet(U), NEW w, \A x \in U : w[x] \in Nat, NEW g, IsSum(w, U, g)
  PROVE  /\ g[{}] = 0
         /\ \A s \in SUBSET U : g[s] \in Nat
         /\ \A s \in SUBSET U : \A x \in s : g[s] = g[s \ {x}] + w[x]
<1> DEFINE n == Cardinality(U)
<1>1. n \in Nat
  BY FS_CardinalityType
<1>2. \A s \in SUBSET U : IsFiniteSet(s) /\ Cardinality(s) \in 0..n
  BY <1>1, FS_CardinalityType, FS_Subset
<1> HIDE DEF n
<1>4. \A s \in SUBSET U : g[s] = Added(w, g, s)
  BY DEF IsSum
<1>6. \A s \in SUBSET U : g[s] \in Nat
  <2> DEFINE P == {m \in 0..n : \A s \in SUBSET U : Cardinality(s) = m => g[s] \in Nat}
  <2>1. 0 \in P
    <3>1. ASSUME NEW s \in SUBSET U, Cardinality(s) = 0 PROVE g[s] \in Nat
      <4>1. s = {}
        BY <1>2, <3>1, FS_EmptySet
      <4>2. g[s] = 0
        BY <1>4, <4>1 DEF Added
      <4> QED BY <4>2
    <3> QED BY <1>1, <3>1
  <2>2. ASSUME NEW m \in 1..n, m - 1 \in P PROVE m \in P
    <3>1. ASSUME NEW s \in SUBSET U, Cardinality(s) = m PROVE g[s] \in Nat
      <4> DEFINE c == Chosen(s)
                 t == s \ {c}
      <4>1. s # {} /\ IsFiniteSet(s)
        BY <1>2, <3>1, FS_EmptySet
      <4>2. c \in s /\ g[s] = w[c] + g[t]
        BY <1>4, <4>1 DEF Added, Chosen
      <4> HIDE DEF c
      <4>3. t \in SUBSET U /\ Cardinality(t) = m - 1
        BY <3>1, <4>1, <4>2, FS_RemoveElement
      <4> HIDE DEF t
      <4>4. g[t] \in Nat /\ w[c] \in Nat
        BY <2>2, <4>2, <4>3
      <4> QED BY <4>2, <4>4
    <3> QED BY <3>1
  <2>3. \A m \in 0..n : m \in P
    <3> HIDE DEF P
    <3> QED BY <1>1, <2>1, <2>2, OneByOne
  <2> QED BY <1>2, <2>3
<1> DEFINE Sums(s) == \A x \in s : g[s] = g[s \ {x}] + w[x]
           P == {m \in 0..n : \A s \in SUBSET U : Cardinality(s) = m => Sums(s)}
<1>7. 0 \in P
  <2>1. ASSUME NEW s \in SUBSET U, Cardinality(s) = 0 PROVE Sums(s)
    <3>1. s = {}
      BY <1>2, <2>1, FS_EmptySet
    <3> QED BY <3>1
  <2> HIDE DEF Sums
  <2> QED BY <1>1, <2>1
<1>8. ASSUME NEW m \in 1..n, m - 1 \in P PROVE m \in P
  <2>1. ASSUME NEW s \in SUBSET U, Cardinality(s) = m PROVE Sums(s)
    <3> DEFINE c == Chosen(s)
    <3>1. s # {} /\ IsFiniteSet(s)
      BY <1>2, <2>1, FS_EmptySet
    <3>2. c \in s /\ g[s] = w[c] + g[s \ {c}]
      BY <1>4, <3>1 DEF Added, Chosen
    <3> HIDE DEF c
    <3>3. ASSUME NEW x \in s PROVE  Sums(s \ {x})
      <4>1. s \ {x} \in SUBSET U /\ Cardinality(s \ {x}) = m - 1
        BY <2>1, <3>1, FS_RemoveElement
      <4> HIDE DEF Sums
      <4> QED BY <1>8, <4>1
    <3>4. \A x \in s : w[x] \in Nat
      OBVIOUS
    <3>5. ASSUME NEW x \in s, x # c PROVE g[s] = g[s \ {x}] + w[x]
      <4> DEFINE r == s \ {x, c}
      <4>1. (s \ {c}) \ {x} = r /\ (s \ {x}) \ {c} = r /\ r \in SUBSET U
        OBVIOUS
      <4>2. x \in s \ {c} /\ c \in s \ {x}
        BY <3>2, <3>5
      <4> HIDE DEF r
      <4>3. Sums(s \ {x}) /\ Sums(s \ {c})
        <5> HIDE DEF Sums
        <5> QED BY <3>2, <3>3
      <4>4. g[s \ {c}] = g[r] + w[x] /\ g[s \ {x}] = g[r] + w[c]
        BY <4>1, <4>2, <4>3
      <4>5. g[r] \in Nat /\ w[x] \in Nat /\ w[c] \in Nat
        BY <1>6, <3>2, <3>4, <4>1
      <4> QED BY <3>2, <4>4, <4>5
    <3>6. g[s] = g[s \ {c}] + w[c]
      <4>1. g[s \ {c}] \in Nat /\ w[c] \in Nat
        BY <1>6, <3>2, <3>4
      <4> QED BY <3>2, <4>1
    <3> QED BY <3>5, <3>6
  <2> HIDE DEF Sums
  <2> QED BY <2>1
<1>9. \A s \in SUBSET U : Sums(s)
  <2>1. \A m \in 0..n : m \in P
    <3> HIDE DEF P
    <3> QED BY <1>1, <1>7, <1>8, OneByOne
  <2> HIDE DEF Sums
  <2> QED BY <1>2, <2>1
<1>11. g[{}] = 0
  BY <1>4 DEF Added
<1> QED BY <1>6, <1>9, <1>11

\* The sum of the library is that function.
LEMMA SumIsSum ==
  ASSUME NEW w, NEW U, IsFiniteSet(U), NEW g, IsSum(w, U, g), NEW S \in SUBSET U
  PROVE  SumFunctionOnSet(w, S) = g[S]
<1> DEFINE Body(h, s) == IF s = {} THEN 0
                         ELSE w[CHOOSE x \in s : TRUE] + h[s \ {CHOOSE x \in s : TRUE}]
           Run1(h) == h = [s \in SUBSET S |-> Body(h, s)]
           iter == CHOOSE h : Run1(h)
<1>1. SumFunctionOnSet(w, S) = iter[S]
  BY DEF SumFunctionOnSet, FoldFunctionOnSet, MapThenFoldSet
<1>2. \A h, s : Body(h, s) = Added(w, h, s)
  BY DEF Added, Chosen
<1> HIDE DEF Body
<1>3. ASSUME NEW h PROVE Run1(h) <=> IsSum(w, S, h)
  BY <1>2 DEF IsSum
<1>4. IsFiniteSet(S)
  BY FS_Subset
<1>5. IsSum(w, S, iter)
  <2> HIDE DEF Run1
  <2>1. \E h : Run1(h)
    BY <1>3, <1>4, SumExists
  <2>2. Run1(iter)
    BY <2>1
  <2> HIDE DEF iter
  <2> QED BY <1>3, <2>2
<1> HIDE DEF iter
<1>6. S \in SUBSET (S \cap U)
  OBVIOUS
<1> QED BY <1>1, <1>4, <1>5, <1>6, SumsAgree

\* Each name adds its size.
LEMMA TotalGrows ==
  /\ Total({}) = 0
  /\ \A S \in SUBSET DOMAIN Flake : Total(S) \in Nat
  /\ \A S \in SUBSET DOMAIN Flake : \A x \in DOMAIN Flake \ S :
       Total(S \cup {x}) = Total(S) + Size[x]
<1> DEFINE U == DOMAIN Flake
<1>1. IsFiniteSet(U) /\ \A x \in U : Size[x] \in Nat
  BY EvaluationAssumption
<1> HIDE DEF U
<1>2. PICK g : IsSum(Size, U, g)
  BY <1>1, SumExists
<1>3. \A S \in SUBSET U : Total(S) = g[S]
  <2>1. \A S : Total(S) = SumFunctionOnSet(Size, S)
    BY DEF Total, MapThenSumSet, SumFunctionOnSet, FoldFunctionOnSet
  <2> QED BY <1>1, <1>2, <2>1, SumIsSum
<1>4. /\ g[{}] = 0
      /\ \A s \in SUBSET U : g[s] \in Nat
      /\ \A s \in SUBSET U : \A x \in s : g[s] = g[s \ {x}] + Size[x]
  BY <1>1, <1>2, SumGrows
<1>5. ASSUME NEW S \in SUBSET U, NEW x \in U \ S PROVE Total(S \cup {x}) = Total(S) + Size[x]
  <2>1. S \cup {x} \in SUBSET U /\ (S \cup {x}) \ {x} = S /\ x \in S \cup {x}
    OBVIOUS
  <2>2. g[S \cup {x}] = g[(S \cup {x}) \ {x}] + Size[x]
    BY <1>4, <2>1
  <2> QED BY <1>3, <2>1, <2>2
<1> QED BY <1>3, <1>4, <1>5 DEF U

\* Of one member more, or of another value for one, a sum grows by that value at most.
LEMMA SumWith ==
  ASSUME NEW w, IsFiniteSet(DOMAIN w), \A x \in DOMAIN w : w[x] \in Nat, NEW k, NEW c \in Nat
  PROVE  /\ SumFunction(w) \in Nat
         /\ SumFunction(With(w, k, c)) \in Nat
         /\ SumFunction(With(w, k, c)) <= SumFunction(w) + c
<1> DEFINE S == DOMAIN w
           T == S \cup {k}
           v == With(w, k, c)
           R == S \ {k}
<1>1. /\ IsFiniteSet(T) /\ DOMAIN v = T /\ v[k] = c
      /\ \A x \in R : v[x] = w[x]
      /\ \A x \in T : v[x] \in Nat
  BY FS_AddElement DEF With
<1> HIDE DEF v
<1>2. PICK g : IsSum(w, S, g)
  BY SumExists
<1>3. PICK h : IsSum(v, T, h)
  BY <1>1, SumExists
<1>4. SumFunction(w) = g[S] /\ SumFunction(v) = h[T]
  <2>1. S \in SUBSET S /\ T \in SUBSET T
    OBVIOUS
  <2>2. SumFunctionOnSet(w, S) = g[S]
    BY <1>2, <2>1, SumIsSum
  <2>3. SumFunctionOnSet(v, T) = h[T]
    BY <1>1, <1>3, <2>1, SumIsSum
  <2> QED BY <1>1, <2>2, <2>3 DEF SumFunction
<1>5. g[R] = h[R]
  <2>1. R \in SUBSET (S \cap T)
    OBVIOUS
  <2> QED BY <1>1, <1>2, <1>3, <2>1, SumsAgree
<1>6. /\ \A s \in SUBSET S : g[s] \in Nat
      /\ \A s \in SUBSET S : \A x \in s : g[s] = g[s \ {x}] + w[x]
  <2>1. IsFiniteSet(S) /\ \A x \in S : w[x] \in Nat
    OBVIOUS
  <2> HIDE DEF S
  <2> QED BY <1>2, <2>1, SumGrows
<1>7. /\ \A s \in SUBSET T : h[s] \in Nat
      /\ \A s \in SUBSET T : \A x \in s : h[s] = h[s \ {x}] + v[x]
  <2>1. IsFiniteSet(T) /\ \A x \in T : v[x] \in Nat
    BY <1>1
  <2> HIDE DEF T
  <2> QED BY <1>3, <2>1, SumGrows
<1>8. T \ {k} = R /\ k \in T /\ R \in SUBSET S /\ R \in SUBSET T
  OBVIOUS
<1>9. h[T] = h[R] + c /\ h[T] \in Nat
  BY <1>1, <1>7, <1>8
<1>10. g[R] <= g[S] /\ g[S] \in Nat /\ g[R] \in Nat
  <2>1. CASE k \in S
    <3>1. g[S] = g[S \ {k}] + w[k] /\ w[k] \in Nat /\ g[R] \in Nat
      BY <1>6, <1>8, <2>1
    <3> QED BY <3>1
  <2>2. CASE k \notin S
    <3>1. R = S
      BY <2>2
    <3> HIDE DEF R
    <3>2. g[R] \in Nat
      BY <1>6, <1>8
    <3> QED BY <3>1, <3>2
  <2> QED BY <2>1, <2>2
<1> QED BY <1>4, <1>5, <1>9, <1>10 DEF v

\* Of nothing a sum is nothing.
LEMMA SumOfNone ==
  ASSUME NEW w, DOMAIN w = {}
  PROVE  SumFunction(w) = 0
<1>1. IsFiniteSet({})
  BY FS_EmptySet
<1>2. PICK g : IsSum(w, {}, g)
  BY <1>1, SumExists
<1>3. SumFunctionOnSet(w, {}) = g[{}]
  BY <1>1, <1>2, SumIsSum
<1>4. g[{}] = 0
  BY <1>1, <1>2, SumGrows
<1> QED BY <1>3, <1>4 DEF SumFunction

------------------------------------------------------------------------------
(* What is kept does not depend on the order of the workers *)

\* What an answer is kept for, beside those that were kept before it.
AnsweredIn(batches, name) == \E i \in DOMAIN batches : name \in batches[i].usable
Fitting(kept, name) ==
  /\ Selected(name) # {}
  /\ Selected(name) \subseteq Flake[name].outs
  /\ Total({k \in kept : k < name}) + Size[name] <= MaxMemory

\* Where the fold stands when it has seen these names.
Tally(a, seen, batches) ==
  /\ DOMAIN a = {"bytes", "kept", "diags"}
  /\ a.kept \in SUBSET (seen \cap DOMAIN Flake)
  /\ a.bytes = Total(a.kept)
  /\ \A name \in seen : name \in a.kept <=> AnsweredIn(batches, name) /\ Fitting(a.kept, name)

LEMMA AnswerTallies ==
  ASSUME NEW batches, NEW names \in SUBSET Nat, NEW seen \in SUBSET names, NEW x \in names,
         \A s \in seen : s < x, NEW batch, batch.usable \subseteq DOMAIN Flake,
         x \in batch.usable <=> AnsweredIn(batches, x), NEW a, Tally(a, seen, batches)
  PROVE  Tally(Answer(a, names, batch, x), seen \cup {x}, batches)
<1> DEFINE b == Answer(a, names, batch, x)
           fits == x \in batch.usable /\ Fitting(a.kept, x)
<1>1. a.kept \subseteq seen /\ x \notin seen /\ {k \in a.kept : k < x} = a.kept
  <2>1. x \in Nat /\ \A s \in seen : s \in Nat
    OBVIOUS
  <2>2. a.kept \subseteq seen
    BY DEF Tally
  <2>3. x \notin seen
    <3>1. ~(x < x)
      BY <2>1
    <3> QED BY <3>1
  <2> HIDE DEF b
  <2> QED BY <2>2, <2>3
<1>2. /\ DOMAIN b = {"bytes", "kept", "diags"}
      /\ IF fits THEN b.kept = a.kept \cup {x} /\ b.bytes = a.bytes + Size[x]
                 ELSE b.kept = a.kept /\ b.bytes = a.bytes
  <2>1. \A code : /\ DOMAIN Reject(a, code, x) = {"bytes", "kept", "diags"}
                  /\ Reject(a, code, x).kept = a.kept /\ Reject(a, code, x).bytes = a.bytes
    <3>1. \A v : /\ DOMAIN [a EXCEPT !.diags = v] = {"bytes", "kept", "diags"}
                 /\ [a EXCEPT !.diags = v].kept = a.kept
                 /\ [a EXCEPT !.diags = v].bytes = a.bytes
      BY DEF Tally
    <3> QED BY <3>1 DEF Reject
  <2>2. CASE x \notin batch.usable
    BY <2>1, <2>2 DEF Answer
  <2>3. CASE x \in batch.usable
    <3>1. b = Retain(a, x)
      BY <2>3 DEF Answer
    <3>2. Fitting(a.kept, x) <=> /\ Selected(x) # {} /\ Selected(x) \subseteq Flake[x].outs
                                 /\ a.bytes + Size[x] <= MaxMemory
      BY <1>1 DEF Fitting, Tally
    <3>3. a.bytes + Size[x] <= MaxMemory <=> ~(a.bytes + Size[x] > MaxMemory)
      <4>1. a.bytes \in Nat /\ Size[x] \in Nat /\ MaxMemory \in Nat
        BY <2>3, TotalGrows, EvaluationAssumption DEF Tally
      <4> QED BY <4>1
    <3>4. CASE Fitting(a.kept, x)
      <4>1. Retain(a, x) = [a EXCEPT !.bytes = @ + Size[x], !.kept = @ \cup {x}]
        BY <3>2, <3>3, <3>4 DEF Retain
      <4> QED BY <2>3, <3>1, <3>4, <4>1 DEF Tally
    <3>5. CASE ~Fitting(a.kept, x)
      <4>1. \E code : Retain(a, x) = Reject(a, code, x)
        BY <3>2, <3>3, <3>5 DEF Retain
      <4> QED BY <2>1, <3>1, <3>5, <4>1
    <3> QED BY <3>4, <3>5
  <2> QED BY <2>2, <2>3
<1> HIDE DEF b
<1>3. b.kept \in SUBSET ((seen \cup {x}) \cap DOMAIN Flake)
  BY <1>2 DEF Tally
<1>4. b.bytes = Total(b.kept)
  <2>1. CASE fits
    <3>1. a.kept \in SUBSET DOMAIN Flake /\ x \in DOMAIN Flake \ a.kept
      BY <1>1, <2>1 DEF Tally
    <3> QED BY <1>2, <2>1, <3>1, TotalGrows DEF Tally
  <2>2. CASE ~fits
    BY <1>2, <2>2 DEF Tally
  <2> QED BY <2>1, <2>2
<1>5. ASSUME NEW name \in seen \cup {x}
      PROVE  {k \in b.kept : k < name} = {k \in a.kept : k < name}
  <2>1. ~(x < name)
    <3>1. x \in Nat /\ \A s \in seen : s \in Nat
      OBVIOUS
    <3> QED BY <3>1
  <2> QED BY <1>2, <2>1
<1>6. ASSUME NEW name \in seen \cup {x}
      PROVE  name \in b.kept <=> AnsweredIn(batches, name) /\ Fitting(b.kept, name)
  <2>1. Fitting(b.kept, name) <=> Fitting(a.kept, name)
    BY <1>5 DEF Fitting
  <2>2. CASE name \in seen
    BY <1>1, <1>2, <2>1, <2>2 DEF Tally
  <2>3. CASE name = x
    BY <1>1, <1>2, <2>1, <2>3
  <2> QED BY <2>2, <2>3
<1> QED BY <1>2, <1>3, <1>4, <1>6 DEF Tally, b

\* The names of the batches ascend, and the answers are for names of the batch.
Ordered(batches, n, names) ==
  /\ DOMAIN batches = 1..n
  /\ \A i \in 1..n :
       /\ Readable(batches[i])
       /\ batches[i].usable \subseteq ToSet(batches[i].names)
       /\ ToSet(batches[i].names) \subseteq names
       /\ \A k, l \in DOMAIN batches[i].names : k < l => batches[i].names[k] < batches[i].names[l]
  /\ \A i, j \in 1..n : i < j =>
       \A x \in ToSet(batches[i].names), y \in ToSet(batches[j].names) : x < y

LEMMA AnswersTally ==
  ASSUME NEW names \in SUBSET Nat, NEW n \in Nat, NEW batches, Ordered(batches, n, names),
         NEW i \in 1..n, NEW seen \in SUBSET names,
         \A s \in seen : \A y \in ToSet(batches[i].names) : s < y,
         NEW a, Tally(a, seen, batches)
  PROVE  Tally(Answers(a, names, batches[i]), seen \cup ToSet(batches[i].names), batches)
<1> DEFINE batch == batches[i]
           fold == [of |-> "answers", names |-> names, batch |-> batch]
<1>1. PICK m \in Nat : DOMAIN batch.names = 1..m
  BY DEF Ordered, Readable
<1>2. PICK read : InTurn(fold, a, batch.names, m, read) /\ Answers(a, names, batch) = read[m]
  BY <1>1, AnswersInTurn
<1>3. \A b, x : Step(fold, b, x) = Answer(b, names, batch, x)
  BY DEF Step
<1>4. \A x \in ToSet(batch.names) : x \in batch.usable <=> AnsweredIn(batches, x)
  <2>1. SUFFICES ASSUME NEW x \in ToSet(batch.names), NEW j \in 1..n, x \in batches[j].usable
                 PROVE  x \in batch.usable
    BY DEF AnsweredIn, Ordered
  <2>2. x \in ToSet(batches[j].names) /\ x \in Nat
    BY <2>1 DEF Ordered
  <2>3. ~(i < j) /\ ~(j < i)
    <3>1. ~(x < x)
      BY <2>2
    <3> QED BY <2>2, <3>1 DEF Ordered
  <2>4. i = j
    BY <2>3
  <2> QED BY <2>1, <2>4
<1>5. /\ batch.usable \subseteq DOMAIN Flake
      /\ \A k \in 1..m : batch.names[k] \in names /\ batch.names[k] \in ToSet(batch.names)
      /\ \A k, l \in 1..m : k < l => batch.names[k] < batch.names[l]
  BY <1>1 DEF Ordered, Readable, ToSet
<1>6. \A s \in seen, k \in 1..m : s < batch.names[k]
  BY <1>5
<1> DEFINE First(k) == seen \cup {batch.names[l] : l \in 1..k}
           P == {k \in 0..m : Tally(read[k], First(k), batches)}
<1> HIDE DEF batch, fold
<1>7. read[0] = a /\ \A k \in 1..m : read[k] = Answer(read[k - 1], names, batch, batch.names[k])
  BY <1>2, <1>3 DEF InTurn
<1>8. 0 \in P
  <2>1. First(0) = seen
    OBVIOUS
  <2> HIDE DEF First
  <2> QED BY <1>7, <2>1
<1>9. ASSUME NEW k \in 1..m, k - 1 \in P PROVE k \in P
  <2>1. First(k) = First(k - 1) \cup {batch.names[k]}
    <3>1. 1..k = (1..(k - 1)) \cup {k}
      OBVIOUS
    <3> QED BY <3>1
  <2>2. \A s \in First(k - 1) : s < batch.names[k]
    <3>1. \A l \in 1..(k - 1) : l \in 1..m /\ l < k
      OBVIOUS
    <3> QED BY <1>5, <1>6, <3>1
  <2>3. First(k - 1) \in SUBSET names
    <3>1. \A l \in 1..(k - 1) : l \in 1..m
      OBVIOUS
    <3> QED BY <1>5, <3>1
  <2> HIDE DEF First
  <2>4. Tally(read[k - 1], First(k - 1), batches)
    BY <1>9
  <2>5. /\ batch.names[k] \in names
        /\ batch.names[k] \in batch.usable <=> AnsweredIn(batches, batch.names[k])
    BY <1>4, <1>5 DEF batch
  <2>6. Tally(Answer(read[k - 1], names, batch, batch.names[k]),
              First(k - 1) \cup {batch.names[k]}, batches)
    BY <1>5, <2>2, <2>3, <2>4, <2>5, AnswerTallies
  <2> QED BY <1>7, <2>1, <2>6
<1>10. m \in P
  <2>1. m \in 0..m
    OBVIOUS
  <2> HIDE DEF P
  <2> QED BY <1>8, <1>9, <2>1, OneByOne
<1>11. First(m) = seen \cup ToSet(batch.names)
  BY <1>1 DEF batch, ToSet
<1> HIDE DEF First
<1> QED BY <1>2, <1>10, <1>11 DEF batch

LEMMA AssembledTallies ==
  ASSUME NEW names \in SUBSET Nat, NEW n \in Nat, NEW batches, Ordered(batches, n, names)
  PROVE  Tally(Assembled(names, batches), UNION {ToSet(batches[i].names) : i \in 1..n}, batches)
<1> DEFINE fold == [of |-> "batches", names |-> names]
           none == [bytes |-> 0, kept |-> {}, diags |-> {}]
           First(i) == UNION {ToSet(batches[j].names) : j \in 1..i}
<1>1. DOMAIN batches = 1..n
  BY DEF Ordered
<1>2. PICK read : InTurn(fold, none, batches, n, read) /\ Assembled(names, batches) = read[n]
  BY <1>1, BatchesInTurn
<1>3. \A b, x : Step(fold, b, x) = Answers(b, names, x)
  BY DEF Step
<1>4. Tally(none, {}, batches)
  BY TotalGrows DEF Tally
<1> DEFINE P == {i \in 0..n : Tally(read[i], First(i), batches)}
<1> HIDE DEF fold, none
<1>5. read[0] = none /\ \A i \in 1..n : read[i] = Answers(read[i - 1], names, batches[i])
  BY <1>2, <1>3 DEF InTurn
<1>6. 0 \in P
  <2>1. First(0) = {}
    OBVIOUS
  <2> HIDE DEF First
  <2> QED BY <1>4, <1>5, <2>1
<1>7. ASSUME NEW i \in 1..n, i - 1 \in P PROVE i \in P
  <2>1. First(i) = First(i - 1) \cup ToSet(batches[i].names)
    <3>1. 1..i = (1..(i - 1)) \cup {i}
      OBVIOUS
    <3> QED BY <3>1
  <2>2. First(i - 1) \in SUBSET names
    <3>1. \A j \in 1..(i - 1) : ToSet(batches[j].names) \subseteq names
      BY DEF Ordered
    <3> QED BY <3>1
  <2>3. \A s \in First(i - 1) : \A y \in ToSet(batches[i].names) : s < y
    <3>1. ASSUME NEW j \in 1..(i - 1), NEW s \in ToSet(batches[j].names),
                 NEW y \in ToSet(batches[i].names)
          PROVE  s < y
      <4>1. j \in 1..n /\ j < i
        OBVIOUS
      <4> QED BY <4>1 DEF Ordered
    <3> QED BY <3>1
  <2> HIDE DEF First
  <2>4. Tally(read[i - 1], First(i - 1), batches)
    BY <1>7
  <2> QED BY <1>5, <2>1, <2>2, <2>3, <2>4, AnswersTally
<1>8. n \in P
  <2>1. n \in 0..n
    OBVIOUS
  <2> HIDE DEF P
  <2> QED BY <1>6, <1>7, <2>1, OneByOne
<1> HIDE DEF First
<1> QED BY <1>2, <1>8 DEF First

\* Where batch i ends is no further than where the batches before batch j end.
LEMMA SmallSum == ASSUME NEW i \in Nat, NEW j \in Nat, i < j, NEW b \in Nat PROVE i * b <= (j - 1) * b
<1>1. PICK d \in Nat : j - 1 = i + d
  <2>1. j - 1 - i \in Nat /\ j - 1 = i + (j - 1 - i)
    OBVIOUS
  <2> QED BY <2>1
<1>2. (i + d) * b = i * b + d * b
  OBVIOUS
<1>3. d * b \in Nat /\ i * b \in Nat
  OBVIOUS
<1> QED BY <1>1, <1>2, <1>3

\* The targets ascend, and so do the batches that they are cut into.
LEMMA TargetsAscend ==
  ASSUME BatchInv
  PROVE  \E n \in Nat :
           /\ DOMAIN Targets = 1..n /\ Len(Targets) = n
           /\ Targets \in Seq(ToSet(Targets)) /\ ToSet(Targets) \in SUBSET Nat
           /\ \A i, j \in 1..n : i < j => Targets[i] < Targets[j]
<1> DEFINE S == ToSet(request.targets)
<1>1. request.targets \in Seq(Nat)
  BY EvaluationAssumption DEF BatchInv
<1>2. S \in SUBSET Nat /\ IsFiniteSet(S)
  <2>1. PICK m \in Nat : DOMAIN request.targets = 1..m
    BY <1>1
  <2>2. IsFiniteSet(1..m)
    BY FS_Interval
  <2> DEFINE f == [i \in 1..m |-> request.targets[i]]
  <2>3. f \in Surjection(1..m, S)
    BY <2>1 DEF Surjection, ToSet
  <2>4. S \in SUBSET Nat
    BY <1>1 DEF ToSet
  <2> HIDE DEF f, S
  <2> QED BY <2>2, <2>3, <2>4, FS_Surjection
<1>3. PICK n \in Nat : DOMAIN Targets = 1..n /\ Len(Targets) = n /\ Targets \in Seq(ToSet(Targets))
  BY TargetsDomain
<1>4. /\ DOMAIN Ascending(S) = 1..Cardinality(S) /\ Cardinality(S) \in Nat
      /\ \A i \in 1..Cardinality(S) : Ascending(S)[i] \in S
      /\ \A i, j \in 1..Cardinality(S) : i < j => Ascending(S)[i] < Ascending(S)[j]
  <2> HIDE DEF S
  <2> QED BY <1>2, AscendingIsSorted
<1>5. Targets = Ascending(S)
  BY DEF Targets
<1> HIDE DEF S
<1>6. 1..n = 1..Cardinality(S)
  BY <1>3, <1>4, <1>5
<1>7. ToSet(Targets) \in SUBSET Nat
  BY <1>2, <1>4, <1>5 DEF ToSet
<1> QED BY <1>3, <1>4, <1>5, <1>6, <1>7

LEMMA BatchesAscend ==
  ASSUME BatchInv
  PROVE  /\ \A i \in DOMAIN Batches :
              /\ Batches[i].ordinal = i
              /\ ToSet(Batches[i].names) \subseteq ToSet(Targets)
              /\ \A k, l \in DOMAIN Batches[i].names :
                   k < l => Batches[i].names[k] < Batches[i].names[l]
         /\ \A i, j \in DOMAIN Batches : i < j =>
              \A x \in ToSet(Batches[i].names), y \in ToSet(Batches[j].names) : x < y
<1>1. PICK n \in Nat :
           /\ DOMAIN Targets = 1..n /\ Len(Targets) = n
           /\ Targets \in Seq(ToSet(Targets)) /\ ToSet(Targets) \in SUBSET Nat
           /\ \A i, j \in 1..n : i < j => Targets[i] < Targets[j]
  BY TargetsAscend
<1>2. BatchSize \in Nat \ {0}
  BY EvaluationAssumption
<1>3. PICK m \in Nat : DOMAIN Batches = 1..m
  BY BatchesDomain
<1> DEFINE From(i) == (i - 1) * BatchSize + 1
           To(i) == Min({i * BatchSize, Len(Targets)})
<1>4. ASSUME NEW i \in 1..m
      PROVE  /\ Batches[i].ordinal = i
             /\ From(i) \in Nat \ {0} /\ To(i) \in Nat
             /\ To(i) <= i * BatchSize /\ To(i) <= n
             /\ Batches[i].names = SubSeq(Targets, From(i), To(i))
  <2>1. i * BatchSize \in Nat /\ (i - 1) * BatchSize \in Nat
    <3>1. \A a, b \in Nat : a * b \in Nat
      OBVIOUS
    <3>2. i \in Nat /\ i - 1 \in Nat
      OBVIOUS
    <3> QED BY <1>2, <3>1, <3>2
  <2>2. \A x, y \in Nat : Min({x, y}) \in Nat /\ Min({x, y}) <= x /\ Min({x, y}) <= y
    <3>1. ASSUME NEW x \in Nat, NEW y \in Nat
          PROVE  Min({x, y}) \in Nat /\ Min({x, y}) <= x /\ Min({x, y}) <= y
      <4>1. \E z \in {x, y} : \A w \in {x, y} : z <= w
        OBVIOUS
      <4>2. Min({x, y}) \in {x, y} /\ \A w \in {x, y} : Min({x, y}) <= w
        BY <4>1 DEF Min
      <4> QED BY <4>2
    <3> QED BY <3>1
  <2>3. Batches[i].ordinal = i /\ Batches[i].names = SubSeq(Targets, From(i), To(i))
    BY <1>3 DEF Batches
  <2> QED BY <1>1, <2>1, <2>2, <2>3
<1> HIDE DEF To
<1>5. ASSUME NEW i \in 1..m
      PROVE  /\ \A k \in DOMAIN Batches[i].names :
                  /\ From(i) + k - 1 \in 1..n /\ k \in Nat \ {0}
                  /\ From(i) + k - 1 <= To(i)
                  /\ Batches[i].names[k] = Targets[From(i) + k - 1]
  <2>1. From(i) \in Nat \ {0} /\ To(i) \in Nat /\ To(i) <= n
    BY <1>4
  <2> HIDE DEF From
  <2>2. SubSeq(Targets, From(i), To(i)) =
          [k \in 1..(1 + To(i) - From(i)) |-> Targets[k + From(i) - 1]]
    BY <1>1, <2>1
  <2>3. \A k \in 1..(1 + To(i) - From(i)) :
          /\ From(i) + k - 1 \in 1..n /\ k \in Nat \ {0} /\ From(i) + k - 1 <= To(i)
          /\ From(i) + k - 1 = k + From(i) - 1
    BY <2>1
  <2>4. Batches[i].names = SubSeq(Targets, From(i), To(i))
    BY <1>4 DEF From
  <2> HIDE DEF Batches
  <2> QED BY <2>2, <2>3, <2>4
<1>6. ASSUME NEW i \in 1..m, NEW k \in DOMAIN Batches[i].names, NEW l \in DOMAIN Batches[i].names, k < l
      PROVE  Batches[i].names[k] < Batches[i].names[l]
  <2>1. From(i) \in Nat
    BY <1>4
  <2> HIDE DEF From
  <2>2. k \in Nat /\ l \in Nat /\ From(i) + k - 1 < From(i) + l - 1
    BY <1>5, <1>6, <2>1
  <2> QED BY <1>1, <1>5, <2>2
<1>7. ASSUME NEW i \in 1..m, NEW j \in 1..m, i < j,
             NEW k \in DOMAIN Batches[i].names, NEW l \in DOMAIN Batches[j].names
      PROVE  Batches[i].names[k] < Batches[j].names[l]
  <2>1. From(i) \in Nat /\ From(j) \in Nat /\ To(i) \in Nat /\ To(i) <= i * BatchSize
    BY <1>4
  <2>2. i * BatchSize <= (j - 1) * BatchSize
    BY <1>2, <1>7, SmallSum
  <2>3. i * BatchSize < From(j)
    <3>1. i * BatchSize \in Nat /\ (j - 1) * BatchSize \in Nat
      <4>1. \A a, b \in Nat : a * b \in Nat
        OBVIOUS
      <4>2. i \in Nat /\ j - 1 \in Nat
        BY <1>7
      <4> QED BY <1>2, <4>1, <4>2
    <3> QED BY <2>2, <3>1
  <2>4. i * BatchSize \in Nat
    <3>1. \A a, b \in Nat : a * b \in Nat
      OBVIOUS
    <3> QED BY <1>2, <3>1
  <2> DEFINE p == From(i) + k - 1
             q == From(j) + l - 1
             b == i * BatchSize
  <2>5. p \in 1..n /\ q \in 1..n /\ p <= To(i) /\ l \in Nat \ {0}
    BY <1>5
  <2>6. To(i) <= b /\ b < From(j) /\ b \in Nat
    BY <2>1, <2>3, <2>4
  <2> HIDE DEF From, b
  <2>7. p < q
    <3>1. From(j) <= q
      BY <2>1, <2>5
    <3> HIDE DEF p, q
    <3> QED BY <2>1, <2>5, <2>6, <3>1
  <2>8. Batches[i].names[k] = Targets[p] /\ Batches[j].names[l] = Targets[q]
    BY <1>5
  <2> HIDE DEF p, q
  <2> QED BY <1>1, <2>5, <2>7, <2>8
<1>8. ASSUME NEW i \in 1..m PROVE ToSet(Batches[i].names) \subseteq ToSet(Targets)
  BY <1>1, <1>5 DEF ToSet
<1>9. ASSUME NEW i \in 1..m, NEW j \in 1..m, i < j,
             NEW x \in ToSet(Batches[i].names), NEW y \in ToSet(Batches[j].names)
      PROVE  x < y
  <2>1. PICK k \in DOMAIN Batches[i].names : x = Batches[i].names[k]
    BY DEF ToSet
  <2>2. PICK l \in DOMAIN Batches[j].names : y = Batches[j].names[l]
    BY DEF ToSet
  <2> QED BY <1>7, <1>9, <2>1, <2>2
<1> QED BY <1>3, <1>4, <1>6, <1>8, <1>9

LEMMA AssembledInOrder ==
  ASSUME NEW names \in SUBSET Nat, NEW n \in Nat, NEW batches, Ordered(batches, n, names),
         AssembleInto(names, batches), config' = config, completed' = batches
  PROVE  OrderIsIrrelevant'
<1> DEFINE kept == Assembled(names, batches).kept
           seen == UNION {ToSet(batches[i].names) : i \in 1..n}
           kept1 == {r.name : r \in {q \in evaluated' : q.kind = "named"}}
           RootOf(name) == IF name \in kept
                             THEN Root("named", name, Flake[name].drv, Selected(name), "Failed")
                             ELSE Root("named", name, NoDrv, {},
                                       IF cancelled THEN "Cancelled" ELSE "Failed")
           Node(name) == [kind |-> "named", name |-> name, drv |-> Flake[name].drv,
                          outs |-> Flake[name].outs, selected |-> Selected(name)]
<1>1. Tally(Assembled(names, batches), seen, batches)
  BY AssembledTallies
<1>2. roots' = {RootOf(name) : name \in names} /\ evaluated' = {Node(name) : name \in kept}
  BY DEF AssembleInto
<1>3. kept \subseteq seen /\ \A name \in seen : name \in kept <=> AnsweredIn(batches, name) /\ Fitting(kept, name)
  BY <1>1 DEF Tally
<1> HIDE DEF kept
<1>4. kept1 = kept
  <2>1. \A name : Node(name).kind = "named" /\ Node(name).name = name
    OBVIOUS
  <2> HIDE DEF Node
  <2> QED BY <1>2, <2>1
<1>5. \A r \in roots' : r.name \in names
  <2>1. \A name : RootOf(name).name = name
    BY DEF Root
  <2> HIDE DEF RootOf
  <2> QED BY <1>2, <2>1
<1>6. \A name : AnsweredIn(batches, name) => name \in seen
  <2>1. SUFFICES ASSUME NEW i \in 1..n, NEW name \in batches[i].usable PROVE name \in seen
    BY DEF AnsweredIn, Ordered
  <2>2. name \in ToSet(batches[i].names)
    BY DEF Ordered
  <2> QED BY <2>2
<1> HIDE DEF seen, kept1
<1>7. \A name \in names : name \in kept1 <=> AnsweredIn(batches, name) /\ Fitting(kept1, name)
  BY <1>3, <1>4, <1>6
<1>8. \A name : Selected(name)' = Selected(name)
  BY DEF Selected
<1>9. \A r \in roots' :
        r.name \in kept1 <=>
          /\ AnsweredIn(completed', r.name)
          /\ Selected(r.name)' # {}
          /\ Selected(r.name)' \subseteq Flake[r.name].outs
          /\ Total({k \in kept1 : k < r.name}) + Size[r.name] <= MaxMemory
  BY <1>5, <1>7, <1>8 DEF Fitting
<1> QED BY <1>9 DEF OrderIsIrrelevant, AnsweredIn, kept1

\* The answers in the order of the batches, with those that nobody gave left out.
LEMMA InOrderOrdered ==
  ASSUME BatchInv, OrderInv, pc = "evaluate"
  PROVE  \E n \in Nat : Ordered(InOrder, n, ToSet(Targets))
<1>1. PICK n \in Nat : DOMAIN InOrder = 1..n /\ \A i \in 1..n : Readable(InOrder[i])
  BY InOrderReadable
<1>2. DOMAIN Batches = 1..n
  BY <1>1 DEF InOrder
<1>3. ASSUME NEW i \in 1..n
      PROVE  /\ InOrder[i].names \in {Batches[i].names, <<>>}
             /\ InOrder[i].usable \subseteq ToSet(InOrder[i].names)
  <2>1. CASE \E b \in ToSet(completed) : b.ordinal = i
    <3> DEFINE b == InOrder[i]
    <3>1. b \in ToSet(completed) /\ b.ordinal = i
      BY <1>2, <2>1 DEF InOrder
    <3> HIDE DEF b
    <3>2. b \in AnswerSet /\ b.usable \subseteq ToSet(b.names)
      BY <3>1 DEF BatchInv, OrderInv, ToSet
    <3>3. PICK j \in DOMAIN Batches : b.ordinal = Batches[j].ordinal /\ b.names = Batches[j].names
      BY <3>2 DEF AnswerSet, BatchSet
    <3>4. i = j
      BY <3>1, <3>3, BatchesAscend
    <3> QED BY <3>2, <3>3, <3>4 DEF b
  <2>2. CASE ~\E b \in ToSet(completed) : b.ordinal = i
    <3>1. InOrder[i] = [ordinal |-> i, names |-> <<>>, usable |-> {}]
      BY <1>2, <2>2 DEF InOrder
    <3> QED BY <3>1
  <2> QED BY <2>1, <2>2
<1>4. ToSet(<<>>) = {} /\ DOMAIN <<>> = {}
  BY DEF ToSet
<1>5. ASSUME NEW i \in 1..n
      PROVE  /\ ToSet(InOrder[i].names) \subseteq ToSet(Targets)
             /\ \A k, l \in DOMAIN InOrder[i].names :
                  k < l => InOrder[i].names[k] < InOrder[i].names[l]
  <2>1. CASE InOrder[i].names = Batches[i].names
    BY <1>2, <2>1, BatchesAscend
  <2>2. CASE InOrder[i].names = <<>>
    BY <1>4, <2>2
  <2> QED BY <1>3, <2>1, <2>2
<1>6. ASSUME NEW i \in 1..n, NEW j \in 1..n, i < j,
             NEW x \in ToSet(InOrder[i].names), NEW y \in ToSet(InOrder[j].names)
      PROVE  x < y
  <2>1. InOrder[i].names = Batches[i].names /\ InOrder[j].names = Batches[j].names
    BY <1>3, <1>4, <1>6
  <2> QED BY <1>2, <1>6, <2>1, BatchesAscend
<1> QED BY <1>1, <1>3, <1>5, <1>6 DEF Ordered

LEMMA InitOrderInv == Init => OrderInv
BY DEF Init, EvaluationInit, OrderInv, OrderIsIrrelevant, ToSet

LEMMA EvaluationOrderInv == ASSUME BatchInv, OrderInv, EvaluationNext PROVE OrderInv'
<1>1. ASSUME UNCHANGED <<roots, evaluated>>, pc \in Evaluating, pc' # "complete",
             pc' = "evaluate" => completed' = <<>>
      PROVE  OrderInv'
  BY <1>1 DEF OrderInv, OrderIsIrrelevant, ToSet
<1>2. CASE BeginNamed \/ BeginApp \/ BeginOther \/ Discover \/ Validate
  <2>1. /\ UNCHANGED <<roots, evaluated, completed>>
        /\ pc \in {"start", "discover", "validate"} /\ pc' # "complete"
        /\ pc' = "evaluate" => pc \in {"start", "validate"}
    BY <1>2 DEF BeginNamed, BeginApp, BeginOther, Discover, Validate, Refuse, StartEvaluation
  <2> QED BY <1>1, <2>1 DEF BatchInv, Evaluating
<1>3. ASSUME NEW w \in DOMAIN worker, TakeBatch(w) \/ StopWorker(w) \/ EvaluateBatch(w)
      PROVE  OrderInv'
  <2>1. pc = "evaluate" /\ pc' = pc /\ UNCHANGED <<roots, evaluated>>
    BY <1>3 DEF TakeBatch, StopWorker, EvaluateBatch
  <2>2. \A b \in ToSet(completed') : b.usable \subseteq ToSet(b.names)
    <3>1. CASE completed' = completed
      BY <2>1, <3>1 DEF OrderInv
    <3>2. CASE EvaluateBatch(w)
      <4> DEFINE batch == Head(worker[w])
      <4>1. PICK usable \in Usable(batch.names) :
              completed' = Append(completed, [ordinal |-> batch.ordinal, names |-> batch.names,
                                              usable |-> usable])
        BY <3>2 DEF EvaluateBatch
      <4> HIDE DEF batch
      <4> DEFINE answer == [ordinal |-> batch.ordinal, names |-> batch.names, usable |-> usable]
      <4>2. answer.usable \subseteq ToSet(answer.names)
        BY DEF Usable
      <4>3. completed \in Seq(AnswerSet)
        BY <2>1 DEF BatchInv
      <4> HIDE DEF answer
      <4>4. ToSet(Append(completed, answer)) \subseteq ToSet(completed) \cup {answer}
        BY <4>3 DEF ToSet
      <4> QED BY <2>1, <4>1, <4>2, <4>4 DEF OrderInv, answer
    <3> QED BY <1>3, <3>1, <3>2 DEF TakeBatch, StopWorker
  <2> QED BY <2>1, <2>2 DEF OrderInv, OrderIsIrrelevant, Evaluating
<1>4. CASE Assemble
  <2>1. /\ pc = "evaluate" /\ pc' = "complete" /\ config' = config
        /\ completed' = InOrder /\ AssembleInto(ToSet(Targets), InOrder)
    BY <1>4 DEF Assemble, EvaluationEnds, AssembleInto
  <2>2. PICK n \in Nat : Ordered(InOrder, n, ToSet(Targets))
    BY <2>1, InOrderOrdered
  <2>3. ToSet(Targets) \in SUBSET Nat
    BY TargetsAscend
  <2>4. OrderIsIrrelevant'
    BY <2>1, <2>2, <2>3, AssembledInOrder
  <2> QED BY <2>1, <2>4 DEF OrderInv, Evaluating
<1>5. CASE EvaluateAll
  <2>1. pc = "evaluateAll" /\ pc' = "complete" /\ config' = config
    BY <1>5 DEF EvaluateAll, EvaluationEnds
  <2>2. CASE UNCHANGED roots
    <3>1. roots' = {}
      BY <2>1, <2>2 DEF OrderInv, Evaluating
    <3> QED BY <2>1, <3>1 DEF OrderInv, OrderIsIrrelevant, Evaluating
  <2>3. CASE ~UNCHANGED roots
    <3>1. PICK usable \in SUBSET DOMAIN Flake :
            LET batches == <<[ordinal |-> 1, names |-> Ascending(DOMAIN Flake), usable |-> usable]>>
            IN completed' = batches /\ AssembleInto(DOMAIN Flake, batches)
      BY <1>5, <2>3 DEF EvaluateAll, AssembleInto
    <3> DEFINE batch == [ordinal |-> 1, names |-> Ascending(DOMAIN Flake), usable |-> usable]
               names == DOMAIN Flake
    <3>2. names \in SUBSET Nat /\ IsFiniteSet(names)
      BY EvaluationAssumption
    <3>3. /\ Readable(batch)
          /\ ToSet(batch.names) = names
          /\ \A k, l \in DOMAIN batch.names : k < l => batch.names[k] < batch.names[l]
      <4>1. /\ DOMAIN Ascending(names) = 1..Cardinality(names) /\ Cardinality(names) \in Nat
            /\ \A i \in 1..Cardinality(names) : Ascending(names)[i] \in names
            /\ \A i, j \in 1..Cardinality(names) : i < j => Ascending(names)[i] < Ascending(names)[j]
            /\ \A x \in names : \E i \in 1..Cardinality(names) : x = Ascending(names)[i]
        BY <3>2, AscendingIsSorted
      <4>2. batch.names = Ascending(names) /\ batch.usable = usable
        OBVIOUS
      <4>3. Readable(batch)
        <5> HIDE DEF batch
        <5> QED BY <4>1, <4>2 DEF Readable
      <4>4. ToSet(batch.names) = names
        <5>1. ToSet(Ascending(names)) = names
          <6> HIDE DEF names
          <6> QED BY <4>1 DEF ToSet
        <5> QED BY <4>2, <5>1
      <4> HIDE DEF batch, names
      <4> QED BY <4>1, <4>2, <4>3, <4>4
    <3>4. batch.usable \subseteq names
      OBVIOUS
    <3>5. completed' = <<batch>> /\ AssembleInto(names, <<batch>>)
      BY <3>1
    <3> HIDE DEF batch, names
    <3>6. Ordered(<<batch>>, 1, names)
      <4>1. DOMAIN <<batch>> = 1..1 /\ <<batch>>[1] = batch /\ \A i \in 1..1 : i = 1
        OBVIOUS
      <4> QED BY <3>3, <3>4, <4>1 DEF Ordered
    <3>7. OrderIsIrrelevant'
      <4>1. 1 \in Nat
        OBVIOUS
      <4> QED BY <2>1, <3>2, <3>5, <3>6, <4>1, AssembledInOrder
    <3> QED BY <2>1, <3>7 DEF OrderInv, Evaluating
  <2> QED BY <2>2, <2>3
<1>6. CASE EvaluateApp
  <2>1. CASE Refuse
    <3>1. pc = "app"
      BY <1>6 DEF EvaluateApp
    <3> QED BY <2>1, <3>1 DEF Refuse, OrderInv, OrderIsIrrelevant, Evaluating
  <2>2. CASE ~Refuse
    <3>1. PICK context \in AppContexts :
            /\ roots' = IF DOMAIN context = {} THEN {Root("app", 0, NoDrv, {}, "Cached")}
                        ELSE {Root("app", 0, d, {}, "Failed") : d \in DOMAIN context}
            /\ pc' = "complete"
      BY <1>6, <2>2 DEF EvaluateApp, EvaluationEnds
    <3>2. \A r \in roots' : r.kind # "named"
      BY <3>1 DEF Root
    <3> QED BY <3>1, <3>2 DEF OrderInv, OrderIsIrrelevant, Evaluating
  <2> QED BY <2>1, <2>2
<1> QED BY <1>2, <1>3, <1>4, <1>5, <1>6 DEF EvaluationNext

\* After the evaluation nothing leads back to it.
LEMMA LaterOrderInv ==
  ASSUME \/ Complete \/ ProbeRoots
         \/ ShowGraph \/ ReadGraph \/ GraphRunFails \/ GraphLoaded
         \/ PlanProbes \/ ProbeUnknown \/ ProbeRemote \/ ProbesEnd
         \/ Plan \/ Build
         \/ GatherSuccess \/ GatherFailure \/ GatherUnfinished \/ ApplyResults
         \/ Realized \/ CompleteDependencies \/ Settle \/ Finish
  PROVE  OrderInv'
<1>1. ASSUME pc' \notin Evaluating, pc' # "complete" PROVE OrderInv'
  BY <1>1 DEF OrderInv, OrderIsIrrelevant, Evaluating
<1>2. CASE Complete
  BY <1>1, <1>2 DEF Complete, Evaluating
<1>3. CASE ProbeRoots
  <2>1. PICK known : RootsProbed(known)
    BY <1>3, RootsLooked
  <2> QED BY <1>1, <2>1 DEF RootsProbed, Evaluating
<1>4. CASE ShowGraph \/ ReadGraph \/ GraphRunFails \/ GraphLoaded
  BY <1>1, <1>4 DEF ShowGraph, ReadGraph, GraphRunFails, GraphRefused, GraphLoaded, Evaluating,
     evaluationVars
<1>5. CASE PlanProbes \/ ProbeUnknown \/ ProbeRemote \/ ProbesEnd
  BY <1>1, <1>5 DEF PlanProbes, ProbeUnknown, ProbeRemote, ProbesEnd, Evaluating, evaluationVars
<1>6. CASE Plan \/ Build
  BY <1>1, <1>6 DEF Plan, Build, Evaluating
<1>7. CASE GatherSuccess \/ GatherFailure \/ GatherUnfinished
  <2>1. pc' = "apply"
    BY <1>7 DEF GatherSuccess, GatherFailure, GatherUnfinished, Gathered
  <2> QED BY <1>1, <2>1 DEF Evaluating
<1>8. CASE ApplyResults \/ Realized \/ CompleteDependencies \/ Settle \/ Finish
  BY <1>1, <1>8 DEF ApplyResults, Realized, CompleteDependencies, Settle, Finish, Evaluating
<1> QED BY <1>2, <1>3, <1>4, <1>5, <1>6, <1>7, <1>8

LEMMA NextOrderInv == ASSUME TInv, OrderInv, [Next]_vars PROVE OrderInv'
<1>1. CASE EvaluationNext
  BY <1>1, EvaluationOrderInv DEF TInv
<1>2. CASE Cancel \/ UNCHANGED vars
  <2>1. UNCHANGED <<pc, roots, evaluated, completed, config>>
    BY <1>2 DEF Cancel, vars, evaluationVars
  <2> QED BY <2>1 DEF OrderInv, OrderIsIrrelevant, Evaluating, Selected
<1>3. CASE Done
  BY <1>2, <1>3 DEF Done
<1> QED BY <1>1, <1>2, <1>3, LaterOrderInv DEF Next

\* Which names are kept within the memory limit does not depend on which worker was first.
THEOREM OrderNeverMatters == Spec => []OrderIsIrrelevant
<1>1. TInv /\ OrderInv /\ [Next]_vars => OrderInv'
  BY NextOrderInv
<1>2. OrderInv => OrderIsIrrelevant
  BY DEF OrderInv
<1> QED BY <1>1, <1>2, InitOrderInv, TruthHolds, PTL DEF Spec

------------------------------------------------------------------------------
(* An accepted graph has no cycle *)

\* Each node once, after what it depends on.
InDependencyOrder(known, order) ==
  /\ order \in Seq(DOMAIN known)
  /\ \A j, k \in 1..Len(order) : order[j] = order[k] => j = k
  /\ \A k \in 1..Len(order) : \A d \in Deps(known, order[k]) : \E j \in 1..(k - 1) : d = order[j]

LEMMA StillInOrder ==
  ASSUME NEW known, NEW order, InDependencyOrder(known, order), NEW id \in ReadyAfter(known, order)
  PROVE  InDependencyOrder(known, Append(order, id))
<1> DEFINE n == Len(order)
           b == Append(order, id)
<1>1. /\ id \in DOMAIN known /\ order \in Seq(DOMAIN known)
      /\ \A k \in DOMAIN order : order[k] # id
      /\ \A d \in Deps(known, id) : \E k \in DOMAIN order : d = order[k]
  BY DEF ReadyAfter, ToSet, InDependencyOrder
<1>2. n \in Nat /\ DOMAIN order = 1..n
  BY <1>1
<1>3. /\ b \in Seq(DOMAIN known) /\ Len(b) = n + 1
      /\ \A k \in 1..n : b[k] = order[k]
      /\ b[n + 1] = id
  <2> DEFINE S == DOMAIN known
  <2>1. id \in S /\ order \in Seq(S)
    BY <1>1
  <2> HIDE DEF S
  <2>2. b \in Seq(S) /\ Len(b) = n + 1 /\ (\A k \in 1..n : b[k] = order[k]) /\ b[n + 1] = id
    BY <2>1
  <2> QED BY <2>2 DEF S
<1> HIDE DEF b
<1>4. \A k \in 1..(n + 1) : k \in 1..n \/ k = n + 1
  BY <1>2
<1>5. ASSUME NEW j \in 1..(n + 1), NEW k \in 1..(n + 1), b[j] = b[k] PROVE j = k
  <2>1. CASE j \in 1..n /\ k \in 1..n
    BY <1>3, <1>5, <2>1 DEF InDependencyOrder
  <2>2. CASE j = n + 1 \/ k = n + 1
    BY <1>1, <1>2, <1>3, <1>4, <1>5, <2>2
  <2> QED BY <1>4, <2>1, <2>2
<1>6. ASSUME NEW k \in 1..(n + 1), NEW d \in Deps(known, b[k]) PROVE \E j \in 1..(k - 1) : d = b[j]
  <2>1. CASE k \in 1..n
    <3>1. PICK j \in 1..(k - 1) : d = order[j]
      BY <1>3, <1>6, <2>1 DEF InDependencyOrder
    <3>2. j \in 1..n
      BY <1>2, <2>1
    <3> QED BY <1>3, <3>1, <3>2
  <2>2. CASE k = n + 1
    <3>1. PICK j \in 1..n : d = order[j]
      BY <1>1, <1>2, <1>3, <1>6, <2>2
    <3>2. j \in 1..(k - 1)
      BY <1>2, <2>2
    <3> QED BY <1>3, <3>1, <3>2
  <2> QED BY <1>4, <2>1, <2>2
<1> QED BY <1>3, <1>5, <1>6 DEF InDependencyOrder

\* What Min takes out of a set of numbers.
LEMMA LeastOf == ASSUME NEW S \in SUBSET Nat, S # {} PROVE Min(S) \in S /\ \A x \in S : Min(S) <= x
<1>1. \E x \in S : \A y \in S : x <= y
  BY LeastNumber
<1> QED BY <1>1 DEF Min

\* Kahn's algorithm places the nodes in that order.
LEMMA OrderIsDependency ==
  ASSUME NEW known, IsFiniteSet(DOMAIN known), DOMAIN known \in SUBSET Nat
  PROVE  InDependencyOrder(known, TopologicalOrder(known))
<1> DEFINE n == Cardinality(DOMAIN known)
<1>1. n \in Nat
  BY FS_CardinalityType
<1> HIDE DEF n
<1>2. PICK read : /\ InTurn([of |-> "order", nodes |-> known], <<>>, [i \in 1..n |-> i], n, read)
                  /\ TopologicalOrder(known) = read[n]
  BY <1>1, OrderInTurn DEF n
<1>3. \A a, x : Step([of |-> "order", nodes |-> known], a, x) = Placed(known, a)
  BY DEF Step
<1>4. read[0] = <<>> /\ \A i \in 1..n : read[i] = Placed(known, read[i - 1])
  BY <1>2, <1>3 DEF InTurn
<1> DEFINE P == {i \in 0..n : InDependencyOrder(known, read[i])}
<1>5. 0 \in P
  <2>1. <<>> \in Seq(DOMAIN known) /\ Len(<<>>) = 0 /\ 1..0 = {}
    OBVIOUS
  <2>2. InDependencyOrder(known, <<>>)
    BY <2>1 DEF InDependencyOrder
  <2> QED BY <1>1, <1>4, <2>2
<1>6. ASSUME NEW i \in 1..n, i - 1 \in P PROVE i \in P
  <2> DEFINE a == read[i - 1]
             ready == ReadyAfter(known, a)
  <2>1. InDependencyOrder(known, a) /\ i \in 0..n
    BY <1>1, <1>6
  <2>2. read[i] = IF ready = {} THEN a ELSE Append(a, Min(ready))
    BY <1>4 DEF Placed
  <2>3. ready # {} => Min(ready) \in ready
    <3>1. ready \in SUBSET Nat
      BY DEF ReadyAfter
    <3> HIDE DEF ready
    <3> QED BY <3>1, LeastOf
  <2>4. InDependencyOrder(known, read[i])
    BY <2>1, <2>2, <2>3, StillInOrder
  <2> QED BY <2>1, <2>4
<1>7. n \in P
  <2>1. n \in 0..n
    BY <1>1
  <2> HIDE DEF P
  <2> QED BY <1>1, <1>5, <1>6, <2>1, OneByOne
<1> QED BY <1>2, <1>7

LEMMA AcceptedIsGrounded ==
  ASSUME NEW known, TrueNodes(known), NEW wanted, NEW limit,
         GraphError(known, wanted, limit) \in {"none", "ok"}
  PROVE  Grounded(known)
<1> DEFINE Wrong(d) == {e \in Deps(known, d) : DependencyError(known, d, e) # "none"}
           wrong == {d \in DOMAIN known : Wrong(d) # {}}
           n == Cardinality(DOMAIN known)
           o == TopologicalOrder(known)
<1>1. IsFiniteSet(DOMAIN known) /\ DOMAIN known \in SUBSET Nat
  BY DEF TrueNodes
<1>2. \A d \in DOMAIN known : Deps(known, d) \in SUBSET Nat
  BY DEF TrueNodes, Deps
<1>3. /\ wrong # {} => DependencyError(known, Min(wrong), Min(Wrong(Min(wrong)))) \in {"none", "ok"}
      /\ wrong = {} => Len(o) = n
  BY DEF GraphError
<1>4. wrong = {}
  <2>1. SUFFICES ASSUME wrong # {} PROVE FALSE
    OBVIOUS
  <2> DEFINE d == Min(wrong)
             e == Min(Wrong(d))
  <2>2. d \in wrong
    <3>1. wrong \in SUBSET Nat
      BY <1>1
    <3> HIDE DEF wrong
    <3> QED BY <2>1, <3>1, LeastOf
  <2>3. e \in Wrong(d)
    <3>1. Wrong(d) \in SUBSET Nat /\ Wrong(d) # {}
      BY <1>2, <2>2
    <3> HIDE DEF Wrong, d
    <3> QED BY <3>1, LeastOf
  <2>4. DependencyError(known, d, e) # "none" /\ DependencyError(known, d, e) \in {"none", "ok"}
    BY <1>3, <2>1, <2>3
  <2> HIDE DEF d, e
  <2> QED BY <2>4 DEF DependencyError
<1>5. \A d \in DOMAIN known : Deps(known, d) \in SUBSET (DOMAIN known \cap Nat)
  BY <1>2, <1>4 DEF DependencyError
<1>6. InDependencyOrder(known, o) /\ Len(o) = n
  BY <1>1, <1>3, <1>4, OrderIsDependency
<1> HIDE DEF o, wrong
<1>7. n \in Nat
  BY <1>1, FS_CardinalityType
<1> HIDE DEF n
<1>8. o \in [1..n -> DOMAIN known]
  <2> DEFINE S == DOMAIN known
  <2>1. o \in Seq(S) /\ Len(o) = n
    BY <1>6 DEF InDependencyOrder
  <2> HIDE DEF S
  <2>2. o \in [1..n -> S]
    BY <2>1
  <2> QED BY <2>2 DEF S
<1>9. \A d \in DOMAIN known : \E k \in 1..n : o[k] = d
  <2>1. o \in Injection(1..n, DOMAIN known)
    BY <1>6, <1>8 DEF Injection, IsInjective, InDependencyOrder
  <2>2. 1 \in Int /\ n \in Int /\ Cardinality(1..n) = n /\ IsFiniteSet(1..n)
    BY <1>7, FS_Interval
  <2>3. o \in Surjection(1..n, DOMAIN known)
    BY <1>1, <2>1, <2>2, FS_Injection DEF n
  <2> QED BY <2>3 DEF Surjection
<1> DEFINE rank == [d \in DOMAIN known |-> CHOOSE k \in 1..n : o[k] = d]
<1>10. \A d \in DOMAIN known : rank[d] \in 1..n /\ o[rank[d]] = d
  BY <1>9
<1>11. rank \in [DOMAIN known -> Nat]
  BY <1>7, <1>10
<1>12. ASSUME NEW d \in DOMAIN known, NEW e \in Deps(known, d) PROVE rank[e] < rank[d]
  <2>1. e \in DOMAIN known
    BY <1>5
  <2>2. rank[d] \in 1..n /\ o[rank[d]] = d /\ rank[e] \in 1..n /\ o[rank[e]] = e
    BY <1>10, <2>1
  <2> HIDE DEF rank
  <2>3. PICK j \in 1..(rank[d] - 1) : e = o[j]
    BY <1>6, <2>2 DEF InDependencyOrder
  <2>4. j \in 1..n /\ j < rank[d]
    BY <1>7, <2>2
  <2>5. j = rank[e]
    BY <1>6, <2>2, <2>3, <2>4 DEF InDependencyOrder
  <2> QED BY <2>4, <2>5
<1> QED BY <1>1, <1>5, <1>11, <1>12 DEF Grounded

------------------------------------------------------------------------------
(* The trail of a failure, and the closure of a graph *)

LEMMA Fewer ==
  ASSUME NEW B, IsFiniteSet(B), NEW A \in SUBSET B, A # B
  PROVE  Cardinality(A) < Cardinality(B)
<1>1. /\ IsFiniteSet(A) /\ Cardinality(A) <= Cardinality(B)
      /\ Cardinality(B) = Cardinality(A) => B = A
  BY FS_Subset
<1>2. Cardinality(A) \in Nat /\ Cardinality(B) \in Nat
  BY <1>1, FS_CardinalityType
<1> QED BY <1>1, <1>2

\* Each skipped node on the trail has fewer nodes below it than the one before.
LEMMA BlamedFailed ==
  ASSUME Grounded(graph), CauseInv, IsFiniteSet(DOMAIN executions), NEW d \in DOMAIN executions,
         executions[d].state \in {"Failed", "Skipped"}
  PROVE  Blamed(d) \in DOMAIN executions /\ executions[Blamed(d)].state = "Failed"
<1> DEFINE n == Cardinality(DOMAIN executions)
<1>1. n \in Nat
  BY FS_CardinalityType
<1> HIDE DEF n
<1>2. PICK read : /\ InTurn([of |-> "blame", runs |-> executions], d, [i \in 1..n |-> i], n, read)
                  /\ Blamed(d) = read[n]
  BY <1>1, BlameInTurn DEF n
<1>3. \A a, x : Step([of |-> "blame", runs |-> executions], a, x) =
                  IF a \in DOMAIN executions /\ executions[a].state = "Skipped"
                    THEN executions[a].dep ELSE a
  BY DEF Step
<1>4. /\ read[0] = d
      /\ \A i \in 1..n : read[i] = IF /\ read[i - 1] \in DOMAIN executions
                                      /\ executions[read[i - 1]].state = "Skipped"
                                     THEN executions[read[i - 1]].dep ELSE read[i - 1]
  BY <1>2, <1>3 DEF InTurn
<1>5. PICK rank \in [DOMAIN graph -> Nat] :
        \A x \in DOMAIN graph : \A e \in Deps(graph, x) : rank[e] < rank[x]
  BY DEF Grounded
<1> DEFINE Height(x) == IF x \in DOMAIN graph THEN rank[x] ELSE 0
           Lower(x) == {e \in DOMAIN executions : Height(e) < Height(x)}
           Size1(x) == Cardinality(Lower(x))
<1>6. \A x : Height(x) \in Nat
  OBVIOUS
<1>7. ASSUME NEW x \in DOMAIN executions, executions[x].state = "Skipped"
      PROVE  LET y == executions[x].dep
             IN y \in DOMAIN executions /\ executions[y].state \in {"Failed", "Skipped"}
                /\ Height(y) < Height(x)
  <2> DEFINE y == executions[x].dep
  <2>1. /\ y \in DOMAIN executions /\ executions[y].state \in {"Failed", "Skipped"}
        /\ y \in Deps(graph, x)
    BY <1>7 DEF CauseInv
  <2> HIDE DEF y
  <2>2. x \in DOMAIN graph /\ y \in DOMAIN graph
    BY <2>1 DEF Deps, Grounded
  <2>3. Height(y) < Height(x)
    BY <1>5, <2>1, <2>2
  <2> QED BY <2>1, <2>3 DEF y
<1> HIDE DEF Height
<1>8. \A x : IsFiniteSet(Lower(x)) /\ Size1(x) \in Nat
  BY FS_Subset, FS_CardinalityType
<1>9. \A x, y : y \in DOMAIN executions /\ Height(y) < Height(x) => Size1(y) < Size1(x)
  <2>1. SUFFICES ASSUME NEW x, NEW y \in DOMAIN executions, Height(y) < Height(x)
                 PROVE  Size1(y) < Size1(x)
    OBVIOUS
  <2>2. Lower(y) \subseteq Lower(x)
    BY <1>6, <2>1
  <2>3. y \in Lower(x) /\ y \notin Lower(y)
    BY <1>6, <2>1
  <2>4. Lower(y) # Lower(x)
    BY <2>3
  <2> DEFINE A == Lower(y)
             B == Lower(x)
  <2>5. IsFiniteSet(B) /\ A \subseteq B /\ A # B
    BY <1>8, <2>2, <2>4
  <2> HIDE DEF A, B
  <2>6. Cardinality(A) < Cardinality(B)
    BY <2>5, Fewer
  <2> QED BY <2>6 DEF A, B
<1>10. Size1(d) < n
  <2> DEFINE A == Lower(d)
             B == DOMAIN executions
  <2>1. A \subseteq B /\ A # B
    BY <1>6
  <2> HIDE DEF A
  <2>2. Cardinality(A) < Cardinality(B)
    BY <2>1, Fewer
  <2> QED BY <2>2 DEF A, n
<1> HIDE DEF Lower
<1> DEFINE So(i) ==
             /\ read[i] \in DOMAIN executions /\ executions[read[i]].state \in {"Failed", "Skipped"}
             /\ executions[read[i]].state = "Skipped" => Size1(read[i]) + i < n
           P == {i \in 0..n : So(i)}
<1> HIDE DEF Size1
<1>11. 0 \in P
  <2>1. Size1(d) \in Nat /\ Size1(d) < n
    BY <1>8, <1>10 DEF Size1
  <2>2. Size1(d) + 0 < n
    BY <2>1
  <2>3. So(0)
    BY <1>4, <2>2
  <2>4. 0 \in 0..n
    BY <1>1
  <2> HIDE DEF So
  <2> QED BY <2>3, <2>4
<1>12. ASSUME NEW i \in 1..n, i - 1 \in P PROVE i \in P
  <2> DEFINE x == read[i - 1]
             y == executions[x].dep
  <2>1. So(i - 1) /\ i \in 0..n
    BY <1>1, <1>12
  <2>2. CASE executions[x].state = "Failed"
    <3>1. read[i] = x
      BY <1>4, <2>2
    <3> QED BY <2>1, <2>2, <3>1
  <2>3. CASE executions[x].state = "Skipped"
    <3>1. read[i] = y
      BY <1>4, <2>1, <2>3
    <3>2. y \in DOMAIN executions /\ executions[y].state \in {"Failed", "Skipped"} /\ Height(y) < Height(x)
      BY <1>7, <2>1, <2>3
    <3>3. Size1(y) < Size1(x) /\ Size1(x) + (i - 1) < n
      BY <1>9, <2>1, <2>3, <3>2 DEF Size1
    <3>4. Size1(x) \in Nat /\ Size1(y) \in Nat
      BY <1>8 DEF Size1
    <3> HIDE DEF x, y
    <3>5. Size1(y) + i < n
      BY <1>1, <3>3, <3>4
    <3> QED BY <2>1, <3>1, <3>2, <3>5
  <2> QED BY <2>1, <2>2, <2>3
<1>13. So(n)
  <2>1. n \in 0..n
    BY <1>1
  <2> HIDE DEF So
  <2>2. \A i \in 0..n : i \in P
    <3> HIDE DEF P
    <3> QED BY <1>1, <1>11, <1>12, OneByOne
  <2> QED BY <2>1, <2>2
<1>14. executions[read[n]].state # "Skipped"
  <2>1. Size1(read[n]) \in Nat
    BY <1>8 DEF Size1
  <2>2. ~(Size1(read[n]) + n < n)
    BY <1>1, <2>1
  <2> QED BY <1>13, <2>2
<1> QED BY <1>2, <1>13, <1>14

\* Who depends on nothing but nodes of a graph stays among them.
LEMMA ClosureWithin ==
  ASSUME NEW known, IsFiniteSet(DOMAIN known), NEW start \in SUBSET DOMAIN known,
         \A d \in DOMAIN known : Deps(known, d) \subseteq DOMAIN known
  PROVE  Closure(known, start) \in SUBSET DOMAIN known
<1> DEFINE n == Cardinality(DOMAIN known)
<1>1. n \in Nat
  BY FS_CardinalityType
<1> HIDE DEF n
<1>2. PICK read : /\ InTurn([of |-> "closure", nodes |-> known], start, [i \in 1..n |-> i], n, read)
                  /\ Closure(known, start) = read[n]
  BY <1>1, ClosureInTurn DEF n
<1>3. \A a, x : Step([of |-> "closure", nodes |-> known], a, x) = Reached(known, a)
  BY DEF Step
<1>4. read[0] = start /\ \A i \in 1..n : read[i] = Reached(known, read[i - 1])
  BY <1>2, <1>3 DEF InTurn
<1> DEFINE P == {i \in 0..n : read[i] \in SUBSET DOMAIN known}
<1>5. 0 \in P
  BY <1>1, <1>4
<1>6. ASSUME NEW i \in 1..n, i - 1 \in P PROVE i \in P
  <2>1. read[i - 1] \in SUBSET DOMAIN known /\ i \in 0..n
    BY <1>1, <1>6
  <2>2. Reached(known, read[i - 1]) \in SUBSET DOMAIN known
    BY <2>1 DEF Reached
  <2> QED BY <1>4, <2>1, <2>2
<1>7. n \in P
  <2>1. n \in 0..n
    BY <1>1
  <2> HIDE DEF P
  <2> QED BY <1>1, <1>5, <1>6, <2>1, OneByOne
<1> QED BY <1>2, <1>7

LEMMA Quotient ==
  ASSUME NEW a \in Nat, NEW b \in Nat \ {0}
  PROVE  /\ a \div b \in Nat /\ (a \div b) * b \in Nat
         /\ (a \div b) * b <= a /\ a < (a \div b) * b + b
OBVIOUS

LEMMA Times ==
  ASSUME NEW p \in Nat, NEW q \in Nat, p <= q, NEW b \in Nat
  PROVE  p * b <= q * b
<1>1. p < q + 1 /\ q + 1 \in Nat /\ (q + 1) - 1 = q
  OBVIOUS
<1>2. p * b <= ((q + 1) - 1) * b
  BY <1>1, SmallSum
<1> QED BY <1>1, <1>2

\* Every target is in a batch.
LEMMA BatchesCover ==
  ASSUME BatchInv, NEW x \in ToSet(Targets)
  PROVE  \E i \in DOMAIN Batches : x \in ToSet(Batches[i].names)
<1>1. PICK n \in Nat : DOMAIN Targets = 1..n /\ Len(Targets) = n /\ Targets \in Seq(ToSet(Targets))
  BY TargetsDomain
<1>2. PICK k \in 1..n : x = Targets[k]
  BY <1>1 DEF ToSet
<1>3. BatchSize \in Nat \ {0}
  BY EvaluationAssumption
<1> DEFINE q == (k - 1) \div BatchSize
           p == (n + BatchSize - 1) \div BatchSize
           i == q + 1
<1>4. q \in Nat /\ q * BatchSize \in Nat /\ q * BatchSize <= k - 1 /\ k - 1 < q * BatchSize + BatchSize
  <2>1. k - 1 \in Nat
    BY <1>1
  <2> QED BY <1>3, <2>1, Quotient
<1>5. p \in Nat /\ p * BatchSize \in Nat /\ n + BatchSize - 1 < p * BatchSize + BatchSize
  <2>1. n + BatchSize - 1 \in Nat
    BY <1>3
  <2> QED BY <1>3, <2>1, Quotient
<1> HIDE DEF q, p
<1>6. i \in 1..p
  <2>1. ~(p <= q)
    <3>1. SUFFICES ASSUME p <= q PROVE FALSE
      OBVIOUS
    <3>2. p * BatchSize <= q * BatchSize
      BY <1>3, <1>4, <1>5, <3>1, Times
    <3>3. k - 1 < n
      BY <1>1
    <3> QED BY <1>1, <1>2, <1>3, <1>4, <1>5, <3>2, <3>3
  <2> QED BY <1>4, <1>5, <2>1
<1>7. i * BatchSize = q * BatchSize + BatchSize /\ (i - 1) * BatchSize = q * BatchSize
  BY <1>3, <1>4
<1> DEFINE from == (i - 1) * BatchSize + 1
           to == Min({i * BatchSize, Len(Targets)})
<1>8. to \in Nat /\ k <= to /\ to <= n
  <2>1. \E z \in {i * BatchSize, n} : \A w \in {i * BatchSize, n} : z <= w
    BY <1>1, <1>3, <1>4, <1>7
  <2>2. to \in {i * BatchSize, n} /\ \A w \in {i * BatchSize, n} : to <= w
    BY <1>1, <2>1 DEF Min
  <2> HIDE DEF to
  <2> QED BY <1>1, <1>3, <1>4, <1>7, <2>2
<1>9. from \in Nat \ {0} /\ from <= k
  BY <1>1, <1>4, <1>7
<1>10. i \in DOMAIN Batches /\ Batches[i].names = SubSeq(Targets, from, to)
  BY <1>1, <1>6 DEF Batches, p
<1> HIDE DEF from, to, i
<1>11. SubSeq(Targets, from, to) = [l \in 1..(1 + to - from) |-> Targets[l + from - 1]]
  BY <1>1, <1>8, <1>9
<1> DEFINE l == k - from + 1
<1>12. l \in 1..(1 + to - from) /\ l + from - 1 = k
  BY <1>1, <1>2, <1>8, <1>9
<1> HIDE DEF l
<1>13. x \in ToSet(SubSeq(Targets, from, to))
  BY <1>2, <1>11, <1>12 DEF ToSet
<1> QED BY <1>10, <1>13

\* Where the fold over the answers stands: every name it has seen is kept, or an error
\* tells of one that is not.
Noted(a, seen) ==
  /\ DOMAIN a = {"bytes", "kept", "diags"}
  /\ \/ seen \subseteq a.kept
     \/ \E g \in a.diags : g.severity = "Error" /\ g.code # "realization_failed"

LEMMA AnswerNotes ==
  ASSUME NEW seen, NEW a, Noted(a, seen), NEW names, NEW batch, NEW name
  PROVE  Noted(Answer(a, names, batch, name), seen \cup {name})
<1> DEFINE errors == {"evaluation_target_mismatch", "evaluation_failed", "evaluation_memory_limit_exceeded",
                      "empty_output_selection", "missing_selected_output"}
           b == Answer(a, names, batch, name)
<1>1. \/ \E code \in errors : b = Reject(a, code, name)
      \/ b = [a EXCEPT !.bytes = @ + Size[name], !.kept = @ \cup {name}]
  BY DEF Answer, Retain
<1>2. ASSUME NEW code \in errors PROVE Noted(Reject(a, code, name), seen \cup {name})
  <2> DEFINE g == Diagnostic(code, "Error", <<"root", name>>)
             c == [a EXCEPT !.diags = @ \cup {g}]
  <2>1. g.severity = "Error" /\ g.code # "realization_failed"
    BY DEF Diagnostic
  <2>2. Reject(a, code, name) = c
    BY DEF Reject
  <2> HIDE DEF g
  <2>3. DOMAIN c = {"bytes", "kept", "diags"} /\ g \in c.diags
    BY DEF Noted
  <2> HIDE DEF c
  <2> QED BY <2>1, <2>2, <2>3 DEF Noted
<1>3. ASSUME b = [a EXCEPT !.bytes = @ + Size[name], !.kept = @ \cup {name}]
      PROVE  Noted(b, seen \cup {name})
  <2> HIDE DEF b
  <2>1. /\ DOMAIN b = {"bytes", "kept", "diags"}
        /\ b.kept = a.kept \cup {name} /\ b.diags = a.diags
    BY <1>3 DEF Noted
  <2> QED BY <2>1 DEF Noted
<1> HIDE DEF b
<1> QED BY <1>1, <1>2, <1>3 DEF b

LEMMA AnswersNote ==
  ASSUME NEW seen, NEW a, Noted(a, seen), NEW names, NEW batch, Readable(batch)
  PROVE  Noted(Answers(a, names, batch), seen \cup ToSet(batch.names))
<1> DEFINE fold == [of |-> "answers", names |-> names, batch |-> batch]
<1>1. PICK n \in Nat : DOMAIN batch.names = 1..n
  BY DEF Readable
<1>2. PICK read : InTurn(fold, a, batch.names, n, read) /\ Answers(a, names, batch) = read[n]
  BY <1>1, AnswersInTurn
<1>3. \A b, x : Step(fold, b, x) = Answer(b, names, batch, x)
  BY DEF Step
<1> HIDE DEF fold
<1>4. read[0] = a /\ \A k \in 1..n : read[k] = Answer(read[k - 1], names, batch, batch.names[k])
  BY <1>2, <1>3 DEF InTurn
<1> DEFINE First(k) == seen \cup {batch.names[l] : l \in 1..k}
           P == {k \in 0..n : Noted(read[k], First(k))}
<1>5. 0 \in P
  <2>1. First(0) = seen
    OBVIOUS
  <2> HIDE DEF First
  <2> QED BY <1>4, <2>1
<1>6. ASSUME NEW k \in 1..n, k - 1 \in P PROVE k \in P
  <2>1. First(k) = First(k - 1) \cup {batch.names[k]}
    <3>1. 1..k = (1..(k - 1)) \cup {k}
      OBVIOUS
    <3> QED BY <3>1
  <2> HIDE DEF First
  <2>2. Noted(read[k - 1], First(k - 1))
    BY <1>6
  <2> QED BY <1>4, <2>1, <2>2, AnswerNotes
<1>7. n \in P
  <2>1. n \in 0..n
    OBVIOUS
  <2> HIDE DEF P
  <2> QED BY <1>5, <1>6, <2>1, OneByOne
<1>8. First(n) = seen \cup ToSet(batch.names)
  BY <1>1 DEF ToSet
<1> HIDE DEF First
<1> QED BY <1>2, <1>7, <1>8

LEMMA AssembledNotes ==
  ASSUME NEW names, NEW batches, NEW n \in Nat, DOMAIN batches = 1..n,
         \A i \in 1..n : Readable(batches[i])
  PROVE  Noted(Assembled(names, batches), UNION {ToSet(batches[i].names) : i \in 1..n})
<1> DEFINE fold == [of |-> "batches", names |-> names]
           none == [bytes |-> 0, kept |-> {}, diags |-> {}]
           First(i) == UNION {ToSet(batches[j].names) : j \in 1..i}
<1>1. PICK read : InTurn(fold, none, batches, n, read) /\ Assembled(names, batches) = read[n]
  BY BatchesInTurn
<1>2. \A b, x : Step(fold, b, x) = Answers(b, names, x)
  BY DEF Step
<1>3. Noted(none, {})
  BY DEF Noted
<1> DEFINE P == {i \in 0..n : Noted(read[i], First(i))}
<1> HIDE DEF fold, none
<1>4. read[0] = none /\ \A i \in 1..n : read[i] = Answers(read[i - 1], names, batches[i])
  BY <1>1, <1>2 DEF InTurn
<1>5. 0 \in P
  <2>1. First(0) = {}
    OBVIOUS
  <2> HIDE DEF First
  <2> QED BY <1>3, <1>4, <2>1
<1>6. ASSUME NEW i \in 1..n, i - 1 \in P PROVE i \in P
  <2>1. First(i) = First(i - 1) \cup ToSet(batches[i].names)
    <3>1. 1..i = (1..(i - 1)) \cup {i}
      OBVIOUS
    <3> QED BY <3>1
  <2> HIDE DEF First
  <2>2. Noted(read[i - 1], First(i - 1))
    BY <1>6
  <2> QED BY <1>4, <2>1, <2>2, AnswersNote
<1>7. n \in P
  <2>1. n \in 0..n
    OBVIOUS
  <2> HIDE DEF P
  <2> QED BY <1>5, <1>6, <2>1, OneByOne
<1> HIDE DEF First
<1> QED BY <1>1, <1>7 DEF First

LEMMA AssembleAccounts ==
  ASSUME NEW names, NEW batches, NEW n \in Nat, DOMAIN batches = 1..n,
         \A i \in 1..n : Readable(batches[i]), AssembleInto(names, batches),
         cancelled \/ names \subseteq UNION {ToSet(batches[i].names) : i \in 1..n}
  PROVE  Accounted'
<1> DEFINE acc == Assembled(names, batches)
           RootOf(name) == IF name \in acc.kept
                             THEN Root("named", name, Flake[name].drv, Selected(name), "Failed")
                             ELSE Root("named", name, NoDrv, {},
                                       IF cancelled THEN "Cancelled" ELSE "Failed")
           Node(name) == [kind |-> "named", name |-> name, drv |-> Flake[name].drv,
                          outs |-> Flake[name].outs, selected |-> Selected(name)]
<1>1. Noted(acc, UNION {ToSet(batches[i].names) : i \in 1..n})
  BY AssembledNotes
<1>2. /\ roots' = {RootOf(name) : name \in names}
      /\ evaluated' = {Node(name) : name \in acc.kept}
      /\ diags' = diags \cup acc.diags
  BY DEF AssembleInto
<1> HIDE DEF acc
<1>3. \A name \in acc.kept : Flake[name].drv \in RootDrvs'
  <2>1. \A name : Node(name).drv = Flake[name].drv
    OBVIOUS
  <2> HIDE DEF Node
  <2> QED BY <1>2, <2>1 DEF RootDrvs
<1>4. CASE cancelled \/ names \subseteq acc.kept
  <2>1. ASSUME NEW name \in names PROVE RootOf(name).drv \in RootDrvs' \/ Quiet(RootOf(name))
    BY <1>3, <1>4 DEF Root, Quiet
  <2> HIDE DEF RootOf
  <2>2. \A root \in roots' : root.drv \in RootDrvs' \/ Quiet(root)
    BY <1>2, <2>1
  <2> QED BY <2>2 DEF Accounted, Quiet
<1>5. CASE ~(cancelled \/ names \subseteq acc.kept)
  <2>1. \E g \in acc.diags : g.severity = "Error" /\ g.code # "realization_failed"
    BY <1>1, <1>5 DEF Noted
  <2> QED BY <1>2, <2>1 DEF Accounted, Evident
<1> QED BY <1>4, <1>5

\* When nobody cancelled and no worker is left, every batch was answered.
LEMMA InOrderCovers ==
  ASSUME BatchInv, QueueInv, pc = "evaluate", worker = <<>>, ~cancelled,
         NEW n \in Nat, DOMAIN InOrder = 1..n
  PROVE  ToSet(Targets) \subseteq UNION {ToSet(InOrder[i].names) : i \in 1..n}
<1>1. SUFFICES ASSUME NEW x \in ToSet(Targets)
               PROVE  \E i \in 1..n : x \in ToSet(InOrder[i].names)
  OBVIOUS
<1>2. DOMAIN Batches = 1..n
  BY DEF InOrder
<1>3. PICK i \in 1..n : x \in ToSet(Batches[i].names)
  BY <1>2, BatchesCover
<1>4. DOMAIN worker = {} /\ queue = <<>> /\ ToSet(queue) = {}
  <2>1. DOMAIN worker = {}
    OBVIOUS
  <2>2. queue = <<>>
    BY <2>1 DEF QueueInv
  <2> QED BY <2>1, <2>2 DEF ToSet
<1>5. Batches[i] \in BatchSet /\ Batches[i].ordinal = i
  BY <1>2, BatchesAscend DEF BatchSet
<1>6. \E a \in ToSet(completed) : a.ordinal = i
  BY <1>4, <1>5 DEF QueueInv
<1> DEFINE b == InOrder[i]
<1>7. b \in ToSet(completed) /\ b.ordinal = i
  BY <1>2, <1>6 DEF InOrder
<1> HIDE DEF b
<1>8. b \in AnswerSet
  BY <1>7 DEF BatchInv, ToSet
<1>9. PICK j \in DOMAIN Batches : b.ordinal = Batches[j].ordinal /\ b.names = Batches[j].names
  BY <1>8 DEF AnswerSet, BatchSet
<1>10. i = j
  BY <1>7, <1>9, BatchesAscend
<1> QED BY <1>3, <1>9, <1>10 DEF b

LEMMA EvaluationQueue == ASSUME BatchInv, QueueInv, EvaluationNext PROVE QueueInv'
<1>1. ASSUME request' = request, NEW opened, StartEvaluation(opened) PROVE QueueInv'
  <2>1. /\ queue' = Batches
        /\ worker' = [w \in {v \in Workers : v <= Len(Batches)} |-> <<>>]
        /\ BatchSet' = BatchSet /\ Batches \in Seq(BatchSet)
    BY <1>1, SameTargets, BatchesDomain DEF StartEvaluation
  <2>2. ToSet(queue') = BatchSet
    BY <2>1 DEF ToSet, BatchSet
  <2>3. ASSUME queue' # <<>> PROVE 1 \in DOMAIN worker'
    <3>1. Len(Batches) >= 1
      <4> HIDE DEF Batches, BatchSet
      <4> QED BY <2>1, <2>3
    <3>2. 1 \in Workers
      BY EvaluationAssumption DEF Workers
    <3> QED BY <2>1, <3>1, <3>2
  <2> QED BY <2>1, <2>2, <2>3 DEF QueueInv
<1>2. CASE BeginNamed \/ BeginApp \/ BeginOther \/ Discover \/ Validate
  <2>1. request' = request
    BY <1>2 DEF BeginNamed, BeginApp, BeginOther, Discover, Validate
  <2>2. pc' # "evaluate" \/ \E opened : StartEvaluation(opened)
    BY <1>2 DEF BeginNamed, BeginApp, BeginOther, Discover, Validate, Refuse
  <2> QED BY <1>1, <2>1, <2>2 DEF QueueInv
<1>3. ASSUME NEW w \in DOMAIN worker, TakeBatch(w) \/ StopWorker(w) \/ EvaluateBatch(w)
      PROVE  QueueInv'
  <2>1. /\ pc = "evaluate" /\ pc' = pc /\ UNCHANGED <<request, cancelled>>
        /\ queue \in Seq(BatchSet) /\ completed \in Seq(AnswerSet)
        /\ BatchSet' = BatchSet
    BY <1>3, SameTargets DEF TakeBatch, StopWorker, EvaluateBatch, BatchInv
  <2>2. SUFFICES ASSUME ~cancelled
                 PROVE  /\ \A b \in BatchSet :
                             \/ b \in ToSet(queue')
                             \/ \E v \in DOMAIN worker' : worker'[v] = <<b>>
                             \/ \E a \in ToSet(completed') : a.ordinal = b.ordinal
                        /\ queue' # <<>> => DOMAIN worker' # {}
    BY <2>1 DEF QueueInv
  <2>3. \A b \in BatchSet :
          \/ b \in ToSet(queue)
          \/ \E v \in DOMAIN worker : worker[v] = <<b>>
          \/ \E a \in ToSet(completed) : a.ordinal = b.ordinal
    BY <2>1, <2>2 DEF QueueInv
  <2>4. CASE TakeBatch(w)
    <3>1. /\ worker' = [worker EXCEPT ![w] = <<Head(queue)>>] /\ queue' = Tail(queue)
          /\ queue # <<>> /\ completed' = completed /\ worker[w] = <<>>
      BY <2>4 DEF TakeBatch
    <3>2. \A b \in ToSet(queue) : b = Head(queue) \/ b \in ToSet(Tail(queue))
      <4> DEFINE S == BatchSet
      <4>1. queue \in Seq(S) /\ queue # <<>>
        BY <2>1, <3>1
      <4> HIDE DEF S
      <4>2. ASSUME NEW k \in 1..Len(queue), k # 1 PROVE queue[k] \in ToSet(Tail(queue))
        <5>1. k - 1 \in DOMAIN Tail(queue) /\ Tail(queue)[k - 1] = queue[k]
          BY <4>1, <4>2
        <5> QED BY <5>1 DEF ToSet
      <4>3. DOMAIN queue = 1..Len(queue) /\ queue[1] = Head(queue)
        BY <4>1
      <4> QED BY <4>2, <4>3 DEF ToSet
    <3>3. worker'[w] = <<Head(queue)>> /\ \A v \in DOMAIN worker : v # w => worker'[v] = worker[v]
      BY <3>1
    <3>4. \A b : <<b>> # <<>>
      OBVIOUS
    <3> QED BY <2>3, <3>1, <3>2, <3>3, <3>4
  <2>5. CASE StopWorker(w)
    <3>1. /\ worker' = [v \in DOMAIN worker \ {w} |-> worker[v]] /\ worker[w] = <<>>
          /\ queue = <<>> /\ UNCHANGED <<queue, completed>>
      BY <2>2, <2>5 DEF StopWorker
    <3>2. \A b : <<b>> # <<>>
      OBVIOUS
    <3> QED BY <2>3, <3>1, <3>2
  <2>6. CASE EvaluateBatch(w)
    <3>1. PICK c \in BatchSet : worker[w] = <<c>>
      BY <2>6 DEF EvaluateBatch, BatchInv
    <3>2. PICK answer : answer.ordinal = c.ordinal /\ completed' = Append(completed, answer)
      BY <2>6, <3>1 DEF EvaluateBatch
    <3>3. queue' = queue /\ worker' = [worker EXCEPT ![w] = <<>>]
      BY <2>6 DEF EvaluateBatch
    <3>4. answer \in ToSet(completed') /\ ToSet(completed) \subseteq ToSet(completed')
      BY <2>1, <3>2 DEF ToSet
    <3>5. \A b : <<b>> = <<c>> => b = c
      OBVIOUS
    <3> QED BY <2>3, <3>1, <3>2, <3>3, <3>4, <3>5
  <2> QED BY <1>3, <2>4, <2>5, <2>6
<1>4. CASE Assemble \/ EvaluateAll \/ EvaluateApp
  <2>1. pc' \in {"complete", "done"}
    BY <1>4 DEF Assemble, EvaluateAll, EvaluateApp, EvaluationEnds, Refuse
  <2> QED BY <2>1 DEF QueueInv
<1> QED BY <1>2, <1>3, <1>4 DEF EvaluationNext

\* Everyone the evaluation leaves without an identity is told of.
LEMMA EvaluationAccounts ==
  ASSUME BatchInv, QueueInv, IInv, EvaluationNext
  PROVE  AccountInv'
<1>1. ASSUME outcome' # "Failed", pc' \in Evaluating \cup {"done", "complete"},
             pc' = "complete" => Accounted'
      PROVE  AccountInv'
  BY <1>1 DEF AccountInv, Evaluating
<1>2. outcome' # "Failed"
  <2>1. EvaluationWay /\ pc \in EvaluationPcs
    BY EvaluationMoves DEF IInv
  <2> QED BY <2>1 DEF EvaluationWay, IInv, PhaseInv, EvaluationPcs
<1>3. CASE BeginNamed \/ BeginApp \/ BeginOther \/ Discover
  <2>1. pc' \in Evaluating \cup {"done"}
    BY <1>3 DEF BeginNamed, BeginApp, BeginOther, Discover, Refuse, StartEvaluation, Evaluating
  <2> QED BY <1>1, <1>2, <2>1 DEF Evaluating
<1>4. CASE Validate
  <2>1. \/ pc' \in {"evaluate", "evaluateAll"}
        \/ pc' = "finish" /\ diags' = {Diagnostic("flake_validation_failed", "Error", <<>>)}
    BY <1>4 DEF Validate, StartEvaluation
  <2>2. ASSUME pc' = "finish" PROVE Errors'
    <3>1. \E g \in diags' : g = Diagnostic("flake_validation_failed", "Error", <<>>)
      BY <2>1, <2>2
    <3> QED BY <3>1 DEF Errors, Diagnostic
  <2> QED BY <1>2, <2>1, <2>2 DEF AccountInv, Evaluating
<1>5. CASE \E w \in DOMAIN worker : TakeBatch(w) \/ StopWorker(w) \/ EvaluateBatch(w)
  <2>1. pc' \in Evaluating
    BY <1>5 DEF TakeBatch, StopWorker, EvaluateBatch, Evaluating
  <2> QED BY <1>1, <1>2, <2>1 DEF Evaluating
<1>6. CASE Assemble
  <2>1. /\ pc = "evaluate" /\ worker = <<>> /\ AssembleInto(ToSet(Targets), InOrder)
        /\ pc' = "complete"
    BY <1>6 DEF Assemble, AssembleInto, EvaluationEnds
  <2>2. PICK n \in Nat : DOMAIN InOrder = 1..n /\ \A i \in 1..n : Readable(InOrder[i])
    BY <2>1, InOrderReadable
  <2>3. ~cancelled => ToSet(Targets) \subseteq UNION {ToSet(InOrder[i].names) : i \in 1..n}
    BY <2>1, <2>2, InOrderCovers
  <2>4. Accounted'
    BY <2>1, <2>2, <2>3, AssembleAccounts
  <2> QED BY <1>1, <1>2, <2>1, <2>4
<1>7. CASE EvaluateAll
  <2>1. pc' = "complete"
    BY <1>7 DEF EvaluateAll, EvaluationEnds
  <2>2. CASE diags' = diags \cup {Diagnostic("evaluation_failed", "Error", <<>>)}
    <3>1. \E g \in diags' : g = Diagnostic("evaluation_failed", "Error", <<>>)
      BY <2>2
    <3>2. Accounted'
      BY <3>1 DEF Accounted, Evident, Diagnostic
    <3> QED BY <1>1, <1>2, <2>1, <3>2
  <2>3. CASE diags' # diags \cup {Diagnostic("evaluation_failed", "Error", <<>>)}
    <3>1. PICK usable \in SUBSET DOMAIN Flake :
            AssembleInto(DOMAIN Flake, <<[ordinal |-> 1, names |-> Ascending(DOMAIN Flake), usable |-> usable]>>)
      BY <1>7, <2>3 DEF EvaluateAll, AssembleInto
    <3> DEFINE batch == [ordinal |-> 1, names |-> Ascending(DOMAIN Flake), usable |-> usable]
               batches == <<batch>>
               names == DOMAIN Flake
    <3>2. /\ DOMAIN Ascending(names) = 1..Cardinality(names) /\ Cardinality(names) \in Nat
          /\ \A x \in names : \E i \in 1..Cardinality(names) : x = Ascending(names)[i]
      BY EvaluationAssumption, AscendingIsSorted
    <3>3. Readable(batch) /\ names \subseteq ToSet(batch.names)
      <4>1. batch.names = Ascending(names) /\ batch.usable \subseteq DOMAIN Flake
        OBVIOUS
      <4> HIDE DEF batch
      <4>2. Readable(batch)
        BY <3>2, <4>1 DEF Readable
      <4>3. names \subseteq ToSet(batch.names)
        <5> HIDE DEF names
        <5> QED BY <3>2, <4>1 DEF ToSet
      <4> QED BY <4>2, <4>3
    <3>4. AssembleInto(names, batches)
      BY <3>1
    <3> HIDE DEF batch, names
    <3>5. DOMAIN batches = 1..1 /\ batches[1] = batch /\ 1 \in 1..1 /\ \A i \in 1..1 : i = 1
      OBVIOUS
    <3> HIDE DEF batches
    <3>6. names \subseteq UNION {ToSet(batches[i].names) : i \in 1..1}
      BY <3>3, <3>5
    <3>7. \A i \in 1..1 : Readable(batches[i])
      BY <3>3, <3>5
    <3>8. Accounted'
      <4>1. 1 \in Nat
        OBVIOUS
      <4> QED BY <3>4, <3>5, <3>6, <3>7, <4>1, AssembleAccounts
    <3> QED BY <1>1, <1>2, <2>1, <3>8
  <2> QED BY <2>2, <2>3
<1>8. CASE EvaluateApp
  <2>1. CASE Refuse
    BY <1>1, <1>2, <2>1 DEF Refuse
  <2>2. CASE ~Refuse
    <3>1. PICK context \in AppContexts :
            /\ roots' = IF DOMAIN context = {} THEN {Root("app", 0, NoDrv, {}, "Cached")}
                        ELSE {Root("app", 0, d, {}, "Failed") : d \in DOMAIN context}
            /\ evaluated' = {[kind |-> "app", name |-> 0, drv |-> d, outs |-> {},
                              selected |-> context[d]] : d \in DOMAIN context}
            /\ pc' = "complete"
      BY <1>8, <2>2 DEF EvaluateApp, EvaluationEnds
    <3>2. CASE DOMAIN context = {}
      <4>1. \A root \in roots' : Quiet(root)'
        BY <3>1, <3>2 DEF Root, Quiet, ExistingStates
      <4>2. Accounted'
        BY <4>1 DEF Accounted
      <4> QED BY <1>1, <1>2, <3>1, <4>2
    <3>3. CASE DOMAIN context # {}
      <4> DEFINE Node(d) == [kind |-> "app", name |-> 0, drv |-> d, outs |-> {}, selected |-> context[d]]
      <4>1. evaluated' = {Node(d) : d \in DOMAIN context} /\ \A d : Node(d).drv = d
        BY <3>1
      <4> HIDE DEF Node
      <4>2. \A d \in DOMAIN context : d \in RootDrvs'
        BY <4>1 DEF RootDrvs
      <4>3. \A root \in roots' : root.drv \in RootDrvs'
        BY <3>1, <3>3, <4>2 DEF Root
      <4>4. Accounted'
        BY <4>3 DEF Accounted
      <4> QED BY <1>1, <1>2, <3>1, <4>4
    <3> QED BY <3>2, <3>3
  <2> QED BY <2>1, <2>2
<1> QED BY <1>3, <1>4, <1>5, <1>6, <1>7, <1>8 DEF EvaluationNext

------------------------------------------------------------------------------
(* What a step leaves as it was *)

LEMMA GroundStays ==
  ASSUME GroundInv, UNCHANGED <<graph, lightweight>>,
         parsed' = "ok" => parsed = "ok" /\ nodes' = nodes, pc \in Later => pc' \in Later
  PROVE  GroundInv'
<1>1. Grounded(graph') /\ (parsed' = "ok" => Grounded(nodes'))
  BY DEF GroundInv
<1>2. lightweight' /\ pc' \notin Later => \A d \in DOMAIN graph' : Deps(graph', d) = {}
  BY DEF GroundInv
<1> QED BY <1>1, <1>2 DEF GroundInv

LEMMA FiniteStays ==
  ASSUME FiniteInv, UNCHANGED <<executions, results, confirmed, stopped>>
  PROVE  FiniteInv'
BY DEF FiniteInv

LEMMA CauseStays ==
  ASSUME CauseInv, UNCHANGED <<graph, executions>>, diags \subseteq diags'
  PROVE  CauseInv'
<1>1. \A d : Accused(d) => Accused(d)'
  BY DEF Accused
<1> QED BY <1>1 DEF CauseInv

LEMMA EmptyExplained ==
  ASSUME DOMAIN executions' = {}
  PROVE  CauseInv' /\ BlankInv'
BY DEF CauseInv, BlankInv

LEMMA BlankStays ==
  ASSUME BlankInv, UNCHANGED executions, Blank' => Blank
  PROVE  BlankInv'
BY DEF BlankInv

LEMMA EndStays ==
  ASSUME EndInv, UNCHANGED <<executions, confirmed>>,
         pc' \in {"build", "gather"} => pc \in {"build", "gather"}, pc' # "apply",
         Holding' => Holding
  PROVE  EndInv'
BY DEF EndInv

LEMMA AccountedStays ==
  ASSUME UNCHANGED <<roots, evaluated>>, diags \subseteq diags', Accounted
  PROVE  Accounted'
<1>1. RootDrvs' = RootDrvs
  BY DEF RootDrvs
<1>2. Evident => Evident'
  BY DEF Evident
<1> QED BY <1>1, <1>2 DEF Accounted, Quiet

LEMMA AccountStays ==
  ASSUME AccountInv, IInv', pc \notin Evaluating \cup {"finish", "done"}, pc' \notin {"finish", "done"},
         Accounted => Accounted'
  PROVE  AccountInv'
<1>1. outcome' = "none"
  BY DEF IInv, PhaseInv
<1> QED BY <1>1 DEF AccountInv

\* Steps that look but do not touch.
LEMMA LookingKeeps ==
  ASSUME CInv, IInv',
         UNCHANGED <<graph, lightweight, executions, results, confirmed, stopped>>,
         parsed' = "ok" => parsed = "ok" /\ nodes' = nodes,
         pc \notin Evaluating \cup Later \/ pc = "settle", pc \in Later => pc' \in Later,
         pc' \notin Evaluating \cup {"apply", "finish", "done"},
         diags \subseteq diags', Accounted => Accounted',
         Blank' => Blank, pc' \in {"build", "gather"} => pc \in {"build", "gather"},
         Holding' => Holding
  PROVE  CInv'
<1>1. GroundInv' /\ FiniteInv'
  BY GroundStays, FiniteStays DEF CInv
<1>2. CauseInv' /\ BlankInv' /\ EndInv'
  BY CauseStays, BlankStays, EndStays DEF CInv
<1>3. AccountInv'
  BY AccountStays DEF CInv, Later
<1>4. QueueInv'
  BY DEF QueueInv, Evaluating
<1> QED BY <1>1, <1>2, <1>3, <1>4 DEF CInv

------------------------------------------------------------------------------
(* Why a request failed: the beginning, the evaluation and the probe of the roots *)

LEMMA NothingIsGrounded ==
  ASSUME NEW known, IsFiniteSet(DOMAIN known), \A d \in DOMAIN known : Deps(known, d) = {}
  PROVE  Grounded(known)
<1> DEFINE rank == [d \in DOMAIN known |-> 0]
<1>1. rank \in [DOMAIN known -> Nat]
  OBVIOUS
<1>2. \A d \in DOMAIN known : \A e \in Deps(known, d) : rank[e] < rank[d]
  OBVIOUS
<1> QED BY <1>1, <1>2 DEF Grounded

LEMMA InitCInv == Init => CInv
<1> SUFFICES ASSUME Init PROVE CInv
  OBVIOUS
<1>1. /\ pc = "start" /\ outcome = "none" /\ parsed = "idle" /\ lightweight = FALSE
      /\ graph = <<>> /\ executions = <<>> /\ results = <<>> /\ confirmed = <<>> /\ stopped = {}
  BY DEF Init, EvaluationInit, StreamInit
<1>2. DOMAIN <<>> = {}
  OBVIOUS
<1>3. GroundInv
  <2>1. DOMAIN graph = {} /\ IsFiniteSet({})
    BY <1>1, <1>2, FS_EmptySet
  <2>2. Grounded(graph)
    BY <2>1, NothingIsGrounded
  <2> QED BY <1>1, <2>2 DEF GroundInv
<1>4. FiniteInv
  <2>1. /\ DOMAIN executions = {} /\ DOMAIN results = {} /\ DOMAIN confirmed = {} /\ stopped = {}
        /\ IsFiniteSet({})
    BY <1>1, <1>2, FS_EmptySet
  <2> QED BY <2>1 DEF FiniteInv
<1>5. CauseInv /\ BlankInv
  BY <1>1, <1>2 DEF CauseInv, BlankInv
<1>6. EndInv
  BY <1>1, <1>2 DEF EndInv, Holding
<1>7. AccountInv /\ QueueInv
  BY <1>1 DEF AccountInv, QueueInv, Evaluating
<1> QED BY <1>3, <1>4, <1>5, <1>6, <1>7 DEF CInv

LEMMA EvaluationCInv ==
  ASSUME TInv, IInv, CInv, EvaluationNext, UNCHANGED <<streamVars, realizationVars>>
  PROVE  CInv'
<1>1. EvaluationWay /\ pc \in EvaluationPcs
  BY EvaluationMoves DEF IInv
<1>2. /\ pc' \in EvaluationPcs \cup {"finish", "done"} /\ pc \in Early /\ pc \notin Later
  BY <1>1 DEF EvaluationWay, EvaluationPcs, Early, Later
<1>3. UNCHANGED <<graph, lightweight, executions, results, confirmed, stopped, parsed, nodes>>
  BY DEF realizationVars, probeVars, buildVars, planVars, streamVars
<1>4. GroundInv' /\ FiniteInv'
  BY <1>2, <1>3, GroundStays, FiniteStays DEF CInv
<1>5. CauseInv' /\ BlankInv'
  BY <1>2, <1>3, EmptyExplained DEF TInv, PlanInv
<1>6. EndInv'
  <2>1. pc' \notin {"build", "gather", "apply"} /\ ~Holding'
    BY <1>2 DEF Holding, EvaluationPcs
  <2> QED BY <1>3, <2>1 DEF CInv, EndInv
<1>7. AccountInv' /\ QueueInv'
  BY EvaluationAccounts, EvaluationQueue DEF TInv, CInv
<1> QED BY <1>4, <1>5, <1>6, <1>7 DEF CInv

LEMMA StutterCInv ==
  ASSUME CInv, UNCHANGED <<request, pc, queue, worker, completed, roots, evaluated, diags,
                           outcome, streamVars, realizationVars>>, cancelled => cancelled'
  PROVE  CInv'
<1>1. UNCHANGED <<graph, lightweight, executions, results, confirmed, stopped, parsed, nodes>>
  BY DEF realizationVars, probeVars, buildVars, planVars, streamVars
<1>2. BatchSet' = BatchSet
  BY SameTargets
<1>3. RootDrvs' = RootDrvs /\ Pending' = Pending /\ Holding' = Holding /\ Blank' = Blank
  BY <1>1 DEF RootDrvs, Pending, Holding, Blank
<1>4. GroundInv' /\ FiniteInv'
  BY <1>1, GroundStays, FiniteStays DEF CInv
<1>5. CauseInv' /\ BlankInv'
  BY <1>1, <1>3, CauseStays, BlankStays DEF CInv
<1>6. EndInv'
  BY <1>1, <1>3 DEF CInv, EndInv
<1>7. AccountInv'
  <2>1. (Accounted => Accounted') /\ Errors' = Errors
    BY AccountedStays DEF Errors
  <2> QED BY <2>1 DEF CInv, AccountInv, Quiet
<1>8. QueueInv'
  BY <1>2 DEF CInv, QueueInv
<1> QED BY <1>4, <1>5, <1>6, <1>7, <1>8 DEF CInv

LEMMA CompleteCInv == ASSUME TInv, IInv, IInv', CInv, Complete PROVE CInv'
<1>1. /\ pc = "complete" /\ pc' \in {"finish", "probeRoots", "loadGraph"}
      /\ pc' = "finish" => evaluated = {}
      /\ UNCHANGED <<roots, evaluated, diags, streamVars, realizationVars>>
  BY DEF Complete
<1>2. UNCHANGED <<graph, lightweight, executions, results, confirmed, stopped, parsed, nodes>>
  BY <1>1 DEF realizationVars, probeVars, buildVars, planVars, streamVars
<1>3. DOMAIN executions = {} /\ ~lightweight
  BY <1>1 DEF TInv, PlanInv, IInv, WayInv, Early
<1>4. Accounted /\ Accounted'
  <2>1. Accounted
    BY <1>1 DEF CInv, AccountInv, Evaluating
  <2> QED BY <1>1, <2>1, AccountedStays
<1>5. GroundInv' /\ FiniteInv'
  BY <1>1, <1>2, GroundStays, FiniteStays DEF CInv, Later
<1>6. CauseInv' /\ BlankInv'
  BY <1>2, <1>3, EmptyExplained
<1>7. EndInv'
  <2>1. pc' \notin {"build", "gather", "apply"} /\ ~Holding'
    BY <1>1, <1>2, <1>3 DEF Holding
  <2> QED BY <1>2, <2>1 DEF CInv, EndInv
<1>8. AccountInv'
  <2>1. outcome' = "none"
    BY <1>1 DEF IInv, PhaseInv
  <2>2. CASE pc' = "finish"
    <3>1. RootDrvs = {}
      BY <1>1, <2>2 DEF RootDrvs
    <3>2. Errors' \/ \A root \in roots' : Quiet(root)'
      BY <1>1, <1>4, <3>1 DEF Accounted, Evident, Errors, Quiet
    <3> QED BY <2>1, <2>2, <3>2 DEF AccountInv
  <2>3. CASE pc' # "finish"
    BY <1>1, <1>4, <2>1, <2>3 DEF AccountInv
  <2> QED BY <2>2, <2>3
<1>9. QueueInv'
  BY <1>1 DEF QueueInv
<1> QED BY <1>5, <1>6, <1>7, <1>8, <1>9 DEF CInv

LEMMA RootsFinite == ASSUME TInv PROVE RootDrvs \in SUBSET DOMAIN World /\ IsFiniteSet(RootDrvs)
<1>1. RootDrvs \in SUBSET DOMAIN World
  BY DEF RootDrvs, TInv, RootInv
<1> QED BY <1>1, FS_Subset, RealizationAssumption

\* The graph of a request that has read none: the roots, without what they depend on.
LEMMA LightweightGrounded ==
  ASSUME TInv
  PROVE  /\ Grounded(LightweightNodes)
         /\ \A d \in DOMAIN LightweightNodes : Deps(LightweightNodes, d) = {}
<1> DEFINE known == LightweightNodes
<1>1. DOMAIN known = RootDrvs /\ \A d \in RootDrvs : known[d].deps = <<>>
  BY DEF LightweightNodes
<1>2. DOMAIN <<>> = {}
  OBVIOUS
<1> HIDE DEF known
<1>3. IsFiniteSet(DOMAIN known)
  BY <1>1, RootsFinite
<1>4. \A d \in DOMAIN known : Deps(known, d) = {}
  BY <1>1, <1>2 DEF Deps
<1>5. Grounded(known)
  BY <1>3, <1>4, NothingIsGrounded
<1> QED BY <1>4, <1>5 DEF known

LEMMA ProbeRootsCInv == ASSUME TInv, IInv, IInv', CInv, ProbeRoots PROVE CInv'
<1>1. /\ pc = "probeRoots"
      /\ UNCHANGED <<evaluated, diags, streamVars, results, confirmed, stopped>>
  BY DEF ProbeRoots, buildVars
<1>2. PICK known : RootsProbed(known)
  BY RootsLooked
<1>3. UNCHANGED <<parsed, nodes>>
  BY <1>1 DEF streamVars
<1>4. DOMAIN executions = {} /\ ~lightweight /\ pc \notin Later
  BY <1>1 DEF TInv, PlanInv, IInv, WayInv, Early, Later
<1>5. Accounted /\ RootDrvs' = RootDrvs
  BY <1>1 DEF CInv, AccountInv, Evaluating, RootDrvs
<1>6. \/ /\ pc' = "finish" /\ graph' = LightweightNodes /\ executions' = CachedRoots
         /\ roots' = {IF r.drv # NoDrv THEN [r EXCEPT !.state = "Cached"] ELSE r : r \in roots}
         /\ lightweight' = lightweight
      \/ pc' = "loadGraph" /\ UNCHANGED <<graph, lightweight, executions, roots>>
      \/ pc' = "graphReady" /\ graph' = LightweightNodes /\ UNCHANGED <<executions, roots>>
  BY <1>2 DEF RootsProbed
<1>7. /\ Grounded(LightweightNodes)
      /\ \A d \in DOMAIN LightweightNodes : Deps(LightweightNodes, d) = {}
  BY LightweightGrounded
<1>8. GroundInv'
  <2>1. Grounded(graph') /\ (lightweight' => \A d \in DOMAIN graph' : Deps(graph', d) = {})
    <3>1. CASE graph' = LightweightNodes
      <4> HIDE DEF LightweightNodes
      <4> QED BY <1>7, <3>1
    <3>2. CASE UNCHANGED <<graph, lightweight>>
      BY <1>4, <3>2 DEF CInv, GroundInv
    <3> QED BY <1>6, <3>1, <3>2
  <2>2. parsed' = "ok" => Grounded(nodes')
    BY <1>3 DEF CInv, GroundInv
  <2> QED BY <2>1, <2>2 DEF GroundInv
<1>9. FiniteInv'
  <2>1. IsFiniteSet(DOMAIN executions')
    <3>1. DOMAIN executions' = RootDrvs \/ executions' = executions
      BY <1>6 DEF CachedRoots
    <3> QED BY <3>1, RootsFinite DEF CInv, FiniteInv
  <2> QED BY <1>1, <2>1 DEF CInv, FiniteInv
<1>10. CauseInv' /\ BlankInv'
  <2>1. CASE executions' = executions
    BY <1>4, <2>1, EmptyExplained
  <2>2. CASE pc' = "finish" /\ executions' = CachedRoots
    <3>1. \A d \in DOMAIN executions' : executions'[d].deps = {} /\ executions'[d].state = "Cached"
      BY <2>2 DEF CachedRoots
    <3>2. CauseInv'
      BY <3>1 DEF CauseInv
    <3>3. BlankInv'
      BY <2>2 DEF BlankInv, Blank, Early
    <3> QED BY <3>2, <3>3
  <2> QED BY <1>6, <2>1, <2>2
<1>11. EndInv'
  <2>1. pc' \notin {"build", "gather", "apply", "realized", "dependencies", "settle", "readGraph"}
    BY <1>6
  <2>2. pc' = "loadGraph" => ~lightweight'
    BY <1>4, <1>6
  <2>3. ~Holding'
    BY <2>1, <2>2 DEF Holding
  <2> QED BY <1>1, <2>1, <2>3 DEF CInv, EndInv
<1>12. AccountInv'
  <2>1. outcome' = "none"
    <3>1. pc' # "done"
      BY <1>6
    <3> QED BY <3>1 DEF IInv, PhaseInv
  <2>2. CASE pc' = "finish"
    <3> DEFINE Now(r) == IF r.drv # NoDrv THEN [r EXCEPT !.state = "Cached"] ELSE r
    <3>1. roots' = {Now(r) : r \in roots}
      BY <1>6, <2>2
    <3>2. ASSUME NEW r \in roots, r.drv \in RootDrvs \/ Quiet(r) PROVE Quiet(Now(r))
      <4>1. CASE r.drv # NoDrv
        <5>1. Now(r).state = "Cached"
          BY <4>1 DEF TInv, RootInv, PlainRoot
        <5> QED BY <5>1 DEF Quiet, ExistingStates
      <4>2. CASE r.drv = NoDrv
        BY <3>2, <4>2, RootsFinite, RealizationAssumption
      <4> QED BY <4>1, <4>2
    <3>3. Errors' \/ \A root \in roots' : Quiet(root)'
      <4> HIDE DEF Now
      <4>1. Evident => Errors'
        BY <1>1 DEF Evident, Errors
      <4> QED BY <1>5, <3>1, <3>2, <4>1 DEF Accounted, Quiet
    <3> QED BY <2>1, <2>2, <3>3 DEF AccountInv
  <2>3. CASE pc' # "finish"
    <3>1. roots' = roots
      BY <1>6, <2>3
    <3>2. Accounted'
      BY <1>1, <1>5, <3>1, AccountedStays
    <3> QED BY <1>6, <2>1, <2>3, <3>2 DEF AccountInv
  <2> QED BY <2>2, <2>3
<1>13. QueueInv'
  BY <1>6 DEF QueueInv
<1> QED BY <1>8, <1>9, <1>10, <1>11, <1>12, <1>13 DEF CInv

------------------------------------------------------------------------------
(* Why a request failed: the graph *)

LEMMA ShowGraphCInv == ASSUME TInv, IInv, IInv', CInv, ShowGraph PROVE CInv'
<1>1. /\ pc = "loadGraph" /\ pc' = "readGraph"
      /\ UNCHANGED <<roots, evaluated, diags, realizationVars>>
      /\ \E document : StartStream(document, RootDrvs)
  BY DEF ShowGraph
<1>2. UNCHANGED <<graph, lightweight, executions, results, confirmed, stopped>>
  BY <1>1 DEF realizationVars, probeVars, buildVars, planVars
<1>3. parsed' # "ok"
  BY <1>1 DEF StartStream
<1>4. Accounted => Accounted'
  BY <1>1, AccountedStays
<1>5. (Blank' => Blank) /\ (Holding' => Holding)
  BY <1>1, <1>2 DEF Blank, Holding, Early
<1> QED BY <1>1, <1>2, <1>3, <1>4, <1>5, LookingKeeps DEF Evaluating, Later

LEMMA ReadGraphCInv == ASSUME TInv, TInv', IInv, IInv', CInv, ReadGraph PROVE CInv'
<1>1. /\ pc = "readGraph" /\ pc' = pc /\ StreamNext
      /\ UNCHANGED <<roots, evaluated, diags, realizationVars>>
  BY DEF ReadGraph, evaluationVars
<1>2. UNCHANGED <<graph, lightweight, executions, results, confirmed, stopped>>
  BY <1>1 DEF realizationVars, probeVars, buildVars, planVars
<1>3. ASSUME parsed' = "ok" PROVE Grounded(nodes')
  <2>1. CASE EndStream
    <3>1. nodes' = nodes /\ GraphError(nodes, graphRoots, MaxNodes) \in {"none", "ok"}
      <4>1. deferred # "ok"
        BY DEF TInv, ReadInv
      <4> QED BY <1>3, <2>1, <4>1 DEF EndStream
    <3>2. Grounded(nodes)
      BY <3>1, AcceptedIsGrounded DEF TInv, ReadInv
    <3> QED BY <3>1, <3>2
  <2>2. CASE ~EndStream
    <3>1. ASSUME NEW kind, Reads(kind) PROVE Ignored # "ok" /\ parsed = "reading"
      <4>1. unread # <<>> /\ parsed = "reading"
        BY <3>1 DEF Reads
      <4>2. unread \in Seq(ToSet(unread)) /\ \A member \in ToSet(unread) : TrueMember(member)
        BY DEF TInv, ReadInv
      <4>3. Head(unread) \in ToSet(unread)
        BY <4>1, <4>2
      <4> QED BY <4>1, <4>2, <4>3 DEF TrueMember, Ignored, Torn
    <3>2. CASE ReadVersion \/ ReadSibling
      BY <1>3, <3>1, <3>2 DEF ReadVersion, ReadSibling
    <3>3. CASE ReadWrapper
      <4>1. PICK code : parsed' = IF code # "ok" THEN code ELSE Ignored
        BY <3>3 DEF ReadWrapper
      <4>2. Reads("derivations")
        BY <3>3 DEF ReadWrapper
      <4> QED BY <1>3, <3>1, <4>1, <4>2
    <3>4. CASE ReadLegacyNode
      <4>1. Reads("derivation") /\ (parsed' \in Torn \/ parsed' = parsed)
        BY <3>4 DEF ReadLegacyNode
      <4> QED BY <1>3, <3>1, <4>1 DEF Torn
    <3> QED BY <1>1, <2>2, <3>2, <3>3, <3>4 DEF StreamNext
  <2> QED BY <2>1, <2>2
<1>4. GroundInv'
  BY <1>1, <1>2, <1>3 DEF CInv, GroundInv
<1>5. FiniteInv'
  BY <1>2, FiniteStays DEF CInv
<1>6. CauseInv' /\ BlankInv' /\ EndInv'
  <2>1. (Blank' => Blank) /\ (Holding' => Holding)
    BY <1>1, <1>2 DEF Blank, Holding
  <2> QED BY <1>1, <1>2, <2>1, CauseStays, BlankStays, EndStays DEF CInv
<1>7. AccountInv'
  BY <1>1, AccountedStays, AccountStays DEF CInv, Evaluating
<1>8. QueueInv'
  BY <1>1 DEF QueueInv
<1> QED BY <1>4, <1>5, <1>6, <1>7, <1>8 DEF CInv

Blaming(run, e) == [run EXCEPT !.state = "Skipped", !.dep = e]

\* Whoever is marked had failed, and names the first of those that it waited for in vain.
LEMMA MarkBlames ==
  ASSUME NEW runs, NEW deps, NEW d \in DOMAIN runs, deps[d] \in SUBSET Nat
  PROVE  \/ MarkSkipped(runs, deps)[d] = runs[d]
         \/ \E e \in deps[d] \cap DOMAIN runs :
              /\ runs[d].state = "Failed" /\ runs[e].state \in {"Failed", "Skipped"}
              /\ MarkSkipped(runs, deps)[d] = Blaming(runs[d], e)
<1> DEFINE culprits == Culprits(runs, deps, d)
<1>1. culprits \in SUBSET Nat /\ culprits \subseteq deps[d] \cap DOMAIN runs
      /\ \A e \in culprits : runs[e].state \in {"Failed", "Skipped"}
  BY DEF Culprits
<1>2. MarkSkipped(runs, deps)[d] = IF runs[d].state = "Failed" /\ culprits # {}
                                     THEN Blaming(runs[d], Min(culprits))
                                     ELSE runs[d]
  BY DEF MarkSkipped, Blaming
<1> HIDE DEF culprits
<1>3. culprits # {} => Min(culprits) \in culprits
  BY <1>1, LeastOf
<1> QED BY <1>1, <1>2, <1>3

\* With the graph the failures of a build without one are told apart, and each that
\* remains is still told of.
LEMMA ExplainCauses ==
  ASSUME Kept, GroundInv, CauseInv, lightweight, pc \notin Later, Grounded(nodes), ExplainFailures
  PROVE  /\ CauseInv' /\ DOMAIN executions' = DOMAIN executions
         /\ \A d \in DOMAIN executions : \/ executions'[d].state = executions[d].state
                                         \/ executions'[d].state = "Skipped"
         /\ Evident => Evident'
<1> DEFINE deps == [d \in DOMAIN executions |-> Deps(nodes, d) \cap DOMAIN executions]
           runs == [d \in DOMAIN executions |-> [executions[d] EXCEPT !.deps = deps[d]]]
           skipped == Skipped(MarkSkipped(runs, deps)) \ Skipped(executions)
<1>1. /\ executions' = MarkSkipped(runs, deps) /\ graph' = nodes
      /\ diags' = {g \in diags : g.code = "realization_failed" =>
                                   \A d \in skipped : g.target # <<"node", d>>}
  BY DEF ExplainFailures
<1>2. Evident => Evident'
  <2> HIDE DEF skipped
  <2>1. \A g \in diags : g.code # "realization_failed" => g \in diags'
    BY <1>1
  <2> QED BY <2>1 DEF Evident
<1>3. \A d \in DOMAIN executions : executions[d].state # "Skipped"
  <2>1. \A d : Deps(graph, d) = {}
    BY DEF GroundInv, Deps
  <2> QED BY <2>1 DEF CauseInv
<1>4. DOMAIN runs = DOMAIN executions
  OBVIOUS
<1>5. ASSUME NEW d \in DOMAIN executions
      PROVE  /\ Plain(runs[d]) /\ runs[d].state = executions[d].state /\ runs[d].deps = deps[d]
             /\ deps[d] \in SUBSET Nat /\ deps[d] \in SUBSET Deps(nodes, d)
  <2>1. Plain(executions[d]) /\ runs[d] = [executions[d] EXCEPT !.deps = deps[d]]
    BY DEF Kept
  <2>2. deps[d] \in SUBSET Nat /\ deps[d] \in SUBSET Deps(nodes, d)
    BY DEF Grounded, Deps
  <2> HIDE DEF runs, deps
  <2> QED BY <2>1, <2>2 DEF Plain
<1>6. DOMAIN executions' = DOMAIN executions
  BY <1>1, <1>4 DEF MarkSkipped
<1>7. \A d \in skipped : d \in DOMAIN executions /\ executions'[d].state = "Skipped"
  BY <1>1, <1>6 DEF Skipped
<1> HIDE DEF runs, deps, skipped
<1>8. ASSUME NEW d \in DOMAIN executions
      PROVE  \/ executions'[d] = runs[d] /\ executions'[d].state = executions[d].state
             \/ \E e \in deps[d] \cap DOMAIN executions :
                  /\ executions[e].state \in {"Failed", "Skipped"} /\ executions'[d].state = "Skipped"
                  /\ executions'[d].dep = e /\ executions'[d].deps = deps[d]
  <2>1. CASE executions'[d] = runs[d]
    BY <1>5, <2>1
  <2>2. CASE \E e \in deps[d] \cap DOMAIN runs :
               /\ runs[d].state = "Failed" /\ runs[e].state \in {"Failed", "Skipped"}
               /\ executions'[d] = Blaming(runs[d], e)
    BY <1>4, <1>5, <2>2 DEF Plain, Blaming
  <2> QED BY <1>1, <1>4, <1>5, <2>1, <2>2, MarkBlames
<1>9. ASSUME NEW d \in DOMAIN executions
      PROVE  /\ executions'[d].deps \in SUBSET Deps(graph', d)
             /\ executions'[d].state = "Skipped" =>
                  /\ executions'[d].dep \in executions'[d].deps \cap DOMAIN executions
                  /\ executions'[executions'[d].dep].state \in {"Failed", "Skipped"}
             /\ executions'[d].state = "Failed" => Accused(d)'
  <2>1. executions'[d].deps \in SUBSET Deps(graph', d)
    BY <1>1, <1>5, <1>8
  <2>2. ASSUME executions'[d].state = "Skipped"
        PROVE  /\ executions'[d].dep \in executions'[d].deps \cap DOMAIN executions
               /\ executions'[executions'[d].dep].state \in {"Failed", "Skipped"}
    <3>1. PICK e \in deps[d] \cap DOMAIN executions :
            /\ executions[e].state \in {"Failed", "Skipped"}
            /\ executions'[d].dep = e /\ executions'[d].deps = deps[d]
      BY <1>3, <1>8, <2>2
    <3>2. executions'[e].state \in {"Failed", "Skipped"}
      BY <1>8, <3>1
    <3> QED BY <3>1, <3>2
  <2>3. ASSUME executions'[d].state = "Failed" PROVE Accused(d)'
    <3>1. executions[d].state = "Failed"
      BY <1>8, <2>3
    <3>2. PICK g \in diags : g.target = <<"node", d>> /\ g.severity = "Error"
      BY <3>1 DEF CauseInv, Accused
    <3>3. \A e \in skipped : g.target # <<"node", e>>
      BY <1>7, <2>3, <3>2
    <3> QED BY <1>1, <3>2, <3>3 DEF Accused
  <2> QED BY <2>1, <2>2, <2>3
<1>10. CauseInv'
  BY <1>6, <1>9 DEF CauseInv
<1>11. \A d \in DOMAIN executions : \/ executions'[d].state = executions[d].state
                                    \/ executions'[d].state = "Skipped"
  BY <1>8
<1> QED BY <1>2, <1>6, <1>10, <1>11

LEMMA GraphCInv == ASSUME TInv, IInv, IInv', CInv, GraphRunFails \/ GraphLoaded PROVE CInv'
<1>1. /\ pc \in {"loadGraph", "readGraph"} /\ DropStream
      /\ UNCHANGED <<roots, evaluated, lightweight, results, confirmed, stopped>>
      /\ \/ /\ \E code : GraphRefused(code)
            /\ graph' = graph \/ (graph' = nodes /\ parsed = "ok" /\ ~lightweight)
         \/ lightweight /\ parsed = "ok" /\ ExplainFailures /\ pc' = "settle"
         \/ /\ ~lightweight /\ parsed = "ok"
            /\ graph' = nodes /\ pc' = "graphReady" /\ UNCHANGED <<executions, diags>>
  BY DEF GraphRunFails, GraphLoaded, requestVars, probeVars, buildVars, planVars
<1>2. pc \notin Later /\ Accounted
  BY <1>1 DEF Later, CInv, AccountInv, Evaluating
<1>3. /\ Grounded(graph) /\ (parsed = "ok" => Grounded(nodes)) /\ parsed' = "idle"
      /\ (~lightweight => DOMAIN executions = {})
  BY <1>1 DEF CInv, GroundInv, BlankInv, Blank, DropStream
<1>4. \/ /\ pc' = "settle" /\ lightweight /\ UNCHANGED <<graph, executions>> /\ diags \subseteq diags'
      \/ pc' = "finish" /\ ~lightweight /\ executions' = executions /\ Errors'
      \/ pc' = "settle" /\ lightweight /\ parsed = "ok" /\ graph' = nodes /\ ExplainFailures
      \/ pc' = "graphReady" /\ ~lightweight /\ UNCHANGED <<executions, diags>>
  <2>1. CASE \E code : GraphRefused(code)
    <3>1. /\ Errors' /\ executions' = executions /\ diags \subseteq diags'
          /\ pc' = IF lightweight THEN "settle" ELSE "finish"
      BY <2>1, RefusedKeeps DEF GraphRefused
    <3>2. \/ graph' = graph \/ ~lightweight
          \/ lightweight /\ parsed = "ok" /\ ExplainFailures /\ graph' = nodes
      BY <1>1 DEF ExplainFailures
    <3> QED BY <3>1, <3>2
  <2>2. CASE ~\E code : GraphRefused(code)
    BY <1>1, <2>2 DEF ExplainFailures
  <2> QED BY <2>1, <2>2
<1>5. pc' = "settle" => /\ DOMAIN executions' = DOMAIN executions /\ CauseInv' /\ Accounted'
                        /\ \A d \in DOMAIN executions : \/ executions'[d].state = executions[d].state
                                                        \/ executions'[d].state = "Skipped"
  <2>1. CASE UNCHANGED <<graph, executions>> /\ diags \subseteq diags'
    BY <1>1, <1>2, <2>1, CauseStays, AccountedStays DEF CInv
  <2>2. CASE lightweight /\ parsed = "ok" /\ ExplainFailures
    <3>1. /\ CauseInv' /\ DOMAIN executions' = DOMAIN executions /\ (Evident => Evident')
          /\ \A d \in DOMAIN executions : \/ executions'[d].state = executions[d].state
                                          \/ executions'[d].state = "Skipped"
      BY <1>2, <1>3, <2>2, ExplainCauses DEF IInv, CInv
    <3>2. RootDrvs' = RootDrvs
      BY <1>1 DEF RootDrvs
    <3>3. Accounted'
      BY <1>1, <1>2, <3>1, <3>2 DEF Accounted, Quiet
    <3> QED BY <3>1, <3>3
  <2> QED BY <1>4, <2>1, <2>2
<1>6. pc' # "settle" => executions' = executions /\ DOMAIN executions = {}
  BY <1>3, <1>4
<1>7. GroundInv'
  BY <1>1, <1>3, <1>4 DEF GroundInv, Later, CInv, ExplainFailures
<1>8. FiniteInv'
  BY <1>1, <1>5, <1>6 DEF FiniteInv, CInv
<1>9. CauseInv' /\ BlankInv'
  <2>1. CASE pc' = "settle"
    BY <1>5, <2>1 DEF BlankInv, Blank, Early
  <2>2. CASE pc' # "settle"
    BY <1>6, <2>2, EmptyExplained
  <2> QED BY <2>1, <2>2
<1>10. EndInv'
  <2>1. pc' \notin {"build", "gather", "apply"} /\ (Holding' => pc' = "settle")
    BY <1>4 DEF Holding
  <2>2. pc' = "settle" => Holding
    BY <1>1, <1>4 DEF Holding
  <2> QED BY <1>1, <1>5, <2>1, <2>2 DEF CInv, EndInv, Ended
<1>11. AccountInv'
  <2>1. outcome' = "none"
    BY <1>4 DEF IInv, PhaseInv
  <2>2. pc' = "graphReady" => Accounted'
    BY <1>1, <1>2, <1>4, AccountedStays
  <2> QED BY <1>4, <1>5, <2>1, <2>2 DEF AccountInv
<1>12. QueueInv'
  BY <1>4 DEF QueueInv
<1> QED BY <1>7, <1>8, <1>9, <1>10, <1>11, <1>12 DEF CInv

------------------------------------------------------------------------------
(* Why a request failed: the probes, the plan and the build *)

LEMMA PlanProbesCInv == ASSUME TInv, IInv, IInv', CInv, PlanProbes PROVE CInv'
<1>1. /\ pc = "graphReady" /\ pc' \in {"plan", "probeLocal"} /\ PopulateAppOutputs
      /\ UNCHANGED <<evaluated, diags, graph, lightweight, executions, results, confirmed, stopped,
                     parsed, nodes>>
  BY DEF PlanProbes, requestVars, buildVars, planVars, streamVars
<1>2. Accounted => Accounted'
  <2>1. RootDrvs' = RootDrvs /\ (Evident => Evident')
    BY <1>1 DEF RootDrvs, Evident
  <2>2. ASSUME NEW root \in roots'
        PROVE  \E r \in roots : root.drv = r.drv /\ root.state = r.state
    <3>1. PICK r \in roots : root = r \/ \E outs : root = [r EXCEPT !.outs = outs]
      BY <1>1 DEF PopulateAppOutputs
    <3>2. PlainRoot(r)
      BY DEF TInv, RootInv
    <3> QED BY <3>1, <3>2 DEF PlainRoot
  <2> QED BY <1>1, <2>1, <2>2 DEF Accounted, Quiet
<1>3. /\ Blank' => Blank
      /\ Holding' => Holding
  BY <1>1 DEF Blank, Holding
<1> QED BY <1>1, <1>2, <1>3, LookingKeeps DEF Evaluating, Later

LEMMA ProbesCInv ==
  ASSUME TInv, IInv, IInv', CInv, ProbeUnknown \/ ProbeRemote \/ ProbesEnd
  PROVE  CInv'
<1>1. /\ pc \in {"probeLocal", "probeRemote"} /\ pc' \in {"probeRemote", "plan"}
      /\ UNCHANGED <<roots, evaluated, diags, graph, lightweight, executions, results, confirmed,
                     stopped, parsed, nodes>>
  BY DEF ProbeUnknown, ProbeRemote, ProbesEnd, requestVars, buildVars, planVars, streamVars
<1>2. Accounted => Accounted'
  BY <1>1, AccountedStays
<1>3. /\ Blank' => Blank
      /\ Holding' => Holding
  BY <1>1 DEF Blank, Holding
<1> QED BY <1>1, <1>2, <1>3, LookingKeeps DEF Evaluating, Later

LEMMA PlanCInv == ASSUME TInv, IInv, IInv', CInv, Plan PROVE CInv'
<1>1. /\ pc = "plan" /\ executions' = [d \in RootDrvs |-> Execution(d)]
      /\ pc' = IF \E d \in RootDrvs : Execution(d).state = "pending" THEN "build" ELSE "realized"
      /\ UNCHANGED <<roots, evaluated, diags, graph, lightweight, results, confirmed, stopped,
                     parsed, nodes>>
  BY DEF Plan, requestVars, buildVars, streamVars
<1>2. \A d \in RootDrvs : Execution(d).state \in {"pending", "Cached", "CachedRemote"}
  BY ExecutionTruth
<1>3. \A d \in RootDrvs : /\ Execution(d).deps \in SUBSET Deps(graph, d)
                          /\ Execution(d).expected \in ExistingStates
  BY DEF Execution, ExistingStates
<1>4. pc \notin Later /\ Accounted
  BY <1>1 DEF CInv, AccountInv, Evaluating, Later
<1>5. GroundInv'
  BY <1>1, <1>4, GroundStays DEF CInv
<1>6. FiniteInv'
  <2>1. IsFiniteSet(DOMAIN executions')
    BY <1>1, RootsFinite
  <2> QED BY <1>1, <2>1 DEF FiniteInv, CInv
<1>7. CauseInv' /\ BlankInv'
  <2>1. CauseInv'
    BY <1>1, <1>2, <1>3 DEF CauseInv
  <2>2. BlankInv'
    BY <1>1 DEF BlankInv, Blank, Early
  <2> QED BY <2>1, <2>2
<1>8. EndInv'
  <2>1. pc' # "apply" /\ (Holding' => pc' = "realized")
    BY <1>1 DEF Holding
  <2>2. pc' = "realized" => \A d \in DOMAIN executions' : executions'[d].state \in Ended
    BY <1>1, <1>2 DEF Ended, ExistingStates
  <2>3. pc' \in {"build", "gather"} => \A d \in DOMAIN executions' : executions'[d].expected \in ExistingStates
    BY <1>1, <1>3
  <2>4. \A d \in DOMAIN confirmed' : confirmed'[d].state \in ExistingStates
    BY <1>1 DEF CInv, EndInv
  <2> QED BY <2>1, <2>2, <2>3, <2>4 DEF EndInv
<1>9. AccountInv'
  <2>1. Accounted'
    BY <1>1, <1>4, AccountedStays
  <2> QED BY <1>1, <2>1, AccountStays DEF CInv, Evaluating
<1>10. QueueInv'
  BY <1>1 DEF QueueInv
<1> QED BY <1>5, <1>6, <1>7, <1>8, <1>9, <1>10 DEF CInv

\* Nix works on what is pending and what that needs.
LEMMA BuildableWithin == ASSUME TInv, pc = "build" PROVE Buildable \in SUBSET DOMAIN World
<1>1. Pending \in SUBSET DOMAIN World
  BY RootsFinite DEF TInv, PlanInv, Pending
<1>2. Closure(World, Pending) \in SUBSET DOMAIN World
  BY <1>1, ClosureWithin, RealizationAssumption
<1> QED BY <1>1, <1>2 DEF Buildable

LEMMA BuildCInv == ASSUME TInv, IInv, IInv', CInv, Build PROVE CInv'
<1>1. /\ pc = "build" /\ pc' = "gather"
      /\ UNCHANGED <<roots, evaluated, diags, graph, lightweight, executions, results, parsed, nodes>>
  BY DEF Build, requestVars, planVars, streamVars
<1>2. pc \notin Later /\ Accounted
  BY <1>1 DEF CInv, AccountInv, Evaluating, Later
<1>3. /\ DOMAIN confirmed' \in SUBSET DOMAIN World /\ stopped' \in SUBSET DOMAIN World
      /\ \A d \in DOMAIN confirmed' : confirmed'[d].state \in ExistingStates
  <2>1. CASE RunBuild
    <3>1. PICK fate \in PossibleFates :
            /\ \E part :
                 confirmed' = [d \in {e \in Made(fate) : fate[e] \in {"reported", "live"}} |->
                                 Confirmation(d, fate[d], part[d])]
            /\ stopped' = {d \in DOMAIN fate : fate[d] \in {"dropped", "stopped"}}
      BY <2>1 DEF RunBuild
    <3>2. DOMAIN fate \in SUBSET DOMAIN World
      BY <1>1, BuildableWithin DEF PossibleFates
    <3>3. \A d, f, outs : Confirmation(d, f, outs).state \in ExistingStates
      BY DEF Confirmation, ExistingStates
    <3> QED BY <3>1, <3>2, <3>3 DEF Made
  <2>2. CASE UNCHANGED <<confirmed, stopped>>
    BY <2>2 DEF CInv, FiniteInv, EndInv
  <2> QED BY <2>1, <2>2 DEF Build
<1>4. GroundInv'
  BY <1>1, <1>2, GroundStays DEF CInv
<1>5. FiniteInv'
  BY <1>1, <1>3 DEF FiniteInv, CInv
<1>6. CauseInv' /\ BlankInv'
  BY <1>1, CauseStays DEF CInv, BlankInv, Blank, Early
<1>7. EndInv'
  BY <1>1, <1>3 DEF CInv, EndInv, Holding
<1>8. AccountInv' /\ QueueInv'
  BY <1>1, <1>2, AccountedStays, AccountStays DEF CInv, Evaluating, QueueInv
<1> QED BY <1>4, <1>5, <1>6, <1>7, <1>8 DEF CInv

------------------------------------------------------------------------------
(* Why a request failed: what became of the nodes *)

\* Of every pending node it is known how it ended.
Sound(runs) ==
  /\ Pending \subseteq DOMAIN runs /\ IsFiniteSet(DOMAIN runs)
  /\ \A d \in DOMAIN runs : Final(runs[d])

LEMMA PendingFinite == ASSUME FiniteInv PROVE IsFiniteSet(Pending)
<1>1. Pending \in SUBSET DOMAIN executions
  BY DEF Pending
<1> QED BY <1>1, FS_Subset DEF FiniteInv

LEMMA ParsedSound ==
  ASSUME CInv, pc = "gather"
  PROVE  DOMAIN Parsed = Pending /\ Sound(Parsed)
<1>1. DOMAIN Parsed = Pending
  BY DEF Parsed
<1>2. ASSUME NEW d \in Pending PROVE Final(Parsed[d])
  <2>1. executions[d].expected \in ExistingStates
    BY DEF CInv, EndInv, Pending
  <2>2. CASE Listed(d)
    BY <2>1, <2>2 DEF Parsed, NodeRun, Final, Run
  <2>3. CASE ~Listed(d)
    BY <2>3 DEF Parsed, NodeRun, Final, Run
  <2> QED BY <2>2, <2>3
<1> HIDE DEF Parsed
<1> QED BY <1>1, <1>2, PendingFinite DEF Sound, CInv

LEMMA UnstartedSound ==
  ASSUME CInv
  PROVE  DOMAIN Unstarted = Pending /\ Sound(Unstarted)
<1>1. DOMAIN Unstarted = Pending
  BY DEF Unstarted
<1>2. ASSUME NEW d \in Pending PROVE Final(Unstarted[d])
  BY DEF Unstarted, NodeRun, Final, Run
<1> HIDE DEF Unstarted
<1> QED BY <1>1, <1>2, PendingFinite DEF Sound, CInv

LEMMA LinkFailedSound ==
  ASSUME NEW runs, Sound(runs)
  PROVE  DOMAIN LinkFailed(runs) = DOMAIN runs /\ Sound(LinkFailed(runs))
<1> DEFINE failed == LinkFailed(runs)
<1>1. DOMAIN failed = DOMAIN runs
  BY DEF LinkFailed
<1>2. ASSUME NEW d \in DOMAIN runs PROVE Final(failed[d])
  BY DEF LinkFailed, Sound, Final, Run
<1> HIDE DEF failed
<1>3. DOMAIN failed = DOMAIN runs /\ Sound(failed)
  BY <1>1, <1>2 DEF Sound
<1> QED BY <1>3 DEF failed

LEMMA RecoveredSound ==
  ASSUME CInv, pc = "gather", NEW runs, DOMAIN runs = Pending, Sound(runs)
  PROVE  DOMAIN Recovered(runs) = Pending /\ Sound(Recovered(runs))
<1> DEFINE recovered == Recovered(runs)
<1>1. DOMAIN recovered = Pending
  BY DEF Recovered
<1>2. ASSUME NEW d \in Pending PROVE Final(recovered[d])
  <2>1. executions[d].expected \in ExistingStates
    BY DEF CInv, EndInv, Pending
  <2>2. \/ recovered[d] = runs[d]
        \/ \E required, produced : recovered[d] = NodeRun(executions[d].expected, required, produced, "none")
    BY DEF Recovered
  <2> HIDE DEF recovered
  <2>3. CASE recovered[d] = runs[d]
    BY <2>3 DEF Sound
  <2>4. CASE \E required, produced :
               recovered[d] = NodeRun(executions[d].expected, required, produced, "none")
    BY <2>1, <2>4 DEF Final, NodeRun, Run
  <2> QED BY <2>2, <2>3, <2>4
<1> HIDE DEF recovered
<1>3. DOMAIN recovered = Pending /\ Sound(recovered)
  BY <1>1, <1>2 DEF Sound
<1> QED BY <1>3 DEF recovered

LEMMA RetainSound ==
  ASSUME CInv, NEW runs, Sound(runs)
  PROVE  Sound(RetainObserved(runs))
<1> DEFINE retained == RetainObserved(runs)
<1>1. DOMAIN retained = DOMAIN runs \cup Standing
  BY DEF RetainObserved
<1>2. IsFiniteSet(DOMAIN retained)
  <2>1. Standing \in SUBSET DOMAIN World
    BY DEF Standing, CInv, FiniteInv
  <2>2. IsFiniteSet(Standing)
    BY <2>1, FS_Subset, RealizationAssumption
  <2> QED BY <1>1, <2>2, FS_Union DEF Sound
<1>3. ASSUME NEW d \in DOMAIN retained PROVE Final(retained[d])
  <2>1. CASE d \notin Standing
    BY <1>1, <2>1 DEF RetainObserved, Sound
  <2>2. CASE d \in Standing
    <3>1. confirmed[d].state \in ExistingStates
      BY <2>2 DEF Standing, CInv, EndInv
    <3>2. CASE d \notin DOMAIN runs
      BY <2>2, <3>1, <3>2 DEF RetainObserved, NodeRun, Final, Run
    <3>3. CASE d \in DOMAIN runs
      <4>1. \/ retained[d] = runs[d]
            \/ retained[d] = [runs[d] EXCEPT !.state = confirmed[d].state]
            \/ \E produced : retained[d] = [runs[d] EXCEPT !.produced = produced]
            \/ \E required, produced : retained[d] = NodeRun(confirmed[d].state, required, produced, "none")
        BY <2>2, <3>3 DEF RetainObserved
      <4>2. Final(runs[d])
        BY <3>3 DEF Sound
      <4> HIDE DEF retained
      <4>3. CASE \E produced : retained[d] = [runs[d] EXCEPT !.produced = produced]
        BY <4>2, <4>3 DEF Final, Run
      <4>4. CASE retained[d] = [runs[d] EXCEPT !.state = confirmed[d].state]
        BY <3>1, <4>2, <4>4 DEF Final, Run
      <4>5. CASE \E required, produced : retained[d] = NodeRun(confirmed[d].state, required, produced, "none")
        BY <3>1, <4>5 DEF Final, Run, NodeRun
      <4> QED BY <4>1, <4>2, <4>3, <4>4, <4>5
    <3> QED BY <3>2, <3>3
  <2> QED BY <2>1, <2>2
<1> HIDE DEF retained
<1>4. Sound(retained)
  BY <1>1, <1>2, <1>3 DEF Sound
<1> QED BY <1>4 DEF retained

LEMMA FoundSound ==
  ASSUME NEW runs, Sound(runs), NEW candidates, NEW found, IsFiniteSet(found)
  PROVE  Sound(WithFound(runs, candidates, found))
<1> DEFINE kept == WithFound(runs, candidates, found)
<1>1. DOMAIN kept = DOMAIN runs \cup found
  BY DEF WithFound
<1>2. IsFiniteSet(DOMAIN kept)
  BY <1>1, FS_Union DEF Sound
<1>3. ASSUME NEW d \in DOMAIN kept PROVE Final(kept[d])
  <2>1. CASE d \notin found
    BY <1>1, <2>1 DEF WithFound, Sound
  <2>2. CASE d \in found
    <3>1. \/ /\ d \in DOMAIN runs
             /\ \E produced : kept[d] = [runs[d] EXCEPT !.produced = produced]
          \/ \E required, produced : kept[d] = NodeRun("Realized", required, produced, "none")
      BY <2>2 DEF WithFound
    <3> HIDE DEF kept
    <3>2. CASE /\ d \in DOMAIN runs
               /\ \E produced : kept[d] = [runs[d] EXCEPT !.produced = produced]
      BY <3>2 DEF Sound, Final, Run
    <3>3. CASE \E required, produced : kept[d] = NodeRun("Realized", required, produced, "none")
      BY <3>3 DEF Final, Run, NodeRun, ExistingStates
    <3> QED BY <3>1, <3>2, <3>3
  <2> QED BY <2>1, <2>2
<1> HIDE DEF kept
<1>4. Sound(kept)
  BY <1>1, <1>2, <1>3 DEF Sound
<1> QED BY <1>4 DEF kept

LEMMA GatheredCInv ==
  ASSUME TInv, IInv, IInv', CInv, pc = "gather", NEW runs, Sound(runs), Gathered(runs)
  PROVE  CInv'
<1>1. /\ pc' = "apply" /\ results' = runs /\ diags \subseteq diags'
      /\ UNCHANGED <<roots, evaluated, graph, lightweight, executions, confirmed, stopped, parsed, nodes>>
  BY DEF Gathered, requestVars, buildVars, planVars, streamVars
<1>2. pc \notin Later /\ Accounted
  BY DEF CInv, AccountInv, Evaluating, Later
<1>3. Pending' = Pending
  BY <1>1 DEF Pending
<1>4. GroundInv'
  BY <1>1, <1>2, GroundStays DEF CInv
<1>5. FiniteInv'
  BY <1>1 DEF FiniteInv, CInv, Sound
<1>6. CauseInv' /\ BlankInv'
  BY <1>1, CauseStays DEF CInv, BlankInv, Blank, Early
<1>7. EndInv'
  BY <1>1, <1>3 DEF CInv, EndInv, Sound, Holding
<1>8. AccountInv' /\ QueueInv'
  BY <1>1, <1>2, AccountedStays, AccountStays DEF CInv, Evaluating, QueueInv
<1> QED BY <1>4, <1>5, <1>6, <1>7, <1>8 DEF CInv

LEMMA GatherCInv ==
  ASSUME TInv, IInv, IInv', CInv, GatherSuccess \/ GatherFailure \/ GatherUnfinished
  PROVE  CInv'
<1>1. pc = "gather"
  BY DEF GatherSuccess, GatherFailure, GatherUnfinished
<1>2. Sound(Parsed) /\ DOMAIN Parsed = Pending /\ Sound(Unstarted)
  BY <1>1, ParsedSound, UnstartedSound
<1>3. CASE GatherSuccess
  BY <1>1, <1>2, <1>3, RetainSound, GatheredCInv DEF GatherSuccess
<1>4. CASE GatherFailure
  <2>1. Sound(LinkFailed(Parsed)) /\ Sound(Recovered(Parsed))
    BY <1>1, <1>2, LinkFailedSound, RecoveredSound
  <2>2. \/ Gathered(RetainObserved(LinkFailed(Parsed)))
        \/ Gathered(RetainObserved(Parsed))
        \/ Gathered(RetainObserved(Recovered(Parsed)))
    BY <1>4 DEF GatherFailure
  <2> QED BY <1>1, <1>2, <2>1, <2>2, RetainSound, GatheredCInv
<1>5. CASE GatherUnfinished
  <2> DEFINE runs == RetainObserved(Unstarted)
             inGraph == StoppedInGraph(runs)
  <2>1. Sound(runs)
    BY <1>2, RetainSound
  <2>2. CASE Gathered(Unstarted) \/ Gathered(runs)
    BY <1>1, <1>2, <2>1, <2>2, GatheredCInv
  <2>3. CASE ~(Gathered(Unstarted) \/ Gathered(runs))
    <3>1. PICK elsewhere \in StoppedElsewhere(runs) :
            LET candidates == [d \in DOMAIN inGraph \cup DOMAIN elsewhere |->
                                 IF d \in DOMAIN inGraph THEN inGraph[d] ELSE elsewhere[d]]
            IN \E found \in Found(candidates) : Gathered(WithFound(runs, candidates, found))
      BY <1>5, <2>3 DEF GatherUnfinished
    <3> DEFINE candidates == [d \in DOMAIN inGraph \cup DOMAIN elsewhere |->
                                IF d \in DOMAIN inGraph THEN inGraph[d] ELSE elsewhere[d]]
    <3> HIDE DEF runs
    <3>2. PICK found \in Found(candidates) : Gathered(WithFound(runs, candidates, found))
      BY <3>1
    <3>3. DOMAIN inGraph \in SUBSET DOMAIN graph
      BY DEF StoppedInGraph, LiveRequired, RequiredOutputs
    <3>4. DOMAIN elsewhere \in SUBSET DOMAIN World
      <4>1. DOMAIN <<>> = {}
        OBVIOUS
      <4> QED BY <4>1 DEF StoppedElsewhere, CInv, FiniteInv
    <3>5. found \in SUBSET (DOMAIN graph \cup DOMAIN World)
      BY <3>3, <3>4 DEF Found
    <3>6. IsFiniteSet(DOMAIN graph) /\ IsFiniteSet(DOMAIN World)
      BY RealizationAssumption DEF CInv, GroundInv, Grounded
    <3> HIDE DEF candidates
    <3>7. IsFiniteSet(found)
      BY <3>5, <3>6, FS_Union, FS_Subset
    <3>8. Sound(WithFound(runs, candidates, found))
      BY <2>1, <3>7, FoundSound
    <3> QED BY <1>1, <3>2, <3>8, GatheredCInv
  <2> QED BY <2>2, <2>3
<1> QED BY <1>3, <1>4, <1>5

------------------------------------------------------------------------------
(* Why a request failed: the results, the dependencies and the manifest *)

LEMMA ApplyCInv == ASSUME TInv, IInv, IInv', CInv, ApplyResults PROVE CInv'
<1> DEFINE joined == [d \in DOMAIN results \cup DOMAIN executions |->
                        IF d \in DOMAIN executions THEN executions[d].deps
                        ELSE Deps(graph, d) \cap (DOMAIN results \cup Pending)]
           marked == MarkSkipped(results, joined)
<1>1. /\ pc = "apply" /\ pc' = "realized"
      /\ executions' = [d \in DOMAIN joined |->
           IF d \in DOMAIN marked THEN Applied(d, marked[d], joined[d]) ELSE executions[d]]
      /\ diags' = diags \cup {Diagnostic(marked[d].diag, "Error", <<"node", d>>) :
           d \in {e \in DOMAIN marked : marked[e].diag # "none" /\ marked[e].state # "Skipped"}}
      /\ UNCHANGED <<roots, evaluated, graph, lightweight, results, confirmed, stopped, parsed, nodes>>
  BY DEF ApplyResults, requestVars, buildVars, planVars, streamVars
<1>2. /\ DOMAIN joined = DOMAIN results \cup DOMAIN executions /\ DOMAIN marked = DOMAIN results
      /\ pc \notin Later /\ Accounted
  BY <1>1 DEF MarkSkipped, CInv, AccountInv, Evaluating, Later
<1>3. \A d \in DOMAIN joined : joined[d] \in SUBSET Deps(graph, d) /\ joined[d] \in SUBSET Nat
  <2>1. \A d : Deps(graph, d) \in SUBSET Nat
    BY DEF CInv, GroundInv, Grounded, Deps
  <2> QED BY <2>1 DEF CInv, CauseInv
<1>4. /\ \A d \in DOMAIN results : Final(results[d])
      /\ Pending \subseteq DOMAIN results
  BY <1>1 DEF CInv, EndInv
<1> HIDE DEF joined
<1>5. ASSUME NEW d \in DOMAIN results
      PROVE  \/ marked[d] = results[d]
             \/ \E e \in joined[d] \cap DOMAIN results :
                  /\ results[e].state \in {"Failed", "Skipped"}
                  /\ marked[d].state = "Skipped" /\ marked[d].dep = e
  <2>1. \/ marked[d] = results[d]
        \/ \E e \in joined[d] \cap DOMAIN results :
             /\ results[d].state = "Failed" /\ results[e].state \in {"Failed", "Skipped"}
             /\ marked[d] = Blaming(results[d], e)
    BY <1>2, <1>3, MarkBlames
  <2>2. \A e : Blaming(results[d], e).state = "Skipped" /\ Blaming(results[d], e).dep = e
    BY <1>4 DEF Final, Run, Blaming
  <2> HIDE DEF marked
  <2> QED BY <2>1, <2>2
<1> HIDE DEF marked
<1>6. \A d, run, deps : /\ Applied(d, run, deps).state = run.state
                        /\ Applied(d, run, deps).dep = run.dep
                        /\ Applied(d, run, deps).deps = deps
  BY DEF Applied
<1>7. DOMAIN executions' = DOMAIN results \cup DOMAIN executions
  BY <1>1, <1>2
<1>8. ASSUME NEW d \in DOMAIN results
      PROVE  /\ executions'[d].state = marked[d].state /\ executions'[d].dep = marked[d].dep
             /\ executions'[d].deps = joined[d]
  BY <1>1, <1>2, <1>6
<1>9. ASSUME NEW d \in DOMAIN executions \ DOMAIN results
      PROVE  executions'[d] = executions[d] /\ executions[d].state \in {"Cached", "CachedRemote"}
  <2>1. executions'[d] = executions[d]
    BY <1>1, <1>2
  <2>2. executions[d].state \in {"pending", "Cached", "CachedRemote"}
    BY <1>1 DEF TInv, PlanInv
  <2>3. executions[d].state # "pending"
    BY <1>4 DEF Pending
  <2> QED BY <2>1, <2>2, <2>3
<1>10. GroundInv'
  BY <1>1, <1>2, GroundStays DEF CInv
<1>11. FiniteInv'
  <2>1. IsFiniteSet(DOMAIN executions')
    BY <1>7, FS_Union DEF CInv, FiniteInv
  <2> QED BY <1>1, <2>1 DEF CInv, FiniteInv
<1>12. CauseInv'
  <2>1. SUFFICES ASSUME NEW d \in DOMAIN executions'
        PROVE  /\ executions'[d].deps \in SUBSET Deps(graph, d)
               /\ executions'[d].state = "Skipped" =>
                    /\ executions'[d].dep \in executions'[d].deps \cap DOMAIN executions'
                    /\ executions'[executions'[d].dep].state \in {"Failed", "Skipped"}
               /\ executions'[d].state = "Failed" => Accused(d)'
    BY <1>1 DEF CauseInv
  <2>2. CASE d \in DOMAIN results
    <3>1. CASE marked[d] = results[d]
      <4>1. executions'[d].state # "Skipped"
        BY <1>4, <1>8, <2>2, <3>1 DEF Final, ExistingStates
      <4>2. ASSUME executions'[d].state = "Failed" PROVE Accused(d)'
        <5>1. marked[d].state = "Failed" /\ marked[d].diag # "none"
          BY <1>4, <1>8, <2>2, <3>1, <4>2 DEF Final, ExistingStates
        <5>2. Diagnostic(marked[d].diag, "Error", <<"node", d>>) \in diags'
          BY <1>1, <1>2, <2>2, <5>1
        <5> QED BY <5>2 DEF Accused, Diagnostic
      <4> QED BY <1>2, <1>3, <1>8, <2>2, <4>1, <4>2
    <3>2. CASE marked[d] # results[d]
      <4>1. PICK e \in joined[d] \cap DOMAIN results :
              /\ results[e].state \in {"Failed", "Skipped"}
              /\ marked[d].state = "Skipped" /\ marked[d].dep = e
        BY <1>5, <2>2, <3>2
      <4>2. executions'[e].state \in {"Failed", "Skipped"}
        BY <1>5, <1>8, <4>1
      <4> QED BY <1>2, <1>3, <1>7, <1>8, <2>2, <4>1, <4>2
    <3> QED BY <3>1, <3>2
  <2>3. CASE d \notin DOMAIN results
    <3>1. executions'[d] = executions[d] /\ executions[d].state \in {"Cached", "CachedRemote"}
      BY <1>7, <1>9, <2>3
    <3> QED BY <1>7, <2>3, <3>1 DEF CInv, CauseInv
  <2> QED BY <2>2, <2>3
<1>13. BlankInv' /\ EndInv'
  <2>1. BlankInv'
    BY <1>1 DEF BlankInv, Blank, Early
  <2>2. \A d \in DOMAIN executions' : executions'[d].state \in Ended
    BY <1>4, <1>5, <1>7, <1>8, <1>9 DEF Final, Ended, ExistingStates
  <2>3. EndInv'
    BY <1>1, <2>2 DEF CInv, EndInv
  <2> QED BY <2>1, <2>3
<1>14. AccountInv' /\ QueueInv'
  BY <1>1, <1>2, AccountedStays, AccountStays DEF CInv, Evaluating, QueueInv
<1> QED BY <1>10, <1>11, <1>12, <1>13, <1>14 DEF CInv

LEMMA RealizedCInv == ASSUME IInv, IInv', CInv, Realized PROVE CInv'
<1>1. /\ pc = "realized" /\ pc' \in {"dependencies", "loadGraph", "settle"}
      /\ pc' = "loadGraph" => lightweight
      /\ diags \subseteq diags'
      /\ UNCHANGED <<roots, evaluated, graph, lightweight, executions, results, confirmed, stopped,
                     parsed, nodes>>
  BY DEF Realized, requestVars, realizationVars, probeVars, buildVars, planVars, streamVars
<1>2. Accounted => Accounted'
  BY <1>1, AccountedStays
<1>3. /\ Blank' => Blank
      /\ Holding' => Holding
  BY <1>1 DEF Blank, Early, Holding
<1> QED BY <1>1, <1>2, <1>3, LookingKeeps DEF Evaluating, Later

\* A look at the dependencies changes nothing about failures.
LEMMA ObservedCauses ==
  ASSUME Kept, NEW known, NEW d
  PROVE  LET seen == Observed(known, d)
         IN /\ d \notin DOMAIN executions =>
                 seen.deps \in SUBSET Deps(graph, d) /\ seen.state \in {"Realized", "Cached"}
            /\ d \in DOMAIN executions =>
                 /\ seen.deps = executions[d].deps /\ seen.dep = executions[d].dep
                 /\ \/ seen.state = executions[d].state
                    \/ seen.state = "Realized" /\ executions[d].state \in ExistingStates
<1> DEFINE seen == Observed(known, d)
<1>1. CASE d \notin DOMAIN executions
  BY <1>1 DEF Observed
<1>2. CASE d \in DOMAIN executions
  <2>1. Plain(executions[d])
    BY <1>2 DEF Kept
  <2>2. \E required, produced, made :
          seen = [executions[d] EXCEPT
                    !.required = required, !.produced = produced,
                    !.state = IF made /\ @ \in {"Cached", "Substituted"} THEN "Realized" ELSE @]
    BY <1>2 DEF Observed
  <2> HIDE DEF seen
  <2>3. /\ seen.deps = executions[d].deps /\ seen.dep = executions[d].dep
        /\ \/ seen.state = executions[d].state
           \/ seen.state = "Realized" /\ executions[d].state \in ExistingStates
    BY <2>1, <2>2 DEF Plain, ExistingStates
  <2> QED BY <1>2, <2>3 DEF seen
<1> QED BY <1>1, <1>2

LEMMA DependenciesCInv == ASSUME IInv, IInv', CInv, CompleteDependencies PROVE CInv'
<1>1. /\ pc = "dependencies" /\ pc' = "settle" /\ diags \subseteq diags'
      /\ UNCHANGED <<roots, evaluated, graph, lightweight, results, confirmed, stopped, parsed, nodes>>
  BY DEF CompleteDependencies, requestVars, buildVars, planVars, streamVars
<1>2. PICK known : RecordObserved(known)
  BY DEF CompleteDependencies, ProbeLocal
<1>3. PICK observed \in SUBSET DOMAIN Required :
        executions' = [d \in DOMAIN executions \cup observed |->
                         IF d \in observed THEN Observed(known, d) ELSE executions[d]]
  BY <1>2 DEF RecordObserved
<1>4. DOMAIN executions' = DOMAIN executions \cup observed
  BY <1>3
<1>5. \A d \in DOMAIN executions :
        /\ executions'[d].deps = executions[d].deps /\ executions'[d].dep = executions[d].dep
        /\ \/ executions'[d].state = executions[d].state
           \/ executions'[d].state = "Realized" /\ executions[d].state \in ExistingStates
  BY <1>3, ObservedCauses DEF IInv
<1>6. \A d \in DOMAIN executions' \ DOMAIN executions :
        executions'[d].deps \in SUBSET Deps(graph, d) /\ executions'[d].state \in {"Realized", "Cached"}
  BY <1>3, <1>4, ObservedCauses DEF IInv
<1>7. pc \notin Later /\ Accounted
  BY <1>1 DEF CInv, AccountInv, Evaluating, Later
<1>8. GroundInv'
  BY <1>1, <1>7, GroundStays DEF CInv
<1>9. FiniteInv'
  <2>1. observed \in SUBSET DOMAIN graph
    BY DEF Required, RequiredOutputs
  <2>2. IsFiniteSet(observed)
    BY <2>1, FS_Subset DEF CInv, GroundInv, Grounded
  <2>3. IsFiniteSet(DOMAIN executions')
    BY <1>4, <2>2, FS_Union DEF CInv, FiniteInv
  <2> QED BY <1>1, <2>3 DEF CInv, FiniteInv
<1>10. CauseInv'
  <2>1. \A d : Accused(d) => Accused(d)'
    BY <1>1 DEF Accused
  <2>2. ASSUME NEW d \in DOMAIN executions
        PROVE  /\ executions'[d].deps \in SUBSET Deps(graph, d)
               /\ executions'[d].state = "Skipped" =>
                    /\ executions'[d].dep \in executions'[d].deps \cap DOMAIN executions'
                    /\ executions'[executions'[d].dep].state \in {"Failed", "Skipped"}
               /\ executions'[d].state = "Failed" => Accused(d)'
    BY <1>4, <1>5, <2>1 DEF CInv, CauseInv, ExistingStates
  <2> QED BY <1>1, <1>6, <2>2 DEF CauseInv
<1>11. BlankInv' /\ EndInv'
  <2>1. BlankInv'
    BY <1>1 DEF BlankInv, Blank, Early
  <2>2. \A d \in DOMAIN executions : executions[d].state \in Ended
    BY <1>1 DEF CInv, EndInv, Holding
  <2>3. \A d \in DOMAIN executions' : executions'[d].state \in Ended
    BY <1>5, <1>6, <2>2 DEF Ended, ExistingStates
  <2>4. EndInv'
    BY <1>1, <2>3 DEF CInv, EndInv
  <2> QED BY <2>1, <2>4
<1>12. AccountInv' /\ QueueInv'
  BY <1>1, <1>7, AccountedStays, AccountStays DEF CInv, Evaluating, QueueInv
<1> QED BY <1>8, <1>9, <1>10, <1>11, <1>12 DEF CInv

\* A node that failed or was skipped is told of at the end of its trail.
LEMMA FailureIsTold ==
  ASSUME CInv, NEW d \in DOMAIN executions, executions[d].state \in {"Failed", "Skipped"}
  PROVE  /\ Blamed(d) \in DOMAIN executions /\ executions[Blamed(d)].state = "Failed"
         /\ Accused(Blamed(d))
<1>1. Blamed(d) \in DOMAIN executions /\ executions[Blamed(d)].state = "Failed"
  BY BlamedFailed DEF CInv, GroundInv, FiniteInv
<1> QED BY <1>1 DEF CInv, CauseInv

LEMMA SettleCInv == ASSUME TInv, IInv, IInv', CInv, Settle PROVE CInv'
<1> DEFINE Now(r) == IF r.drv # NoDrv /\ r.drv \in DOMAIN executions
                       THEN [r EXCEPT !.state = executions[r.drv].state] ELSE r
<1>1. /\ pc = "settle" /\ pc' = "finish" /\ roots' = {Now(r) : r \in roots}
      /\ UNCHANGED <<evaluated, diags, graph, lightweight, executions, results, confirmed, stopped,
                     parsed, nodes>>
  BY DEF Settle, requestVars, realizationVars, probeVars, buildVars, planVars, streamVars
<1>2. GroundInv' /\ FiniteInv'
  BY <1>1, GroundStays, FiniteStays DEF CInv, Later
<1>3. CauseInv' /\ BlankInv' /\ EndInv'
  BY <1>1, CauseStays, BlankStays, EndStays DEF CInv, Blank, Early, Holding
<1>4. Errors' \/ \A root \in roots' : Quiet(root)'
  <2>1. SUFFICES ASSUME ~Errors, NEW r \in roots
                 PROVE  Now(r).state \in ExistingStates \cup {"Cancelled"}
    <3> HIDE DEF Now
    <3> QED BY <1>1 DEF Errors, Quiet
  <2>2. r.drv \in RootDrvs \/ Quiet(r)
    BY <1>1, <2>1 DEF CInv, AccountInv, Accounted, Evaluating, Evident, Errors
  <2>3. \A d \in DOMAIN executions : executions[d].state \in ExistingStates \cup {"Cancelled"}
    <3>1. \A d \in DOMAIN executions : executions[d].state \in Ended
      BY <1>1 DEF CInv, EndInv, Holding
    <3>2. \A d \in DOMAIN executions : executions[d].state \notin {"Failed", "Skipped"}
      BY <2>1, FailureIsTold DEF Accused, Errors
    <3> QED BY <3>1, <3>2 DEF Ended
  <2>4. r.drv \in RootDrvs => r.drv # NoDrv /\ r.drv \in DOMAIN executions
    BY <1>1, RootsFinite, RealizationAssumption DEF TInv, PlanInv
  <2>5. CASE r.drv # NoDrv /\ r.drv \in DOMAIN executions
    <3>1. Now(r).state = executions[r.drv].state
      BY <2>1, <2>5 DEF TInv, RootInv, PlainRoot
    <3> HIDE DEF Now
    <3> QED BY <2>3, <2>5, <3>1 DEF Quiet
  <2>6. CASE ~(r.drv # NoDrv /\ r.drv \in DOMAIN executions)
    BY <2>2, <2>4, <2>6 DEF Quiet
  <2> QED BY <2>5, <2>6
<1>5. AccountInv'
  BY <1>1, <1>4 DEF AccountInv, IInv, PhaseInv
<1>6. QueueInv'
  BY <1>1 DEF QueueInv
<1> QED BY <1>2, <1>3, <1>5, <1>6 DEF CInv

LEMMA FinishCInv == ASSUME CInv, Finish PROVE CInv'
<1>1. /\ pc = "finish" /\ pc' = "done" /\ outcome' = OutcomeOf(roots, diags)
      /\ UNCHANGED <<diags, graph, lightweight, executions, results, confirmed, stopped, parsed, nodes>>
  BY DEF Finish, requestVars, realizationVars, probeVars, buildVars, planVars, streamVars
<1>2. GroundInv' /\ FiniteInv'
  BY <1>1, GroundStays, FiniteStays DEF CInv, Later
<1>3. CauseInv' /\ BlankInv' /\ EndInv'
  BY <1>1, CauseStays, BlankStays, EndStays DEF CInv, Blank, Early, Holding
<1>4. outcome' = "Failed" => Errors'
  <2>1. Errors \/ \A root \in roots : Quiet(root)
    BY <1>1 DEF CInv, AccountInv
  <2>2. outcome' = "Failed" => \/ \E d \in diags : d.severity = "Error"
                               \/ \E root \in roots : ~Quiet(root)
    BY <1>1 DEF OutcomeOf, Quiet
  <2> QED BY <1>1, <2>1, <2>2 DEF Errors
<1>5. AccountInv' /\ QueueInv'
  BY <1>1, <1>4 DEF AccountInv, QueueInv
<1> QED BY <1>2, <1>3, <1>5 DEF CInv

LEMMA NextCInv == IInv /\ TInv /\ CInv /\ [Next]_vars /\ IInv' /\ TInv' => CInv'
<1> SUFFICES ASSUME IInv, TInv, CInv, [Next]_vars, IInv', TInv' PROVE CInv'
  OBVIOUS
<1>1. CASE EvaluationNext /\ UNCHANGED <<streamVars, realizationVars>>
  BY <1>1, EvaluationCInv
<1>2. CASE Cancel /\ UNCHANGED <<streamVars, realizationVars>>
  BY <1>2, StutterCInv DEF Cancel
<1>3. CASE UNCHANGED vars
  BY <1>3, StutterCInv DEF vars, evaluationVars
<1>4. CASE Complete \/ ProbeRoots
  BY <1>4, CompleteCInv, ProbeRootsCInv
<1>5. CASE ShowGraph \/ ReadGraph \/ GraphRunFails \/ GraphLoaded
  BY <1>5, ShowGraphCInv, ReadGraphCInv, GraphCInv
<1>6. CASE PlanProbes \/ ProbeUnknown \/ ProbeRemote \/ ProbesEnd
  BY <1>6, PlanProbesCInv, ProbesCInv
<1>7. CASE Plan \/ Build
  BY <1>7, PlanCInv, BuildCInv
<1>8. CASE GatherSuccess \/ GatherFailure \/ GatherUnfinished \/ ApplyResults
  BY <1>8, GatherCInv, ApplyCInv
<1>9. CASE Realized \/ CompleteDependencies \/ Settle \/ Finish
  BY <1>9, RealizedCInv, DependenciesCInv, SettleCInv, FinishCInv
<1>10. CASE Done
  BY <1>3, <1>10 DEF Done
<1> QED BY <1>1, <1>2, <1>3, <1>4, <1>5, <1>6, <1>7, <1>8, <1>9, <1>10 DEF Next

\* A request never fails without an error that says so, and the trail from a skipped node
\* ends at a failure that is told of.
THEOREM FailuresAreExplained == Spec => []FailureIsExplained
<1>1. CInv => FailureIsExplained
  <2> SUFFICES ASSUME CInv PROVE FailureIsExplained
    OBVIOUS
  <2>1. outcome = "Failed" => \E g \in diags : g.severity = "Error"
    BY DEF CInv, AccountInv, Errors
  <2>2. \A d \in DOMAIN executions : executions[d].deps \subseteq DOMAIN graph
    <3>1. \A d : Deps(graph, d) \subseteq DOMAIN graph
      BY DEF CInv, GroundInv, Grounded, Deps
    <3> QED BY <3>1 DEF CInv, CauseInv
  <2>3. ASSUME NEW d \in DOMAIN executions, executions[d].state \in {"Failed", "Skipped"}
        PROVE  /\ executions[d].state = "Skipped" => executions[d].dep \in executions[d].deps
               /\ Blamed(d) \in DOMAIN executions /\ executions[Blamed(d)].state = "Failed"
               /\ \E g \in diags : g.target = <<"node", Blamed(d)>> /\ g.severity = "Error"
    BY <2>3, FailureIsTold DEF CInv, CauseInv, Accused
  <2> QED BY <2>1, <2>2, <2>3 DEF FailureIsExplained
<1> QED BY <1>1, InitCInv, NextCInv, InvariantHolds, TruthHolds, PTL DEF Spec

------------------------------------------------------------------------------
(* Maps that are filled member by member *)

LEMMA MapOfNone == ASSUME NEW key, NEW val PROVE IsMap(<<>>, {}, key, val)
<1>1. DOMAIN <<>> = {} /\ <<>> = [k \in {} |-> <<>>[k]]
  OBVIOUS
<1> QED BY <1>1 DEF IsMap

LEMMA MapGrows ==
  ASSUME NEW key, NEW val, NEW places \in SUBSET Nat, NEW map, IsMap(map, places, key, val),
         NEW i \in Nat, \A j \in places : j < i
  PROVE  IsMap(With(map, key[i], val[i]), places \cup {i}, key, val)
<1> DEFINE new == With(map, key[i], val[i])
           more == places \cup {i}
<1>1. new = [k \in DOMAIN map \cup {key[i]} |-> IF k = key[i] THEN val[i] ELSE map[k]]
  BY DEF With
<1> HIDE DEF new
<1>2. DOMAIN new = DOMAIN map \cup {key[i]} /\ new = [k \in DOMAIN new |-> new[k]]
  BY <1>1
<1>3. DOMAIN new = {key[j] : j \in more}
  BY <1>2 DEF IsMap
<1>4. ASSUME NEW k \in DOMAIN new
      PROVE  \E j \in more : key[j] = k /\ new[k] = val[j] /\ \A l \in more : key[l] = k => l <= j
  <2>1. CASE k = key[i]
    <3>1. new[k] = val[i] /\ i \in more /\ \A l \in more : l <= i
      BY <1>1, <2>1
    <3> QED BY <2>1, <3>1
  <2>2. CASE k # key[i]
    <3>1. k \in DOMAIN map /\ new[k] = map[k]
      BY <1>1, <2>2
    <3>2. PICK j \in places : key[j] = k /\ map[k] = val[j] /\ \A l \in places : key[l] = k => l <= j
      BY <3>1 DEF IsMap
    <3> QED BY <2>2, <3>1, <3>2
  <2> QED BY <2>1, <2>2
<1> QED BY <1>2, <1>3, <1>4 DEF IsMap, new

\* That map, read at once.
AtOnce(places, key, val) ==
  [k \in {key[j] : j \in places} |-> val[Max({j \in places : key[j] = k})]]

LEMMA MapAtOnce ==
  ASSUME NEW key, NEW val, NEW n \in Nat, NEW places \in SUBSET (1..n), NEW map,
         IsMap(map, places, key, val)
  PROVE  map = AtOnce(places, key, val)
<1>1. ASSUME NEW k \in DOMAIN map PROVE map[k] = val[Max({j \in places : key[j] = k})]
  <2> DEFINE s == {j \in places : key[j] = k}
  <2>1. PICK j \in places : key[j] = k /\ map[k] = val[j] /\ \A l \in places : key[l] = k => l <= j
    BY DEF IsMap
  <2>2. j \in s /\ \A l \in s : l <= j
    BY <2>1
  <2>3. s \in SUBSET (1..n) /\ s # {}
    BY <2>2
  <2>4. s \in SUBSET Int
    BY <2>3
  <2> HIDE DEF s
  <2>5. Max(s) \in s /\ \A i \in s : i <= Max(s)
    BY <2>3, UpTo
  <2>6. Max(s) <= j /\ j <= Max(s) /\ j \in Int /\ Max(s) \in Int
    BY <2>2, <2>4, <2>5
  <2>7. Max(s) = j
    BY <2>6
  <2> QED BY <2>1, <2>7 DEF s
<1> QED BY <1>1 DEF IsMap, AtOnce

------------------------------------------------------------------------------
(* What it costs to keep something *)

LEMMA OutsCostGrows ==
  ASSUME NEW outs, IsFiniteSet(DOMAIN outs), NEW k, NEW path
  PROVE  LET new == With(outs, k, path)
         IN /\ IsFiniteSet(DOMAIN new)
            /\ OutsCost(outs) \in Nat /\ OutsCost(new) \in Nat
            /\ OutsCost(new) <= OutsCost(outs) + IF path = NoPath THEN 1 ELSE 2
<1> DEFINE new == With(outs, k, path)
           D == DOMAIN outs
           Known(map) == {o \in DOMAIN map : map[o] # NoPath}
<1>1. DOMAIN new = D \cup {k} /\ new[k] = path /\ \A o \in D \ {k} : new[o] = outs[o]
  BY DEF With
<1> HIDE DEF new
<1>2. IsFiniteSet(DOMAIN new) /\ Cardinality(DOMAIN new) <= Cardinality(D) + 1
      /\ Cardinality(DOMAIN new) \in Nat /\ Cardinality(D) \in Nat
  <2>1. Cardinality(D \cup {k}) \in {Cardinality(D), Cardinality(D) + 1} /\ IsFiniteSet(D \cup {k})
    BY FS_AddElement
  <2>2. Cardinality(D) \in Nat
    BY FS_CardinalityType
  <2> QED BY <1>1, <2>1, <2>2
<1>3. IsFiniteSet(Known(outs)) /\ Cardinality(Known(outs)) \in Nat
      /\ IsFiniteSet(Known(new)) /\ Cardinality(Known(new)) \in Nat
  <2>1. Known(outs) \in SUBSET D /\ Known(new) \in SUBSET DOMAIN new
    OBVIOUS
  <2> QED BY <1>2, <2>1, FS_Subset, FS_CardinalityType
<1>4. Cardinality(Known(new)) <= Cardinality(Known(outs)) + IF path = NoPath THEN 0 ELSE 1
  <2>1. CASE path = NoPath
    <3>1. Known(new) \in SUBSET Known(outs)
      BY <1>1, <2>1
    <3> HIDE DEF Known
    <3>2. Cardinality(Known(new)) <= Cardinality(Known(outs))
      BY <1>3, <3>1, FS_Subset
    <3> QED BY <1>3, <2>1, <3>2
  <2>2. CASE path # NoPath
    <3>1. Known(new) \in SUBSET (Known(outs) \cup {k})
      BY <1>1, <2>2
    <3> HIDE DEF Known
    <3>2. /\ Cardinality(Known(outs) \cup {k}) \in {Cardinality(Known(outs)), Cardinality(Known(outs)) + 1}
          /\ IsFiniteSet(Known(outs) \cup {k})
      BY <1>3, FS_AddElement
    <3>3. Cardinality(Known(new)) <= Cardinality(Known(outs) \cup {k})
      BY <3>1, <3>2, FS_Subset
    <3> QED BY <1>3, <2>2, <3>2, <3>3
  <2> QED BY <2>1, <2>2
<1>5. /\ OutsCost(new) = Cardinality(DOMAIN new) + Cardinality(Known(new))
      /\ OutsCost(outs) = Cardinality(D) + Cardinality(Known(outs))
  BY DEF OutsCost
<1> HIDE DEF Known, D
<1>6. OutsCost(new) <= OutsCost(outs) + IF path = NoPath THEN 1 ELSE 2
  BY <1>2, <1>3, <1>4, <1>5
<1> QED BY <1>2, <1>3, <1>5, <1>6 DEF new

\* The dependencies are finitely many, and so are the outputs of each.
FewDeps(deps) == IsFiniteSet(DOMAIN deps) /\ \A d \in DOMAIN deps : IsFiniteSet(deps[d])

LEMMA DepsCostGrows ==
  ASSUME NEW deps, FewDeps(deps), NEW k, NEW outs, IsFiniteSet(outs)
  PROVE  LET new == With(deps, k, outs)
         IN /\ FewDeps(new)
            /\ DepsCost(deps) \in Nat /\ DepsCost(new) \in Nat
            /\ DepsCost(new) <= DepsCost(deps) + (1 + ContainerCost + Cardinality(outs))
<1> DEFINE new == With(deps, k, outs)
           Each(map) == [d \in DOMAIN map |-> 1 + ContainerCost + Cardinality(map[d])]
           c == 1 + ContainerCost + Cardinality(outs)
<1>1. new = [d \in DOMAIN deps \cup {k} |-> IF d = k THEN outs ELSE deps[d]]
  BY DEF With
<1> HIDE DEF new
<1>2. FewDeps(new)
  <2>1. IsFiniteSet(DOMAIN deps \cup {k})
    BY FS_AddElement DEF FewDeps
  <2> QED BY <1>1, <2>1 DEF FewDeps
<1>3. Each(new) = With(Each(deps), k, c)
  BY <1>1 DEF With
<1>4. c \in Nat /\ \A d \in DOMAIN Each(deps) : Each(deps)[d] \in Nat
  BY FS_CardinalityType, GraphStreamAssumption DEF FewDeps
<1>5. IsFiniteSet(DOMAIN Each(deps))
  BY DEF FewDeps
<1>6. DepsCost(deps) = SumFunction(Each(deps)) /\ DepsCost(new) = SumFunction(Each(new))
  BY DEF DepsCost
<1> HIDE DEF Each, c
<1> QED BY <1>2, <1>3, <1>4, <1>5, <1>6, SumWith DEF new, c

LEMMA NodesCostGrows ==
  ASSUME NEW known, FewNodes(known), NEW k, NEW node, Cost(node) \in Nat
  PROVE  LET new == With(known, k, node)
         IN /\ FewNodes(new)
            /\ NodesCost(known) \in Nat /\ NodesCost(new) \in Nat
            /\ NodesCost(new) <= NodesCost(known) + Cost(node)
<1> DEFINE new == With(known, k, node)
           Each(map) == [d \in DOMAIN map |-> Cost(map[d])]
<1>1. new = [d \in DOMAIN known \cup {k} |-> IF d = k THEN node ELSE known[d]]
  BY DEF With
<1> HIDE DEF new
<1>2. FewNodes(new)
  <2>1. IsFiniteSet(DOMAIN known \cup {k})
    BY FS_AddElement DEF FewNodes
  <2> QED BY <1>1, <2>1 DEF FewNodes
<1>3. Each(new) = With(Each(known), k, Cost(node))
  BY <1>1 DEF With
<1>4. \A d \in DOMAIN Each(known) : Each(known)[d] \in Nat
  BY DEF FewNodes
<1>5. IsFiniteSet(DOMAIN Each(known))
  BY DEF FewNodes
<1>6. NodesCost(known) = SumFunction(Each(known)) /\ NodesCost(new) = SumFunction(Each(new))
  BY DEF NodesCost
<1> HIDE DEF Each
<1> QED BY <1>2, <1>3, <1>4, <1>5, <1>6, SumWith DEF new

\* Nothing costs nothing.
LEMMA NothingCosts ==
  /\ IsFiniteSet(DOMAIN <<>>) /\ OutsCost(<<>>) = 0
  /\ FewDeps(<<>>) /\ DepsCost(<<>>) = 0
  /\ FewNodes(<<>>) /\ NodesCost(<<>>) = 0
<1>1. DOMAIN <<>> = {} /\ IsFiniteSet({}) /\ Cardinality({}) = 0
  BY FS_EmptySet
<1>2. OutsCost(<<>>) = 0
  <2>1. {o \in DOMAIN <<>> : <<>>[o] # NoPath} = {}
    BY <1>1
  <2> QED BY <1>1, <2>1 DEF OutsCost
<1>3. DepsCost(<<>>) = 0 /\ NodesCost(<<>>) = 0
  BY <1>1, SumOfNone DEF DepsCost, NodesCost
<1> QED BY <1>1, <1>2, <1>3 DEF FewDeps, FewNodes

------------------------------------------------------------------------------
(* What the visitors read they have paid for *)

\* A visitor is within its budget, and no error is mistaken for reading on.
Solvent(a) == Shape(a) /\ a.code \notin {"reading", "none"} /\ (a.code = "ok" => a.left \in Nat)

LEMMA ChargePays ==
  ASSUME NEW a, Solvent(a), a.code = "ok", NEW string, NEW cost \in Nat
  PROVE  LET b == Charge(a, string, cost)
         IN Solvent(b) /\ b.value = a.value /\ (b.code = "ok" => b.left + cost = a.left)
BY DEF Solvent, Shape, Charge, Fail

LEMMA NameStep ==
  ASSUME NEW a, Solvent(a), a.code = "ok", NEW name
  PROVE  LET b == OutputName(a, name)
         IN Solvent(b) /\ (b.code = "ok" => b.value = a.value \cup {name} /\ b.left + 1 = a.left)
<1> DEFINE charged == Charge(a, name, 1)
           b == OutputName(a, name)
<1>1. CASE name \in {Scalar, EmptyName}
  BY <1>1 DEF OutputName, Fail, Solvent, Shape
<1>2. CASE name \notin {Scalar, EmptyName}
  <2>1. /\ Solvent(charged) /\ charged.value = a.value
        /\ charged.code = "ok" => charged.left + 1 = a.left
    BY ChargePays
  <2>2. b = IF charged.code = "ok" THEN [charged EXCEPT !.value = @ \cup {name}] ELSE charged
    BY <1>2 DEF OutputName, Then
  <2> HIDE DEF b, charged
  <2> QED BY <2>1, <2>2 DEF Solvent, Shape, b
<1> QED BY <1>1, <1>2

\* A selection holds its names, each of which was paid for.
LEMMA SelectionPays ==
  ASSUME NEW acc, Solvent(acc), acc.code = "ok", NEW value, Listing(value)
  PROVE  LET b == Selection(acc, value)
         IN /\ Solvent(b)
            /\ b.code = "ok" => /\ b.value = ToSet(value) /\ IsFiniteSet(b.value)
                                /\ b.left + Cardinality(b.value) <= acc.left
<1> DEFINE code == "invalid_input_outputs"
           seen == Visit(OutputName, Nested(acc, {}), value, code)
           b == Selection(acc, value)
<1>1. b = IF seen.code = "ok"
            THEN IF seen.value = {} THEN Fail(seen, "empty_input_output_selection") ELSE seen
            ELSE seen
  BY DEF Selection, Then
<1> HIDE DEF b
<1>2. Solvent(Nested(acc, {}))
  BY DEF Nested, Solvent, Shape
<1>3. CASE value = Scalar
  <2>1. seen = Fail(Nested(acc, {}), code)
    BY <1>3 DEF Visit
  <2> HIDE DEF seen
  <2>2. Solvent(seen) /\ seen.code # "ok"
    BY <1>2, <2>1 DEF Fail, Solvent, Shape
  <2> QED BY <1>1, <2>2 DEF b
<1>4. CASE value # Scalar
  <2>1. PICK n \in Nat : DOMAIN value = 1..n
    BY <1>4 DEF Listing
  <2>2. PICK read : InTurn([of |-> "names"], Nested(acc, {}), value, n, read) /\ seen = read[n]
    BY <1>4, <2>1, NamesInTurn
  <2>3. /\ read[0] = Nested(acc, {})
        /\ \A i \in 1..n : read[i] = IF read[i - 1].code = "ok" THEN OutputName(read[i - 1], value[i])
                                     ELSE read[i - 1]
    BY <2>2 DEF InTurn, Step
  <2> DEFINE So(i) == /\ Solvent(read[i])
                      /\ read[i].code = "ok" =>
                           /\ read[i].value = {value[j] : j \in 1..i} /\ IsFiniteSet(read[i].value)
                           /\ read[i].left + Cardinality(read[i].value) <= acc.left
             P == {i \in 0..n : So(i)}
  <2>4. 0 \in P
    <3>1. Nested(acc, {}).value = {} /\ Nested(acc, {}).left = acc.left /\ 1..0 = {}
      BY DEF Nested
    <3>2. IsFiniteSet({}) /\ Cardinality({}) = 0 /\ acc.left \in Nat
      BY FS_EmptySet DEF Solvent
    <3>3. {value[j] : j \in 1..0} = {}
      BY <3>1
    <3>4. read[0].value = {} /\ read[0].left = acc.left /\ Solvent(read[0])
      BY <1>2, <2>3, <3>1
    <3>5. read[0].left + Cardinality(read[0].value) <= acc.left
      BY <3>2, <3>4
    <3>6. So(0)
      BY <3>2, <3>3, <3>4, <3>5
    <3> QED BY <3>6
  <2>5. ASSUME NEW i \in 1..n, i - 1 \in P PROVE i \in P
    <3>1. So(i - 1) /\ i \in 0..n /\ 1..i = (1..(i - 1)) \cup {i}
      BY <2>5
    <3>2. CASE read[i - 1].code # "ok"
      BY <2>3, <3>1, <3>2
    <3>3. CASE read[i - 1].code = "ok"
      <4>1. read[i] = OutputName(read[i - 1], value[i])
        BY <2>3, <3>3
      <4>2. /\ Solvent(read[i])
            /\ read[i].code = "ok" => /\ read[i].value = read[i - 1].value \cup {value[i]}
                                      /\ read[i].left + 1 = read[i - 1].left
        BY <3>1, <3>3, <4>1, NameStep
      <4>3. SUFFICES ASSUME read[i].code = "ok"
                     PROVE  /\ read[i].value = {value[j] : j \in 1..i} /\ IsFiniteSet(read[i].value)
                            /\ read[i].left + Cardinality(read[i].value) <= acc.left
        BY <3>1, <4>2
      <4>4. read[i].value = {value[j] : j \in 1..i}
        BY <3>1, <3>3, <4>2, <4>3
      <4> DEFINE set == read[i - 1].value
      <4>5. /\ IsFiniteSet(set \cup {value[i]})
            /\ Cardinality(set \cup {value[i]}) \in {Cardinality(set), Cardinality(set) + 1}
            /\ Cardinality(set) \in Nat
        <5>1. IsFiniteSet(set)
          BY <3>1, <3>3
        <5> HIDE DEF set
        <5> QED BY <5>1, FS_AddElement, FS_CardinalityType
      <4>6. /\ read[i].left \in Nat /\ read[i - 1].left \in Nat /\ acc.left \in Nat
            /\ read[i - 1].left + Cardinality(set) <= acc.left
        BY <3>1, <3>3, <4>2, <4>3 DEF Solvent
      <4> HIDE DEF set
      <4>7. read[i].left + Cardinality(set \cup {value[i]}) <= acc.left
        BY <4>2, <4>3, <4>5, <4>6
      <4> QED BY <4>2, <4>3, <4>4, <4>5, <4>7 DEF set
    <3> QED BY <3>2, <3>3
  <2>6. So(n)
    <3>1. \A i \in 0..n : i \in P
      <4> HIDE DEF P
      <4> QED BY <2>4, <2>5, OneByOne
    <3> QED BY <3>1
  <2>7. ToSet(value) = {value[j] : j \in 1..n}
    BY <2>1 DEF ToSet
  <2> HIDE DEF seen
  <2>8. Solvent(b) /\ (b.code = "ok" => b = seen /\ seen.code = "ok")
    BY <1>1, <2>2, <2>6 DEF Fail, Solvent, Shape
  <2> QED BY <2>2, <2>6, <2>7, <2>8 DEF b
<1> QED BY <1>3, <1>4

\* One dependency more: what is left and what the dependencies cost does not grow.
LEMMA DependencyPays ==
  ASSUME NEW a, Solvent(a), a.code = "ok", FewDeps(a.value), NEW x, Listing(x.value)
  PROVE  LET b == Dependency(a, x)
         IN /\ Solvent(b)
            /\ b.code = "ok" => /\ b.value = With(a.value, x.key, ToSet(x.value)) /\ FewDeps(b.value)
                                /\ b.left + DepsCost(b.value) <= a.left + DepsCost(a.value)
<1> DEFINE c == 1 + ContainerCost
           charged == Charge(a, x.key, c)
           read == Then(charged, LAMBDA d : Selection(d, x.value))
           b == Dependency(a, x)
<1>1. c \in Nat
  BY GraphStreamAssumption
<1> HIDE DEF c
<1>2. Solvent(charged) /\ (charged.code = "ok" => charged.left + c = a.left)
  BY <1>1, ChargePays
<1>3. read = IF charged.code = "ok" THEN Selection(charged, x.value) ELSE charged
  BY DEF Then
<1>4. b = [code |-> read.code, left |-> read.left,
           value |-> IF read.code = "ok" THEN With(a.value, x.key, read.value) ELSE a.value]
  BY DEF Dependency, Resume, charged, c
<1> HIDE DEF charged, read, b
<1>5. /\ Solvent(read)
      /\ read.code = "ok" => /\ charged.code = "ok"
                             /\ read.value = ToSet(x.value) /\ IsFiniteSet(read.value)
                             /\ read.left + Cardinality(read.value) <= charged.left
  BY <1>2, <1>3, SelectionPays
<1>6. Solvent(b)
  BY <1>4, <1>5 DEF Solvent, Shape
<1>7. ASSUME b.code = "ok"
      PROVE  /\ b.value = With(a.value, x.key, ToSet(x.value)) /\ FewDeps(b.value)
             /\ b.left + DepsCost(b.value) <= a.left + DepsCost(a.value)
  <2>1. read.code = "ok" /\ b.left = read.left /\ b.value = With(a.value, x.key, read.value)
    BY <1>4, <1>7
  <2>2. /\ FewDeps(b.value)
        /\ DepsCost(a.value) \in Nat /\ DepsCost(b.value) \in Nat
        /\ DepsCost(b.value) <= DepsCost(a.value) + (1 + ContainerCost + Cardinality(read.value))
    BY <1>5, <2>1, DepsCostGrows
  <2>3. /\ Cardinality(read.value) \in Nat /\ read.left \in Nat /\ charged.left \in Nat /\ a.left \in Nat
    BY <1>2, <1>5, <2>1, FS_CardinalityType DEF Solvent
  <2>4. b.left + DepsCost(b.value) <= a.left + DepsCost(a.value)
    BY <1>1, <1>2, <1>5, <2>1, <2>2, <2>3 DEF c
  <2> QED BY <1>5, <2>1, <2>2, <2>4
<1> QED BY <1>6, <1>7 DEF b

LEMMA OutputPays ==
  ASSUME NEW a, Solvent(a), a.code = "ok", IsFiniteSet(DOMAIN a.value), NEW x
  PROVE  LET b == Output(a, x)
         IN /\ Solvent(b)
            /\ b.code = "ok" => /\ b.value = With(a.value, x.key, x.value) /\ IsFiniteSet(DOMAIN b.value)
                                /\ b.left + OutsCost(b.value) <= a.left + OutsCost(a.value)
<1> DEFINE charged == Charge(a, x.key, 1)
           path == Then(charged, LAMBDA c : OutputPath(c, x.value))
           b == Output(a, x)
<1>1. CASE x.key = EmptyName
  BY <1>1 DEF Output, Fail, Solvent, Shape
<1>2. CASE x.key # EmptyName
  <2>1. /\ Solvent(charged) /\ charged.value = a.value
        /\ charged.code = "ok" => charged.left + 1 = a.left
    BY ChargePays
  <2>2. b = Then(path, LAMBDA c : [c EXCEPT !.value = With(@, x.key, x.value)])
    BY <1>2 DEF Output
  <2>3. path = IF charged.code = "ok" THEN OutputPath(charged, x.value) ELSE charged
    BY DEF Then
  <2> HIDE DEF charged, path, b
  <2>4. /\ Solvent(path) /\ path.value = a.value
        /\ path.code = "ok" => charged.code = "ok"
                               /\ path.left + (IF x.value = NoPath THEN 0 ELSE 1) = charged.left
    <3>1. CASE charged.code # "ok"
      BY <2>1, <2>3, <3>1
    <3>2. CASE charged.code = "ok" /\ x.value = Scalar
      BY <2>1, <2>3, <3>2 DEF OutputPath, Fail, Solvent, Shape
    <3>3. CASE charged.code = "ok" /\ x.value # Scalar /\ x.value = NoPath
      BY <2>1, <2>3, <3>3 DEF OutputPath, Solvent
    <3>4. CASE charged.code = "ok" /\ x.value # Scalar /\ x.value # NoPath
      <4>1. path = Charge(charged, x.value, 1)
        BY <2>3, <3>4 DEF OutputPath
      <4> QED BY <2>1, <3>4, <4>1, ChargePays
    <3> QED BY <3>1, <3>2, <3>3, <3>4
  <2>5. b = IF path.code = "ok" THEN [path EXCEPT !.value = With(@, x.key, x.value)] ELSE path
    BY <2>2 DEF Then
  <2>6. Solvent(b) /\ (b.code = "ok" => /\ path.code = "ok" /\ b.left = path.left
                                      /\ b.value = With(a.value, x.key, x.value))
    BY <2>4, <2>5 DEF Solvent, Shape
  <2>7. ASSUME b.code = "ok"
        PROVE  IsFiniteSet(DOMAIN b.value) /\ b.left + OutsCost(b.value) <= a.left + OutsCost(a.value)
    <3>1. /\ IsFiniteSet(DOMAIN b.value)
          /\ OutsCost(a.value) \in Nat /\ OutsCost(b.value) \in Nat
          /\ OutsCost(b.value) <= OutsCost(a.value) + IF x.value = NoPath THEN 1 ELSE 2
      BY <2>6, <2>7, OutsCostGrows
    <3>2. path.left \in Nat /\ charged.left \in Nat /\ a.left \in Nat
      BY <2>1, <2>4, <2>6, <2>7 DEF Solvent
    <3> QED BY <2>1, <2>4, <2>6, <2>7, <3>1, <3>2
  <2> QED BY <2>6, <2>7 DEF b
<1> QED BY <1>1, <1>2

\* Costs are numbers.
LEMMA OutsCostIsNat == ASSUME NEW outs, IsFiniteSet(DOMAIN outs) PROVE OutsCost(outs) \in Nat
BY OutsCostGrows

LEMMA DepsCostIsNat == ASSUME NEW deps, FewDeps(deps) PROVE DepsCost(deps) \in Nat
<1>1. IsFiniteSet({})
  BY FS_EmptySet
<1> QED BY <1>1, DepsCostGrows

\* The inputs of a node are the map of its members, and were paid for.
LEMMA InputsPay ==
  ASSUME NEW acc, Solvent(acc), acc.code = "ok", NEW value, Listing(value),
         \A input \in Members(value) : Listing(input.value)
  PROVE  LET b == Inputs(acc, value)
         IN /\ Solvent(b)
            /\ b.code = "ok" => /\ value # Scalar /\ b.value = MapOf(value, ToSet)
                                /\ FewDeps(b.value)
                                /\ b.left + DepsCost(b.value) <= acc.left
<1> DEFINE b == Inputs(acc, value)
           base == Nested(acc, <<>>)
<1>1. Solvent(base) /\ base.value = <<>> /\ base.left = acc.left /\ acc.left \in Nat
  BY DEF Nested, Solvent, Shape
<1>2. CASE value = Scalar
  <2>1. b = Fail(base, "invalid_input_derivations")
    BY <1>2 DEF Inputs, Visit
  <2> HIDE DEF b, base
  <2>2. Solvent(b) /\ b.code # "ok"
    BY <1>1, <2>1 DEF Fail, Solvent, Shape
  <2> QED BY <2>2 DEF b
<1>3. CASE value # Scalar
  <2>1. PICK n \in Nat : DOMAIN value = 1..n
    BY <1>3 DEF Listing
  <2>2. PICK read : InTurn([of |-> "inputs"], base, value, n, read) /\ b = read[n]
    BY <1>3, <2>1, InputsInTurn
  <2> HIDE DEF base, b
  <2>3. /\ read[0] = base
        /\ \A i \in 1..n : read[i] = IF read[i - 1].code = "ok" THEN Dependency(read[i - 1], value[i])
                                     ELSE read[i - 1]
    BY <2>2 DEF InTurn, Step
  <2> DEFINE key == [j \in 1..n |-> value[j].key]
             val == [j \in 1..n |-> ToSet(value[j].value)]
             So(i) == /\ Solvent(read[i])
                      /\ read[i].code = "ok" =>
                           /\ IsMap(read[i].value, 1..i, key, val) /\ FewDeps(read[i].value)
                           /\ read[i].left + DepsCost(read[i].value) <= acc.left
             P == {i \in 0..n : So(i)}
  <2>4. \A i \in 1..n : key[i] = value[i].key /\ val[i] = ToSet(value[i].value)
    OBVIOUS
  <2> HIDE DEF key, val
  <2>5. 0 \in P
    <3>1. IsMap(<<>>, 1..0, key, val)
      <4>1. 1..0 = {}
        OBVIOUS
      <4> QED BY <4>1, MapOfNone
    <3>2. read[0].value = <<>> /\ read[0].left = acc.left /\ Solvent(read[0])
      BY <1>1, <2>3
    <3>3. So(0)
      BY <1>1, <3>1, <3>2, NothingCosts
    <3> QED BY <3>3
  <2>6. ASSUME NEW i \in 1..n, i - 1 \in P PROVE i \in P
    <3>1. So(i - 1) /\ i \in 0..n /\ 1..i = (1..(i - 1)) \cup {i}
      BY <2>6
    <3>2. CASE read[i - 1].code # "ok"
      BY <2>3, <3>1, <3>2
    <3>3. CASE read[i - 1].code = "ok"
      <4> DEFINE a == read[i - 1]
                 c == read[i]
      <4>1. c = Dependency(a, value[i])
        BY <2>3, <3>3
      <4>2. Solvent(a) /\ a.code = "ok" /\ FewDeps(a.value) /\ a.left + DepsCost(a.value) <= acc.left
        BY <3>1, <3>3
      <4>3. Listing(value[i].value)
        BY <1>3, <2>1 DEF Members, ToSet
      <4>4. IsMap(a.value, 1..(i - 1), key, val)
        BY <3>1, <3>3
      <4> HIDE DEF a, c
      <4>5. /\ Solvent(c)
            /\ c.code = "ok" => /\ c.value = With(a.value, key[i], val[i]) /\ FewDeps(c.value)
                                /\ c.left + DepsCost(c.value) <= a.left + DepsCost(a.value)
        BY <2>4, <4>1, <4>2, <4>3, DependencyPays
      <4>6. ASSUME c.code = "ok"
            PROVE  IsMap(c.value, 1..i, key, val) /\ c.left + DepsCost(c.value) <= acc.left
        <5>1. 1..(i - 1) \in SUBSET Nat /\ i \in Nat /\ \A j \in 1..(i - 1) : j < i
          OBVIOUS
        <5>2. IsMap(With(a.value, key[i], val[i]), (1..(i - 1)) \cup {i}, key, val)
          BY <4>4, <5>1, MapGrows
        <5>3. a.left \in Nat /\ c.left \in Nat
          BY <4>2, <4>5, <4>6 DEF Solvent
        <5>4. DepsCost(a.value) \in Nat
          BY <4>2, DepsCostIsNat
        <5>5. FewDeps(c.value)
          BY <4>5, <4>6
        <5>6. DepsCost(c.value) \in Nat
          BY <5>5, DepsCostIsNat
        <5>7. IsMap(c.value, 1..i, key, val)
          BY <3>1, <4>5, <4>6, <5>2
        <5> QED BY <1>1, <4>2, <4>5, <4>6, <5>3, <5>4, <5>6, <5>7
      <4> QED BY <3>1, <4>5, <4>6 DEF c
    <3> QED BY <3>2, <3>3
  <2>7. So(n)
    <3>1. \A i \in 0..n : i \in P
      <4> HIDE DEF P
      <4> QED BY <2>5, <2>6, OneByOne
    <3> QED BY <3>1
  <2>8. ASSUME b.code = "ok" PROVE b.value = MapOf(value, ToSet)
    <3>1. IsMap(b.value, 1..n, key, val)
      BY <2>2, <2>7, <2>8
    <3>2. b.value = [k \in {key[j] : j \in 1..n} |-> val[Max({j \in 1..n : key[j] = k})]]
      <4> DEFINE places == 1..n
      <4>1. places \in SUBSET (1..n) /\ IsMap(b.value, places, key, val)
        BY <3>1
      <4> HIDE DEF places
      <4>2. b.value = AtOnce(places, key, val)
        BY <4>1, MapAtOnce
      <4> QED BY <4>2 DEF places, AtOnce
    <3>3. {m.key : m \in ToSet(value)} = {key[j] : j \in 1..n}
      BY <2>1, <2>4 DEF ToSet
    <3>4. \A k : {j \in 1..n : key[j] = k} = {j \in DOMAIN value : value[j].key = k}
      BY <2>1, <2>4
    <3>5. ASSUME NEW k \in {key[j] : j \in 1..n}
          PROVE  val[Max({j \in 1..n : key[j] = k})] = ToSet(LastOf(value, k).value)
      <4>1. {j \in 1..n : key[j] = k} \in SUBSET (1..n) /\ {j \in 1..n : key[j] = k} # {}
        OBVIOUS
      <4>2. Max({j \in 1..n : key[j] = k}) \in 1..n
        BY <4>1, UpTo
      <4> QED BY <2>4, <3>4, <4>2 DEF LastOf
    <3> QED BY <3>2, <3>3, <3>5 DEF MapOf
  <2> QED BY <1>3, <2>2, <2>7, <2>8 DEF b
<1> QED BY <1>2, <1>3

\* So are the outputs.
LEMMA OutputsPay ==
  ASSUME NEW acc, Solvent(acc), acc.code = "ok", NEW value, Listing(value)
  PROVE  LET b == Outputs(acc, value)
         IN /\ Solvent(b)
            /\ b.code = "ok" => /\ value # Scalar /\ b.value = MapOf(value, LAMBDA path : path)
                                /\ IsFiniteSet(DOMAIN b.value)
                                /\ b.left + OutsCost(b.value) <= acc.left
<1> DEFINE b == Outputs(acc, value)
           base == Nested(acc, <<>>)
<1>1. Solvent(base) /\ base.value = <<>> /\ base.left = acc.left /\ acc.left \in Nat
  BY DEF Nested, Solvent, Shape
<1>2. CASE value = Scalar
  <2>1. b = Fail(base, "invalid_graph_outputs")
    BY <1>2 DEF Outputs, Visit
  <2> HIDE DEF b, base
  <2>2. Solvent(b) /\ b.code # "ok"
    BY <1>1, <2>1 DEF Fail, Solvent, Shape
  <2> QED BY <2>2 DEF b
<1>3. CASE value # Scalar
  <2>1. PICK n \in Nat : DOMAIN value = 1..n
    BY <1>3 DEF Listing
  <2>2. PICK read : InTurn([of |-> "outputs"], base, value, n, read) /\ b = read[n]
    BY <1>3, <2>1, OutputsInTurn
  <2> HIDE DEF base, b
  <2>3. /\ read[0] = base
        /\ \A i \in 1..n : read[i] = IF read[i - 1].code = "ok" THEN Output(read[i - 1], value[i])
                                     ELSE read[i - 1]
    BY <2>2 DEF InTurn, Step
  <2> DEFINE key == [j \in 1..n |-> value[j].key]
             val == [j \in 1..n |-> value[j].value]
             So(i) == /\ Solvent(read[i])
                      /\ read[i].code = "ok" =>
                           /\ IsMap(read[i].value, 1..i, key, val) /\ IsFiniteSet(DOMAIN read[i].value)
                           /\ read[i].left + OutsCost(read[i].value) <= acc.left
             P == {i \in 0..n : So(i)}
  <2>4. \A i \in 1..n : key[i] = value[i].key /\ val[i] = value[i].value
    OBVIOUS
  <2> HIDE DEF key, val
  <2>5. 0 \in P
    <3>1. IsMap(<<>>, 1..0, key, val)
      <4>1. 1..0 = {}
        OBVIOUS
      <4> QED BY <4>1, MapOfNone
    <3>2. read[0].value = <<>> /\ read[0].left = acc.left /\ Solvent(read[0])
      BY <1>1, <2>3
    <3>3. So(0)
      BY <1>1, <3>1, <3>2, NothingCosts
    <3> QED BY <3>3
  <2>6. ASSUME NEW i \in 1..n, i - 1 \in P PROVE i \in P
    <3>1. So(i - 1) /\ i \in 0..n /\ 1..i = (1..(i - 1)) \cup {i}
      BY <2>6
    <3>2. CASE read[i - 1].code # "ok"
      BY <2>3, <3>1, <3>2
    <3>3. CASE read[i - 1].code = "ok"
      <4> DEFINE a == read[i - 1]
                 c == read[i]
      <4>1. c = Output(a, value[i])
        BY <2>3, <3>3
      <4>2. Solvent(a) /\ a.code = "ok" /\ IsFiniteSet(DOMAIN a.value) /\ a.left + OutsCost(a.value) <= acc.left
        BY <3>1, <3>3
      <4>3. IsMap(a.value, 1..(i - 1), key, val)
        BY <3>1, <3>3
      <4> HIDE DEF a, c
      <4>4. /\ Solvent(c)
            /\ c.code = "ok" => /\ c.value = With(a.value, key[i], val[i]) /\ IsFiniteSet(DOMAIN c.value)
                                /\ c.left + OutsCost(c.value) <= a.left + OutsCost(a.value)
        BY <2>4, <4>1, <4>2, OutputPays
      <4>5. ASSUME c.code = "ok"
            PROVE  IsMap(c.value, 1..i, key, val) /\ c.left + OutsCost(c.value) <= acc.left
        <5>1. 1..(i - 1) \in SUBSET Nat /\ i \in Nat /\ \A j \in 1..(i - 1) : j < i
          OBVIOUS
        <5>2. IsMap(With(a.value, key[i], val[i]), (1..(i - 1)) \cup {i}, key, val)
          BY <4>3, <5>1, MapGrows
        <5>3. a.left \in Nat /\ c.left \in Nat
          BY <4>2, <4>4, <4>5 DEF Solvent
        <5>4. OutsCost(a.value) \in Nat
          BY <4>2, OutsCostIsNat
        <5>5. IsFiniteSet(DOMAIN c.value)
          BY <4>4, <4>5
        <5>6. OutsCost(c.value) \in Nat
          BY <5>5, OutsCostIsNat
        <5>7. IsMap(c.value, 1..i, key, val)
          BY <3>1, <4>4, <4>5, <5>2
        <5> QED BY <1>1, <4>2, <4>4, <4>5, <5>3, <5>4, <5>6, <5>7
      <4> QED BY <3>1, <4>4, <4>5 DEF c
    <3> QED BY <3>2, <3>3
  <2>7. So(n)
    <3>1. \A i \in 0..n : i \in P
      <4> HIDE DEF P
      <4> QED BY <2>5, <2>6, OneByOne
    <3> QED BY <3>1
  <2>8. ASSUME b.code = "ok" PROVE b.value = MapOf(value, LAMBDA path : path)
    <3>1. IsMap(b.value, 1..n, key, val)
      BY <2>2, <2>7, <2>8
    <3>2. b.value = [k \in {key[j] : j \in 1..n} |-> val[Max({j \in 1..n : key[j] = k})]]
      <4> DEFINE places == 1..n
      <4>1. places \in SUBSET (1..n) /\ IsMap(b.value, places, key, val)
        BY <3>1
      <4> HIDE DEF places
      <4>2. b.value = AtOnce(places, key, val)
        BY <4>1, MapAtOnce
      <4> QED BY <4>2 DEF places, AtOnce
    <3>3. {m.key : m \in ToSet(value)} = {key[j] : j \in 1..n}
      BY <2>1, <2>4 DEF ToSet
    <3>4. \A k : {j \in 1..n : key[j] = k} = {j \in DOMAIN value : value[j].key = k}
      BY <2>1, <2>4
    <3>5. ASSUME NEW k \in {key[j] : j \in 1..n}
          PROVE  val[Max({j \in 1..n : key[j] = k})] = LastOf(value, k).value
      <4>1. {j \in 1..n : key[j] = k} \in SUBSET (1..n) /\ {j \in 1..n : key[j] = k} # {}
        OBVIOUS
      <4>2. Max({j \in 1..n : key[j] = k}) \in 1..n
        BY <4>1, UpTo
      <4> QED BY <2>4, <3>4, <4>2 DEF LastOf
    <3> QED BY <3>2, <3>3, <3>5 DEF MapOf
  <2> QED BY <1>3, <2>2, <2>7, <2>8 DEF b
<1> QED BY <1>2, <1>3

------------------------------------------------------------------------------
(* The fields of a node, read one by one and at once *)

FieldNames == {"outputs", "inputs", "inputDrvs"}

\* What is made of the value of a field.
FieldValue(name, value) ==
  IF name = "outputs" THEN <<MapOf(value, LAMBDA path : path)>>
  ELSE IF name = "inputs" /\ value = NoPath THEN <<>>
  ELSE <<MapOf(value, ToSet)>>

\* Of the fields at these places the last of a name is kept.
FieldsRead(fields, value, places) ==
  \A name \in FieldNames :
    \/ fields[name] = <<>> /\ \A j \in places : value[j].key # name
    \/ \E j \in places : /\ value[j].key = name /\ fields[name] = FieldValue(name, value[j].value)
                         /\ \A l \in places : value[l].key = name => l <= j

PartCost(name, part) ==
  IF part = <<>> THEN 0 ELSE IF name = "outputs" THEN OutsCost(part[1]) ELSE DepsCost(part[1])
FewPart(name, part) ==
  part # <<>> => IF name = "outputs" THEN IsFiniteSet(DOMAIN part[1]) ELSE FewDeps(part[1])
FewFields(fields) ==
  DOMAIN fields = FieldNames /\ \A name \in FieldNames : FewPart(name, fields[name])
FieldsCost(fields) ==
  PartCost("outputs", fields.outputs) + PartCost("inputs", fields.inputs)
    + PartCost("inputDrvs", fields.inputDrvs)

LEMMA PartCostIsNat == ASSUME NEW name, NEW part, FewPart(name, part) PROVE PartCost(name, part) \in Nat
BY OutsCostIsNat, DepsCostIsNat DEF FewPart, PartCost

\* One field more.
LEMMA FieldPays ==
  ASSUME NEW a, Solvent(a), a.code = "ok", FewFields(a.value), NEW d, NEW field, TrueField(d, field)
  PROVE  LET b == NodeField(a, field)
         IN /\ Solvent(b)
            /\ b.code = "ok" =>
                 /\ FewFields(b.value)
                 /\ b.left + FieldsCost(b.value) <= a.left + FieldsCost(a.value)
                 /\ \A name \in FieldNames :
                      b.value[name] = IF field.key = name THEN FieldValue(name, field.value)
                                      ELSE a.value[name]
<1> DEFINE b == NodeField(a, field)
<1>1. /\ DOMAIN a.value = FieldNames
      /\ \A name \in FieldNames :
           FewPart(name, a.value[name]) /\ PartCost(name, a.value[name]) \in Nat
  BY PartCostIsNat DEF FewFields
<1>2. a.left \in Nat
  BY DEF Solvent
<1>3. ASSUME NEW name \in FieldNames, NEW part, NEW c,
             c.left \in Nat, DOMAIN c.value = FieldNames,
             \A other \in FieldNames :
               c.value[other] = IF name = other THEN part ELSE a.value[other],
             FewPart(name, part), c.left + PartCost(name, part) <= a.left
      PROVE  FewFields(c.value) /\ c.left + FieldsCost(c.value) <= a.left + FieldsCost(a.value)
  <2>1. /\ DOMAIN c.value = FieldNames
        /\ \A other \in FieldNames :
             c.value[other] = IF name = other THEN part ELSE a.value[other]
    BY <1>3
  <2>2. \A other \in FieldNames : FewPart(other, c.value[other])
    BY <1>1, <1>3, <2>1
  <2>3. FewFields(c.value)
    BY <2>1, <2>2 DEF FewFields
  <2> DEFINE new(other) == PartCost(other, c.value[other])
             old(other) == PartCost(other, a.value[other])
  <2>4. \A other \in FieldNames : new(other) \in Nat /\ old(other) \in Nat
    BY <1>1, <2>2, PartCostIsNat
  <2>5. \A other \in FieldNames : other # name => new(other) = old(other)
    BY <2>1
  <2>6. c.left + new(name) <= a.left
    BY <1>3, <2>1
  <2>7. /\ FieldsCost(c.value) = new("outputs") + new("inputs") + new("inputDrvs")
        /\ FieldsCost(a.value) = old("outputs") + old("inputs") + old("inputDrvs")
    BY DEF FieldsCost
  <2> HIDE DEF new, old
  <2>8. c.left + FieldsCost(c.value) <= a.left + FieldsCost(a.value)
    <3>1. /\ new("outputs") \in Nat /\ new("inputs") \in Nat /\ new("inputDrvs") \in Nat
          /\ old("outputs") \in Nat /\ old("inputs") \in Nat /\ old("inputDrvs") \in Nat
      BY <2>4 DEF FieldNames
    <3>2. CASE name = "outputs"
      <4>1. new("inputs") = old("inputs") /\ new("inputDrvs") = old("inputDrvs")
        BY <2>5, <3>2 DEF FieldNames
      <4> QED BY <1>2, <1>3, <2>6, <2>7, <3>1, <3>2, <4>1
    <3>3. CASE name = "inputs"
      <4>1. new("outputs") = old("outputs") /\ new("inputDrvs") = old("inputDrvs")
        BY <2>5, <3>3 DEF FieldNames
      <4> QED BY <1>2, <1>3, <2>6, <2>7, <3>1, <3>3, <4>1
    <3>4. CASE name = "inputDrvs"
      <4>1. new("outputs") = old("outputs") /\ new("inputs") = old("inputs")
        BY <2>5, <3>4 DEF FieldNames
      <4> QED BY <1>2, <1>3, <2>6, <2>7, <3>1, <3>4, <4>1
    <3> QED BY <3>2, <3>3, <3>4 DEF FieldNames
  <2> QED BY <2>3, <2>8
<1>4. CASE field.key = "inputs" /\ field.value = NoPath
  <2>1. b = [a EXCEPT !.value = [@ EXCEPT !.inputs = <<>>]]
    BY <1>4 DEF NodeField
  <2> HIDE DEF b
  <2>2. /\ DOMAIN b = {"code", "left", "value"} /\ b.code = "ok" /\ b.left = a.left
        /\ b.value = [a.value EXCEPT !["inputs"] = <<>>] /\ Solvent(b)
    BY <2>1 DEF Solvent, Shape
  <2>3. FewPart("inputs", <<>>) /\ PartCost("inputs", <<>>) = 0 /\ "inputs" \in FieldNames
        /\ FieldValue("inputs", NoPath) = <<>>
    BY DEF FewPart, PartCost, FieldNames, FieldValue
  <2>4. b.left + PartCost("inputs", <<>>) <= a.left /\ b.left \in Nat
    BY <1>2, <2>2, <2>3
  <2>5. /\ DOMAIN b.value = FieldNames
        /\ \A other \in FieldNames :
             b.value[other] = IF "inputs" = other THEN <<>> ELSE a.value[other]
    BY <1>1, <2>2, <2>3
  <2>6. FewFields(b.value) /\ b.left + FieldsCost(b.value) <= a.left + FieldsCost(a.value)
    BY <1>3, <2>3, <2>4, <2>5
  <2> QED BY <1>4, <2>2, <2>3, <2>5, <2>6 DEF b
<1>5. CASE field.key \in FieldNames /\ ~(field.key = "inputs" /\ field.value = NoPath)
  <2> DEFINE read == IF field.key = "outputs" THEN Outputs(a, field.value) ELSE Inputs(a, field.value)
             part == <<read.value>>
  <2>1. b = WithField(a, field.key, read)
    BY <1>5 DEF NodeField, FieldNames
  <2>2. Solvent(read) /\ (read.code = "ok" => /\ part = FieldValue(field.key, field.value)
                                              /\ FewPart(field.key, part)
                                              /\ read.left + PartCost(field.key, part) <= a.left)
    <3>1. part # <<>> /\ part[1] = read.value
      OBVIOUS
    <3>2. CASE field.key = "outputs"
      <4>1. Listing(field.value)
        BY <3>2 DEF TrueField, TrueOutputs
      <4>2. read = Outputs(a, field.value)
        BY <3>2
      <4> HIDE DEF read
      <4>3. /\ Solvent(read)
            /\ read.code = "ok" => /\ read.value = MapOf(field.value, LAMBDA path : path)
                                   /\ IsFiniteSet(DOMAIN read.value)
                                   /\ read.left + OutsCost(read.value) <= a.left
        BY <4>1, <4>2, OutputsPay
      <4> QED BY <3>1, <3>2, <4>3 DEF FieldValue, FewPart, PartCost
    <3>3. CASE field.key # "outputs"
      <4>1. Listing(field.value) /\ \A input \in Members(field.value) : Listing(input.value)
        BY <1>5, <3>3 DEF TrueField, TrueInputs, FieldNames
      <4>2. read = Inputs(a, field.value)
        BY <3>3
      <4> HIDE DEF read
      <4>3. /\ Solvent(read)
            /\ read.code = "ok" => /\ read.value = MapOf(field.value, ToSet)
                                   /\ FewDeps(read.value)
                                   /\ read.left + DepsCost(read.value) <= a.left
        BY <4>1, <4>2, InputsPay
      <4> QED BY <1>5, <3>1, <3>3, <4>3 DEF FieldValue, FewPart, PartCost
    <3> QED BY <3>2, <3>3
  <2> HIDE DEF read, b
  <2>3. b = [code |-> read.code, left |-> read.left,
             value |-> IF read.code = "ok" THEN [a.value EXCEPT ![field.key] = part] ELSE a.value]
    BY <2>1 DEF WithField, Resume
  <2>4. Solvent(b)
    BY <2>2, <2>3 DEF Solvent, Shape
  <2>5. ASSUME b.code = "ok"
        PROVE  /\ FewFields(b.value)
               /\ b.left + FieldsCost(b.value) <= a.left + FieldsCost(a.value)
               /\ \A other \in FieldNames :
                    b.value[other] = IF field.key = other THEN part ELSE a.value[other]
    <3>1. /\ DOMAIN b = {"code", "left", "value"} /\ b.left = read.left /\ read.code = "ok"
          /\ b.value = [a.value EXCEPT ![field.key] = part]
      BY <2>3, <2>5
    <3> HIDE DEF part
    <3>2. /\ DOMAIN b.value = FieldNames
          /\ \A other \in FieldNames :
               b.value[other] = IF field.key = other THEN part ELSE a.value[other]
      BY <1>1, <1>5, <3>1
    <3>3. b.left \in Nat /\ FewPart(field.key, part) /\ b.left + PartCost(field.key, part) <= a.left
      BY <2>2, <2>4, <2>5, <3>1 DEF Solvent
    <3>4. FewFields(b.value) /\ b.left + FieldsCost(b.value) <= a.left + FieldsCost(a.value)
      BY <1>3, <1>5, <3>2, <3>3
    <3> QED BY <3>2, <3>4
  <2> QED BY <2>2, <2>3, <2>4, <2>5 DEF b
<1>6. CASE field.key \notin FieldNames
  <2>1. b = a
    BY <1>6 DEF NodeField, FieldNames
  <2>2. FieldsCost(a.value) <= FieldsCost(a.value)
    BY <1>1 DEF FieldsCost, FieldNames
  <2>3. FieldsCost(a.value) \in Nat
    BY <1>1 DEF FieldsCost, FieldNames
  <2> QED BY <1>2, <1>6, <2>1, <2>3
<1> QED BY <1>4, <1>5, <1>6

\* The fields of a node were read one by one, and what was kept of them was paid for.
LEMMA FieldsPay ==
  ASSUME NEW acc, Solvent(acc), acc.code = "ok", NEW d, NEW value, Listing(value),
         \A field \in Members(value) : TrueField(d, field)
  PROVE  LET b == NodeFields(acc, value)
         IN /\ Solvent(b)
            /\ b.code = "ok" => /\ value # Scalar /\ FewFields(b.value)
                                /\ FieldsRead(b.value, value, DOMAIN value)
                                /\ b.left + FieldsCost(b.value) <= acc.left
<1> DEFINE b == NodeFields(acc, value)
           base == Nested(acc, NoFields)
<1>1. /\ Solvent(base) /\ base.left = acc.left /\ acc.left \in Nat
      /\ base.value = NoFields
  BY DEF Nested, Solvent, Shape
<1>2. FewFields(NoFields) /\ FieldsCost(NoFields) = 0
      /\ \A name \in FieldNames : NoFields[name] = <<>>
  BY DEF FewFields, FewPart, FieldsCost, PartCost, NoFields, FieldNames
<1>3. CASE value = Scalar
  <2>1. b = Fail(base, "invalid_graph_node")
    BY <1>3 DEF NodeFields, Visit
  <2> HIDE DEF b, base
  <2>2. Solvent(b) /\ b.code # "ok"
    BY <1>1, <2>1 DEF Fail, Solvent, Shape
  <2> QED BY <2>2 DEF b
<1>4. CASE value # Scalar
  <2>1. PICK n \in Nat : DOMAIN value = 1..n
    BY <1>4 DEF Listing
  <2>2. PICK read : InTurn([of |-> "fields"], base, value, n, read) /\ b = read[n]
    BY <1>4, <2>1, FieldsInTurn
  <2> HIDE DEF base, b
  <2>3. /\ read[0] = base
        /\ \A i \in 1..n : read[i] = IF read[i - 1].code = "ok" THEN NodeField(read[i - 1], value[i])
                                     ELSE read[i - 1]
    BY <2>2 DEF InTurn, Step
  <2> DEFINE So(i) == /\ Solvent(read[i])
                      /\ read[i].code = "ok" =>
                           /\ FewFields(read[i].value) /\ FieldsRead(read[i].value, value, 1..i)
                           /\ read[i].left + FieldsCost(read[i].value) <= acc.left
             P == {i \in 0..n : So(i)}
  <2>4. 0 \in P
    <3>1. FieldsRead(NoFields, value, 1..0)
      <4>1. 1..0 = {}
        OBVIOUS
      <4> QED BY <1>2, <4>1 DEF FieldsRead
    <3>2. So(0)
      BY <1>1, <1>2, <2>3, <3>1
    <3> QED BY <3>2
  <2>5. ASSUME NEW i \in 1..n, i - 1 \in P PROVE i \in P
    <3>1. So(i - 1) /\ i \in 0..n
      BY <2>5
    <3>2. CASE read[i - 1].code # "ok"
      BY <2>3, <3>1, <3>2
    <3>3. CASE read[i - 1].code = "ok"
      <4> DEFINE a == read[i - 1]
                 c == read[i]
      <4>1. c = NodeField(a, value[i])
        BY <2>3, <3>3
      <4>2. Solvent(a) /\ a.code = "ok" /\ FewFields(a.value) /\ a.left + FieldsCost(a.value) <= acc.left
            /\ FieldsRead(a.value, value, 1..(i - 1))
        BY <3>1, <3>3
      <4>3. TrueField(d, value[i])
        BY <1>4, <2>1 DEF Members, ToSet
      <4> HIDE DEF a, c
      <4>4. /\ Solvent(c)
            /\ c.code = "ok" =>
                 /\ FewFields(c.value)
                 /\ c.left + FieldsCost(c.value) <= a.left + FieldsCost(a.value)
                 /\ \A name \in FieldNames :
                      c.value[name] = IF value[i].key = name THEN FieldValue(name, value[i].value)
                                      ELSE a.value[name]
        BY <4>1, <4>2, <4>3, FieldPays
      <4>5. ASSUME c.code = "ok"
            PROVE  FieldsRead(c.value, value, 1..i) /\ c.left + FieldsCost(c.value) <= acc.left
        <5>1. a.left \in Nat /\ c.left \in Nat
          BY <4>2, <4>4, <4>5 DEF Solvent
        <5>2. \A fields : FewFields(fields) => FieldsCost(fields) \in Nat
          <6>1. ASSUME NEW fields, FewFields(fields) PROVE FieldsCost(fields) \in Nat
            <7>1. \A name \in FieldNames : PartCost(name, fields[name]) \in Nat
              BY <6>1, PartCostIsNat DEF FewFields
            <7>2. /\ PartCost("outputs", fields.outputs) \in Nat
                  /\ PartCost("inputs", fields.inputs) \in Nat
                  /\ PartCost("inputDrvs", fields.inputDrvs) \in Nat
              BY <7>1 DEF FieldNames
            <7> QED BY <7>2 DEF FieldsCost
          <6> QED BY <6>1
        <5>3. FieldsCost(a.value) \in Nat /\ FieldsCost(c.value) \in Nat
          BY <4>2, <4>4, <4>5, <5>2
        <5>4. c.left + FieldsCost(c.value) <= acc.left
          BY <1>1, <4>2, <4>4, <4>5, <5>1, <5>3
        <5>5. ASSUME NEW name \in FieldNames
              PROVE  \/ c.value[name] = <<>> /\ \A j \in 1..i : value[j].key # name
                     \/ \E j \in 1..i : /\ value[j].key = name
                                        /\ c.value[name] = FieldValue(name, value[j].value)
                                        /\ \A l \in 1..i : value[l].key = name => l <= j
          <6>1. 1..i = (1..(i - 1)) \cup {i} /\ i \in Nat /\ \A l \in 1..i : l <= i
            OBVIOUS
          <6>2. CASE value[i].key = name
            <7>1. c.value[name] = FieldValue(name, value[i].value) /\ i \in 1..i
              BY <4>4, <4>5, <6>2
            <7> QED BY <6>1, <6>2, <7>1
          <6>3. CASE value[i].key # name
            <7>1. c.value[name] = a.value[name]
              BY <4>4, <4>5, <6>3
            <7>2. CASE a.value[name] = <<>> /\ \A j \in 1..(i - 1) : value[j].key # name
              BY <6>1, <6>3, <7>1, <7>2
            <7>3. CASE \E j \in 1..(i - 1) : /\ value[j].key = name
                                             /\ a.value[name] = FieldValue(name, value[j].value)
                                             /\ \A l \in 1..(i - 1) : value[l].key = name => l <= j
              BY <6>1, <6>3, <7>1, <7>3
            <7> QED BY <4>2, <7>2, <7>3 DEF FieldsRead
          <6> QED BY <6>2, <6>3
        <5> QED BY <5>4, <5>5 DEF FieldsRead
      <4> QED BY <3>1, <4>4, <4>5 DEF c
    <3> QED BY <3>2, <3>3
  <2>6. So(n)
    <3>1. \A i \in 0..n : i \in P
      <4> HIDE DEF P
      <4> QED BY <2>4, <2>5, OneByOne
    <3> QED BY <3>1
  <2> QED BY <1>4, <2>1, <2>2, <2>6 DEF b
<1> QED BY <1>3, <1>4

\* A field read one by one is the last of its name.
LEMMA FieldAtOnce ==
  ASSUME NEW n \in Nat, NEW value, DOMAIN value = 1..n, NEW fields,
         FieldsRead(fields, value, DOMAIN value), NEW name \in FieldNames
  PROVE  \/ /\ fields[name] = <<>> /\ FieldOf(value, name) = NoPath
            /\ \A j \in 1..n : value[j].key # name
         \/ /\ fields[name] = FieldValue(name, FieldOf(value, name))
            /\ \E j \in 1..n : value[j].key = name /\ FieldOf(value, name) = value[j].value
<1>1. ToSet(value) = {value[j] : j \in 1..n}
  BY DEF ToSet
<1>2. CASE fields[name] = <<>> /\ \A j \in 1..n : value[j].key # name
  BY <1>1, <1>2 DEF FieldOf
<1>3. ASSUME NEW j \in 1..n, value[j].key = name, fields[name] = FieldValue(name, value[j].value),
             \A l \in 1..n : value[l].key = name => l <= j
      PROVE  FieldOf(value, name) = value[j].value
  <2> DEFINE s == {i \in 1..n : value[i].key = name}
  <2>1. j \in s /\ s \in SUBSET (1..n) /\ s # {} /\ \A l \in s : l <= j /\ l \in Int
    BY <1>3
  <2>2. FieldOf(value, name) = value[Max(s)].value
    BY <1>1, <1>3 DEF FieldOf, LastOf
  <2> HIDE DEF s
  <2>3. Max(s) \in s /\ \A i \in s : i <= Max(s)
    BY <2>1, UpTo
  <2>4. Max(s) <= j /\ j <= Max(s) /\ j \in Int /\ Max(s) \in Int
    BY <2>1, <2>3
  <2>5. Max(s) = j
    BY <2>4
  <2> QED BY <2>2, <2>5
<1> QED BY <1>2, <1>3 DEF FieldsRead

\* A node read field by field is the node read at once, at what was paid for it.
LEMMA NodeIsExact ==
  ASSUME NEW d, NEW value, Listing(value), value # Scalar,
         \A field \in Members(value) : TrueField(d, field),
         NEW fields, FewFields(fields), FieldsRead(fields, value, DOMAIN value),
         fields.outputs # <<>>
  PROVE  /\ NodeOf(fields) = NodeAtOnce(value)
         /\ Cost(NodeOf(fields)) \in Nat
         /\ Cost(NodeOf(fields)) <= 2 + FieldsCost(fields)
<1>1. PICK n \in Nat : DOMAIN value = 1..n
  BY DEF Listing
<1>2. \A name \in FieldNames :
         \/ /\ fields[name] = <<>> /\ FieldOf(value, name) = NoPath
            /\ \A j \in 1..n : value[j].key # name
         \/ /\ fields[name] = FieldValue(name, FieldOf(value, name))
            /\ \E j \in 1..n : value[j].key = name /\ FieldOf(value, name) = value[j].value
  BY <1>1, FieldAtOnce
<1>3. \A x : <<x>> # <<>> /\ <<x>>[1] = x
  OBVIOUS
<1> DEFINE outs == MapOf(FieldOf(value, "outputs"), LAMBDA path : path)
           inputs == FieldOf(value, "inputs")
           inputDrvs == FieldOf(value, "inputDrvs")
<1>4. fields.outputs = <<outs>>
  BY <1>2 DEF FieldNames, FieldValue
<1>5. fields.inputs = IF inputs = NoPath THEN <<>> ELSE <<MapOf(inputs, ToSet)>>
  BY <1>2 DEF FieldNames, FieldValue
<1>6. fields.inputDrvs = IF inputDrvs = NoPath THEN <<>> ELSE <<MapOf(inputDrvs, ToSet)>>
  <2>1. CASE fields.inputDrvs = <<>> /\ inputDrvs = NoPath
    BY <2>1
  <2>2. CASE /\ fields.inputDrvs = FieldValue("inputDrvs", inputDrvs)
             /\ \E j \in 1..n : value[j].key = "inputDrvs" /\ inputDrvs = value[j].value
    <3>1. PICK j \in 1..n : value[j].key = "inputDrvs" /\ inputDrvs = value[j].value
      BY <2>2
    <3>2. TrueField(d, value[j])
      BY <1>1 DEF Members, ToSet
    <3>3. inputDrvs # NoPath
      BY <3>1, <3>2 DEF TrueField
    <3> QED BY <2>2, <3>3 DEF FieldValue
  <2> QED BY <1>2, <2>1, <2>2 DEF FieldNames
<1> DEFINE deps == IF inputs # NoPath THEN MapOf(inputs, ToSet)
                   ELSE IF inputDrvs # NoPath THEN MapOf(inputDrvs, ToSet) ELSE <<>>
<1>7. NodeAtOnce(value) = [deps |-> deps, outs |-> outs]
  BY DEF NodeAtOnce
<1> HIDE DEF outs, inputs, inputDrvs
<1>8. NodeOf(fields) = [deps |-> deps, outs |-> outs]
  BY <1>3, <1>4, <1>5, <1>6 DEF NodeOf
<1>9. /\ IsFiniteSet(DOMAIN outs)
      /\ PartCost("outputs", fields.outputs) = OutsCost(outs)
      /\ PartCost("inputs", fields.inputs) \in Nat
      /\ PartCost("inputDrvs", fields.inputDrvs) \in Nat
  <2>1. \A name \in FieldNames : FewPart(name, fields[name])
    BY DEF FewFields
  <2>2. /\ FewPart("outputs", fields.outputs) /\ FewPart("inputs", fields.inputs)
        /\ FewPart("inputDrvs", fields.inputDrvs)
    BY <2>1 DEF FieldNames
  <2> QED BY <1>3, <1>4, <2>2, PartCostIsNat DEF FewPart, PartCost
<1>10. FewDeps(deps) /\ DepsCost(deps) \in {0, PartCost("inputs", fields.inputs),
                                           PartCost("inputDrvs", fields.inputDrvs)}
  <2>1. FewPart("inputs", fields.inputs) /\ FewPart("inputDrvs", fields.inputDrvs)
    BY DEF FewFields, FieldNames
  <2>2. CASE inputs # NoPath
    <3>1. deps = MapOf(inputs, ToSet) /\ fields.inputs = <<deps>>
      BY <1>5, <2>2
    <3> HIDE DEF deps
    <3> QED BY <1>3, <2>1, <3>1 DEF FewPart, PartCost
  <2>3. CASE inputs = NoPath /\ inputDrvs # NoPath
    <3>1. deps = MapOf(inputDrvs, ToSet) /\ fields.inputDrvs = <<deps>>
      BY <1>6, <2>3
    <3> HIDE DEF deps
    <3> QED BY <1>3, <2>1, <3>1 DEF FewPart, PartCost
  <2>4. CASE inputs = NoPath /\ inputDrvs = NoPath
    <3>1. deps = <<>>
      BY <2>4
    <3> HIDE DEF deps
    <3> QED BY <3>1, NothingCosts
  <2> QED BY <2>2, <2>3, <2>4
<1> HIDE DEF deps
<1>11. Cost(NodeOf(fields)) = 2 + OutsCost(outs) + DepsCost(deps)
  BY <1>8 DEF Cost
<1>12. OutsCost(outs) \in Nat /\ DepsCost(deps) \in Nat
  BY <1>9, <1>10, OutsCostIsNat, DepsCostIsNat
<1> QED BY <1>7, <1>8, <1>9, <1>10, <1>11, <1>12 DEF FieldsCost

------------------------------------------------------------------------------
(* The nodes of a document, read one by one and at once *)

LEMMA NodesGrow ==
  ASSUME NEW n \in Nat, NEW members, DOMAIN members = 1..n, NEW i \in 1..n, NEW map,
         NodesRead(map, members, 1..(i - 1))
  PROVE  IF members[i].kind = "derivation"
           THEN NodesRead(With(map, members[i].key, NodeAtOnce(members[i].value)), members, 1..i)
           ELSE NodesRead(map, members, 1..i)
<1> DEFINE key == [j \in DOMAIN members |-> members[j].key]
           val == [j \in DOMAIN members |-> NodeAtOnce(members[j].value)]
           old == {j \in 1..(i - 1) : members[j].kind = "derivation"}
           new == {j \in 1..i : members[j].kind = "derivation"}
<1>1. old \in SUBSET Nat /\ i \in Nat /\ \A j \in old : j < i
  OBVIOUS
<1>2. new = IF members[i].kind = "derivation" THEN old \cup {i} ELSE old
  OBVIOUS
<1>3. key[i] = members[i].key /\ val[i] = NodeAtOnce(members[i].value)
  OBVIOUS
<1>4. IsMap(map, old, key, val)
  BY DEF NodesRead
<1>5. \A any : NodesRead(any, members, 1..i) <=> IsMap(any, new, key, val)
  BY DEF NodesRead
<1> HIDE DEF key, val, old, new
<1>6. CASE members[i].kind = "derivation"
  <2>1. IsMap(With(map, key[i], val[i]), old \cup {i}, key, val)
    BY <1>1, <1>4, MapGrows
  <2> QED BY <1>2, <1>3, <1>5, <1>6, <2>1
<1>7. CASE members[i].kind # "derivation"
  BY <1>2, <1>4, <1>5, <1>7
<1> QED BY <1>6, <1>7

LEMMA NodesAreExact ==
  ASSUME NEW n \in Nat, NEW members, DOMAIN members = 1..n, NEW map, NodesRead(map, members, 1..n)
  PROVE  map = MapOf(Derivations(members), NodeAtOnce)
<1> DEFINE key == [j \in DOMAIN members |-> members[j].key]
           val == [j \in DOMAIN members |-> NodeAtOnce(members[j].value)]
           places == {j \in 1..n : members[j].kind = "derivation"}
           D == Derivations(members)
<1>1. DOMAIN D = places /\ places \in SUBSET (1..n)
      /\ \A j \in places : D[j] = members[j]
  BY DEF Derivations
<1>2. \A j \in 1..n : key[j] = members[j].key /\ val[j] = NodeAtOnce(members[j].value)
  OBVIOUS
<1>3. IsMap(map, places, key, val)
  BY DEF NodesRead
<1> HIDE DEF key, val, places, D
<1>4. map = AtOnce(places, key, val)
  BY <1>1, <1>3, MapAtOnce
<1>5. {m.key : m \in ToSet(D)} = {key[j] : j \in places}
  <2>1. ToSet(D) = {D[j] : j \in places}
    BY <1>1 DEF ToSet
  <2>2. \A j \in places : D[j].key = key[j]
    BY <1>1, <1>2
  <2>3. {m.key : m \in {D[j] : j \in places}} = {key[j] : j \in places}
    BY <2>2
  <2> QED BY <2>1, <2>3
<1>6. \A k : {j \in places : key[j] = k} = {j \in DOMAIN D : D[j].key = k}
  BY <1>1, <1>2
<1>7. ASSUME NEW k \in {key[j] : j \in places}
      PROVE  val[Max({j \in places : key[j] = k})] = NodeAtOnce(LastOf(D, k).value)
  <2> DEFINE s == {j \in places : key[j] = k}
  <2>1. s \in SUBSET (1..n) /\ s # {} /\ s \subseteq places
    BY <1>1
  <2>2. LastOf(D, k) = D[Max(s)]
    BY <1>6 DEF LastOf
  <2> HIDE DEF s
  <2>3. Max(s) \in s
    BY <2>1, UpTo
  <2>4. Max(s) \in places /\ Max(s) \in 1..n
    BY <2>1, <2>3
  <2>5. val[Max(s)] = NodeAtOnce(LastOf(D, k).value)
    BY <1>1, <1>2, <2>2, <2>4
  <2> QED BY <2>5 DEF s
<1>8. MapOf(D, NodeAtOnce) = [k \in {key[j] : j \in places} |-> NodeAtOnce(LastOf(D, k).value)]
  BY <1>5 DEF MapOf
<1> QED BY <1>4, <1>7, <1>8 DEF AtOnce, D

LEMMA NodesCostIsNat == ASSUME NEW known, FewNodes(known) PROVE NodesCost(known) \in Nat
<1> DEFINE w == [d \in DOMAIN known |-> Cost(known[d])]
<1>1. IsFiniteSet(DOMAIN w) /\ \A x \in DOMAIN w : w[x] \in Nat
  BY DEF FewNodes
<1>2. NodesCost(known) = SumFunction(w)
  BY DEF NodesCost
<1> HIDE DEF w
<1>3. 0 \in Nat
  OBVIOUS
<1> QED BY <1>1, <1>2, <1>3, SumWith

\* One node more.
LEMMA InsertPays ==
  ASSUME NEW acc, Solvent(acc), acc.code = "ok", FewNodes(acc.value), NEW member, TrueNode(member),
         NEW speculative \in BOOLEAN
  PROVE  LET b == InsertNode(acc, member, speculative)
         IN /\ Solvent(b)
            /\ b.code = "ok" =>
                 /\ b.value = With(acc.value, member.key, NodeAtOnce(member.value)) /\ FewNodes(b.value)
                 /\ b.left + NodesCost(b.value) <= acc.left + NodesCost(acc.value)
                 /\ Cardinality(DOMAIN b.value) <= MaxNodes
            /\ speculative /\ member.torn # "none" => b.code = member.torn
<1> DEFINE first == Charge(acc, member.key, 1)
           second == Then(first, LAMBDA a : Charge(a, member.key, 1))
           fields == Then(second, LAMBDA a : NodeFields(a, member.value))
           read == EndOfNode(fields, member.torn, speculative)
           new == With(acc.value, member.key, NodeOf(read.value))
           kept == Resume(acc, read, new)
           b == InsertNode(acc, member, speculative)
<1>1. Solvent(first) /\ (first.code = "ok" => first.left + 1 = acc.left)
  BY ChargePays
<1>2. second = IF first.code = "ok" THEN Charge(first, member.key, 1) ELSE first
  BY DEF Then
<1>3. fields = IF second.code = "ok" THEN NodeFields(second, member.value) ELSE second
  BY DEF Then
<1>4. b = IF kept.code = "ok" THEN WithinLimit(kept) ELSE kept
  BY DEF InsertNode, Then
<1> HIDE DEF first
<1>5. Solvent(second) /\ (second.code = "ok" => second.left + 2 = acc.left)
  <2>1. CASE first.code = "ok"
    <3>1. second = Charge(first, member.key, 1)
      BY <1>2, <2>1
    <3> HIDE DEF second
    <3>2. Solvent(second) /\ (second.code = "ok" => second.left + 1 = first.left)
      BY <1>1, <2>1, <3>1, ChargePays
    <3>3. first.left \in Nat /\ acc.left \in Nat /\ (second.code = "ok" => second.left \in Nat)
      BY <1>1, <2>1, <3>2 DEF Solvent
    <3> QED BY <1>1, <2>1, <3>2, <3>3
  <2>2. CASE first.code # "ok"
    BY <1>1, <1>2, <2>2
  <2> QED BY <2>1, <2>2
<1> HIDE DEF second
<1>6. Listing(member.value) /\ \A field \in Members(member.value) : TrueField(member.key, field)
  BY DEF TrueNode
<1>7. /\ Solvent(fields)
      /\ fields.code = "ok" => /\ member.value # Scalar /\ FewFields(fields.value)
                               /\ FieldsRead(fields.value, member.value, DOMAIN member.value)
                               /\ second.code = "ok" /\ fields.left + FieldsCost(fields.value) <= second.left
  BY <1>3, <1>5, <1>6, FieldsPay
<1> HIDE DEF fields
<1>8. member.torn \in {"none"} \cup Torn /\ {"ok", "none", "reading"} \cap Torn = {}
  BY DEF TrueNode, Torn
<1>9. /\ Solvent(read)
      /\ read.code = "ok" => read = fields /\ fields.value.outputs # <<>>
      /\ speculative /\ member.torn # "none" => read.code = member.torn
  BY <1>7, <1>8 DEF EndOfNode, Fail, Solvent, Shape
<1> HIDE DEF read
<1>10. ASSUME read.code = "ok"
       PROVE  /\ NodeOf(read.value) = NodeAtOnce(member.value)
              /\ FewNodes(new)
              /\ read.left + NodesCost(new) <= acc.left + NodesCost(acc.value)
  <2>1. read = fields /\ fields.code = "ok" /\ fields.value.outputs # <<>>
    BY <1>9, <1>10
  <2>2. /\ NodeOf(fields.value) = NodeAtOnce(member.value)
        /\ Cost(NodeOf(fields.value)) \in Nat
        /\ Cost(NodeOf(fields.value)) <= 2 + FieldsCost(fields.value)
    BY <1>6, <1>7, <2>1, NodeIsExact
  <2> DEFINE node == NodeOf(fields.value)
  <2>3. new = With(acc.value, member.key, node)
    BY <2>1
  <2> HIDE DEF node, new
  <2>4. Cost(node) \in Nat
    BY <2>2 DEF node
  <2>5. /\ FewNodes(new)
        /\ NodesCost(acc.value) \in Nat /\ NodesCost(new) \in Nat
        /\ NodesCost(new) <= NodesCost(acc.value) + Cost(node)
    BY <2>3, <2>4, NodesCostGrows
  <2>6. FieldsCost(fields.value) \in Nat
    <3>1. \A name \in FieldNames : PartCost(name, fields.value[name]) \in Nat
      BY <1>7, <2>1, PartCostIsNat DEF FewFields
    <3>2. /\ PartCost("outputs", fields.value.outputs) \in Nat
          /\ PartCost("inputs", fields.value.inputs) \in Nat
          /\ PartCost("inputDrvs", fields.value.inputDrvs) \in Nat
      BY <3>1 DEF FieldNames
    <3> QED BY <3>2 DEF FieldsCost
  <2>7. second.left + 2 = acc.left /\ fields.left + FieldsCost(fields.value) <= second.left
    BY <1>5, <1>7, <2>1
  <2>8. acc.left \in Nat /\ second.left \in Nat /\ fields.left \in Nat
    BY <1>5, <1>7, <2>1 DEF Solvent
  <2>9. Cost(node) <= 2 + FieldsCost(fields.value)
    BY <2>2 DEF node
  <2>10. fields.left + NodesCost(new) <= acc.left + NodesCost(acc.value)
    BY <2>4, <2>5, <2>6, <2>7, <2>8, <2>9
  <2> QED BY <2>1, <2>2, <2>5, <2>10
<1>11. /\ kept.code = read.code /\ kept.left = read.left /\ Solvent(kept)
       /\ kept.code = "ok" => kept.value = new
  BY <1>9 DEF Resume, Solvent, Shape
<1>12. new = With(acc.value, member.key, NodeOf(read.value))
  OBVIOUS
<1> HIDE DEF new, kept
<1>13. /\ Solvent(b) /\ (b.code = "ok" => kept.code = "ok" /\ b = kept
                                          /\ ~(Cardinality(DOMAIN kept.value) > MaxNodes))
       /\ kept.code # "ok" => b = kept
  BY <1>4, <1>11 DEF WithinLimit, Fail, Solvent, Shape
<1> HIDE DEF b
<1>14. ASSUME b.code = "ok"
       PROVE  /\ b.value = With(acc.value, member.key, NodeAtOnce(member.value)) /\ FewNodes(b.value)
              /\ b.left + NodesCost(b.value) <= acc.left + NodesCost(acc.value)
              /\ Cardinality(DOMAIN b.value) <= MaxNodes
  <2>1. read.code = "ok" /\ b.value = new /\ b.left = read.left
        /\ ~(Cardinality(DOMAIN b.value) > MaxNodes)
    BY <1>11, <1>13, <1>14
  <2>2. FewNodes(b.value) /\ b.left + NodesCost(b.value) <= acc.left + NodesCost(acc.value)
        /\ b.value = With(acc.value, member.key, NodeAtOnce(member.value))
    BY <1>10, <1>12, <2>1
  <2>3. Cardinality(DOMAIN b.value) \in Nat /\ MaxNodes \in Nat
    BY <2>2, FS_CardinalityType, GraphStreamAssumption DEF FewNodes
  <2> QED BY <2>1, <2>2, <2>3
<1>15. ASSUME speculative, member.torn # "none" PROVE b.code = member.torn
  <2>1. read.code = member.torn /\ member.torn # "ok"
    BY <1>8, <1>9, <1>15
  <2> QED BY <1>11, <1>13, <2>1
<1> QED BY <1>13, <1>14, <1>15 DEF b

\* The members of a wrapper.
LEMMA EntriesPay ==
  ASSUME NEW left \in Nat, NEW value, Listing(value),
         \A m \in Members(value) :
           m.kind \in {"version", "derivation"} /\ (m.kind = "derivation" => TrueNode(m))
  PROVE  LET b == Entries(Reading(left, <<>>), value)
         IN /\ Solvent(b)
            /\ b.code = "ok" =>
                 /\ value # Scalar /\ NodesRead(b.value, value, DOMAIN value) /\ FewNodes(b.value)
                 /\ b.left + NodesCost(b.value) <= left
                 /\ Cardinality(DOMAIN b.value) <= MaxNodes
<1> DEFINE base == Reading(left, <<>>)
           b == Entries(base, value)
<1>1. Solvent(base) /\ base.left = left /\ base.value = <<>>
  BY DEF Reading, Solvent, Shape
<1>2. CASE value = Scalar
  <2>1. b = Fail(base, "invalid_graph_schema")
    BY <1>2 DEF Entries, Visit
  <2> HIDE DEF b, base
  <2>2. Solvent(b) /\ b.code # "ok"
    BY <1>1, <2>1 DEF Fail, Solvent, Shape
  <2> QED BY <2>2 DEF b, base
<1>3. CASE value # Scalar
  <2>1. PICK n \in Nat : DOMAIN value = 1..n
    BY <1>3 DEF Listing
  <2>2. PICK read : InTurn([of |-> "entries"], base, value, n, read) /\ b = read[n]
    BY <1>3, <2>1, EntriesInTurn
  <2> HIDE DEF base, b
  <2>3. /\ read[0] = base
        /\ \A i \in 1..n : read[i] = IF read[i - 1].code = "ok" THEN Entry(read[i - 1], value[i])
                                     ELSE read[i - 1]
    BY <2>2 DEF InTurn, Step
  <2> DEFINE So(i) == /\ Solvent(read[i])
                      /\ read[i].code = "ok" =>
                           /\ NodesRead(read[i].value, value, 1..i) /\ FewNodes(read[i].value)
                           /\ read[i].left + NodesCost(read[i].value) <= left
                           /\ Cardinality(DOMAIN read[i].value) <= MaxNodes
             P == {i \in 0..n : So(i)}
  <2>4. 0 \in P
    <3>1. NodesRead(<<>>, value, 1..0)
      <4>1. {j \in 1..0 : value[j].kind = "derivation"} = {}
        OBVIOUS
      <4> QED BY <4>1, MapOfNone DEF NodesRead
    <3>2. Cardinality(DOMAIN <<>>) = 0 /\ MaxNodes \in Nat
      BY FS_EmptySet, GraphStreamAssumption
    <3>3. read[0].value = <<>> /\ read[0].left = left /\ Solvent(read[0])
      BY <1>1, <2>3
    <3>4. So(0)
      BY <3>1, <3>2, <3>3, NothingCosts
    <3> QED BY <3>4
  <2>5. ASSUME NEW i \in 1..n, i - 1 \in P PROVE i \in P
    <3>1. So(i - 1) /\ i \in 0..n
      BY <2>5
    <3>2. CASE read[i - 1].code # "ok"
      BY <2>3, <3>1, <3>2
    <3>3. CASE read[i - 1].code = "ok"
      <4> DEFINE a == read[i - 1]
                 c == read[i]
      <4>1. c = Entry(a, value[i])
        BY <2>3, <3>3
      <4>2. /\ Solvent(a) /\ a.code = "ok" /\ FewNodes(a.value) /\ NodesRead(a.value, value, 1..(i - 1))
            /\ a.left + NodesCost(a.value) <= left /\ Cardinality(DOMAIN a.value) <= MaxNodes
        BY <3>1, <3>3
      <4>3. /\ value[i].kind \in {"version", "derivation"}
            /\ value[i].kind = "derivation" => TrueNode(value[i])
        BY <1>3, <2>1 DEF Members, ToSet
      <4> HIDE DEF a, c
      <4>4. CASE value[i].kind = "version"
        <5>1. c = a
          BY <4>1, <4>4 DEF Entry
        <5>2. NodesRead(a.value, value, 1..i)
          BY <2>1, <4>2, <4>4, NodesGrow
        <5> QED BY <3>1, <4>2, <5>1, <5>2 DEF c
      <4>5. CASE value[i].kind = "derivation"
        <5>1. c = InsertNode(a, value[i], FALSE)
          BY <4>1, <4>5 DEF Entry
        <5>2. /\ Solvent(c)
              /\ c.code = "ok" =>
                   /\ c.value = With(a.value, value[i].key, NodeAtOnce(value[i].value)) /\ FewNodes(c.value)
                   /\ c.left + NodesCost(c.value) <= a.left + NodesCost(a.value)
                   /\ Cardinality(DOMAIN c.value) <= MaxNodes
          BY <4>2, <4>3, <4>5, <5>1, InsertPays
        <5>3. NodesRead(With(a.value, value[i].key, NodeAtOnce(value[i].value)), value, 1..i)
          BY <2>1, <4>2, <4>5, NodesGrow
        <5>4. ASSUME c.code = "ok" PROVE c.left + NodesCost(c.value) <= left
          <6>1. c.left \in Nat /\ a.left \in Nat
            BY <4>2, <5>2, <5>4 DEF Solvent
          <6>2. NodesCost(c.value) \in Nat /\ NodesCost(a.value) \in Nat
            BY <4>2, <5>2, <5>4, NodesCostIsNat
          <6> QED BY <4>2, <5>2, <5>4, <6>1, <6>2
        <5> QED BY <3>1, <5>2, <5>3, <5>4 DEF c
      <4> QED BY <4>3, <4>4, <4>5
    <3> QED BY <3>2, <3>3
  <2>6. So(n)
    <3>1. \A i \in 0..n : i \in P
      <4> HIDE DEF P
      <4> QED BY <2>4, <2>5, OneByOne
    <3> QED BY <3>1
  <2> QED BY <1>3, <2>1, <2>2, <2>6 DEF b, base
<1> QED BY <1>2, <1>3

------------------------------------------------------------------------------
(* The graph is the one that the document describes *)

LEMMA NothingIsExact ==
  ASSUME NEW members
  PROVE  /\ NodesRead(<<>>, members, 1..0) /\ FewNodes(<<>>)
         /\ MaxRetained \in Nat /\ MaxRetained + NodesCost(<<>>) <= MaxRetained
         /\ Cardinality(DOMAIN <<>>) <= MaxNodes
<1>1. {j \in 1..0 : members[j].kind = "derivation"} = {}
  OBVIOUS
<1>2. MaxRetained \in Nat /\ MaxNodes \in Nat /\ Cardinality(DOMAIN <<>>) = 0
  BY FS_EmptySet, GraphStreamAssumption
<1> QED BY <1>1, <1>2, MapOfNone, NothingCosts DEF NodesRead

LEMMA StartIsExact ==
  ASSUME NEW document, TrueDocument(document), StartStream(document, RootDrvs)
  PROVE  ExactInv'
<1>1. /\ shown' = document /\ form' = "Legacy" /\ deferred' = "none" /\ nodes' = <<>>
      /\ remaining' = MaxRetained
      /\ document # Scalar => unread' = document /\ parsed' = "reading"
      /\ document = Scalar => parsed' = "invalid_graph_schema"
  BY DEF StartStream
<1>2. CASE document = Scalar
  BY <1>1, <1>2 DEF ExactInv
<1>3. CASE document # Scalar
  <2>1. document \in Seq(ToSet(document)) /\ \A m \in ToSet(document) : TrueMember(m)
    BY <1>3 DEF TrueDocument, Listing, Members
  <2>2. PICK n \in Nat : DOMAIN document = 1..n /\ Len(document) = n
    BY <2>1
  <2>3. \A j \in 1..n : TrueMember(document[j])
    BY <2>1, <2>2
  <2>4. ReadUpTo(n, 0)'
    BY <1>1, <1>3, <2>2, <2>3 DEF ReadUpTo
  <2>5. Exact(shown, 1..0)'
    BY <1>1, NothingIsExact DEF Exact
  <2>6. LegacyRead(0)'
    BY <1>1, <2>5 DEF LegacyRead
  <2> QED BY <1>1, <1>3, <2>4, <2>6 DEF ExactInv
<1> QED BY <1>2, <1>3

\* A member is read.
LEMMA ReadsOne ==
  ASSUME ReadInv, NEW n \in Nat, NEW i \in 0..n, ReadUpTo(n, i), NEW kind, Reads(kind)
  PROVE  /\ i + 1 \in 1..n /\ (i + 1) - 1 = i
         /\ Head(unread) = shown[i + 1] /\ shown[i + 1].kind = kind
         /\ TrueMember(shown[i + 1]) /\ Ignored # "ok" /\ shown' = shown
         /\ Ignored = "reading" => shown[i + 1].torn = "none"
         /\ shown[i + 1].torn = "none" => ReadUpTo(n, i + 1)'
<1>1. /\ unread # <<>> /\ unread' = Tail(unread) /\ Head(unread).kind = kind /\ shown' = shown
  BY DEF Reads
<1>2. unread \in Seq(ToSet(unread)) /\ Len(unread) = n - i
  BY DEF ReadInv, ReadUpTo
<1>3. i + 1 \in 1..n /\ (i + 1) - 1 = i /\ Head(unread) = unread[1]
      /\ Len(unread') = n - (i + 1)
      /\ \A j \in 1..(n - (i + 1)) : unread'[j] = unread[j + 1]
  BY <1>1, <1>2
<1>4. Head(unread) = shown[i + 1] /\ \A j \in 1..(n - (i + 1)) : unread'[j] = shown[(i + 1) + j]
  <2>1. \A j \in 1..(n - i) : unread[j] = shown[i + j]
    BY DEF ReadUpTo
  <2>2. 1 \in 1..(n - i) /\ \A j \in 1..(n - (i + 1)) : j + 1 \in 1..(n - i) /\ i + (j + 1) = (i + 1) + j
    BY <1>3
  <2> QED BY <1>3, <2>1, <2>2
<1>5. TrueMember(shown[i + 1])
  BY <1>3 DEF ReadUpTo
<1>6. Ignored # "ok" /\ (Ignored = "reading" => shown[i + 1].torn = "none")
  BY <1>4, <1>5 DEF Ignored, TrueMember, Torn
<1>7. ASSUME shown[i + 1].torn = "none" PROVE ReadUpTo(n, i + 1)'
  <2>1. \A j \in 1..(i + 1) : j \in 1..i \/ j = i + 1
    OBVIOUS
  <2> QED BY <1>1, <1>3, <1>4, <1>7, <2>1 DEF ReadUpTo
<1> QED BY <1>1, <1>3, <1>4, <1>5, <1>6, <1>7

\* A member that is no wrapper, after the last wrapper.
LEMMA WrapperStays ==
  ASSUME NEW n \in Nat, NEW i \in 0..n, WrapperRead(i), ~IsWrapper(i + 1),
         UNCHANGED <<shown, form, deferred, nodes, remaining>>
  PROVE  WrapperRead(i + 1)'
<1>1. PICK j \in 1..i : /\ IsWrapper(j) /\ \A k \in 1..i : IsWrapper(k) => k <= j
                        /\ shown[j].value # Scalar /\ Exact(shown[j].value, DOMAIN shown[j].value)
  BY DEF WrapperRead
<1>2. j \in 1..(i + 1) /\ \A k \in 1..(i + 1) : k \in 1..i \/ k = i + 1
  OBVIOUS
<1>3. \A k : IsWrapper(k)' = IsWrapper(k)
  BY DEF IsWrapper
<1>4. Exact(shown[j].value, DOMAIN shown[j].value)'
  BY <1>1 DEF Exact
<1> QED BY <1>1, <1>2, <1>3, <1>4 DEF WrapperRead

LEMMA LegacyStays ==
  ASSUME NEW n \in Nat, NEW i \in 0..n, LegacyRead(i), ~IsWrapper(i + 1),
         UNCHANGED <<shown, form>>, deferred' = "none" => Exact(shown, 1..(i + 1))'
  PROVE  LegacyRead(i + 1)'
<1>1. \A k \in 1..(i + 1) : k \in 1..i \/ k = i + 1
  OBVIOUS
<1> QED BY <1>1 DEF LegacyRead, IsWrapper

LEMMA IgnoredIsExact ==
  ASSUME ReadInv, ExactInv, ReadVersion \/ ReadSibling
  PROVE  ExactInv'
<1>1. PICK kind \in {"version", "derivation"} :
        /\ Reads(kind) /\ parsed' = Ignored /\ UNCHANGED <<form, deferred, nodes, remaining>>
        /\ kind = "derivation" => form = "Wrapped" \/ deferred # "none"
  BY DEF ReadVersion, ReadSibling
<1>2. parsed = "reading"
  BY <1>1 DEF Reads
<1>3. PICK n, i \in Nat : i \in 0..n /\ ReadUpTo(n, i) /\ (LegacyRead(i) \/ WrapperRead(i))
  BY <1>2 DEF ExactInv
<1>4. /\ i + 1 \in 1..n /\ (i + 1) - 1 = i /\ shown[i + 1].kind = kind /\ shown' = shown
      /\ Ignored # "ok"
      /\ Ignored = "reading" => ReadUpTo(n, i + 1)'
  BY <1>1, <1>3, ReadsOne
<1>5. ~IsWrapper(i + 1)
  BY <1>1, <1>4 DEF IsWrapper
<1>6. CASE WrapperRead(i)
  <2>1. WrapperRead(i + 1)'
    BY <1>1, <1>4, <1>5, <1>6, WrapperStays
  <2> QED BY <1>1, <1>4, <2>1 DEF ExactInv
<1>7. CASE LegacyRead(i)
  <2>1. ASSUME deferred' = "none" PROVE Exact(shown, 1..(i + 1))'
    <3>1. kind # "derivation" /\ Exact(shown, 1..i) /\ DOMAIN shown = 1..n
      BY <1>1, <1>3, <1>7, <2>1 DEF LegacyRead, ReadUpTo
    <3>2. NodesRead(nodes, shown, 1..(i + 1))
      BY <1>4, <3>1, NodesGrow DEF Exact
    <3> QED BY <1>1, <1>4, <3>1, <3>2 DEF Exact
  <2>2. LegacyRead(i + 1)'
    BY <1>1, <1>4, <1>5, <1>7, <2>1, LegacyStays
  <2> QED BY <1>1, <1>4, <2>2 DEF ExactInv
<1> QED BY <1>3, <1>6, <1>7

LEMMA WrapperIsExact == ASSUME ReadInv, ExactInv, ReadWrapper PROVE ExactInv'
<1>1. Reads("derivations") /\ parsed = "reading"
  BY DEF ReadWrapper, Reads
<1>2. PICK n, i \in Nat : i \in 0..n /\ ReadUpTo(n, i)
  BY <1>1 DEF ExactInv
<1> DEFINE value == shown[i + 1].value
           read == Entries(Reading(MaxRetained, <<>>), value)
<1>3. /\ i + 1 \in 1..n /\ Head(unread) = shown[i + 1] /\ IsWrapper(i + 1)
      /\ TrueMember(shown[i + 1]) /\ shown' = shown /\ Ignored # "ok"
      /\ Ignored = "reading" => ReadUpTo(n, i + 1)'
  BY <1>1, <1>2, ReadsOne DEF IsWrapper
<1>4. /\ form' = "Wrapped" /\ deferred' = "none"
      /\ nodes' = read.value /\ remaining' = read.left
      /\ parsed' = IF read.code # "ok" THEN read.code ELSE Ignored
  BY <1>3 DEF ReadWrapper
<1>5. /\ Listing(value)
      /\ \A m \in Members(value) :
           m.kind \in {"version", "derivation"} /\ (m.kind = "derivation" => TrueNode(m))
  BY <1>3 DEF TrueMember, IsWrapper
<1>6. MaxRetained \in Nat
  BY GraphStreamAssumption
<1>7. /\ Solvent(read)
      /\ read.code = "ok" =>
           /\ value # Scalar /\ NodesRead(read.value, value, DOMAIN value) /\ FewNodes(read.value)
           /\ read.left + NodesCost(read.value) <= MaxRetained
           /\ Cardinality(DOMAIN read.value) <= MaxNodes
  <2> HIDE DEF value
  <2> QED BY <1>5, <1>6, EntriesPay
<1> HIDE DEF read
<1>8. SUFFICES ASSUME parsed' \in {"reading", "ok"} PROVE ExactInv'
  BY DEF ExactInv
<1>9. read.code = "ok" /\ parsed' = "reading" /\ ReadUpTo(n, i + 1)'
  BY <1>3, <1>4, <1>7, <1>8 DEF Solvent
<1>10. Exact(shown[i + 1].value, DOMAIN shown[i + 1].value)'
  BY <1>3, <1>4, <1>7, <1>9 DEF Exact, Solvent
<1>11. i + 1 \in 1..(i + 1) /\ \A k \in 1..(i + 1) : k <= i + 1
  OBVIOUS
<1>12. IsWrapper(i + 1)' /\ shown'[i + 1].value # Scalar
  BY <1>3, <1>7, <1>9 DEF IsWrapper
<1>13. WrapperRead(i + 1)'
  BY <1>4, <1>10, <1>11, <1>12 DEF WrapperRead
<1> QED BY <1>3, <1>9, <1>13 DEF ExactInv

LEMMA LegacyIsExact == ASSUME ReadInv, ExactInv, ReadLegacyNode PROVE ExactInv'
<1> DEFINE acc == Reading(remaining, nodes)
           read == InsertNode(acc, Head(unread), TRUE)
<1>1. /\ Reads("derivation") /\ parsed = "reading" /\ form = "Legacy" /\ deferred = "none"
      /\ form' = form /\ nodes' = read.value /\ remaining' = read.left
      /\ \/ read.code \in Torn /\ parsed' = read.code
         \/ /\ read.code \notin Torn /\ parsed' = parsed
            /\ deferred' = IF read.code = "ok" THEN "none" ELSE read.code
  BY DEF ReadLegacyNode, Reads
<1>2. PICK n, i \in Nat : i \in 0..n /\ ReadUpTo(n, i) /\ LegacyRead(i)
  BY <1>1 DEF ExactInv, WrapperRead
<1>3. /\ i + 1 \in 1..n /\ (i + 1) - 1 = i /\ Head(unread) = shown[i + 1]
      /\ shown[i + 1].kind = "derivation" /\ TrueMember(shown[i + 1]) /\ shown' = shown
      /\ shown[i + 1].torn = "none" => ReadUpTo(n, i + 1)'
  BY <1>1, <1>2, ReadsOne
<1>4. Exact(shown, 1..i) /\ DOMAIN shown = 1..n
  BY <1>1, <1>2 DEF LegacyRead, ReadUpTo
<1>5. Solvent(acc) /\ acc.code = "ok" /\ acc.value = nodes /\ acc.left = remaining
  BY <1>4 DEF Reading, Solvent, Shape, Exact
<1>6. TrueNode(shown[i + 1]) /\ FewNodes(nodes)
  BY <1>3, <1>4 DEF TrueMember, Exact
<1>7. read = InsertNode(acc, shown[i + 1], TRUE)
  BY <1>3
<1> HIDE DEF acc, read
<1>8. /\ Solvent(read)
      /\ read.code = "ok" =>
           /\ read.value = With(nodes, shown[i + 1].key, NodeAtOnce(shown[i + 1].value))
           /\ FewNodes(read.value)
           /\ read.left + NodesCost(read.value) <= remaining + NodesCost(nodes)
           /\ Cardinality(DOMAIN read.value) <= MaxNodes
      /\ shown[i + 1].torn # "none" => read.code = shown[i + 1].torn
  BY <1>5, <1>6, <1>7, InsertPays
<1>9. SUFFICES ASSUME parsed' \in {"reading", "ok"} PROVE ExactInv'
  BY DEF ExactInv
<1>10. /\ read.code \notin Torn /\ parsed' = "reading" /\ ReadUpTo(n, i + 1)'
       /\ deferred' = "none" => read.code = "ok"
  <2>1. read.code \notin Torn
    BY <1>1, <1>9 DEF Torn
  <2>2. shown[i + 1].torn = "none"
    BY <1>6, <1>8, <2>1 DEF TrueNode
  <2> QED BY <1>1, <1>3, <1>8, <2>1, <2>2 DEF Solvent
<1>11. ASSUME deferred' = "none" PROVE Exact(shown, 1..(i + 1))'
  <2>1. NodesRead(read.value, shown, 1..(i + 1))
    BY <1>3, <1>4, <1>8, <1>10, <1>11, NodesGrow DEF Exact
  <2>2. read.left + NodesCost(read.value) <= MaxRetained /\ read.left \in Nat
    <3>1. read.left \in Nat /\ NodesCost(read.value) \in Nat /\ NodesCost(nodes) \in Nat
      BY <1>6, <1>8, <1>10, <1>11, NodesCostIsNat DEF Solvent
    <3>2. remaining \in Nat /\ remaining + NodesCost(nodes) <= MaxRetained /\ MaxRetained \in Nat
      BY <1>4, GraphStreamAssumption DEF Exact
    <3>3. read.left + NodesCost(read.value) <= remaining + NodesCost(nodes)
      BY <1>8, <1>10, <1>11
    <3> QED BY <3>1, <3>2, <3>3
  <2> QED BY <1>1, <1>3, <1>8, <1>10, <1>11, <2>1, <2>2 DEF Exact
<1>12. LegacyRead(i + 1)'
  BY <1>1, <1>2, <1>3, <1>11, LegacyStays DEF IsWrapper
<1> QED BY <1>3, <1>10, <1>12 DEF ExactInv

LEMMA EndIsExact == ASSUME ReadInv, ExactInv, EndStream PROVE ExactInv'
<1>1. /\ parsed = "reading" /\ unread = <<>>
      /\ UNCHANGED <<shown, unread, form, deferred, nodes, remaining>>
      /\ parsed' = "ok" => deferred = "none"
  BY DEF EndStream, ReadInv
<1>2. PICK n, i \in Nat : i \in 0..n /\ ReadUpTo(n, i) /\ (LegacyRead(i) \/ WrapperRead(i))
  BY <1>1 DEF ExactInv
<1>3. i = n
  BY <1>1, <1>2 DEF ReadUpTo
<1>4. ReadUpTo(n, i)'
  BY <1>1, <1>2 DEF ReadUpTo
<1>5. LegacyRead(i)' \/ WrapperRead(i)'
  BY <1>1, <1>2 DEF LegacyRead, WrapperRead, IsWrapper, Exact
<1> QED BY <1>1, <1>3, <1>4, <1>5 DEF ExactInv

\* What a step does to the reader.
LEMMA ReaderMoves ==
  ASSUME [Next]_vars
  PROVE  \/ UNCHANGED streamVars
         \/ \E document \in Documents[request] : StartStream(document, RootDrvs)
         \/ StreamNext
         \/ DropStream
<1>1. CASE Complete \/ ProbeRoots \/ PlanProbes \/ ProbeUnknown \/ ProbeRemote \/ ProbesEnd
  BY <1>1 DEF Complete, ProbeRoots, PlanProbes, ProbeUnknown, ProbeRemote, ProbesEnd
<1>2. CASE Plan \/ Build \/ GatherSuccess \/ GatherFailure \/ GatherUnfinished
  BY <1>2 DEF Plan, Build, GatherSuccess, GatherFailure, GatherUnfinished, Gathered
<1>3. CASE ApplyResults \/ Realized \/ CompleteDependencies \/ Settle \/ Finish
  BY <1>3 DEF ApplyResults, Realized, CompleteDependencies, Settle, Finish
<1>4. CASE ShowGraph \/ ReadGraph \/ GraphRunFails \/ GraphLoaded
  BY <1>4 DEF ShowGraph, ReadGraph, GraphRunFails, GraphLoaded
<1>5. CASE Done \/ UNCHANGED vars
  BY <1>5 DEF Done, vars
<1> QED BY <1>1, <1>2, <1>3, <1>4, <1>5 DEF Next

LEMMA NextIsExact == TInv /\ ExactInv /\ [Next]_vars => ExactInv'
<1> SUFFICES ASSUME TInv, ExactInv, [Next]_vars PROVE ExactInv'
  OBVIOUS
<1>1. ReadInv /\ \A document \in Documents[request] : TrueDocument(document)
  BY RealizationAssumption DEF TInv, BatchInv
<1>2. CASE UNCHANGED streamVars
  <2>1. UNCHANGED <<shown, unread, form, deferred, nodes, remaining, parsed>>
    BY <1>2 DEF streamVars
  <2> QED BY <2>1 DEF ExactInv, ReadUpTo, LegacyRead, WrapperRead, IsWrapper, Exact
<1>3. CASE \E document \in Documents[request] : StartStream(document, RootDrvs)
  BY <1>1, <1>3, StartIsExact
<1>4. CASE StreamNext
  BY <1>1, <1>4, IgnoredIsExact, WrapperIsExact, LegacyIsExact, EndIsExact DEF StreamNext
<1>5. CASE DropStream
  BY <1>5 DEF DropStream, ExactInv
<1> QED BY <1>2, <1>3, <1>4, <1>5, ReaderMoves

\* The graph that a request accepts is the one that the whole document describes, and what
\* it keeps was paid for, for any document whose members have the shapes Nix gives them.
THEOREM ReadingIsExact == Spec => []StreamIsExact
<1>1. Init => ExactInv
  BY DEF Init, StreamInit, ExactInv
<1>2. ExactInv => StreamIsExact
  <2> SUFFICES ASSUME ExactInv, parsed = "ok" PROVE StreamIsExact
    BY DEF StreamIsExact
  <2>1. PICK n \in Nat : ReadUpTo(n, n) /\ (LegacyRead(n) \/ WrapperRead(n)) /\ deferred = "none"
    BY DEF ExactInv
  <2>2. DOMAIN shown = 1..n /\ \A j \in 1..n : TrueMember(shown[j]) /\ shown[j].torn = "none"
    BY <2>1 DEF ReadUpTo
  <2>3. PICK members : /\ GraphMembers = Derivations(members) /\ Exact(members, DOMAIN members)
                       /\ \E m \in Nat : DOMAIN members = 1..m
    <3>1. Wrappers \in SUBSET (1..n) /\ \A j \in 1..n : j \in Wrappers <=> IsWrapper(j)
      BY <2>2 DEF Wrappers, IsWrapper
    <3>2. CASE LegacyRead(n)
      <4>1. Wrappers = {} /\ Exact(shown, DOMAIN shown)
        BY <2>1, <2>2, <3>1, <3>2 DEF LegacyRead
      <4> QED BY <2>2, <4>1 DEF GraphMembers
    <3>3. CASE WrapperRead(n)
      <4>1. PICK j \in 1..n :
              /\ IsWrapper(j) /\ \A k \in 1..n : IsWrapper(k) => k <= j
              /\ shown[j].value # Scalar /\ Exact(shown[j].value, DOMAIN shown[j].value)
        BY <3>3 DEF WrapperRead
      <4>2. j \in Wrappers /\ \A k \in Wrappers : k <= j
        BY <3>1, <4>1
      <4>3. Max(Wrappers) \in Wrappers /\ j <= Max(Wrappers)
        BY <3>1, <4>2, UpTo
      <4>4. Max(Wrappers) = j
        <5>1. Max(Wrappers) \in 1..n /\ Max(Wrappers) <= j
          BY <3>1, <4>2, <4>3
        <5> QED BY <4>3, <5>1
      <4>5. shown[j].value \in Seq(ToSet(shown[j].value))
        BY <2>2, <4>1 DEF TrueMember, IsWrapper, Listing
      <4>6. \E m \in Nat : DOMAIN shown[j].value = 1..m
        BY <4>5
      <4>7. GraphMembers = Derivations(shown[j].value)
        BY <4>2, <4>4 DEF GraphMembers
      <4> QED BY <4>1, <4>6, <4>7
    <3> QED BY <2>1, <3>2, <3>3
  <2>4. nodes = MapOf(GraphMembers, NodeAtOnce)
    BY <2>3, NodesAreExact DEF Exact
  <2>5. NodesCost(nodes) <= MaxRetained - remaining /\ Cardinality(DOMAIN nodes) <= MaxNodes
    <3>1. NodesCost(nodes) \in Nat /\ MaxRetained \in Nat
      BY <2>3, NodesCostIsNat, GraphStreamAssumption DEF Exact
    <3> QED BY <2>3, <3>1 DEF Exact
  <2>6. \A m \in ToSet(shown) : m.torn = "none"
    BY <2>2 DEF ToSet
  <2> QED BY <2>4, <2>5, <2>6 DEF StreamIsExact, NodesCost
<1> QED BY <1>1, <1>2, NextIsExact, TruthHolds, PTL DEF Spec
================================================================================
