------------------------------ MODULE Realization ------------------------------
(***************************************************************************)
(* A request of NixEngine (crates/nix-tools-engine/src/engine.rs) from the *)
(* first call to the manifest: the evaluated roots are probed, their graph *)
(* is read when the mode asks for it, what is not there yet is given to    *)
(* one `nix build', and what became of every node is put together from the *)
(* JSON of the build, the verdicts of the activity observer and a look at  *)
(* the store.                                                              *)
(*                                                                         *)
(* A step is a run of Nix with the code up to the next one.  Nix itself,   *)
(* its store and the caches are the environment: what a build makes, what  *)
(* the observer hears of it and how the run ends is free, except that a    *)
(* build that succeeds has made what it was asked for.  A run may be       *)
(* cancelled once a signal was requested, and may still answer then.       *)
(***************************************************************************)
EXTENDS Evaluation, GraphStream

CONSTANTS
  World,         \* the derivations of the flake as a map of nodes
  Stores,        \* what the local store may hold at first
  Caches,        \* the trusted substituters, in order
  Remote,        \* per cache: the paths it holds
  Documents      \* per request: what `nix derivation show' may print

VARIABLES
  store,         \* paths of the local store
  lightweight,   \* failure_fallback: the graph holds the roots only
  probeOpen,     \* probe_phase_open
  graph,         \* the nodes of the DependencyGraph
  availability,  \* per path probed: Unknown, Local, TrustedRemote or Missing
  probeDiags,    \* diagnostics of the ProbeState
  localFailed, degraded, asked, \* probe_availability: what failed, caches asked
  localBefore,   \* local_before
  executions,    \* per node of the plan
  exit,          \* how the build ended
  json,          \* nodes whose outputs its JSON lists
  confirmed,     \* take_confirmed: [state, authoritative, outs]
  stopped,       \* take_stopped
  results,       \* per node: its NodeRun
  absent         \* history: paths a probe of the local store did not find

probeVars == <<availability, probeDiags, localFailed, degraded, asked, absent>>
buildVars == <<store, exit, json, confirmed, stopped>>
planVars == <<lightweight, probeOpen, graph, localBefore>>
realizationVars == <<probeVars, buildVars, planVars, executions, results>>
vars == <<evaluationVars, streamVars, realizationVars>>

\* What no step after the evaluation changes.
requestVars == <<request, config, cancelled, queue, worker, completed>>

ExistingStates == {"Cached", "CachedRemote", "Substituted", "Built", "Realized"}
NoCause == 0

Path(d, o) == <<d, o>>
PathsOf(d, outs) == {Path(d, o) : o \in outs}

--------------------------------------------------------------------------------
(* What is taken for granted of Nix: a document tells the truth *)

Listing(value) == value = Scalar \/ value \in Seq(ToSet(value))
Members(value) == IF value = Scalar THEN {} ELSE ToSet(value)

\* Something in the outputs of a derivation that no graph is made of.
Unacceptable(output) ==
  output.key \in {EmptyName, LongName} \/ output.value \in {Scalar, LongName}

\* Every output of the derivation, with its own path or none.
TrueOutputs(d, outputs) ==
  /\ Listing(outputs)
  /\ \/ \E output \in Members(outputs) : Unacceptable(output)
     \/ /\ \A output \in Members(outputs) : output.value \in {Path(d, output.key), NoPath}
        /\ outputs # Scalar /\ d \in DOMAIN World =>
             {output.key : output \in Members(outputs)} = DOMAIN World[d].outs

\* The inputs of a derivation are derivations, of which it needs some outputs.
TrueInputs(inputs) ==
  /\ Listing(inputs)
  /\ \A input \in Members(inputs) : input.key \in Nat \cup {LongName} /\ Listing(input.value)

TrueField(d, field) ==
  /\ field.key = "outputs" => TrueOutputs(d, field.value)
  /\ field.key = "inputs" => field.value = NoPath \/ TrueInputs(field.value)
  /\ field.key = "inputDrvs" => field.value # NoPath /\ TrueInputs(field.value)

TrueNode(member) ==
  /\ member.key \in Nat \cup {LongName}
  /\ member.torn \in {"none"} \cup Torn
  /\ Listing(member.value)
  /\ \A field \in Members(member.value) : TrueField(member.key, field)

TrueMember(member) ==
  /\ member.torn \in {"none"} \cup Torn
  /\ member.kind = "derivation" => TrueNode(member)
  /\ member.kind = "derivations" =>
       /\ Listing(member.value)
       /\ \A m \in Members(member.value) :
            m.kind \in {"version", "derivation"} /\ (m.kind = "derivation" => TrueNode(m))

TrueDocument(document) ==
  Listing(document) /\ \A member \in Members(document) : TrueMember(member)

\* The derivations that are evaluated are those of the flake, and so is what is shown; Nix
\* holds every input of a derivation it holds.
ASSUME RealizationAssumption ==
  /\ IsFiniteSet(DOMAIN World)
  /\ \A d \in DOMAIN World : Deps(World, d) \subseteq DOMAIN World
  /\ Caches \in Seq(DOMAIN Remote)
  /\ NoDrv \notin DOMAIN World
  /\ \A n \in DOMAIN Flake : Flake[n].drv \in DOMAIN World
  /\ \A context \in AppContexts : DOMAIN context \subseteq DOMAIN World
  /\ \A r \in Requests : \A document \in Documents[r] : TrueDocument(document)

--------------------------------------------------------------------------------

Init ==
  /\ EvaluationInit /\ StreamInit
  /\ store \in Stores
  /\ lightweight = FALSE /\ probeOpen = FALSE
  /\ graph = <<>> /\ availability = <<>> /\ probeDiags = {}
  /\ localFailed = FALSE /\ degraded = {} /\ asked = 0 /\ localBefore = {}
  /\ executions = <<>> /\ results = <<>>
  /\ exit = "none" /\ json = {} /\ confirmed = <<>> /\ stopped = {}
  /\ absent = {}

--------------------------------------------------------------------------------
(* Probing *)

\* complete_realization; the answers of the evaluation are gone by then.
Complete ==
  /\ pc = "complete"
  /\ completed' = <<>>
  /\ IF evaluated = {} THEN pc' = "finish" /\ UNCHANGED open
     ELSE IF /\ config.graphMode = "Automatic"
             /\ \A r \in evaluated : r.kind # "app" /\ r.selected # {}
       THEN pc' = "probeRoots" /\ open' = Started("Probe")
     ELSE pc' = "loadGraph" /\ open' = Started("Graph")
  /\ UNCHANGED <<request, config, cancelled, queue, worker, roots, evaluated, diags, outcome,
                 streamVars, realizationVars>>

In(known, state) == {p \in DOMAIN known : known[p] = state}
Mark(known, paths, state) == [p \in DOMAIN known |-> IF p \in paths THEN state ELSE known[p]]

\* A probe that cannot tell leaves a warning, or an error when it was cancelled.
ProbeFailures(code, target) ==
  {Diagnostic(code, severity, target) :
     severity \in IF cancelled THEN {"Warning", "Error"} ELSE {"Warning"}}

\* probe_local: Answered(known) with what the store holds, Failed when it cannot tell.
ProbeLocal(known, paths, Answered(_), Failed) ==
  \/ /\ Answered(Mark(known, paths \cap store, "Local"))
     /\ absent' = absent \cup (paths \ store)
     /\ UNCHANGED probeDiags
  \/ /\ Failed
     /\ \E d \in ProbeFailures("local_cache_probe_failed", <<>>) :
          probeDiags' = probeDiags \cup {d}
     /\ UNCHANGED absent

RootDrvs == {r.drv : r \in evaluated}
RootsOf(d) == {r \in evaluated : r.drv = d}
RootPaths == UNION {PathsOf(r.drv, r.selected \cap r.outs) : r \in evaluated}

\* lightweight_root_nodes
LightweightNodes ==
  [d \in RootDrvs |->
     [deps |-> <<>>, outs |-> [o \in UNION {r.outs : r \in RootsOf(d)} |-> Path(d, o)]]]

\* The nodes of finish_local_roots.
CachedRoots ==
  [d \in RootDrvs |->
     LET outs == UNION {r.selected : r \in RootsOf(d)}
     IN [state |-> "Cached", required |-> outs, produced |-> PathsOf(d, outs),
         deps |-> {}, dep |-> NoCause, expected |-> "Cached"]]

\* complete_root_realization: when every root is there nothing else is asked; a single
\* root is worth its graph; several are built first and their graph is read only
\* if one of them fails.
RootsProbed(known) ==
  IF /\ DOMAIN known # {} /\ \A p \in DOMAIN known : known[p] = "Local"
     /\ ~request.outLink /\ ~config.rebuild
    THEN /\ pc' = "finish" /\ open' = Finished("Probe")
         /\ availability' = known
         /\ graph' = LightweightNodes /\ executions' = CachedRoots
         /\ roots' = {IF r.drv # NoDrv THEN [r EXCEPT !.state = "Cached"] ELSE r : r \in roots}
         /\ UNCHANGED <<lightweight, probeOpen>>
  ELSE IF Cardinality(evaluated) = 1
    THEN /\ pc' = "loadGraph" /\ open' = Started("Graph")
         /\ availability' = Mark(known, In(known, "Unknown"), "Missing")
         /\ probeOpen' = TRUE
         /\ UNCHANGED <<graph, lightweight, executions, roots>>
  ELSE /\ pc' = "graphReady" /\ open' = Finished("Probe")
       /\ availability' = known
       /\ graph' = LightweightNodes /\ lightweight' = TRUE
       /\ UNCHANGED <<probeOpen, executions, roots>>

ProbeRoots ==
  /\ pc = "probeRoots"
  /\ LET unknown == [p \in RootPaths |-> "Unknown"]
     IN ProbeLocal(unknown, RootPaths, RootsProbed, RootsProbed(unknown))
  /\ UNCHANGED <<requestVars, evaluated, diags, outcome, streamVars, localFailed, degraded, asked,
                 buildVars, localBefore, results>>

--------------------------------------------------------------------------------
(* The derivation graph *)

\* load_graph: the child is started, or not.
ShowGraph ==
  /\ pc = "loadGraph"
  /\ \E document \in Documents[request] : StartStream(document, RootDrvs)
  /\ pc' = "readGraph"
  /\ UNCHANGED <<requestVars, open, roots, evaluated, diags, outcome, realizationVars>>

ReadGraph ==
  /\ pc = "readGraph"
  /\ StreamNext
  /\ UNCHANGED <<evaluationVars, realizationVars>>

\* Mutant: the probe of the roots stays open.
ClosedGraphOnly == Finished("Graph")

\* close_probe_phase, after the graph phase
ClosedPhases == IF probeOpen THEN [Finished("Graph") EXCEPT !["Probe"] = @ - 1]
                ELSE Finished("Graph")

\* validate_root_identities
IdentityMismatch(known) ==
  \E r \in evaluated : r.kind # "app" /\ \E o \in r.selected :
     KnownPaths(known, r.drv, {o}) # {Path(r.drv, o)}

\* Mutant: any dependency is to blame.
CulpritsAny(runs, deps, d) == deps[d] \cap DOMAIN runs

\* apply_failure_dependencies and mark_dependency_failures: a failed node one of
\* whose dependencies failed or was skipped is skipped, and names the first of them.
\* Whoever is skipped had failed, so that the second round of their loops finds nobody.
Culprits(runs, deps, d) ==
  {e \in deps[d] \cap DOMAIN runs : runs[e].state \in {"Failed", "Skipped"}}
MarkSkipped(runs, deps) ==
  [d \in DOMAIN runs |->
     IF runs[d].state = "Failed" /\ Culprits(runs, deps, d) # {}
       THEN [runs[d] EXCEPT !.state = "Skipped", !.dep = Min(Culprits(runs, deps, d))]
       ELSE runs[d]]

Skipped(runs) == {d \in DOMAIN runs : runs[d].state = "Skipped"}

\* failure_graph_nodes with a graph: the failures are told apart, and only those that
\* have no failed dependency keep their diagnostic.
ExplainFailures ==
  LET deps == [d \in DOMAIN executions |-> Deps(nodes, d) \cap DOMAIN executions]
      marked == MarkSkipped([d \in DOMAIN executions |-> [executions[d] EXCEPT !.deps = deps[d]]],
                            deps)
      skipped == Skipped(marked) \ Skipped(executions)
  IN /\ executions' = marked
     /\ diags' = {g \in diags : g.code = "realization_failed" =>
                                  \A d \in skipped : g.target # <<"node", d>>}
     /\ graph' = nodes

GraphRefused(code) ==
  /\ diags' = diags \cup {Diagnostic(code, "Error", <<>>)}
  /\ open' = ClosedPhases
  /\ pc' = IF lightweight THEN "settle" ELSE "finish"
  /\ UNCHANGED executions

\* The run failed, whatever was read of it.
GraphRunFails ==
  /\ \/ pc = "loadGraph"
     \/ pc = "readGraph" /\ parsed # "reading"
  /\ GraphRefused("derivation_graph_failed")
  /\ DropStream
  /\ UNCHANGED <<requestVars, roots, evaluated, outcome, probeVars, buildVars, planVars, results>>

\* GraphStream::take; a stream that could not be read fails the run.
GraphLoaded ==
  /\ pc = "readGraph" /\ parsed \notin {"reading", "graph_stream_read_failed"}
  /\ IF parsed # "ok" THEN GraphRefused(parsed) /\ UNCHANGED graph
     ELSE IF IdentityMismatch(nodes)
       THEN /\ GraphRefused("root_output_identity_mismatch")
            /\ graph' = IF lightweight THEN graph ELSE nodes
     ELSE IF lightweight
       THEN ExplainFailures /\ pc' = "settle" /\ open' = Finished("Graph")
     ELSE /\ graph' = nodes /\ pc' = "graphReady" /\ open' = Finished("Graph")
          /\ UNCHANGED <<executions, diags>>
  /\ DropStream
  /\ UNCHANGED <<requestVars, roots, evaluated, outcome, probeVars, buildVars, lightweight,
                 probeOpen, localBefore, results>>

--------------------------------------------------------------------------------
(* The plan, and what the probes say of it *)

\* Mutant: of two roots of a derivation only one counts.
SelectedOfOne ==
  [d \in RootDrvs |->
     LET r == CHOOSE q \in RootsOf(d) : TRUE
     IN IF r.selected = {} THEN DOMAIN graph[d].outs ELSE r.selected]

\* selected_outputs: an app that selects nothing selects everything.
SelectedOutputs ==
  [d \in RootDrvs |->
     UNION {IF r.selected = {} THEN DOMAIN graph[d].outs ELSE r.selected : r \in RootsOf(d)}]
Required == RequiredOutputs(graph, SelectedOutputs)

\* populate_app_outputs
PopulateAppOutputs ==
  roots' = {IF r.kind = "app" /\ r.drv \in RootDrvs
              THEN [r EXCEPT !.outs = {o \in SelectedOutputs[r.drv] \cap DOMAIN graph[r.drv].outs :
                                         graph[r.drv].outs[o] # NoPath}]
              ELSE r : r \in roots}

ProbedPaths ==
  LET outputs == IF config.graphMode = "Complete" THEN Required ELSE SelectedOutputs
  IN UNION {KnownPaths(graph, d, outputs[d]) : d \in DOMAIN outputs}

\* complete_valid_graph and the head of probe_availability: what was established of the
\* roots is kept, the rest is unknown.
PlanProbes ==
  /\ pc = "graphReady"
  /\ PopulateAppOutputs
  /\ IF lightweight /\ ~config.skipCached
       THEN pc' = "plan" /\ UNCHANGED <<open, availability>>
       ELSE /\ open' = IF probeOpen THEN open ELSE Started("Probe")
            /\ availability' = [p \in DOMAIN availability \cup ProbedPaths |->
                                  IF p \in DOMAIN availability THEN availability[p] ELSE "Unknown"]
            /\ pc' = "probeLocal"
  /\ UNCHANGED <<requestVars, evaluated, diags, outcome, streamVars, probeDiags, localFailed,
                 degraded, asked, absent, buildVars, planVars, executions, results>>

ProbeUnknown ==
  /\ pc = "probeLocal"
  /\ LET unknown == ProbedPaths \cap In(availability, "Unknown")
     IN IF unknown = {}
          THEN UNCHANGED <<availability, probeDiags, localFailed, absent>>
          ELSE ProbeLocal(availability, unknown,
                 LAMBDA known : availability' = known /\ UNCHANGED localFailed,
                 localFailed' = TRUE /\ UNCHANGED availability)
  /\ pc' = "probeRemote"
  /\ UNCHANGED <<requestVars, open, roots, evaluated, diags, outcome, streamVars, degraded, asked,
                 buildVars, planVars, executions, results>>

\* probe_remotes: the caches in turn, about everything not found so far.
Unresolved == {p \in DOMAIN availability : availability[p] \notin {"Local", "TrustedRemote"}}
RemoteIsOver == ProbedPaths = {} \/ asked = Len(Caches) \/ Unresolved = {}

ProbeRemote ==
  /\ pc = "probeRemote" /\ ~RemoteIsOver
  /\ asked' = asked + 1
  /\ \/ /\ availability' = Mark(availability, Unresolved \cap Remote[Caches[asked']],
                                "TrustedRemote")
        /\ UNCHANGED <<degraded, probeDiags>>
     \/ /\ degraded' = degraded \cup Unresolved
        /\ \E d \in ProbeFailures("cache_probe_failed", <<"cache", Caches[asked']>>) :
             probeDiags' = probeDiags \cup {d}
        /\ UNCHANGED availability
  /\ UNCHANGED <<requestVars, pc, open, roots, evaluated, diags, outcome, streamVars, localFailed,
                 absent, buildVars, planVars, executions, results>>

\* The tail of probe_availability; what it kept for itself is gone.
ProbesEnd ==
  /\ pc = "probeRemote" /\ RemoteIsOver
  /\ availability' = IF ProbedPaths = {} \/ localFailed THEN availability
                     ELSE Mark(availability, In(availability, "Unknown") \ degraded, "Missing")
  /\ localFailed' = FALSE /\ degraded' = {} /\ asked' = 0
  /\ open' = Finished("Probe") /\ pc' = "plan"
  /\ UNCHANGED <<requestVars, roots, evaluated, diags, outcome, streamVars, probeDiags, absent,
                 buildVars, planVars, executions, results>>

\* initialize_executions, for one node of the plan.
Execution(d) ==
  LET outs == SelectedOutputs[d]
      Found(states) == /\ outs # {} /\ AllKnown(graph, d, outs)
                       /\ \A p \in KnownPaths(graph, d, outs) :
                            p \in DOMAIN availability /\ availability[p] \in states
      cached == Found({"Local"})
      substitutable == ~cached /\ Found({"Local", "TrustedRemote"})
  IN [state |-> IF cached /\ ~(request.outLink \/ config.rebuild) THEN "Cached"
                ELSE IF substitutable /\ config.skipCached /\ ~request.outLink THEN "CachedRemote"
                ELSE "pending",
      required |-> outs,
      produced |-> IF cached THEN KnownPaths(graph, d, outs) ELSE {},
      deps |-> IF cached \/ substitutable THEN {} ELSE Deps(graph, d) \cap RootDrvs,
      dep |-> NoCause,
      expected |-> IF config.rebuild THEN "Built"
                   ELSE IF lightweight THEN "Realized"
                   ELSE IF cached THEN "Cached"
                   ELSE IF substitutable THEN "Substituted"
                   ELSE "Built"]

\* probe_and_realize_graph and realize_graph up to the build.
Plan ==
  /\ pc = "plan"
  /\ localBefore' = In(availability, "Local")
  /\ executions' = [d \in RootDrvs |-> Execution(d)]
  /\ open' = Started("Realization")
  /\ pc' = IF \E d \in RootDrvs : Execution(d).state = "pending" THEN "build" ELSE "realized"
  /\ UNCHANGED <<requestVars, roots, evaluated, diags, outcome, streamVars, probeVars, buildVars,
                 lightweight, probeOpen, graph, results>>

--------------------------------------------------------------------------------
(* The build: one run of Nix for everything pending *)

Pending == {d \in DOMAIN executions : executions[d].state = "pending"}
PendingOutputs == [d \in Pending |-> executions[d].required]

\* realization_outputs: what the graph knows to be needed.
LiveRequired == RequiredOutputs(graph, PendingOutputs)

\* What Nix may work on, and what can become of a derivation: nothing, an activity that
\* ended without its outputs, or outputs that were made unseen, reported by a result,
\* left behind by an activity that stopped, or found by the live thread.
Buildable ==
  IF config.rebuild THEN Pending
  ELSE {d \in Closure(World, Pending) : ~(PathsOf(d, DOMAIN World[d].outs) \subseteq store)}
Fates == {"absent", "dropped", "unseen", "reported", "stopped", "live"}
Made(fate) == {d \in DOMAIN fate : fate[d] \notin {"absent", "dropped"}}

\* A rebuild repeats what is there and never confirms live.
PossibleFates ==
  {fate \in [Buildable -> Fates] :
     config.rebuild => \A d \in Made(fate) : fate[d] # "live" /\
                                             PathsOf(d, DOMAIN World[d].outs) \subseteq store}

\* The activity observer (RealizationObserver): a substitution may report one output alone.
Confirmation(d, fate, outs) ==
  [state |-> IF fate = "live" THEN "Realized"
             ELSE IF outs # DOMAIN World[d].outs THEN "Substituted" ELSE "Built",
   authoritative |-> fate = "reported", outs |-> outs]
Parts(d, fate) ==
  {DOMAIN World[d].outs} \cup IF fate = "reported" THEN {{o} : o \in DOMAIN World[d].outs} ELSE {}
PossibleParts(fate) ==
  {part \in [Made(fate) -> UNION {Parts(d, fate[d]) : d \in Made(fate)}] :
     \A d \in Made(fate) : part[d] \in Parts(d, fate[d])}

RunBuild ==
  \E fate \in PossibleFates : \E part \in PossibleParts(fate) :
    LET seen == {d \in Made(fate) : fate[d] \in {"reported", "live"}}
    IN /\ store' = store \cup UNION {PathsOf(d, part[d]) : d \in Made(fate)}
       /\ confirmed' = [d \in seen |-> Confirmation(d, fate[d], part[d])]
       /\ stopped' = {d \in DOMAIN fate : fate[d] \in {"dropped", "stopped"}}
       /\ \/ /\ exit' = "success"
             /\ \A d \in Pending : PathsOf(d, executions[d].required) \subseteq store'
             /\ config.rebuild => Made(fate) = Pending
             /\ json' \in {Pending, {}}
          \/ /\ exit' = "failure" /\ json' = {}
          \/ /\ exit' = "cancelled" /\ json' = {} /\ cancelled

\* realize_nodes up to the end of the run: a runner that was cancelled before starts
\* nothing, and one that fails itself reports nothing.
Build ==
  /\ pc = "build"
  /\ \/ RunBuild
     \/ /\ exit' \in {"error"} \cup IF cancelled THEN {"cancelled"} ELSE {}
        /\ UNCHANGED <<store, json, confirmed, stopped>>
  /\ pc' = "gather"
  /\ UNCHANGED <<requestVars, open, roots, evaluated, diags, outcome, streamVars, probeVars,
                 planVars, executions, results>>

--------------------------------------------------------------------------------
(* What became of the nodes *)

NodeRun(state, required, produced, diag) ==
  [state |-> state, required |-> required, produced |-> produced, dep |-> NoCause, diag |-> diag]

\* parse_build_result: the JSON of the build lists the node with all its outputs.
Listed(d) == d \in json

\* parse_node_run
Parsed ==
  [d \in Pending |->
     IF Listed(d)
       THEN NodeRun(executions[d].expected, executions[d].required,
                    PathsOf(d, executions[d].required), "none")
       ELSE NodeRun("Failed", executions[d].required, {}, "realization_failed")]

\* unstarted_runs
Unstarted ==
  [d \in Pending |->
     IF exit = "cancelled" THEN NodeRun("Cancelled", executions[d].required, {}, "cancelled")
     ELSE NodeRun("Failed", executions[d].required, {}, "realization_process_failed")]

\* realize_nodes: without the link it was asked for, nothing of the build succeeded.
LinkFailed(runs) ==
  [d \in DOMAIN runs |-> [runs[d] EXCEPT !.state = "Failed", !.diag = "realization_failed"]]

\* recover_realized_nodes: a failed build may still have made what it was asked for.
Recovered(runs) ==
  [d \in DOMAIN runs |->
     LET outs == executions[d].required
     IN IF /\ runs[d].state = "Failed"
           /\ AllKnown(graph, d, outs) /\ KnownPaths(graph, d, outs) \subseteq store
          THEN NodeRun(executions[d].expected, runs[d].required, KnownPaths(graph, d, outs), "none")
          ELSE runs[d]]

\* retain_observed_runs: what was reported with all the outputs that are needed stands,
\* a node outside the graph with whatever it reported.
Wanted(d) == IF d \in DOMAIN LiveRequired THEN LiveRequired[d]
             ELSE IF d \notin DOMAIN graph THEN confirmed[d].outs ELSE {}
\* Mutant: any of the outputs will do.
StandingPartly == {d \in DOMAIN confirmed : Wanted(d) \cap confirmed[d].outs # {}}
Standing == {d \in DOMAIN confirmed : Wanted(d) # {} /\ Wanted(d) \subseteq confirmed[d].outs}

RetainObserved(runs) ==
  LET Retained(d) ==
        IF d \notin DOMAIN runs
          THEN NodeRun(confirmed[d].state, Wanted(d), PathsOf(d, Wanted(d)), "none")
        ELSE IF runs[d].produced # {}
          THEN IF confirmed[d].authoritative /\ (~request.outLink \/ runs[d].diag = "none")
                 THEN [runs[d] EXCEPT !.state = confirmed[d].state] ELSE runs[d]
        ELSE IF request.outLink
          THEN [runs[d] EXCEPT !.produced = PathsOf(d, Wanted(d))]
        ELSE NodeRun(confirmed[d].state, runs[d].required, PathsOf(d, Wanted(d)), "none")
  IN [d \in DOMAIN runs \cup Standing |-> IF d \in Standing THEN Retained(d) ELSE runs[d]]

\* recover_cancelled_outputs: the nodes of the graph that stopped, or were asked for and
\* have nothing yet, with the outputs to look for.
StoppedInGraph(runs) ==
  LET candidates == {d \in DOMAIN LiveRequired :
                       /\ IF d \in DOMAIN runs THEN runs[d].produced = {} ELSE d \in stopped
                       /\ AllKnown(graph, d, LiveRequired[d])}
  IN [d \in candidates |-> LiveRequired[d]]

\* stopped_output_paths: those outside it, when Nix tells their paths.
StoppedElsewhere(runs) ==
  {<<>>, [d \in stopped \ (DOMAIN graph \cup DOMAIN runs) |-> DOMAIN World[d].outs]}

\* probe_stopped_outputs: what the store holds of all, when it answers in time; it is
\* asked under a token of its own.
Found(candidates) ==
  {{}, {d \in DOMAIN candidates : PathsOf(d, candidates[d]) \subseteq store}}

\* What is found makes up for the verdict that never came.
WithFound(runs, candidates, found) ==
  LET Seen(d) ==
        IF d \in DOMAIN runs /\ request.outLink
          THEN [runs[d] EXCEPT !.produced = PathsOf(d, candidates[d])]
          ELSE NodeRun("Realized",
                       IF d \in DOMAIN runs THEN runs[d].required ELSE candidates[d],
                       PathsOf(d, candidates[d]), "none")
  IN [d \in DOMAIN runs \cup found |-> IF d \in found THEN Seen(d) ELSE runs[d]]

\* realization_diagnostics
Context(runs) == IF \E d \in DOMAIN runs : runs[d].diag # "none"
                   THEN {Diagnostic("realization_failed", "Error", <<>>)} ELSE {}

Gathered(runs) ==
  /\ results' = runs
  /\ diags' = diags \cup IF exit \in {"success", "failure"} THEN Context(runs) ELSE {}
  /\ pc' = "apply"
  /\ UNCHANGED <<requestVars, open, roots, evaluated, outcome, streamVars, probeVars, buildVars,
                 planVars, executions>>

GatherSuccess ==
  /\ pc = "gather" /\ exit = "success"
  /\ Gathered(RetainObserved(Parsed))

\* The store answers, or not: then nothing is recovered.
GatherFailure ==
  /\ pc = "gather" /\ exit = "failure"
  /\ IF request.outLink THEN Gathered(RetainObserved(LinkFailed(Parsed)))
     ELSE \/ Gathered(RetainObserved(Parsed))
          \/ ~config.rebuild /\ Gathered(RetainObserved(Recovered(Parsed)))

\* Mutant: a cancelled build has made nothing.
GatherNothing ==
  /\ pc = "gather" /\ exit \in {"error", "cancelled"}
  /\ Gathered(Unstarted)

\* cancelled_runs
GatherUnfinished ==
  /\ pc = "gather" /\ exit \in {"error", "cancelled"}
  /\ IF exit = "error" THEN Gathered(Unstarted)
     ELSE IF config.rebuild THEN Gathered(RetainObserved(Unstarted))
     ELSE LET runs == RetainObserved(Unstarted)
              inGraph == StoppedInGraph(runs)
          IN \E elsewhere \in StoppedElsewhere(runs) :
               LET candidates == [d \in DOMAIN inGraph \cup DOMAIN elsewhere |->
                                    IF d \in DOMAIN inGraph THEN inGraph[d] ELSE elsewhere[d]]
               IN \E found \in Found(candidates) : Gathered(WithFound(runs, candidates, found))

\* apply_node_run
Applied(d, run, deps) ==
  [state |-> run.state, required |-> run.required, produced |-> run.produced, deps |-> deps,
   dep |-> run.dep,
   expected |-> IF d \in DOMAIN executions THEN executions[d].expected ELSE run.state]

\* The tail of run_realization_schedule: nodes outside the plan join it, failures of
\* dependencies are told from failures, and every result is applied.
ApplyResults ==
  /\ pc = "apply"
  /\ LET joined == [d \in DOMAIN results \cup DOMAIN executions |->
                      IF d \in DOMAIN executions THEN executions[d].deps
                      ELSE Deps(graph, d) \cap (DOMAIN results \cup Pending)]
         marked == MarkSkipped(results, joined)
     IN /\ executions' = [d \in DOMAIN joined |->
              IF d \in DOMAIN marked THEN Applied(d, marked[d], joined[d]) ELSE executions[d]]
        /\ diags' = diags \cup {Diagnostic(marked[d].diag, "Error", <<"node", d>>) :
              d \in {e \in DOMAIN marked : marked[e].diag # "none" /\ marked[e].state # "Skipped"}}
  /\ pc' = "realized"
  /\ UNCHANGED <<requestVars, open, roots, evaluated, outcome, streamVars, probeVars, buildVars,
                 planVars, results>>

\* The ways on from the build: complete_dependency_results, failure_graph_nodes, or none.
Realized ==
  /\ pc = "realized"
  /\ diags' = diags \cup probeDiags
  /\ IF config.graphMode = "Complete"
       THEN pc' = "dependencies" /\ open' = Finished("Realization")
     ELSE IF lightweight /\ \E d \in DOMAIN executions : executions[d].state = "Failed"
       THEN pc' = "loadGraph" /\ open' = [Finished("Realization") EXCEPT !["Graph"] = @ + 1]
     ELSE pc' = "settle" /\ open' = Finished("Realization")
  /\ UNCHANGED <<requestVars, roots, evaluated, outcome, streamVars, realizationVars>>

--------------------------------------------------------------------------------
(* Dependencies of a complete graph, and the manifest *)

\* The required paths no execution stands for that were not local.
UnresolvedDependencies ==
  {p \in UNION {KnownPaths(graph, d, Required[d] \ IF d \in DOMAIN executions
                                                   THEN executions[d].required ELSE {}) :
                d \in DOMAIN Required} :
     p \in DOMAIN availability /\ availability[p] # "Local"}

\* record_observed_node, of the required outputs that are local by now.
Observed(known, d) ==
  LET local == {o \in Required[d] : \E p \in KnownPaths(graph, d, {o}) :
                                      p \in DOMAIN known /\ known[p] = "Local"}
      new == IF d \in DOMAIN executions THEN local \ executions[d].required ELSE local
      made == ~(PathsOf(d, new) \subseteq localBefore)
  IN IF d \notin DOMAIN executions
       THEN [state |-> IF made THEN "Realized" ELSE "Cached",
             required |-> local, produced |-> PathsOf(d, local),
             deps |-> Deps(graph, d) \cap DOMAIN Required, dep |-> NoCause,
             expected |-> "Realized"]
       ELSE [executions[d] EXCEPT
               !.required = @ \cup new, !.produced = @ \cup PathsOf(d, new),
               !.state = IF made /\ @ \in {"Cached", "Substituted"} THEN "Realized" ELSE @]

RecordObserved(known) ==
  LET observed == {d \in DOMAIN Required : \E p \in KnownPaths(graph, d, Required[d]) :
                                             p \in DOMAIN known /\ known[p] = "Local"}
  IN /\ availability' = known
     /\ executions' = [d \in DOMAIN executions \cup observed |->
                         IF d \in observed THEN Observed(known, d) ELSE executions[d]]

\* complete_dependency_results; its diagnostics join those of the manifest.
CompleteDependencies ==
  /\ pc = "dependencies"
  /\ IF UnresolvedDependencies = {} \/ cancelled
       THEN RecordObserved(availability) /\ UNCHANGED <<probeDiags, absent>>
       ELSE ProbeLocal(availability, UnresolvedDependencies, RecordObserved,
                       RecordObserved(availability))
  /\ diags' = diags \cup probeDiags'
  /\ pc' = "settle"
  /\ UNCHANGED <<requestVars, open, roots, evaluated, outcome, streamVars, localFailed, degraded,
                 asked, buildVars, planVars, results>>

\* apply_root_states
Settle ==
  /\ pc = "settle"
  /\ roots' = {IF r.drv # NoDrv /\ r.drv \in DOMAIN executions
                 THEN [r EXCEPT !.state = executions[r.drv].state] ELSE r : r \in roots}
  /\ pc' = "finish"
  /\ UNCHANGED <<requestVars, open, evaluated, diags, outcome, streamVars, realizationVars>>

\* finish_manifest: a request that was cancelled reports its failed roots as such.
OutcomeOf(rs, ds) ==
  IF cancelled \/ \E r \in rs : r.state = "Cancelled" THEN "Cancelled"
  ELSE IF (\A d \in ds : d.severity # "Error") /\ (\A r \in rs : r.state \in ExistingStates)
    THEN "Success"
  ELSE "Failed"

Finish ==
  /\ pc = "finish"
  /\ outcome' = OutcomeOf(roots, diags)
  /\ roots' = {IF outcome' = "Cancelled" /\ r.state = "Failed" /\ r.drv # NoDrv
                 THEN [r EXCEPT !.state = "Cancelled"] ELSE r : r \in roots}
  /\ pc' = "done"
  /\ UNCHANGED <<requestVars, open, evaluated, diags, streamVars, realizationVars>>

--------------------------------------------------------------------------------

Done == pc = "done" /\ UNCHANGED vars

Next ==
  \/ EvaluationNext /\ UNCHANGED <<streamVars, realizationVars>>
  \/ Cancel /\ UNCHANGED <<streamVars, realizationVars>>
  \/ Complete \/ ProbeRoots
  \/ ShowGraph \/ ReadGraph \/ GraphRunFails \/ GraphLoaded
  \/ PlanProbes \/ ProbeUnknown \/ ProbeRemote \/ ProbesEnd
  \/ Plan \/ Build
  \/ GatherSuccess \/ GatherFailure \/ GatherUnfinished \/ ApplyResults
  \/ Realized \/ CompleteDependencies \/ Settle \/ Finish
  \/ Done

Spec == Init /\ [][Next]_vars

--------------------------------------------------------------------------------
(* Properties *)

PcStates ==
  {"start", "validate", "discover", "evaluate", "evaluateAll", "app", "complete", "probeRoots",
   "loadGraph", "readGraph", "graphReady", "probeLocal", "probeRemote", "plan", "build", "gather",
   "apply", "realized", "dependencies", "settle", "finish", "done"}

TypeOK ==
  /\ pc \in PcStates
  /\ open \in [Phases -> 0..1]
  /\ cancelled \in BOOLEAN /\ lightweight \in BOOLEAN /\ probeOpen \in BOOLEAN
  /\ outcome \in {"none", "error", "discovered", "Success", "Failed", "Cancelled"}
  /\ \A p \in DOMAIN availability :
       availability[p] \in {"Unknown", "Local", "TrustedRemote", "Missing"}

\* What it costs to retain these names.
Total(names) == MapThenSumSet(LAMBDA n : Size[n], names)

\* assemble_evaluation: which names are kept within the memory limit depends on the
\* names and their answers, never on the order in which the workers were done.
OrderIsIrrelevant ==
  pc = "complete" =>
    LET named == {r \in roots : r.kind = "named"}
        kept == {r.name : r \in {q \in evaluated : q.kind = "named"}}
        Answered(n) == \E i \in DOMAIN completed : n \in completed[i].usable
        Before(n) == Total({k \in kept : k < n})
    IN \A r \in named :
         r.name \in kept <=> /\ Answered(r.name)
                            /\ Selected(r.name) # {}
                            /\ Selected(r.name) \subseteq Flake[r.name].outs
                            /\ Before(r.name) + Size[r.name] <= MaxMemory

\* What a root asks of its derivation.
AskedOf(root) == IF root.selected = {} THEN DOMAIN World[root.drv].outs ELSE root.selected
InCaches == UNION {Remote[Caches[i]] : i \in DOMAIN Caches}

\* finish_manifest: of a successful request every name that was asked for has a root,
\* whose selected outputs are in the store, or in a trusted cache when the caller was
\* content with that; a rebuild has built them this time.
SuccessIsRealized ==
  /\ \A r \in evaluated : \E root \in roots : root.name = r.name /\ root.drv = r.drv
  /\ outcome = "Success" =>
      /\ request.kind # "app" => ToSet(Targets) \subseteq {r.name : r \in evaluated}
      /\ \A r \in evaluated :
           /\ PathsOf(r.drv, AskedOf(r)) \subseteq
                store \cup IF config.skipCached THEN InCaches ELSE {}
           /\ config.rebuild => r.drv \in json \cup DOMAIN confirmed

\* NodeResult, OutputAvailability: a node that is reported as present has every output that
\* was needed of it in the store, and names those paths; an output nobody looked for is
\* only called missing in a manifest that warns of the failed look or carries an error.
NodesAreTruthful ==
  /\ \A d \in DOMAIN executions :
       executions[d].state \in ExistingStates \ {"CachedRemote"} =>
         /\ PathsOf(d, executions[d].required) \subseteq executions[d].produced
         /\ executions[d].produced \subseteq store
  /\ pc = "done" /\ ~(In(availability, "Missing") \subseteq absent) =>
       \E g \in diags : g.code = "local_cache_probe_failed" \/ g.severity = "Error"

\* mark_dependency_failures: from a skipped node to the dependency it names, and on.
Blamed(d) ==
  LET Step(at, i) == IF at \in DOMAIN executions /\ executions[at].state = "Skipped"
                       THEN executions[at].dep ELSE at
  IN FoldLeft(Step, d, [i \in 1..Cardinality(DOMAIN executions) |-> i])

\* finish_manifest and realization_diagnostics: a request never fails without an error that
\* says so, and neither does a node, even when the failures are told apart afterwards; what a
\* node depends on is in the graph, a skipped node names a dependency, and the trail from
\* there ends at such a failure.
FailureIsExplained ==
  /\ outcome = "Failed" => \E g \in diags : g.severity = "Error"
  /\ \A d \in DOMAIN executions : executions[d].deps \subseteq DOMAIN graph
  /\ pc \in {"realized", "dependencies", "settle", "finish", "done"} =>
       \A d \in DOMAIN executions : executions[d].state \in {"Failed", "Skipped"} =>
         /\ executions[d].state = "Skipped" => executions[d].dep \in executions[d].deps
         /\ Blamed(d) \in DOMAIN executions /\ executions[Blamed(d)].state = "Failed"
         /\ \E g \in diags : g.target = <<"node", Blamed(d)>> /\ g.severity = "Error"

\* retain_observed_runs: what Nix reported as made with all that was needed of it is in the
\* manifest, however the run ended, unless the link failed or the runner itself did.
ReportedWorkSurvives ==
  /\ pc = "apply" /\ exit # "error" /\ ~request.outLink =>
       \A d \in Standing : confirmed[d].authoritative =>
         d \in DOMAIN results /\ results[d].state = confirmed[d].state
  /\ pc \in {"realized", "dependencies", "settle", "finish", "done"} =>
       \A d \in DOMAIN results : results[d].state \in ExistingStates =>
         executions[d].state \in ExistingStates

\* phase_started and phase_finished: at most one start of a phase is open, and a manifest
\* is only handed out when every phase that started has finished.
PhasesBalance ==
  /\ TypeOK
  /\ outcome \notin {"none", "error"} => \A p \in Phases : open[p] = 0

================================================================================
