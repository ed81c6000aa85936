------------------------- MODULE RealizationInvariants -------------------------
(***************************************************************************)
(* The inductive invariants of Realization.  RealizationProofs proves that *)
(* every step keeps them, and what follows from them.                      *)
(*                                                                         *)
(* IInv is TypeOK and                                                      *)
(*   PhaseInv     which phases are open at which point of a request;       *)
(*   WayInv       which way the request takes, on which PhaseInv depends,  *)
(*                and that nothing was built before the build;             *)
(*   Kept         every node of the plan has all of its fields;            *)
(*   SurvivesInv  what the build realized stays in the plan, until the     *)
(*                report, as realized;                                     *)
(*   ReportInv    what the observer told for certain of a build that may   *)
(*                count is what the report will say.                       *)
(*                                                                         *)
(* TInv says that the report and the documents the request read tell the   *)
(* truth of the store and of the flake:                                    *)
(*   BatchInv     the evaluation answers each root with its own derivation;*)
(*   RootInv      a root's derivation and the outputs it selected are those*)
(*                the flake gives it;                                      *)
(*   ReadInv      what has been read of a document is a prefix of it read  *)
(*                without loss;                                            *)
(*   GraphInv     a node of the graph has the outputs and inputs of its    *)
(*                derivation;                                              *)
(*   ProbeInv     what a probe found is in the store or in a cache;        *)
(*   ToldInv, BuildInv, TruthInv, ResultInv                                *)
(*                what the build told and what was gathered of it is so;   *)
(*   PlanInv, HeldInv                                                      *)
(*                a node planned or applied as realized has its paths;     *)
(*   FinishInv    at the report only what was looked at succeeds.          *)
(*                                                                         *)
(* OrderInv says that which names are kept within the limit does not       *)
(* depend on which worker was first.                                       *)
(*                                                                         *)
(* CInv says that a request which fails says why:                          *)
(*   GroundInv    the graph that was accepted has no cycle;                *)
(*   FiniteInv    the plan, the results and what was confirmed are finite; *)
(*   CauseInv     a failed node is told of, and a skipped one names a      *)
(*                dependency that failed or was skipped;                   *)
(*   BlankInv, EndInv                                                      *)
(*                up to the plan there are no nodes in it, and after the   *)
(*                build none is left without an end;                       *)
(*   AccountInv   a root that is not evaluated was cancelled, or an error  *)
(*                tells of it;                                             *)
(*   QueueInv     without a cancellation every batch is answered.          *)
(*                                                                         *)
(* ExactInv says what the reader keeps of the members it has read.         *)
(***************************************************************************)
EXTENDS Realization

--------------------------------------------------------------------------------
(* Where the request stands *)

\* These phases are open, and no other.
Opened(phases) == open = [p \in Phases |-> IF p \in phases THEN 1 ELSE 0]
Probing == IF probeOpen THEN {"Probe"} ELSE {}

\* No phase is open but the one the request is in; the probe may stay open around the
\* reading of the graph, and a failure may leave its phase open.
PhaseInv ==
  /\ pc \in {"start", "complete", "plan", "dependencies", "settle", "finish"} => Opened({})
  /\ pc = "validate" => Opened({"Validation"})
  /\ pc = "discover" => Opened({"Discovery"})
  /\ pc \in {"evaluate", "evaluateAll", "app"} => Opened({"Evaluation"})
  /\ pc \in {"probeRoots", "probeLocal", "probeRemote"} => Opened({"Probe"})
  /\ pc \in {"loadGraph", "readGraph"} => Opened({"Graph"} \cup Probing)
  /\ pc = "graphReady" => Opened(Probing)
  /\ pc \in {"build", "gather", "apply", "realized"} => Opened({"Realization"})
  /\ pc = "done" /\ outcome # "error" => Opened({})
  /\ pc # "done" => outcome = "none"

\* Up to the first probe nobody knows whether the graph is needed.
Early == {"start", "validate", "discover", "evaluate", "evaluateAll", "app", "complete", "probeRoots"}

\* A lightweight request reads the graph after the build and outside of the probe; any
\* other reads it before it has built anything.
WayInv ==
  /\ lightweight => ~probeOpen
  /\ pc \in Early => ~lightweight /\ ~probeOpen
  /\ pc \in Early \cup {"graphReady", "probeLocal", "probeRemote", "plan", "build", "gather"} =>
       DOMAIN results = {}
  /\ pc \in {"loadGraph", "readGraph"} => lightweight \/ DOMAIN results = {}

\* What EXCEPT may rely on.
Plain(execution) ==
  DOMAIN execution = {"state", "required", "produced", "deps", "dep", "expected"}
Kept == \A d \in DOMAIN executions : Plain(executions[d])

\* What the build left behind is still there in the plan.
SurvivesInv ==
  pc # "apply" =>
    \A d \in DOMAIN results : results[d].state \in ExistingStates =>
      d \in DOMAIN executions /\ executions[d].state \in ExistingStates

\* The final word on a build that ended in order.
ReportInv ==
  pc = "apply" /\ exit # "error" /\ ~request.outLink =>
    \A d \in Standing : confirmed[d].authoritative =>
      d \in DOMAIN results /\ results[d].state = confirmed[d].state

IInv == TypeOK /\ PhaseInv /\ WayInv /\ Kept /\ SurvivesInv /\ ReportInv

--------------------------------------------------------------------------------
(* What the manifest says is so *)

Errors == \E g \in diags : g.severity = "Error"

\* What a request may ask, and what is made of it up to the answers of Nix.
BatchSet == {Batches[i] : i \in DOMAIN Batches}
AnswerSet ==
  {[ordinal |-> b.ordinal, names |-> b.names, usable |-> usable] :
     b \in BatchSet, usable \in SUBSET DOMAIN Flake}
BatchInv ==
  /\ request \in Requests /\ config \in Configs
  /\ pc = "app" => request.kind = "app"
  /\ pc \in {"start", "validate"} => completed = <<>>
  /\ pc = "evaluateAll" => Targets = <<>>
  /\ pc = "evaluate" =>
       /\ queue \in Seq(BatchSet) /\ completed \in Seq(AnswerSet)
       /\ \A w \in DOMAIN worker : worker[w] = <<>> \/ \E b \in BatchSet : worker[w] = <<b>>

\* Every root with an identity is in the manifest and selects outputs it has; a name
\* without one stays in the manifest as a root that is not there.
PlainRoot(root) == DOMAIN root = {"kind", "name", "drv", "outs", "state"}
Evaluating == {"start", "validate", "discover", "evaluate", "evaluateAll", "app"}
RootInv ==
  /\ \A root \in roots : PlainRoot(root)
  /\ \A r \in evaluated : \E root \in roots : root.name = r.name /\ root.drv = r.drv
  /\ \A r \in evaluated : r.drv \in DOMAIN World
  /\ \A r \in evaluated : r.kind # "app" => r.selected # {} /\ r.selected \subseteq r.outs
  /\ pc = "probeRoots" => \A r \in evaluated : r.kind # "app"
  /\ pc \notin Evaluating \cup {"done"} /\ request.kind # "app" =>
       \/ \A n \in ToSet(Targets) :
            \/ \E r \in evaluated : r.name = n
            \/ \E root \in roots : root.drv = NoDrv /\ root.state \notin ExistingStates
       \/ pc = "finish" /\ Errors

\* What is read of a document is true of the derivations it names.
TruePaths(d, outs) == \A o \in DOMAIN outs : outs[o] \in {Path(d, o), NoPath}
TrueOuts(d, outs) ==
  TruePaths(d, outs) /\ (d \in DOMAIN World => DOMAIN outs = DOMAIN World[d].outs)
TrueNodes(known) ==
  /\ IsFiniteSet(DOMAIN known) /\ DOMAIN known \in SUBSET Nat
  /\ \A d \in DOMAIN known :
       TrueOuts(d, known[d].outs) /\ DOMAIN known[d].deps \in SUBSET Nat
ReadInv ==
  /\ unread \in Seq(ToSet(unread)) /\ \A member \in ToSet(unread) : TrueMember(member)
  /\ TrueNodes(nodes)
  /\ deferred # "ok"
  /\ pc = "readGraph" => graphRoots = RootDrvs
  /\ parsed = "ok" => graphRoots \subseteq DOMAIN nodes

\* The graph of the plan holds every root, with all of the outputs that it selects.
Planning == {"graphReady", "probeLocal", "probeRemote", "plan", "build", "gather"}
GraphInv ==
  /\ \A d \in DOMAIN graph : TruePaths(d, graph[d].outs)
  /\ pc \in Planning =>
       /\ RootDrvs \subseteq DOMAIN graph
       /\ \A r \in evaluated : r.selected = {} =>
            DOMAIN World[r.drv].outs \subseteq DOMAIN graph[r.drv].outs

\* A path is where the probes say, or a probe that failed has left a warning.
Warned == \E g \in probeDiags : g.code = "local_cache_probe_failed"
Told == \E g \in diags : g.code = "local_cache_probe_failed"
ProbeInv ==
  /\ In(availability, "Local") \subseteq store
  /\ In(availability, "TrustedRemote") \subseteq InCaches
  /\ asked \in 0..Len(Caches)
  /\ pc \in Early => DOMAIN availability = {}
  /\ \/ Warned
     \/ /\ In(availability, "Missing") \subseteq absent
        /\ In(availability, "Unknown") \subseteq
             absent \cup IF pc = "probeLocal" THEN ProbedPaths ELSE {}
ToldInv ==
  /\ \/ pc \in {"dependencies", "settle"}
     \/ pc \in {"loadGraph", "readGraph"} /\ lightweight
     => (Warned => Told)
  /\ pc \in {"finish", "done"} =>
       In(availability, "Missing") \subseteq absent \/ Told \/ Errors

\* Nothing is known of a build before it ran, and of one that ran nothing but the truth.
BuildInv ==
  /\ \/ pc \in Early \cup (Planning \ {"gather"})
     \/ pc \in {"loadGraph", "readGraph"} /\ ~lightweight
     => exit = "none"
  /\ json # {} => exit = "success"
  /\ pc = "gather" /\ exit = "success" =>
       \A d \in Pending : PathsOf(d, executions[d].required) \subseteq store
  /\ \A d \in DOMAIN confirmed : PathsOf(d, confirmed[d].outs) \subseteq store

\* A node that is there, in the plan and in what became of the build.
True(d, node) ==
  /\ PathsOf(d, node.required) \subseteq node.produced
  /\ node.produced \subseteq store
TruthInv ==
  \A d \in DOMAIN executions :
    executions[d].state \in ExistingStates \ {"CachedRemote"} => True(d, executions[d])
ResultInv ==
  pc = "apply" =>
    \A d \in DOMAIN results :
      /\ results[d].state \in ExistingStates => True(d, results[d])
      /\ d \in Pending =>
           /\ results[d].required = executions[d].required
           /\ results[d].state \in ExistingStates /\ config.rebuild =>
                d \in json \cup DOMAIN confirmed

\* Until the results are applied every root is in the plan with what it asks for.
PlanInv ==
  /\ pc \in {"build", "gather", "apply"} =>
       /\ DOMAIN executions = RootDrvs
       /\ \A d \in RootDrvs : executions[d].state \in
            {"pending"} \cup IF config.rebuild THEN {} ELSE {"Cached", "CachedRemote"}
       /\ \A r \in evaluated : AskedOf(r) \subseteq executions[r.drv].required
  /\ \/ pc \in {"realized", "dependencies", "settle"}
     \/ pc \in {"loadGraph", "readGraph"} /\ lightweight
     => RootDrvs \subseteq DOMAIN executions
  /\ pc \in Early => DOMAIN executions = {}

\* What a root asks for is there when its node is.
Held(r) ==
  /\ PathsOf(r.drv, AskedOf(r)) \subseteq
       store \cup IF config.skipCached THEN InCaches ELSE {}
  /\ config.rebuild => r.drv \in json \cup DOMAIN confirmed
HeldInv ==
  \A r \in evaluated :
    r.drv \in DOMAIN executions /\ executions[r.drv].state \in ExistingStates => Held(r)

\* The manifest takes the states of its roots from the plan.
FinishInv ==
  /\ pc = "finish" =>
       \/ evaluated = {}
       \/ Errors
       \/ \A root \in roots : root.drv \in RootDrvs =>
            root.drv \in DOMAIN executions /\ root.state = executions[root.drv].state
  /\ outcome = "Success" =>
       /\ request.kind # "app" => ToSet(Targets) \subseteq {r.name : r \in evaluated}
       /\ \A r \in evaluated : Held(r)
TInv ==
  /\ BatchInv /\ RootInv /\ ReadInv /\ GraphInv /\ ProbeInv /\ ToldInv /\ BuildInv
  /\ TruthInv /\ ResultInv /\ PlanInv /\ HeldInv /\ FinishInv

--------------------------------------------------------------------------------
(* What is kept does not depend on the order of the workers *)

\* Before the answers are put together there are no roots, and every answer is for a name
\* of its batch.
OrderInv ==
  /\ pc \in Evaluating => roots = {} /\ evaluated = {}
  /\ pc = "evaluate" => \A b \in ToSet(completed) : b.usable \subseteq ToSet(b.names)
  /\ OrderIsIrrelevant

--------------------------------------------------------------------------------
(* Why a request failed *)

\* Dependencies are nodes, and there is an order in which each comes before what needs it.
Grounded(known) ==
  /\ IsFiniteSet(DOMAIN known)
  /\ \A d \in DOMAIN known : Deps(known, d) \in SUBSET (DOMAIN known \cap Nat)
  /\ \E rank \in [DOMAIN known -> Nat] :
       \A d \in DOMAIN known : \A e \in Deps(known, d) : rank[e] < rank[d]

\* The graph has no cycle, nor has one that was accepted and waits to be taken; as long
\* as it holds the roots only it knows of no dependency.
Later == {"settle", "finish", "done"}
GroundInv ==
  /\ Grounded(graph)
  /\ parsed = "ok" => Grounded(nodes)
  /\ lightweight /\ pc \notin Later => \A d \in DOMAIN graph : Deps(graph, d) = {}

\* There are only so many nodes.
FiniteInv ==
  /\ IsFiniteSet(DOMAIN executions) /\ IsFiniteSet(DOMAIN results)
  /\ DOMAIN confirmed \in SUBSET DOMAIN World /\ stopped \in SUBSET DOMAIN World

\* A failed node is told of, and a skipped one names a dependency that failed or was
\* skipped itself.
Accused(d) == \E g \in diags : g.target = <<"node", d>> /\ g.severity = "Error"
CauseInv ==
  \A d \in DOMAIN executions :
    /\ executions[d].deps \in SUBSET Deps(graph, d)
    /\ executions[d].state = "Skipped" =>
         /\ executions[d].dep \in executions[d].deps \cap DOMAIN executions
         /\ executions[executions[d].dep].state \in {"Failed", "Skipped"}
    /\ executions[d].state = "Failed" => Accused(d)

\* Up to the plan there are no nodes in it.
Blank ==
  \/ pc \in Early \cup {"graphReady", "probeLocal", "probeRemote", "plan"}
  \/ pc \in {"loadGraph", "readGraph"} /\ ~lightweight
BlankInv == Blank => DOMAIN executions = {}

\* A record of what became of a node.
Run(run) == DOMAIN run = {"state", "required", "produced", "dep", "diag"}

\* After the build no node is left without an end; a failure has a diagnostic.
Final(run) ==
  /\ Run(run)
  /\ \/ run.state \in ExistingStates \cup {"Cancelled"}
     \/ run.state = "Failed" /\ run.diag # "none"
Ended == ExistingStates \cup {"Failed", "Skipped", "Cancelled"}
Holding ==
  \/ pc \in {"realized", "dependencies", "settle"}
  \/ pc \in {"loadGraph", "readGraph"} /\ lightweight
EndInv ==
  /\ pc \in {"build", "gather"} =>
       \A d \in DOMAIN executions : executions[d].expected \in ExistingStates
  /\ \A d \in DOMAIN confirmed : confirmed[d].state \in ExistingStates
  /\ pc = "apply" =>
       /\ Pending \subseteq DOMAIN results
       /\ \A d \in DOMAIN results : Final(results[d])
  /\ Holding => \A d \in DOMAIN executions : executions[d].state \in Ended

\* A root that is not evaluated was cancelled, or an error tells of it that no failed
\* dependency takes back.
Evident == \E g \in diags : g.severity = "Error" /\ g.code # "realization_failed"
Quiet(root) == root.state \in ExistingStates \cup {"Cancelled"}
Accounted == Evident \/ \A root \in roots : root.drv \in RootDrvs \/ Quiet(root)
AccountInv ==
  /\ pc \notin Evaluating \cup {"finish", "done"} => Accounted
  /\ pc = "finish" => Errors \/ \A root \in roots : Quiet(root)
  /\ outcome = "Failed" => Errors

\* As long as nobody cancels, a batch is waiting, with a worker or answered.
QueueInv ==
  pc = "evaluate" /\ ~cancelled =>
    /\ \A b \in BatchSet :
         \/ b \in ToSet(queue)
         \/ \E w \in DOMAIN worker : worker[w] = <<b>>
         \/ \E a \in ToSet(completed) : a.ordinal = b.ordinal
    /\ queue # <<>> => DOMAIN worker # {}
CInv == GroundInv /\ FiniteInv /\ CauseInv /\ BlankInv /\ EndInv /\ AccountInv /\ QueueInv

--------------------------------------------------------------------------------
(* The graph is the one that the document describes *)

\* The map of the members at these places: the last of a key counts.
IsMap(map, places, key, val) ==
  /\ map = [k \in DOMAIN map |-> map[k]]
  /\ DOMAIN map = {key[j] : j \in places}
  /\ \A k \in DOMAIN map : \E j \in places :
       key[j] = k /\ map[k] = val[j] /\ \A l \in places : key[l] = k => l <= j

\* Of the derivations at these places the last of a path is kept.
NodesRead(map, members, places) ==
  IsMap(map, {j \in places : members[j].kind = "derivation"},
        [j \in DOMAIN members |-> members[j].key],
        [j \in DOMAIN members |-> NodeAtOnce(members[j].value)])

\* The nodes are finitely many, and each of them is.
FewNodes(known) ==
  /\ IsFiniteSet(DOMAIN known)
  /\ \A d \in DOMAIN known : Cost(known[d]) \in Nat
NodesCost(known) == SumFunction([d \in DOMAIN known |-> Cost(known[d])])

\* Of the n members of the document the first i were read, to their ends.
ReadUpTo(n, i) ==
  /\ DOMAIN shown = 1..n /\ \A j \in 1..n : TrueMember(shown[j])
  /\ Len(unread) = n - i /\ \A j \in 1..(n - i) : unread[j] = shown[i + j]
  /\ \A j \in 1..i : shown[j].torn = "none"

\* The nodes are those of these members, and were paid for.
Exact(members, places) ==
  /\ NodesRead(nodes, members, places) /\ FewNodes(nodes)
  /\ remaining \in Nat /\ remaining + NodesCost(nodes) <= MaxRetained
  /\ Cardinality(DOMAIN nodes) <= MaxNodes
IsWrapper(j) == shown[j].kind = "derivations"
LegacyRead(i) ==
  /\ form = "Legacy" /\ \A j \in 1..i : ~IsWrapper(j)
  /\ deferred = "none" => Exact(shown, 1..i)
WrapperRead(i) ==
  /\ form = "Wrapped" /\ deferred = "none"
  /\ \E j \in 1..i :
       /\ IsWrapper(j) /\ \A k \in 1..i : IsWrapper(k) => k <= j
       /\ shown[j].value # Scalar /\ Exact(shown[j].value, DOMAIN shown[j].value)
ExactInv ==
  parsed \in {"reading", "ok"} =>
    \E n, i \in Nat :
      /\ i \in 0..n /\ ReadUpTo(n, i) /\ (LegacyRead(i) \/ WrapperRead(i))
      /\ parsed = "ok" => i = n /\ deferred = "none"

================================================================================
