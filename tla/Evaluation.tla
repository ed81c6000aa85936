------------------------------- MODULE Evaluation -------------------------------
(***************************************************************************)
(* The first half of a request of crates/nix-tools-engine/src/engine.rs:   *)
(* from the entry points of FlakeEngine to the EvaluationState that        *)
(* complete_realization is given.                                          *)
(*                                                                         *)
(* A target name is a number, 0 the empty one, since names are sorted.     *)
(* Nix answers each run as it likes within what the code accepts; a run    *)
(* whose answer is unusable as a whole (it failed, was truncated, did not  *)
(* parse, has the wrong count) fails every name it was asked for.          *)
(***************************************************************************)
EXTENDS Naturals, SequencesExt

CONSTANTS
  Requests,       \* [kind, targets, outLink]; kind: named, app, flakeCheck or discover
  Configs,        \* [graphMode, rebuild, skipCached, allOutputs]
  Flake,          \* per attribute: what Nix evaluates it to: [drv, outs, install]
  AppContexts,    \* string contexts of an app: per derivation its outputs, {} for all
  Size,           \* bytes retained per attribute
  Concurrency,    \* evaluation_concurrency
  BatchSize,      \* evaluation_batch_size
  MaxRoots, MaxMemory,
  NoDrv

\* validate_config: every limit is positive, and a rebuild skips nothing.
ValidConfig(config1) == ~(config1.rebuild /\ config1.skipCached)

ASSUME EvaluationAssumption ==
  /\ {Concurrency, BatchSize, MaxRoots, MaxMemory} \subseteq Nat \ {0}
  /\ \A c \in Configs : ValidConfig(c)
  /\ Size \in [DOMAIN Flake -> Nat]
  /\ DOMAIN Flake \in SUBSET Nat /\ IsFiniteSet(DOMAIN Flake)
  /\ \A r \in Requests : r.targets \in Seq(Nat)

Workers == 1..Concurrency

VARIABLES
  request, config,
  pc,         \* where the thread of the request stands
  cancelled,  \* a cancellation signal was requested
  open,       \* per phase: started and not finished
  queue,      \* batches nobody took yet
  worker,     \* per evaluation worker that runs: its batch, if it has one
  completed,  \* results in the order the workers sent them
  roots,      \* RootResults of the manifest
  evaluated,  \* the roots that have an identity
  diags,      \* diagnostics of the manifest: [code, severity, target], the target being
              \* <<>>, <<"root", name>>, <<"node", drv>> or <<"cache", name>>
  outcome     \* what the caller gets: "none", "error", "discovered" or the ManifestOutcome

evaluationVars == <<request, config, pc, cancelled, open, queue, worker, completed, roots,
                    evaluated, diags, outcome>>

Phases == {"Discovery", "Validation", "Evaluation", "Graph", "Probe", "Realization"}

Diagnostic(code, severity, target) == [code |-> code, severity |-> severity, target |-> target]

Started(phase) == [open EXCEPT ![phase] = @ + 1]
Finished(phase) == [open EXCEPT ![phase] = @ - 1]

EvaluationInit ==
  /\ request \in Requests /\ config \in Configs
  /\ pc = "start"
  /\ cancelled = FALSE
  /\ open = [p \in Phases |-> 0]
  /\ queue = <<>> /\ worker = <<>> /\ completed = <<>>
  /\ roots = {} /\ evaluated = {} /\ diags = {}
  /\ outcome = "none"

--------------------------------------------------------------------------------
(* Entry points *)

\* A set of numbers in ascending order (as a function, for the proofs).
Ascending(S) ==
  [i \in 1..Cardinality(S) |-> CHOOSE x \in S : Cardinality({y \in S : y < x}) = i - 1]

\* sort_deduplicate
Targets == Ascending(ToSet(request.targets))

\* targets.chunks(evaluation_batch_size)
Batches ==
  [i \in 1..((Len(Targets) + BatchSize - 1) \div BatchSize) |->
     [ordinal |-> i,
      names |-> SubSeq(Targets, (i - 1) * BatchSize + 1,
                       Min({i * BatchSize, Len(Targets)}))]]

\* EngineError: the request ends without a manifest.
Refuse ==
  /\ pc' = "done" /\ outcome' = "error"
  /\ UNCHANGED <<queue, worker, completed, roots, evaluated, diags, open>>

\* realize_named up to the evaluation.
RefusesTargets == cancelled \/ Len(Targets) > MaxRoots \/ 0 \in ToSet(Targets)

StartEvaluation(opened) ==
  /\ open' = [opened EXCEPT !["Evaluation"] = @ + 1]
  /\ pc' = IF Targets = <<>> THEN "evaluateAll" ELSE "evaluate"
  /\ queue' = Batches
  /\ worker' = [w \in {v \in Workers : v <= Len(Batches)} |-> <<>>]

BeginNamed ==
  /\ pc = "start" /\ request.kind = "named"
  /\ IF RefusesTargets THEN Refuse
     ELSE StartEvaluation(open) /\ UNCHANGED <<completed, roots, evaluated, diags, outcome>>
  /\ UNCHANGED <<request, config, cancelled>>

\* prepare_run and prepare_app
BeginApp ==
  /\ pc = "start" /\ request.kind = "app"
  /\ IF config.skipCached \/ cancelled \/ request.targets = <<0>>
       THEN Refuse
       ELSE /\ pc' = "app" /\ open' = Started("Evaluation")
            /\ UNCHANGED <<queue, worker, completed, roots, evaluated, diags, outcome>>
  /\ UNCHANGED <<request, config, cancelled>>

BeginOther ==
  /\ pc = "start"
  /\ \/ /\ request.kind = "flakeCheck"
        /\ pc' = "validate" /\ open' = Started("Validation")
        /\ UNCHANGED <<queue, worker, completed, roots, evaluated, diags, outcome>>
     \/ /\ request.kind = "discover"
        /\ IF cancelled THEN Refuse
           ELSE /\ pc' = "discover" /\ open' = Started("Discovery")
                /\ UNCHANGED <<queue, worker, completed, roots, evaluated, diags, outcome>>
  /\ UNCHANGED <<request, config, cancelled>>

\* discover: an error leaves the phase open.
Discover ==
  /\ pc = "discover"
  /\ \/ Refuse
     \/ /\ pc' = "done" /\ outcome' = "discovered" /\ open' = Finished("Discovery")
        /\ UNCHANGED <<queue, worker, completed, roots, evaluated, diags>>
  /\ UNCHANGED <<request, config, cancelled>>

\* validate_flake and flake_check: nix flake check answers, the checks are realized
\* when it found no error, and what they refuse becomes a diagnostic.
Validate ==
  /\ pc = "validate"
  /\ \E valid \in IF cancelled THEN {FALSE} ELSE BOOLEAN :
       IF valid /\ ~RefusesTargets
         THEN /\ StartEvaluation(Finished("Validation"))
              /\ UNCHANGED <<completed, roots, evaluated, diags, outcome>>
         ELSE /\ diags' = {Diagnostic("flake_validation_failed", "Error", <<>>)}
              /\ open' = Finished("Validation") /\ pc' = "finish"
              /\ UNCHANGED <<queue, worker, completed, roots, evaluated, outcome>>
  /\ UNCHANGED <<request, config, cancelled>>

--------------------------------------------------------------------------------
(* run_evaluation_batches *)

TakeBatch(w) ==
  /\ pc = "evaluate" /\ worker[w] = <<>>
  /\ queue # <<>> /\ ~cancelled
  /\ worker' = [worker EXCEPT ![w] = <<Head(queue)>>]
  /\ queue' = Tail(queue)
  /\ UNCHANGED <<request, config, pc, cancelled, open, completed, roots, evaluated, diags, outcome>>

StopWorker(w) ==
  /\ pc = "evaluate" /\ worker[w] = <<>>
  /\ queue = <<>> \/ cancelled
  /\ worker' = [v \in DOMAIN worker \ {w} |-> worker[v]]
  /\ UNCHANGED <<request, config, pc, cancelled, open, queue, completed, roots, evaluated, diags,
                 outcome>>

\* parse_evaluation_batch: the names of a batch that have an identity; an answer that
\* cannot be used as a whole gives none.
Usable(names) == SUBSET (ToSet(names) \cap DOMAIN Flake)

\* evaluate_batch
EvaluateBatch(w) ==
  /\ pc = "evaluate" /\ worker[w] # <<>>
  /\ LET batch == Head(worker[w])
     IN \E usable \in Usable(batch.names) :
          completed' = Append(completed, [ordinal |-> batch.ordinal, names |-> batch.names,
                                          usable |-> usable])
  /\ worker' = [worker EXCEPT ![w] = <<>>]
  /\ UNCHANGED <<request, config, pc, cancelled, open, queue, roots, evaluated, diags, outcome>>

--------------------------------------------------------------------------------
(* assemble_evaluation *)

Root(kind, name, drv, outs, state) ==
  [kind |-> kind, name |-> name, drv |-> drv, outs |-> outs, state |-> state]

Selected(name) == IF config.allOutputs THEN Flake[name].outs ELSE Flake[name].install

Reject(acc, code, name) ==
  [acc EXCEPT !.diags = @ \cup {Diagnostic(code, "Error", <<"root", name>>)}]

\* retain_evaluation_identity: the memory limit comes first, and only a root that
\* is kept counts against it.
Retain(acc, name) ==
  LET error == IF acc.bytes + Size[name] > MaxMemory THEN "evaluation_memory_limit_exceeded"
               ELSE IF Selected(name) = {} THEN "empty_output_selection"
               ELSE IF ~(Selected(name) \subseteq Flake[name].outs) THEN "missing_selected_output"
               ELSE "none"
  IN IF error # "none" THEN Reject(acc, error, name)
       ELSE [acc EXCEPT !.bytes = @ + Size[name], !.kept = @ \cup {name}]

\* What is kept of the answers, batch by batch and name by name.
Answer(acc, names, batch, name) ==
  IF name \notin names THEN Reject(acc, "evaluation_target_mismatch", name)
  ELSE IF name \in batch.usable THEN Retain(acc, name)
  ELSE Reject(acc, "evaluation_failed", name)

Answers(acc, names, batch) ==
  FoldLeft(LAMBDA a, name : Answer(a, names, batch, name), acc, batch.names)

Assembled(names, batches) ==
  FoldLeft(LAMBDA a, batch : Answers(a, names, batch),
           [bytes |-> 0, kept |-> {}, diags |-> {}], batches)

\* A root without an identity was cancelled, if anything was.
AssembleInto(names, batches) ==
  LET acc == Assembled(names, batches)
      RootOf(name) == IF name \in acc.kept
                        THEN Root("named", name, Flake[name].drv, Selected(name), "Failed")
                        ELSE Root("named", name, NoDrv, {},
                                  IF cancelled THEN "Cancelled" ELSE "Failed")
  IN /\ roots' = {RootOf(name) : name \in names}
     /\ evaluated' = {[kind |-> "named", name |-> name, drv |-> Flake[name].drv,
                       outs |-> Flake[name].outs, selected |-> Selected(name)] :
                        name \in acc.kept}
     /\ diags' = diags \cup acc.diags

EvaluationEnds ==
  /\ pc' = "complete" /\ open' = Finished("Evaluation")
  /\ UNCHANGED <<request, config, cancelled, queue, worker, outcome>>

\* The batches in the order of their ordinals, whatever order they ended in; one that
\* nobody took has no answers.
InOrder ==
  [i \in DOMAIN Batches |->
     IF \E b \in ToSet(completed) : b.ordinal = i
       THEN CHOOSE b \in ToSet(completed) : b.ordinal = i
       ELSE [ordinal |-> i, names |-> <<>>, usable |-> {}]]

\* Mutant: the batches in the order they ended in.
AssembleAsCompleted ==
  /\ pc = "evaluate" /\ worker = <<>>
  /\ completed' = completed
  /\ AssembleInto(ToSet(Targets), completed)
  /\ EvaluationEnds

\* evaluate_named_roots
Assemble ==
  /\ pc = "evaluate" /\ worker = <<>>
  /\ completed' = InOrder
  /\ AssembleInto(ToSet(Targets), completed')
  /\ EvaluationEnds

\* evaluate_all_named_roots: one run discovers the names and evaluates them.
EvaluateAll ==
  /\ pc = "evaluateAll"
  /\ \/ LET names == Ascending(DOMAIN Flake)
        IN /\ Len(names) <= MaxRoots
           /\ \E usable \in SUBSET DOMAIN Flake :
                completed' = <<[ordinal |-> 1, names |-> names, usable |-> usable]>>
           /\ AssembleInto(DOMAIN Flake, completed')
     \/ /\ diags' = diags \cup {Diagnostic("evaluation_failed", "Error", <<>>)}
        /\ UNCHANGED <<roots, evaluated, completed>>
  /\ EvaluationEnds

\* evaluate_app_identity and app_evaluation_state: an error leaves the phase open;
\* a context without derivations leaves nothing to realize.
EvaluateApp ==
  /\ pc = "app"
  /\ \/ Refuse /\ UNCHANGED <<request, config, cancelled>>
     \/ \E context \in AppContexts :
          IF Cardinality(DOMAIN context) > MaxRoots
            THEN Refuse /\ UNCHANGED <<request, config, cancelled>>
            ELSE /\ roots' = IF DOMAIN context = {} THEN {Root("app", 0, NoDrv, {}, "Cached")}
                             ELSE {Root("app", 0, d, {}, "Failed") : d \in DOMAIN context}
                 /\ evaluated' = {[kind |-> "app", name |-> 0, drv |-> d, outs |-> {},
                                   selected |-> context[d]] : d \in DOMAIN context}
                 /\ UNCHANGED <<completed, diags>>
                 /\ EvaluationEnds

--------------------------------------------------------------------------------

\* A signal arrives at any moment until the caller has its answer.
Cancel ==
  /\ pc # "done" /\ ~cancelled
  /\ cancelled' = TRUE
  /\ UNCHANGED <<request, config, pc, open, queue, worker, completed, roots, evaluated, diags,
                 outcome>>

EvaluationNext ==
  \/ BeginNamed \/ BeginApp \/ BeginOther
  \/ Discover \/ Validate
  \/ \E w \in DOMAIN worker : TakeBatch(w) \/ StopWorker(w) \/ EvaluateBatch(w)
  \/ Assemble \/ EvaluateAll \/ EvaluateApp
================================================================================
