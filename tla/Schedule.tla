------------------------------- MODULE Schedule -------------------------------
(***************************************************************************)
(* The timing history of crates/nix-tools-core/src/history.rs and the      *)
(* planner of schedule.rs over it, as plan.rs calls them: measurements are *)
(* recorded, the caller's clock says anything, old records are forgotten,  *)
(* and one plan is made of a graph of targets.                             *)
(***************************************************************************)
EXTENDS Planner

CONSTANTS
  Requests,   \* the targets, required roots and policies a caller asks a plan for
  Durations,  \* measured durations
  MaxTime     \* bound of the model: the caller's clock

\* What a caller can ask for: targets with their dependencies and roots, as finite sets, and
\* a configuration of numbers; a duration is a u64.
IsTarget(t) ==
  /\ t.id \in Nat
  /\ t.deps \in SUBSET Nat /\ IsFiniteSet(t.deps)
  /\ t.roots \in SUBSET Nat /\ IsFiniteSet(t.roots)

ASSUME ScheduleAssumption ==
  /\ MaxTime \in Nat /\ Durations \subseteq 0..MaxMs
  /\ \A r \in Requests :
       /\ DOMAIN r.targets = 1..Len(r.targets) /\ Len(r.targets) \in Nat
       /\ \A i \in DOMAIN r.targets : IsTarget(r.targets[i])
       /\ r.config.maxWorkers \in Nat
       /\ r.config.startup \in 0..MaxMs /\ r.config.default \in 0..MaxMs

VARIABLES
  request,   \* [targets, required, config]
  history,   \* key -> [duration, at]
  now,       \* the caller's clock, which need not be monotonic
  decision   \* what schedule returned

scheduleVars == <<request, history, now, decision>>

\* The arguments of schedule.
Asked ==
  [targets |-> request.targets, required |-> request.required, config |-> request.config,
   history |-> history, now |-> now]

ScheduleInit ==
  /\ request \in Requests
  /\ history = <<>>
  /\ now = 0
  /\ decision = None

--------------------------------------------------------------------------------

\* History::record
Record ==
  /\ decision = None
  /\ \E i \in DOMAIN request.targets, ms \in Durations :
       LET key == request.targets[i].key
       IN history' = [k \in DOMAIN history \cup {key} |->
                        IF k = key THEN [duration |-> ms, at |-> now] ELSE history[k]]
  /\ UNCHANGED <<request, now, decision>>

\* History::forget_stale
ForgetStale(retention) ==
  /\ decision = None
  /\ history' = [k \in {j \in DOMAIN history : Age(history[j], now) <= retention} |-> history[k]]
  /\ UNCHANGED <<request, now, decision>>

SetClock ==
  /\ decision = None
  /\ now' \in 0..MaxTime
  /\ UNCHANGED <<request, history, decision>>

Plan ==
  /\ decision = None
  /\ \E p \in {Asked} : Decides(p, decision')
  /\ UNCHANGED <<request, history, now>>

ScheduleNext == Record \/ (\E retention \in 0..MaxTime : ForgetStale(retention)) \/ SetClock \/ Plan

ScheduleSpec == ScheduleInit /\ [][ScheduleNext]_scheduleVars

--------------------------------------------------------------------------------
(* Properties *)

Planned == decision # None /\ decision.error = "none"
FansOut == Planned /\ decision.workers > 1

\* "Every target appears in exactly one unit's targets" (schedule.rs:106), also one
\* that no root needs, every root in exactly one unit, and a unit counts as shared just
\* what it needs and another one owns.
OwnedOnce ==
  Planned =>
    LET units == decision.units
        Holders(id) == {i \in DOMAIN units : id \in units[i].targets}
    IN /\ \A id \in Ids(Asked) : Cardinality(Holders(id)) = 1
       /\ \A r \in Roots(Asked) : Cardinality({i \in DOMAIN units : r \in units[i].roots}) = 1
       /\ \A i \in DOMAIN units :
            units[i].shared = Cardinality(ClosureOf(Asked, units[i].roots) \ units[i].targets)

IsChain(p, s) == \A i \in 1..(Len(s) - 1) : s[i] \in Below(p, s[i + 1])

\* The critical path is a chain of dependencies with the cost it is given, and no chain
\* of the graph costs more; it costs no more than one worker takes.
CriticalPathIsLongest ==
  Planned =>
    /\ IsChain(Asked, decision.critical.path)
    /\ Cost(Asked, ToSet(decision.critical.path)) = decision.critical.ms
    /\ decision.critical.ms <= decision.single
    /\ \A ids \in SUBSET Ids(Asked) : Cost(Asked, ids) > decision.critical.ms =>
         \A s \in SetToSeqs(ids) : ~IsChain(Asked, s)

\* best_worker_count: fan-out is chosen only on fresh measurements of all work and for two
\* roots or more, beats one worker with the startup included, and no other number of
\* workers that was possible would do better.  Work that no root needs is left out of the
\* comparison, and can take the advantage away, but no more than what it costs itself.
FanOutPays ==
  Planned =>
    /\ FansOut => /\ Unpredicted(Asked) = {} /\ Cardinality(Roots(Asked)) >= 2
                  /\ decision.wall < decision.single + Cost(Asked, Orphans(Asked))
    /\ ~decision.fallback /\ Orphans(Asked) = {} =>
         \A w \in Tried(Asked) : decision.wall <= WallOf(Asked, w)
================================================================================
