-------------------------------- MODULE Planner --------------------------------
(***************************************************************************)
(* The planner of crates/nix-tools-core/src/schedule.rs, which keeps no    *)
(* state: operators over what it is asked for, p, a record of              *)
(*   targets, required, config   the arguments of schedule;                *)
(*   history, now                the measurements, and the caller's clock. *)
(*                                                                         *)
(* An id or a root is a number, since the code orders them; the slice of   *)
(* targets is a sequence.  u64 saturates at MaxMs.  Transfer volumes,      *)
(* which are only added up, and the wording of errors are left out.        *)
(***************************************************************************)
EXTENDS FiniteSets, SequencesExt, FiniteSetsExt

CONSTANTS
  MaxMs,  \* the largest u64
  None

ASSUME PlannerAssumption == MaxMs \in Nat /\ None \notin Nat

\* The members of a finite set, first those that a linear order puts first.
InOrder(S, before) ==
  [k \in 1..Cardinality(S) |->
     CHOOSE x \in S : Cardinality({y \in S : <<y, x>> \in before}) = k - 1]

--------------------------------------------------------------------------------
(* The graph *)

Ids(p) == {p.targets[i].id : i \in DOMAIN p.targets}
\* index
Target(p, id) == p.targets[CHOOSE i \in DOMAIN p.targets : p.targets[i].id = id]
Below(p, id) == Target(p, id).deps

\* topological_order: the smallest id all of whose dependencies are placed.
Ready(p, order) ==
  {id \in Ids(p) : id \notin ToSet(order) /\ Below(p, id) \subseteq ToSet(order)}
TopologicalOrder(p) ==
  FoldLeft(LAMBDA order, t : IF Ready(p, order) = {} THEN order
                             ELSE Append(order, Min(Ready(p, order))),
           <<>>, p.targets)

\* validate_graph
GraphError(p) ==
  IF p.config.maxWorkers = 0 THEN "ZeroWorkers"
  ELSE IF Cardinality(Ids(p)) # Len(p.targets) THEN "DuplicateTarget"
  ELSE IF \E id \in Ids(p) : ~(Below(p, id) \subseteq Ids(p)) THEN "UnknownDependency"
  ELSE IF Len(TopologicalOrder(p)) # Len(p.targets) THEN "DependencyCycle"
  ELSE "none"

Roots(p) == UNION {p.targets[i].roots : i \in DOMAIN p.targets}

\* root_closures
Closure(p, root) ==
  FoldLeft(LAMBDA reached, t : reached \cup UNION {Below(p, id) : id \in reached},
           {id \in Ids(p) : root \in Target(p, id).roots}, p.targets)
ClosureOf(p, roots) == UNION {Closure(p, r) : r \in roots}

--------------------------------------------------------------------------------
(* Costs *)

Add(x, y) == IF x + y > MaxMs THEN MaxMs ELSE x + y

\* History::lookup, up to the record it returns.
Age(record, now) == IF now < record.at THEN 0 ELSE now - record.at
Fresh(p, key) == key \in DOMAIN p.history /\ Age(p.history[key], p.now) <= p.config.maxAge

\* predict, and the durations schedule takes from it.
Predicted(p, id) ==
  LET key == Target(p, id).key
  IN IF Fresh(p, key) THEN p.history[key].duration ELSE p.config.default
Duration(p, id) == IF Target(p, id).needsWork THEN Predicted(p, id) ELSE 0

\* closure_cost
Cost(p, ids) == FoldSet(LAMBDA id, total : Add(total, Duration(p, id)), 0, ids)

\* unpredicted_targets
Unpredicted(p) == {id \in Ids(p) : Target(p, id).needsWork /\ ~Fresh(p, Target(p, id).key)}

\* The costliest of these, if any costs anything.
Heaviest(best, ids) ==
  {d \in ids : best[d].cost > 0 /\ \A e \in ids : best[e].cost <= best[d].cost}

\* What a chain through id costs, when it comes from the costliest of these.
Extended(p, best, id, from) ==
  [k \in DOMAIN best \cup {id} |->
     IF k # id THEN best[k]
     ELSE [cost |-> Add(IF from = {} THEN 0 ELSE best[Min(from)].cost, Duration(p, id)),
           from |-> IF from = {} THEN None ELSE Min(from)]]

\* Mutant: the first dependency is the one that counts.
BestByFirst(p) ==
  FoldLeft(LAMBDA best, id : Extended(p, best, id, {d \in Below(p, id) : best[d].cost > 0}),
           <<>>, TopologicalOrder(p))

\* The costliest chain that ends in each target, and where it comes from.
BestChains(p) ==
  FoldLeft(LAMBDA best, id : Extended(p, best, id, Heaviest(best, Below(p, id))),
           <<>>, TopologicalOrder(p))

\* critical_path
Trace(best, id, rounds) ==
  FoldLeft(LAMBDA path, t : IF best[Head(path)].from = None THEN path
                            ELSE <<best[Head(path)].from>> \o path,
           <<id>>, rounds)
CriticalPath(p) ==
  LET best == BestChains(p)
      heaviest == Heaviest(best, Ids(p))
  IN IF heaviest = {} THEN [path |-> <<>>, ms |-> 0]
     ELSE [path |-> Trace(best, Min(heaviest), p.targets), ms |-> best[Min(heaviest)].cost]

--------------------------------------------------------------------------------
(* Workers *)

\* group_roots: the costliest root first, to the group it makes least costly; a group
\* that got none is dropped.
Heavier(p) ==
  {rs \in Roots(p) \X Roots(p) :
     \/ Cost(p, Closure(p, rs[1])) > Cost(p, Closure(p, rs[2]))
     \/ Cost(p, Closure(p, rs[1])) = Cost(p, Closure(p, rs[2])) /\ rs[1] < rs[2]}
Chosen(p, groups, root) ==
  LET Merged(i) == Cost(p, ClosureOf(p, groups[i] \cup {root}))
  IN CHOOSE i \in DOMAIN groups : \A j \in DOMAIN groups :
       \/ Merged(i) < Merged(j)
       \/ Merged(i) = Merged(j) /\ i <= j
Placed(p, workers) ==
  FoldLeft(LAMBDA groups, root : [groups EXCEPT ![Chosen(p, groups, root)] = @ \cup {root}],
           [i \in 1..workers |-> {}], InOrder(Roots(p), Heavier(p)))
Groups(p, workers) ==
  LET placed == Placed(p, workers)
      kept == {i \in 1..workers : placed[i] # {}}
      order == InOrder(kept, {ij \in kept \X kept : ij[1] < ij[2]})
  IN IF workers <= 1 THEN <<Roots(p)>> ELSE [k \in DOMAIN order |-> placed[order[k]]]

Slowest(p, groups) == Max({0} \cup {Cost(p, ClosureOf(p, groups[i])) : i \in DOMAIN groups})
WallOf(p, workers) == Add(Slowest(p, Groups(p, workers)), p.config.startup)

Ceiling(p) == Min({p.config.maxWorkers, Cardinality(Roots(p))})
Tried(p) == {w \in 2..Ceiling(p) : Len(Groups(p, w)) = w}

\* The first of the cheapest, single being the cost of one worker.
BestOf(walls, single, ceiling) ==
  FoldLeft(LAMBDA best, w : IF w \in DOMAIN walls /\ walls[w] < best.wall
                              THEN [wall |-> walls[w], workers |-> w] ELSE best,
           [wall |-> single, workers |-> 1], [i \in 1..ceiling |-> i]).workers

\* Mutant: starting workers costs nothing.
BestWithoutStartup(p, single) ==
  BestOf([w \in Tried(p) |-> Slowest(p, Groups(p, w))], single, Ceiling(p))

\* best_worker_count
BestWorkerCount(p, single) == BestOf([w \in Tried(p) |-> WallOf(p, w)], single, Ceiling(p))

\* What no root needs.
Orphans(p) == Ids(p) \ ClosureOf(p, Roots(p))

\* Mutant: every unit owns what its roots need.
UnitsOverlapping(p, groups) ==
  [i \in DOMAIN groups |->
     LET union == ClosureOf(p, groups[i])
     IN [roots |-> groups[i],
         targets |-> union \cup IF i = 1 THEN Orphans(p) ELSE {},
         shared |-> 0,
         ms |-> IF i = 1 THEN Add(Cost(p, union), Cost(p, Orphans(p))) ELSE Cost(p, union)]]

\* build_units: a target belongs to the first unit that needs it, or to the first.
Units(p, groups) ==
  [i \in DOMAIN groups |->
     LET union == ClosureOf(p, groups[i])
         owned == UNION {ClosureOf(p, groups[j]) : j \in 1..(i - 1)}
     IN [roots |-> groups[i],
         targets |-> (union \ owned) \cup IF i = 1 THEN Orphans(p) ELSE {},
         shared |-> Cardinality(union \cap owned),
         ms |-> IF i = 1 THEN Add(Cost(p, union), Cost(p, Orphans(p))) ELSE Cost(p, union)]]

\* schedule returns d.  The quantifiers name what was computed.
Refused(error) == [error |-> error, workers |-> 0]
Fallback(p) == Unpredicted(p) # {} \/ Cardinality(Roots(p)) < 2
Workers(p) == IF Fallback(p) THEN 1 ELSE BestWorkerCount(p, Cost(p, Ids(p)))
Proposal(p, units) ==
  LET slowest == Max({units[i].ms : i \in DOMAIN units})
  IN [error |-> "none", workers |-> Len(units), units |-> units, single |-> Cost(p, Ids(p)),
      wall |-> IF Len(units) > 1 THEN Add(slowest, p.config.startup) ELSE slowest,
      fallback |-> Fallback(p), critical |-> CriticalPath(p)]
Decides(p, d) ==
  IF GraphError(p) # "none" THEN d = Refused(GraphError(p))
  ELSE IF ~(p.required \subseteq Roots(p)) THEN d = Refused("UncoveredRoots")
  ELSE \E workers \in {Workers(p)} : \E units \in {Units(p, Groups(p, workers))} :
         d = Proposal(p, units)
================================================================================
