---------------------------- MODULE DependencyGraph ----------------------------
(***************************************************************************)
(* The derivation graph of crates/nix-tools-engine/src/graph.rs: what      *)
(* DependencyGraph::new accepts, its dependency-first order and the        *)
(* outputs a selection requires.                                           *)
(*                                                                         *)
(* A derivation path is a number, since the code orders them.  A node maps *)
(* each dependency to the outputs it selects and each output to its store  *)
(* path, or to NoPath when Nix cannot tell it before the build.  A map of  *)
(* nodes is a function from the derivations it holds.  Both callers key a  *)
(* node by its own path, so the check of that identity is left out.        *)
(***************************************************************************)
EXTENDS Naturals, SequencesExt

CONSTANTS NoPath

Deps(nodes, d) == IF d \in DOMAIN nodes THEN DOMAIN nodes[d].deps ELSE {}

\* Kahn's algorithm: the smallest node all of whose dependencies are placed.
TopologicalOrder(nodes) ==
  LET Ready(order) == {d \in DOMAIN nodes \ ToSet(order) : Deps(nodes, d) \subseteq ToSet(order)}
      Place(order, i) == IF Ready(order) = {} THEN order ELSE Append(order, Min(Ready(order)))
  IN FoldLeft(Place, <<>>, [i \in 1..Cardinality(DOMAIN nodes) |-> i])

\* What is wrong with one dependency of a node.
DependencyError(nodes, d, e) ==
  IF e \notin DOMAIN nodes THEN "missing_graph_reference"
  ELSE IF ~(nodes[d].deps[e] \subseteq DOMAIN nodes[e].outs) THEN "missing_dependency_output"
  ELSE "none"

\* DependencyGraph::new: the error it returns, of the first node and its first
\* dependency that has one, or "none".
GraphError(nodes, roots, maxNodes) ==
  LET Wrong(d) == {e \in Deps(nodes, d) : DependencyError(nodes, d, e) # "none"}
      wrong == {d \in DOMAIN nodes : Wrong(d) # {}}
  IN IF Cardinality(DOMAIN nodes) > maxNodes THEN "graph_node_limit_exceeded"
     ELSE IF ~(roots \subseteq DOMAIN nodes) THEN "missing_graph_root"
     ELSE IF wrong # {} THEN DependencyError(nodes, Min(wrong), Min(Wrong(Min(wrong))))
     ELSE IF Len(TopologicalOrder(nodes)) # Cardinality(DOMAIN nodes) THEN "derivation_cycle"
     ELSE "none"

Closure(nodes, roots) ==
  LET Step(reached, i) == reached \cup UNION {Deps(nodes, d) : d \in reached}
  IN FoldLeft(Step, roots, [i \in 1..Cardinality(DOMAIN nodes) |-> i])

\* required_outputs: per node of the closure the outputs somebody selects,
\* without the nodes of which nobody selects any.
RequiredOutputs(nodes, selected) ==
  LET reached == Closure(nodes, DOMAIN selected) \cap DOMAIN nodes
      Wanted(d) == (IF d \in DOMAIN selected THEN selected[d] ELSE {})
                     \cup UNION {nodes[p].deps[d] : p \in {q \in reached : d \in Deps(nodes, q)}}
  IN [d \in {e \in reached : Wanted(e) # {}} |-> Wanted(d)]

\* The paths the graph knows for some outputs of a node.
KnownPaths(nodes, d, outs) ==
  IF d \in DOMAIN nodes
    THEN {nodes[d].outs[o] : o \in outs \cap DOMAIN nodes[d].outs} \ {NoPath}
    ELSE {}

\* All the paths of some outputs of a node are known.
AllKnown(nodes, d, outs) ==
  /\ d \in DOMAIN nodes /\ outs \subseteq DOMAIN nodes[d].outs
  /\ \A o \in outs : nodes[d].outs[o] # NoPath
================================================================================
