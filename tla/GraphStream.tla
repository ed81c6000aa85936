------------------------------ MODULE GraphStream ------------------------------
(***************************************************************************)
(* The streaming reader of crates/nix-tools-engine/src/graph.rs: it builds *)
(* the derivation graph from what `nix derivation show' prints, member by  *)
(* member, while the child that prints it still runs.                      *)
(*                                                                         *)
(* A document is a sequence of members, or Scalar, which stands for every  *)
(* value of a shape that is not accepted where it is met.  The member      *)
(* "version" is ignored, "derivations" holds the members of the versioned  *)
(* wrapper, any other is the node of a derivation.  A node is a sequence   *)
(* of fields, an output is a path or NoPath (as text, as null, or within   *)
(* an object: the three read alike), a selection is a sequence of names,   *)
(* in an array or within an object.  A torn member stops after its         *)
(* listed content: at a syntax error, or because the stream broke.         *)
(*                                                                         *)
(* Every string the graph keeps costs one unit of its budget, the name of  *)
(* a dependency ContainerCost more; the code counts bytes and a constant.  *)
(***************************************************************************)
EXTENDS DependencyGraph

CONSTANTS
  MaxNodes,       \* max_graph_nodes
  MaxRetained,    \* max_graph_retained_bytes, in units
  ContainerCost,
  Scalar, EmptyName, LongName

ASSUME GraphStreamAssumption ==
  {MaxNodes, MaxRetained, ContainerCost} \subseteq Nat /\ NoPath # LongName

VARIABLES
  shown,      \* the document the child prints
  unread,     \* its members still to come
  graphRoots, \* the roots the graph has to hold
  form,       \* DocumentForm: "Legacy" or "Wrapped"
  deferred,   \* the error of a speculative node, or "none"
  nodes,      \* the nodes kept so far
  remaining,  \* remaining_bytes
  parsed      \* "idle", "reading", "ok" or the code of the error

streamVars == <<shown, unread, graphRoots, form, deferred, nodes, remaining, parsed>>

Torn == {"invalid_graph_json", "graph_stream_read_failed"}

StreamInit ==
  /\ shown = <<>> /\ unread = <<>> /\ graphRoots = {}
  /\ form = "Legacy" /\ deferred = "none" /\ nodes = <<>>
  /\ remaining = MaxRetained
  /\ parsed = "idle"

--------------------------------------------------------------------------------
(* Visitors: each goes on from what was read before and stops at the first error *)

\* The state of a visitor: the first error, what is left of the budget, the value so far.
Reading(left, value) == [code |-> "ok", left |-> left, value |-> value]

\* ParseState::fail keeps the first error.
Fail(acc, code) == [acc EXCEPT !.code = code]
Then(acc, Op(_)) == IF acc.code = "ok" THEN Op(acc) ELSE acc

\* ParseState::charge_with
Charge(acc, string, cost) ==
  IF string = LongName THEN Fail(acc, "graph_string_limit_exceeded")
  ELSE IF acc.left < cost THEN Fail(acc, "graph_memory_limit_exceeded")
  ELSE [acc EXCEPT !.left = @ - cost]

\* A loop over the members of a map or the elements of an array.
Visit(Op(_, _), acc, value, code) ==
  IF value = Scalar THEN Fail(acc, code)
  ELSE FoldLeft(LAMBDA a, member : IF a.code = "ok" THEN Op(a, member) ELSE a, acc, value)

\* A visitor that shares the budget starts on a value of its own; where it ends, the
\* outer one goes on, with what it makes of that value.
Nested(acc, empty) == [code |-> acc.code, left |-> acc.left, value |-> empty]
Resume(acc, inner, value) ==
  [code |-> inner.code, left |-> inner.left,
   value |-> IF inner.code = "ok" THEN value ELSE acc.value]

\* Map::insert, the last value of a key counts
With(map, key, value) == [k \in DOMAIN map \cup {key} |-> IF k = key THEN value ELSE map[k]]

\* OutputNameVisitor
OutputName(acc, name) ==
  IF name \in {Scalar, EmptyName} THEN Fail(acc, "invalid_input_output_name")
  ELSE Then(Charge(acc, name, 1), LAMBDA a : [a EXCEPT !.value = @ \cup {name}])

\* SelectionVisitor: a name twice is kept once and charged twice.
Selection(acc, value) ==
  Then(Visit(OutputName, Nested(acc, {}), value, "invalid_input_outputs"),
       LAMBDA a : IF a.value = {} THEN Fail(a, "empty_input_output_selection") ELSE a)

\* DrvsVisitor
Dependency(acc, member) ==
  LET read == Then(Charge(acc, member.key, 1 + ContainerCost),
                   LAMBDA a : Selection(a, member.value))
  IN Resume(acc, read, With(acc.value, member.key, read.value))

\* OutputVisitor
OutputPath(acc, path) ==
  IF path = Scalar THEN Fail(acc, "invalid_graph_output")
  ELSE IF path = NoPath THEN acc
  ELSE Charge(acc, path, 1)

\* OutputsVisitor
Output(acc, member) ==
  IF member.key = EmptyName THEN Fail(acc, "invalid_output_name")
  ELSE Then(Then(Charge(acc, member.key, 1), LAMBDA a : OutputPath(a, member.value)),
            LAMBDA a : [a EXCEPT !.value = With(@, member.key, member.value)])

\* The value of one field of a node.
Inputs(acc, value) == Visit(Dependency, Nested(acc, <<>>), value, "invalid_input_derivations")
Outputs(acc, value) == Visit(Output, Nested(acc, <<>>), value, "invalid_graph_outputs")

\* NodeVisitor: the last field of a name counts, and "inputs" before "inputDrvs"; a field
\* that is absent is the empty sequence.  `inputs' without `drvs' is written NoPath.
NoFields == [outputs |-> <<>>, inputs |-> <<>>, inputDrvs |-> <<>>]
WithField(acc, name, read) == Resume(acc, read, [acc.value EXCEPT ![name] = <<read.value>>])
NodeField(acc, field) ==
  CASE field.key = "outputs" -> WithField(acc, "outputs", Outputs(acc, field.value))
    [] field.key = "inputs" ->
         IF field.value = NoPath THEN [acc EXCEPT !.value = [@ EXCEPT !.inputs = <<>>]]
         ELSE WithField(acc, "inputs", Inputs(acc, field.value))
    [] field.key = "inputDrvs" -> WithField(acc, "inputDrvs", Inputs(acc, field.value))
    [] OTHER -> acc

\* A node from its fields.
NodeOf(fields) ==
  [deps |-> IF fields.inputs # <<>> THEN fields.inputs[1]
            ELSE IF fields.inputDrvs # <<>> THEN fields.inputDrvs[1] ELSE <<>>,
   outs |-> fields.outputs[1]]

NodeFields(acc, value) == Visit(NodeField, Nested(acc, NoFields), value, "invalid_graph_node")

\* A speculative node is read to its end whatever is wrong with it, so that the reader
\* stays in step with the stream, and there the tear of the stream hides what was wrong.
EndOfNode(acc, torn, speculative) ==
  IF torn # "none" /\ (speculative \/ acc.code = "ok") THEN Fail(acc, torn)
  ELSE IF acc.code = "ok" /\ acc.value.outputs = <<>> THEN Fail(acc, "invalid_graph_outputs")
  ELSE acc

WithinLimit(acc) ==
  IF Cardinality(DOMAIN acc.value) > MaxNodes THEN Fail(acc, "graph_node_limit_exceeded") ELSE acc

\* insert_node: the path is kept and charged twice.
InsertNode(acc, member, speculative) ==
  LET read == EndOfNode(Then(Then(Charge(acc, member.key, 1), LAMBDA a : Charge(a, member.key, 1)),
                             LAMBDA a : NodeFields(a, member.value)),
                        member.torn, speculative)
  IN Then(Resume(acc, read, With(acc.value, member.key, NodeOf(read.value))), WithinLimit)

\* A member of the versioned wrapper.
Entry(acc, member) == IF member.kind = "version" THEN acc ELSE InsertNode(acc, member, FALSE)
Entries(acc, value) == Visit(Entry, acc, value, "invalid_graph_schema")

--------------------------------------------------------------------------------
(* DocumentVisitor::visit_map, one action per kind of member *)

Reads(kind) ==
  /\ parsed = "reading" /\ unread # <<>> /\ Head(unread).kind = kind
  /\ unread' = Tail(unread)
  /\ UNCHANGED <<shown, graphRoots>>

\* DependencyGraph::from_reader
StartStream(document, roots) ==
  /\ shown' = document /\ graphRoots' = roots
  /\ unread' = IF document = Scalar THEN <<>> ELSE document
  /\ form' = "Legacy" /\ deferred' = "none" /\ nodes' = <<>> /\ remaining' = MaxRetained
  /\ parsed' = IF document = Scalar THEN "invalid_graph_schema" ELSE "reading"

\* The run that was read is over.
DropStream ==
  /\ shown' = <<>> /\ unread' = <<>> /\ graphRoots' = {}
  /\ form' = "Legacy" /\ deferred' = "none" /\ nodes' = <<>> /\ remaining' = MaxRetained
  /\ parsed' = "idle"

\* Reading a value that is ignored.
Ignored == IF Head(unread).torn # "none" THEN Head(unread).torn ELSE "reading"

ReadVersion ==
  /\ Reads("version")
  /\ parsed' = Ignored
  /\ UNCHANGED <<form, deferred, nodes, remaining>>

\* Mutant: a wrapper adds to what was read before it.
ReadWrapperOnTop ==
  /\ Reads("derivations")
  /\ LET read == Entries(Reading(remaining, nodes), Head(unread).value)
     IN /\ form' = "Wrapped" /\ deferred' = "none"
        /\ nodes' = read.value /\ remaining' = read.left
        /\ parsed' = IF read.code # "ok" THEN read.code ELSE Ignored

\* A wrapper is the whole graph: what was read before it is dropped, with its
\* errors and its charges.
ReadWrapper ==
  /\ Reads("derivations")
  /\ LET read == Entries(Reading(MaxRetained, <<>>), Head(unread).value)
     IN /\ form' = "Wrapped" /\ deferred' = "none"
        /\ nodes' = read.value /\ remaining' = read.left
        /\ parsed' = IF read.code # "ok" THEN read.code ELSE Ignored

ReadSibling ==
  /\ Reads("derivation")
  /\ form = "Wrapped" \/ deferred # "none"
  /\ parsed' = Ignored
  /\ UNCHANGED <<form, deferred, nodes, remaining>>

\* A node of the legacy form is speculative: a wrapper may still follow, so an
\* error in it is put off to the end of the document.
ReadLegacyNode ==
  /\ Reads("derivation")
  /\ form = "Legacy" /\ deferred = "none"
  /\ LET read == InsertNode(Reading(remaining, nodes), Head(unread), TRUE)
     IN /\ nodes' = read.value /\ remaining' = read.left
        /\ IF read.code \in Torn
             THEN parsed' = read.code /\ UNCHANGED deferred
             ELSE /\ deferred' = IF read.code = "ok" THEN "none" ELSE read.code
                  /\ UNCHANGED parsed
  /\ UNCHANGED form

\* The end of the document, and DependencyGraph::new.
EndStream ==
  /\ parsed = "reading" /\ unread = <<>>
  /\ parsed' = IF deferred # "none" THEN deferred
               ELSE IF GraphError(nodes, graphRoots, MaxNodes) # "none"
                 THEN GraphError(nodes, graphRoots, MaxNodes)
               ELSE "ok"
  /\ UNCHANGED <<shown, unread, graphRoots, form, deferred, nodes, remaining>>

StreamNext == ReadVersion \/ ReadWrapper \/ ReadSibling \/ ReadLegacyNode \/ EndStream

--------------------------------------------------------------------------------
(* What the document says, read at once *)

Wrappers == {i \in DOMAIN shown : shown[i].kind = "derivations"}

\* The members that make up the graph, at their places: the derivations of the last
\* wrapper, or else those of the top level.
Derivations(members) ==
  [i \in {j \in DOMAIN members : members[j].kind = "derivation"} |-> members[i]]
GraphMembers ==
  Derivations(IF Wrappers # {} THEN shown[Max(Wrappers)].value ELSE shown)

LastOf(members, key) == members[Max({i \in DOMAIN members : members[i].key = key})]

\* The last field of that name, or NoPath.
FieldOf(node, key) ==
  IF \E f \in ToSet(node) : f.key = key THEN LastOf(node, key).value ELSE NoPath

MapOf(members, Value(_)) ==
  [k \in {m.key : m \in ToSet(members)} |-> Value(LastOf(members, k).value)]

NodeAtOnce(node) ==
  LET inputs == IF FieldOf(node, "inputs") # NoPath THEN FieldOf(node, "inputs")
                ELSE FieldOf(node, "inputDrvs")
  IN [deps |-> IF inputs = NoPath THEN <<>> ELSE MapOf(inputs, ToSet),
      outs |-> MapOf(FieldOf(node, "outputs"), LAMBDA path : path)]

\* What it costs to keep these outputs, these inputs, and a node with its path twice.
OutsCost(outs) == Cardinality(DOMAIN outs) + Cardinality({o \in DOMAIN outs : outs[o] # NoPath})
DepsCost(deps) ==
  SumFunction([d \in DOMAIN deps |-> 1 + ContainerCost + Cardinality(deps[d])])
Cost(node) == 2 + OutsCost(node.outs) + DepsCost(node.deps)

\* graph.rs: an accepted graph is the one the document as a whole describes, and
\* an accepted document was read to its end: nothing read ahead of a wrapper, no
\* duplicate and no order of fields leaves a trace in it, and what it keeps was
\* paid for within the budget and the limit, also after a wrapper gave units back.
StreamIsExact ==
  parsed = "ok" =>
    /\ \A m \in ToSet(shown) : m.torn = "none"
    /\ nodes = MapOf(GraphMembers, NodeAtOnce)
    /\ SumFunction([d \in DOMAIN nodes |-> Cost(nodes[d])]) <= MaxRetained - remaining
    /\ Cardinality(DOMAIN nodes) <= MaxNodes
================================================================================
