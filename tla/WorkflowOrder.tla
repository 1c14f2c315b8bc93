---------------------------- MODULE WorkflowOrder ----------------------------
(***************************************************************************)
(* The stable topological order of a workflow (core/pipeline/ordering.py)  *)
(* over data connections and the implicit dependencies of virtual pins     *)
(* (core/pipeline/virtual_pins.py).  One step is one iteration of the      *)
(* while loop of stable_topological_order.                                 *)
(*                                                                         *)
(* A workflow is a record:                                                 *)
(*   nodes     its nodes in order, no identifier twice                     *)
(*   data      source and target of each data connection; an end may be an *)
(*             identifier that is not a node                               *)
(*   inputs, outputs                                                       *)
(*             the Input Pins and Output Pins of each normalised name      *)
(*   preferred, execution                                                  *)
(*             the preferred order of the caller and the stored one, which *)
(*             may be empty, incomplete or name nodes that are gone        *)
(*                                                                         *)
(* A definition marked "variant" is not part of Next: it is the definition *)
(* after it with a plausible mistake, kept to show which property notices. *)
(***************************************************************************)
EXTENDS Naturals, Sequences, FiniteSets

CONSTANTS
    Ids,        \* identifiers of nodes, present or gone
    Names,      \* display names of pins
    Blank,      \* the name that is empty after strip()
    Workflows   \* the workflows that are ordered

Members(s) == {s[i] : i \in 1..Len(s)}

Workflow ==
    {w \in [nodes : Seq(Ids), data : SUBSET (Ids \X Ids),
            inputs : [Names -> SUBSET Ids], outputs : [Names -> SUBSET Ids],
            preferred : Seq(Ids), execution : Seq(Ids)] :
        \A i, j \in 1..Len(w.nodes) : w.nodes[i] = w.nodes[j] => i = j}

ASSUME WorkflowsAssumption == \A w \in Workflows : w \in Workflow

VARIABLES
    workflow,
    indegree,   \* dependencies of each node that are not in the result yet
    ready,      \* nodes without such a dependency, not in the result either
    result,     \* the order so far
    outcome     \* "ordering", then "ordered" or "cycle" (CycleError)

orderVars == <<workflow, indegree, ready, result, outcome>>

-----------------------------------------------------------------------------
Nodes == Members(workflow.nodes)

\* virtual_pin_dependencies: a named group with exactly one Input Pin.
PinDependencies ==
    UNION {{<<input, output>> : input \in workflow.inputs[name], output \in workflow.outputs[name]} :
              name \in {x \in Names \ {Blank} : Cardinality(workflow.inputs[x]) = 1}}

\* Variant: the pins are left out, as they are no connections.
DependenciesOfData == workflow.data \cap (Nodes \X Nodes)

\* Edges between nodes of the workflow; a dependency counts once.
Dependencies == (workflow.data \cup PinDependencies) \cap (Nodes \X Nodes)

Sources(node) == {m \in Nodes : <<m, node>> \in Dependencies}

Preference ==
    IF workflow.preferred # <<>> THEN workflow.preferred
    ELSE IF workflow.execution # <<>> THEN workflow.execution
    ELSE workflow.nodes

Fallback(node) == CHOOSE i \in 1..Len(workflow.nodes) : workflow.nodes[i] = node

\* Variant: nodes the preference does not name come first.
PlaceUnknownFirst(node) ==
    IF node \in Members(Preference)
    THEN CHOOSE i \in 1..Len(Preference) :
            /\ Preference[i] = node
            /\ \A j \in (i + 1)..Len(Preference) : Preference[j] # node
    ELSE 0

\* order_key: the last place in the preference, behind all of it for a node
\* it does not name; then the place in the workflow.
Place(node) ==
    IF node \in Members(Preference)
    THEN CHOOSE i \in 1..Len(Preference) :
            /\ Preference[i] = node
            /\ \A j \in (i + 1)..Len(Preference) : Preference[j] # node
    ELSE Cardinality(Members(Preference)) + Fallback(node)

Precedes(m, n) ==
    \/ Place(m) < Place(n)
    \/ Place(m) = Place(n) /\ Fallback(m) < Fallback(n)

-----------------------------------------------------------------------------
OrderTypeOK ==
    /\ workflow \in Workflow
    /\ indegree \in [Nodes -> Nat]
    /\ ready \subseteq Nodes
    /\ result \in Seq(Nodes)
    /\ outcome \in {"ordering", "ordered", "cycle"}

OrderInit ==
    /\ workflow \in Workflows
    /\ indegree = [n \in Nodes |-> Cardinality(Sources(n))]
    /\ ready = {n \in Nodes : Sources(n) = {}}
    /\ result = <<>>
    /\ outcome = "ordering"

\* Variant: a dependent is ready as soon as one dependency is met.
FreedEarly(current) == {n \in Nodes : <<current, n>> \in Dependencies}

\* The dependents whose last open dependency current was.
Freed(current) == {n \in Nodes : <<current, n>> \in Dependencies /\ indegree'[n] = 0}

\* ready.pop(0): the first ready node joins the result.
TakeFirst ==
    /\ outcome = "ordering"
    /\ \E current \in ready :
         /\ \A n \in ready \ {current} : Precedes(current, n)
         /\ result' = Append(result, current)
         /\ indegree' = [n \in Nodes |-> IF <<current, n>> \in Dependencies
                                         THEN indegree[n] - 1 ELSE indegree[n]]
         /\ ready' = (ready \ {current}) \cup Freed(current)
    /\ UNCHANGED <<workflow, outcome>>

Return ==
    /\ outcome = "ordering"
    /\ ready = {}
    /\ outcome' = IF Len(result) # Len(workflow.nodes) THEN "cycle" ELSE "ordered"
    /\ UNCHANGED <<workflow, indegree, ready, result>>

OrderNext == TakeFirst \/ Return

OrderSpec == OrderInit /\ [][OrderNext]_orderVars
=============================================================================
