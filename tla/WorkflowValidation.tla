-------------------------- MODULE WorkflowValidation --------------------------
(***************************************************************************)
(* validate_workflow (core/pipeline/validation.py), which decides whether  *)
(* a workflow may be stored and run.  It orders the workflow on its way,   *)
(* by the steps of WorkflowOrder, and reports every issue it finds.        *)
(*                                                                         *)
(* A graph is the workflow as validation sees it:                          *)
(*   nodes     identifiers of the nodes in order, none twice               *)
(*   kind      "input-pin", "output-pin", or "plain"                       *)
(*   name      the display name of each node                               *)
(*   ports     the ports of each node                                      *)
(*   links     the connections; the ids are in the order of the list        *)
(*   flawed    nodes that fail a check of their own: their algorithm,      *)
(*             parameters, position, system ports or runtime slots         *)
(*   execution the stored order                                            *)
(*   preferred the order a caller of stable_topological_order prefers;     *)
(*             validation prefers none                                     *)
(* An issue is its code: which node or connection it is about, and how     *)
(* often it is found, makes no difference to the answer.                   *)
(*                                                                         *)
(* A definition marked "variant" is not part of ValidationNext: it is the  *)
(* definition after it with a plausible mistake.                           *)
(***************************************************************************)
EXTENDS WorkflowOrderProperties

CONSTANTS
    PortIds,    \* identifiers of ports
    Types,      \* data types
    Generic,    \* the data type that fits any other
    Graphs(_)   \* the graphs that the ordering may see as a workflow

Plain == "plain"
InputPin == "input-pin"
OutputPin == "output-pin"

Links ==
    [id : Nat, source : Ids, sourcePort : PortIds, target : Ids, targetPort : PortIds, control : BOOLEAN,
     limited : BOOLEAN]

Ports ==
    [id : PortIds, output : BOOLEAN, control : BOOLEAN, type : Types, required : BOOLEAN, variadic : BOOLEAN]

\* Connections, and the ports of a node, have identifiers of their own.
Named(S) == IsFiniteSet(S) /\ \A x, y \in S : x.id = y.id => x = y

GraphTypeOK(g) ==
    /\ g.nodes \in Seq(Ids)
    /\ g.kind \in [Ids -> {Plain, InputPin, OutputPin}]
    /\ g.name \in [Ids -> Names]
    /\ g.ports \in [Ids -> SUBSET Ports] /\ \A n \in Ids : Named(g.ports[n])
    /\ g.links \in SUBSET Links /\ Named(g.links)
    /\ g.flawed \subseteq Ids
    /\ g.execution \in Seq(Ids) /\ g.preferred \in Seq(Ids)

ASSUME TypesAssumption == IsFiniteSet(Types)

ASSUME GraphsAssumption == \A w \in Workflows : \A g \in Graphs(w) : GraphTypeOK(g)

VARIABLES
    graph,      \* the workflow that is validated
    visiting,   \* the nodes on the way of the search for a control loop, in order
    visited,    \* the nodes it is done with
    loop,       \* "searching", then "found" or "none"
    issues      \* the codes of its issues, or Pending

searchVars == <<visiting, visited, loop>>

Pending == {"pending"}


-----------------------------------------------------------------------------
\* The workflow as the ordering sees it.
Pins(kind, name) == {n \in Members(graph.nodes) : graph.kind[n] = kind /\ graph.name[n] = name}

DataLinks == {l \in graph.links : ~l.control}
ControlLinks == graph.links \ DataLinks

View ==
    [nodes |-> graph.nodes,
     data |-> {<<l.source, l.target>> : l \in DataLinks},
     inputs |-> [name \in Names |-> Pins(InputPin, name)],
     outputs |-> [name \in Names |-> Pins(OutputPin, name)],
     preferred |-> graph.preferred, execution |-> graph.execution]

IsNode(n) == n \in Members(graph.nodes)

PlaceIn(order, n) == CHOOSE i \in 1..Len(order) : order[i] = n

HasPort(n, id) == IsNode(n) /\ \E p \in graph.ports[n] : p.id = id

Port(n, id) == CHOOSE p \in graph.ports[n] : p.id = id

Found(l) == HasPort(l.source, l.sourcePort) /\ HasPort(l.target, l.targetPort)

SourcePort(l) == Port(l.source, l.sourcePort)
TargetPort(l) == Port(l.target, l.targetPort)

\* The data connections that get as far as the checks of direction and type.
Carrying == {l \in DataLinks : Found(l) /\ ~SourcePort(l).control /\ ~TargetPort(l).control}

-----------------------------------------------------------------------------
\* resolve_virtual_pin_groups: a group for each name that a pin has.
Groups == {graph.name[n] : n \in {m \in Members(graph.nodes) : graph.kind[m] # Plain}}

Group(name) == Pins(InputPin, name) \cup Pins(OutputPin, name)

\* Concrete types of the ports of a group, of what its Input Pins take and of what its
\* Output Pins are read as.
GroupTypes(name) ==
    ({p.type : p \in {q \in UNION {graph.ports[n] : n \in Group(name)} : ~q.control}}
     \cup {SourcePort(l).type : l \in {k \in DataLinks : Found(k) /\ k.target \in Pins(InputPin, name)}}
     \cup {TargetPort(l).type : l \in {k \in DataLinks : Found(k) /\ k.source \in Pins(OutputPin, name)}})
    \ {Generic}

PinIssues ==
    UNION {IF name = Blank THEN {"invalid-parameter"}
           ELSE (IF Cardinality(Pins(InputPin, name)) # 1 \/ Pins(OutputPin, name) = {}
                 THEN {"invalid-parameter"} ELSE {})
                \cup (IF Cardinality(GroupTypes(name)) > 1 THEN {"generic-type-conflict"} ELSE {}) :
           name \in Groups}

-----------------------------------------------------------------------------
Earlier(l) == {k \in graph.links : k.id < l.id}

SameEnds(l, k) ==
    <<l.source, l.sourcePort, l.target, l.targetPort>> = <<k.source, k.sourcePort, k.target, k.targetPort>>

SameTarget(l, k) == l.target = k.target /\ l.targetPort = k.targetPort

Directed(l) == SourcePort(l).output /\ ~TargetPort(l).output

Mismatch(l) ==
    SourcePort(l).type # TargetPort(l).type /\ Generic \notin {SourcePort(l).type, TargetPort(l).type}

LinkIssues ==
    {code \in {"duplicate-connection", "self-loop", "unknown-node", "unknown-port", "type-mismatch",
               "input-already-connected"} :
        \E l \in graph.links :
            CASE code = "duplicate-connection" -> \E k \in Earlier(l) : SameEnds(l, k)
              [] code = "self-loop" -> ~l.control /\ l.source = l.target
              [] code = "unknown-node" -> ~IsNode(l.source) \/ ~IsNode(l.target)
              [] code = "unknown-port" ->
                    /\ IsNode(l.source) /\ IsNode(l.target)
                    /\ \/ ~Found(l)
                       \/ SourcePort(l).control # l.control \/ TargetPort(l).control # l.control
                       \/ ~Directed(l)
              [] code = "type-mismatch" -> l \in Carrying /\ Mismatch(l)
              [] code = "input-already-connected" ->
                    /\ l \in Carrying /\ ~TargetPort(l).variadic
                    /\ \E k \in Earlier(l) : SameTarget(l, k)}

\* The concrete types that meet at the generic ports of a node.
GenericTypes(n) ==
    ({TargetPort(l).type : l \in {k \in Carrying : k.source = n /\ SourcePort(k).type = Generic}}
     \cup {SourcePort(l).type : l \in {k \in Carrying : k.target = n /\ TargetPort(k).type = Generic}})
    \ {Generic}

Needed(p) == ~p.control /\ ~p.output /\ p.required

InputIssues ==
    {code \in {"missing-required-input", "generic-type-conflict"} :
        \E n \in Members(graph.nodes) :
            CASE code = "missing-required-input" ->
                    \E p \in graph.ports[n] :
                        Needed(p) /\ ~\E l \in Carrying : l.target = n /\ l.targetPort = p.id
              [] code = "generic-type-conflict" -> Cardinality(GenericTypes(n)) > 1}

-----------------------------------------------------------------------------
\* has_unbounded_cycle: a depth-first search over the control connections without a limit.
\* One step is one call of visit, its return, or the answer of the whole.
Unlimited(n) ==
    {l.target : l \in {k \in ControlLinks : k.source = n /\ ~k.limited /\ IsNode(k.source) /\ IsNode(k.target)}}

Current == visiting[Len(visiting)]

Roots == Members(graph.nodes) \ visited

\* Where the search goes next: the loop over the nodes takes the first that is left.
Ahead ==
    IF visiting # <<>> THEN Unlimited(Current)
    ELSE {n \in Roots : \A m \in Roots : PlaceIn(graph.nodes, n) <= PlaceIn(graph.nodes, m)}

Searching == graph.preferred = <<>> /\ loop = "searching"

Enter ==
    /\ Searching
    /\ \E n \in Ahead \ (visited \cup Members(visiting)) : visiting' = Append(visiting, n)
    /\ UNCHANGED <<visited, loop>>

\* Variant: a node that has been visited at all.
MeetAgain ==
    /\ Searching /\ visiting # <<>>
    /\ Ahead \cap (visited \cup Members(visiting)) # {}
    /\ loop' = "found"
    /\ UNCHANGED <<visiting, visited>>

\* A node that is on the way already.
Meet ==
    /\ Searching
    /\ Ahead \cap Members(visiting) # {}
    /\ loop' = "found"
    /\ UNCHANGED <<visiting, visited>>

Leave ==
    /\ Searching /\ visiting # <<>>
    /\ Ahead \subseteq visited
    /\ visited' = visited \cup {Current}
    /\ visiting' = SubSeq(visiting, 1, Len(visiting) - 1)
    /\ UNCHANGED loop

Exhaust ==
    /\ Searching /\ visiting = <<>> /\ Ahead = {}
    /\ loop' = "none"
    /\ UNCHANGED <<visiting, visited>>

Search == Enter \/ Meet \/ Leave \/ Exhaust

ControlIssues == IF loop = "found" THEN {"unbounded-control-cycle"} ELSE {}

-----------------------------------------------------------------------------
\* Every node once.
IsComplete(order) ==
    /\ Len(order) = Len(graph.nodes)
    /\ Members(order) = Members(graph.nodes)

Backward(order, edge) ==
    {edge[1], edge[2]} \subseteq Members(order) /\ PlaceIn(order, edge[1]) >= PlaceIn(order, edge[2])

OrderIssues ==
    IF ~IsComplete(graph.execution) THEN {"execution-order-mismatch"}
    ELSE IF \E edge \in workflow.data \cup PinDependencies : Backward(graph.execution, edge)
    THEN {"dependency-order"} ELSE {}

CycleIssues == IF outcome = "cycle" THEN {"cycle"} ELSE {}

NodeIssues == IF graph.flawed # {} THEN {"invalid-parameter"} ELSE {}

Validate ==
    /\ loop # "searching" /\ outcome # "ordering" /\ issues = Pending
    /\ issues' = NodeIssues \cup PinIssues \cup LinkIssues \cup InputIssues \cup ControlIssues
                 \cup CycleIssues \cup OrderIssues
    /\ UNCHANGED <<orderVars, graph, searchVars>>

ValidationInit ==
    /\ OrderInit
    /\ graph \in Graphs(workflow)
    /\ workflow = View
    /\ visiting = <<>> /\ visited = {} /\ loop = "searching"
    /\ issues = Pending

ValidationNext ==
    \/ Search /\ UNCHANGED <<orderVars, graph, issues>>
    \/ ~Searching /\ OrderNext /\ UNCHANGED <<graph, searchVars, issues>>
    \/ Validate

validationVars == <<orderVars, graph, searchVars, issues>>

ValidationSpec == ValidationInit /\ [][ValidationNext]_validationVars
=============================================================================
