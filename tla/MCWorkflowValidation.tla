------------------------- MODULE MCWorkflowValidation -------------------------
(***************************************************************************)
(* Small instances of WorkflowOrder and WorkflowValidation for TLC.        *)
(***************************************************************************)
EXTENDS WorkflowValidationProperties

CONSTANTS a, b, c, d, gone, channel, other, image, mask

\* What the ordering sees of nodes of given kinds, of which the last has the name "last".
Workflow3(data, kinds, name, last, preferred, execution) ==
    LET NameOf(i) == IF i = 3 THEN last ELSE name
        PinsOf(kind, n) == {<<a, b, c>>[i] : i \in {j \in 1..3 : kinds[j] = kind /\ NameOf(j) = n}}
    IN [nodes |-> <<a, b, c>>, data |-> data,
        inputs |-> [n \in Names |-> PinsOf(InputPin, n)], outputs |-> [n \in Names |-> PinsOf(OutputPin, n)],
        preferred |-> preferred, execution |-> execution]

NoPins == [n \in Names |-> {}]

\* Every set of dependencies on four nodes, in a few stored orders.
FourNodes ==
    {[nodes |-> <<a, b, c, d>>, data |-> data, inputs |-> NoPins, outputs |-> NoPins,
      preferred |-> <<>>, execution |-> execution] :
        data \in SUBSET {<<m, n>> \in Ids \X Ids : m # n /\ gone \notin {m, n}},
        execution \in {<<>>, <<d, c, b, a>>, <<c, a, d, b>>}}

\* Preferences of the caller: none, incomplete, stale and repeating.
Preferred ==
    {<<>>, <<c>>, <<c, b>>, <<gone>>, <<gone, c>>, <<b, gone, a>>, <<c, a, c>>, <<c, c, c>>, <<a, b, c>>, <<c, b, a>>}

Kinds == {Plain, InputPin, OutputPin}

\* Three nodes with a self-loop, a stale connection and pin groups of every size.
ThreeNodes ==
    {Workflow3(data \cup {<<gone, a>>}, kinds, channel, last, preferred, <<c, b, a>>) :
        data \in SUBSET {<<a, b>>, <<b, c>>, <<c, a>>, <<b, b>>}, kinds \in {Plain} \X Kinds \X Kinds,
        last \in {channel, Blank}, preferred \in Preferred}

\* Stored orders that are right, wrong, incomplete or repeating, with and without pins.
StoredOrders ==
    {Workflow3(data, kinds, name, name, <<>>, execution) :
        data \in SUBSET {<<a, b>>, <<b, c>>, <<a, c>>, <<c, b>>},
        execution \in {<<a, b, c>>, <<a, c, b>>, <<b, a, c>>, <<b, c, a>>, <<c, a, b>>, <<c, b, a>>,
                       <<a, b>>, <<a, b, b>>, <<a, b, gone>>, <<a, b, c, a>>},
        kinds \in {<<Plain, Plain, Plain>>, <<Plain, InputPin, OutputPin>>, <<InputPin, OutputPin, Plain>>,
                   <<OutputPin, Plain, InputPin>>, <<OutputPin, OutputPin, InputPin>>},
        name \in {channel, Blank}}

MCWorkflows == FourNodes \cup ThreeNodes \cup StoredOrders

-----------------------------------------------------------------------------
DataPort(id, output, type, required, variadic) ==
    [id |-> id, output |-> output, control |-> FALSE, type |-> type, required |-> required,
     variadic |-> variadic]

MCPortIds == {"in", "out", "any", "image", "mask", "lost", "trigger", "success"}

ControlPort(id, output) == [DataPort(id, output, Generic, FALSE, FALSE) EXCEPT !.control = TRUE]

Controls == {ControlPort("trigger", FALSE), ControlPort("success", TRUE)}

\* Any number of inputs, of any type, and an output.
Open ==
    {DataPort("in", FALSE, Generic, FALSE, TRUE), DataPort("out", TRUE, Generic, FALSE, FALSE)} \cup Controls

Data(i, m, p, n, q) ==
    [id |-> i, source |-> m, sourcePort |-> p, target |-> n, targetPort |-> q, control |-> FALSE,
     limited |-> FALSE]

Control(i, m, n, limited) ==
    [Data(i, m, "success", n, "trigger") EXCEPT !.control = TRUE, !.limited = limited]

Number(n) == CHOOSE i \in 1..5 : <<a, b, c, d, gone>>[i] = n

IsPin(pins, n) == \E name \in Names : n \in pins[name]

\* The workflow as it is, between open ports.
Graph(w) ==
    [nodes |-> w.nodes,
     kind |-> [n \in Ids |-> CASE IsPin(w.inputs, n) -> InputPin [] IsPin(w.outputs, n) -> OutputPin
                               [] OTHER -> Plain],
     name |-> [n \in Ids |-> IF IsPin(w.inputs, n) \/ IsPin(w.outputs, n)
                             THEN CHOOSE name \in Names : n \in w.inputs[name] \cup w.outputs[name]
                             ELSE other],
     ports |-> [n \in Ids |-> Open],
     links |-> {Data(5 * Number(e[1]) + Number(e[2]), e[1], "out", e[2], "in") : e \in w.data},
     flawed |-> {}, execution |-> w.execution, preferred |-> w.preferred]

\* Control connections between three nodes, limited or not, and to one that is gone.
ControlEdges ==
    {Control(40, a, b, FALSE), Control(41, b, a, FALSE), Control(42, b, c, FALSE), Control(43, c, b, FALSE),
     Control(44, c, a, FALSE), Control(45, b, b, FALSE), Control(46, a, gone, FALSE), Control(47, a, b, TRUE),
     Control(48, b, c, TRUE), Control(49, c, c, TRUE)}

\* Connections of the wrong type, direction and kind, doubled, and from a port that is gone.
TypedEdges ==
    {Data(1, a, "image", b, "in"), Data(2, a, "image", b, "in"), Data(3, a, "mask", b, "in"),
     Data(4, a, "image", b, "any"), Data(5, a, "mask", b, "any"), Data(6, b, "out", c, "in"),
     Data(7, b, "out", c, "any"), Data(8, a, "mask", c, "in"), Data(9, c, "in", b, "any"),
     Data(10, a, "lost", b, "any"), Data(11, a, "success", b, "any")}

Camera == {DataPort("image", TRUE, image, FALSE, FALSE), DataPort("mask", TRUE, mask, FALSE, FALSE)}

Filter ==
    {DataPort("in", FALSE, image, TRUE, FALSE), DataPort("any", FALSE, Generic, FALSE, TRUE),
     DataPort("out", TRUE, Generic, FALSE, FALSE)}

Sink == {DataPort("in", FALSE, mask, TRUE, FALSE), DataPort("any", FALSE, Generic, FALSE, FALSE)}

Pairs(links) == {<<l.source, l.target>> : l \in links}

MCGraphs(w) ==
    {Graph(w)}
    \cup (IF w.preferred # <<>> \/ w.execution # <<a, b, c>> THEN {}
          ELSE {[Graph(w) EXCEPT !.flawed = {b}]}
               \cup {[Graph(w) EXCEPT !.links = @ \cup links] :
                        links \in IF w.data = {} /\ w.inputs = NoPins THEN SUBSET ControlEdges ELSE {}}
               \cup {[Graph(w) EXCEPT !.links = links,
                         !.ports = [@ EXCEPT ![a] = Camera \cup Controls,
                                             ![b] = IF IsPin(w.inputs, b) \/ IsPin(w.outputs, b) THEN @
                                                    ELSE Filter \cup Controls,
                                             ![c] = IF IsPin(w.inputs, c) \/ IsPin(w.outputs, c) THEN @
                                                    ELSE Sink \cup Controls]] :
                        links \in {kept \in SUBSET TypedEdges : Pairs(kept) = w.data}})
=============================================================================
