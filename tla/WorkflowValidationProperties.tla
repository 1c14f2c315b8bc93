--------------------- MODULE WorkflowValidationProperties ---------------------
(***************************************************************************)
(* What WorkflowValidation is meant to guarantee.                          *)
(***************************************************************************)
EXTENDS WorkflowValidation

Fits(t, u) == t = u \/ Generic \in {t, u}

\* The data that arrives at an input comes from an output of a node that runs before, has its
\* type, and is the only one unless the input takes several.
Feeds(n, p) == {l \in DataLinks : l.target = n /\ l.targetPort = p.id}

InputsAreFed ==
    \A n \in Members(graph.nodes) : \A p \in {q \in graph.ports[n] : ~q.control /\ ~q.output} :
        /\ p.required => Feeds(n, p) # {}
        /\ ~p.variadic => Cardinality(Feeds(n, p)) <= 1
        /\ \A l \in Feeds(n, p) :
             /\ PlaceIn(graph.execution, l.source) < PlaceIn(graph.execution, n)
             /\ \E q \in graph.ports[l.source] :
                  q.id = l.sourcePort /\ q.output /\ ~q.control /\ Fits(q.type, p.type)

\* Every connection ends at such an input, or leads from a control output to a control input;
\* none is there twice.
LinksAreSound ==
    \A l \in graph.links :
        /\ {l.source, l.target} \subseteq Members(graph.nodes)
        /\ \E p \in graph.ports[l.target] : p.id = l.targetPort /\ ~p.output /\ p.control = l.control
        /\ \E q \in graph.ports[l.source] : q.id = l.sourcePort /\ q.output /\ q.control = l.control
        /\ ~\E k \in graph.links : k.id # l.id /\ SameEnds(k, l)

\* An Output Pin repeats the one Input Pin of its name, which runs before it; no Input Pin is
\* unread, and no group carries two types.
PinsArePaired ==
    \A n \in {m \in Members(graph.nodes) : graph.kind[m] # Plain} :
        /\ graph.name[n] # Blank
        /\ \E input \in Pins(InputPin, graph.name[n]) :
             /\ Pins(InputPin, graph.name[n]) = {input}
             /\ \A output \in Pins(OutputPin, graph.name[n]) :
                  PlaceIn(graph.execution, input) < PlaceIn(graph.execution, output)
        /\ Pins(OutputPin, graph.name[n]) # {}
        /\ \A t, u \in GroupTypes(graph.name[n]) : t = u

\* Nodes that activate one another for ever.
Unbounded(S) ==
    S # {} /\ \A n \in S : \E l \in ControlLinks : l.source = n /\ l.target \in S /\ ~l.limited

(***************************************************************************)
(* A workflow is accepted exactly if it can be run as it is stored: the    *)
(* stored order is the one that the ordering returns; what a node needs    *)
(* comes from a node before it, also through pins; the types agree; and    *)
(* every loop of control connections has one with a limit ("Every control  *)
(* cycle requires a bounded traversal edge", validation.py:259).           *)
(***************************************************************************)
AcceptsExactlyTheSound ==
    issues # Pending =>
        (issues = {} <=> /\ graph.flawed = {}
                         /\ outcome = "ordered" /\ result = graph.execution
                         /\ LinksAreSound
                         /\ InputsAreFed
                         /\ PinsArePaired
                         /\ \A n \in Members(graph.nodes) : \A t, u \in GenericTypes(n) : t = u
                         /\ ~\E S \in SUBSET Members(graph.nodes) : Unbounded(S))
=============================================================================
