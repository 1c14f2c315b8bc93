--------------------------- MODULE MCTokenWorkflow ---------------------------
(***************************************************************************)
(* Small instances of TokenWorkflow for TLC.                               *)
(***************************************************************************)
EXTENDS TokenWorkflowProperties, SequencesExt

CONSTANTS a, b, c, d

MCNodes == {a, b, c, d}
MCKeys == {"success", "failure", "completed", "under-limit", "limit-reached", "true", "false",
           "merged"}

Wire(from, key, to, max) == [from |-> from, key |-> key, to |-> to, max |-> max]

\* Outputs are named after their nodes, of which each has one.
NoPorts == [n \in MCNodes |-> {}]
NoLimit == [n \in MCNodes |-> 0]
Plain == [n \in MCNodes |-> {"success"}]

Flow(ports, control) ==
    [order |-> <<a, b, c, d>>, ports |-> ports, slots |-> [n \in MCNodes |-> {n}],
     through |-> [n \in MCNodes |-> {}], control |-> control, barriers |-> {},
     limit |-> NoLimit, outcomes |-> Plain, fragile |-> MCNodes]

\* The loop of test_control_flow_execution.py: a counter, a delay that feeds
\* back, an output; the feedback may carry fewer tokens than the counter asks,
\* or more than the engine has steps for.
Loop(limit, max) ==
    [Flow([NoPorts EXCEPT ![c] = {{a}}, ![d] = {{c}}],
          <<Wire(a, "success", b, 0), Wire(b, "under-limit", c, 0), Wire(c, "success", b, max),
            Wire(b, "limit-reached", d, 0)>>)
     EXCEPT !.limit = [NoLimit EXCEPT ![b] = limit]]

\* A loop whose exit is the exhausted branch itself.
Retry(max) ==
    [Flow([NoPorts EXCEPT ![c] = {{b}}],
          <<Wire(a, "success", b, 0), Wire(b, "true", c, max), Wire(c, "success", b, 0),
            Wire(b, "completed", d, 0)>>)
     EXCEPT !.outcomes = [Plain EXCEPT ![b] = {"true", "false"}, ![c] = {"success", "failure"}]]

\* Two branches into a merge of policy 'all', one of them through a node.
Fork(key) ==
    [Flow([NoPorts EXCEPT ![d] = {{b, c}}],
          <<Wire(a, key, b, 0), Wire(a, "success", d, 0), Wire(b, "success", d, 0),
            Wire(b, "failure", d, 0), Wire(d, "merged", a, 2)>>)
     EXCEPT !.barriers = {d}, !.outcomes = [Plain EXCEPT ![a] = {"true", "false"}, ![d] = {"merged"}],
            !.fragile = {b}]

\* Data from a node that control reaches later, or never.
Starved ==
    [Flow([NoPorts EXCEPT ![b] = {{c}}, ![d] = {{a}, {c}}],
          <<Wire(a, "success", b, 0), Wire(b, "success", c, 0), Wire(b, "failure", c, 0), Wire(a, "false", d, 0)>>)
     EXCEPT !.outcomes = [Plain EXCEPT ![a] = {"true", "false"}]]

Scenarios ==
    {Loop(limit, max) : limit \in 1..3, max \in 1..2} \cup {Loop(30, 30)} \cup {Retry(max) : max \in 1..2}
    \cup {Fork(key) : key \in {"success", "true"}} \cup {Starved}

-----------------------------------------------------------------------------
\* Every data flow on four nodes up to renaming (a node needs data of nodes
\* before it in a, b, c, d only), listed in every workflow order.
Before == [n \in MCNodes |-> CASE n = a -> {} [] n = b -> {a} [] n = c -> {a, b} [] n = d -> {a, b, c}]

DataFlows ==
    {[Flow([n \in MCNodes |-> {{m} : m \in feeds[n]}], <<>>) EXCEPT !.order = order] :
        feeds \in {f \in [MCNodes -> SUBSET {a, b, c}] : \A n \in MCNodes : f[n] \subseteq Before[n]},
        order \in SetToSeqs(MCNodes)}

\* The output of a node is stored, repeats an input, or is never stored.
Bind(flow, n, binding, feeds) ==
    [flow EXCEPT !.slots = [@ EXCEPT ![n] = IF binding = "slot" THEN @ ELSE {}],
                 !.through = [@ EXCEPT ![n] = IF binding = "through"
                                              THEN {[output |-> n, feeds |-> feeds]} ELSE {}]]

\* a feeds b, b feeds c, c feeds d: every binding of b and c, every choice
\* of inputs that are required, in workflow orders that agree and do not.
Bindings ==
    {[Bind(Bind(Flow([NoPorts EXCEPT ![b] = needB, ![c] = needC, ![d] = {{c}}], <<>>), b, bindB, {a}), c, bindC, {b})
      EXCEPT !.order = order, !.fragile = {b}] :
        needB \in {{}, {{a}}}, needC \in {{}, {{b}}}, bindB \in {"slot", "through", "none"},
        bindC \in {"slot", "through", "none"},
        order \in {<<a, b, c, d>>, <<d, c, b, a>>, <<b, a, c, d>>, <<a, c, b, d>>, <<c, a, d, b>>}}

\* The edges of success between three nodes, limited to one token or not.
Wires == {Wire(from, "success", to, max) : from \in {a, b, c}, to \in {a, b, c}, max \in 0..1}

Distinct(wires) ==
    \A v, w \in wires : v.from = w.from /\ v.to = w.to => v = w

\* Validation: no cycle of unlimited connections.
BoundedCycles(wires) ==
    \E rank \in [{a, b, c} -> 1..3] : \A w \in wires : w.max = 0 => rank[w.from] < rank[w.to]

\* Every workflow of three nodes and up to three connections, with every data
\* dependency of c and one of b, and c a merge of either policy.
Family ==
    {[Flow([NoPorts EXCEPT ![b] = needB, ![c] = needC], SetToSeq(wires))
      EXCEPT !.order = <<a, b, c>>, !.barriers = merge, !.fragile = {b}] :
        needB \in {{}, {{c}}}, needC \in {{}, {{a}}, {{b}}}, merge \in {{}, {c}},
        wires \in {ws \in UNION {kSubset(k, Wires) : k \in 1..3} : Distinct(ws) /\ BoundedCycles(ws)}}

MCWorkflows == Scenarios \cup DataFlows \cup Bindings \cup Family
=============================================================================
