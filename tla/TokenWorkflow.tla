---------------------------- MODULE TokenWorkflow ----------------------------
(***************************************************************************)
(* The token engine that executes a workflow                               *)
(* (core/pipeline/execution.py, _execute_token_workflow).                  *)
(*                                                                         *)
(* Control tokens wait in a queue; the first one whose node has its        *)
(* required data runs.  A node leaves data on outputs for good and emits   *)
(* tokens along the control connections of its outcome, each of which may  *)
(* carry a limit of traversals.  A merge node of policy 'all' takes one    *)
(* token when every incoming connection has delivered.                     *)
(*                                                                         *)
(* One thread runs all of this; every iteration of its loops is a step, so *)
(* that Cancel, the commit of another handler that the next checkpoint     *)
(* sees, comes anywhere in between.                                        *)
(*                                                                         *)
(* Workflows are records:                                                  *)
(*   order    the nodes in workflow order, no identifier twice             *)
(*   ports    the required data ports of each node, each as the set of     *)
(*            outputs that feed it.  The value of an Input Pin counts as   *)
(*            an output, which feeds a port of each Output Pin of its name.*)
(*   slots    the outputs a node stores whenever it returns: those bound   *)
(*            to a key its runtime has to return, and the value of a pin   *)
(*   through  its pass-through outputs, each with the outputs that feed    *)
(*            the input it repeats.  That input has a value or is None; no *)
(*            node returns None.  An output of binding 'none' is in        *)
(*            neither, since nothing is ever stored for it.                *)
(*   control  the control connections in order; max = Unlimited for a      *)
(*            connection without max_traversals                            *)
(*   barriers the merge nodes of policy 'all'                              *)
(*   limit    the parameter of a counter-limit node, 0 for other nodes     *)
(*   outcomes the values of __control__ a node may return                  *)
(*   fragile  nodes that may raise                                         *)
(*                                                                         *)
(* A definition marked "variant" is not part of Next: it is the definition *)
(* after it with a plausible mistake, kept to show which property notices. *)
(***************************************************************************)
EXTENDS Naturals, Sequences, FiniteSets

CONSTANTS
    Nodes,       \* node identifiers
    Outputs,     \* output ports and pins that may hold a value
    Keys,        \* template keys of control outputs
    Workflows,   \* the workflows that may be executed
    MaxSteps     \* the bounded execution limit (10_000 in the code)

Unlimited == 0

Connection == [from : Nodes, key : Keys, to : Nodes, max : Nat]

Workflow ==
    {w \in [order : Seq(Nodes), ports : [Nodes -> SUBSET SUBSET Outputs],
            slots : [Nodes -> SUBSET Outputs],
            through : [Nodes -> SUBSET [output : Outputs, feeds : SUBSET Outputs]],
            control : Seq(Connection), barriers : SUBSET Nodes,
            limit : [Nodes -> Nat], outcomes : [Nodes -> SUBSET Keys],
            fragile : SUBSET Nodes] :
        \A i, j \in 1..Len(w.order) : w.order[i] = w.order[j] => i = j}

ASSUME KeysAssumption ==
    {"success", "failure", "completed", "under-limit", "limit-reached"} \subseteq Keys
ASSUME NodesAssumption == Nodes # {}
ASSUME WorkflowsAssumption == \A w \in Workflows : w \in Workflow
ASSUME StepsAssumption == MaxSteps \in Nat

VARIABLES
    workflow,   \* the workflow being executed
    pc,         \* where the engine is
    at,         \* index of the for loop it is in
    queue,      \* nodes with a token, oldest first
    current,    \* the node that runs or emits
    emission,   \* the emit_control call in progress
    values,     \* outputs that hold a value
    visits,     \* runs of each node
    traversals, \* tokens each control connection has carried
    arrivals,   \* connections that have delivered to each waiting merge
    activated,  \* activations handed to each node
    stuck,      \* control-data-deadlock records of each node
    steps,      \* executed_steps
    faulted,    \* nodes with a faulted record after a run
    cancelled,  \* the cancellation is visible to the next checkpoint
    late        \* history: runs completed since it is

vars == <<workflow, pc, at, queue, current, emission, values, visits,
          traversals, arrivals, activated, stuck, steps, faulted, cancelled, late>>

tokenVars == <<queue, traversals, arrivals, activated>>
recordVars == <<values, visits, stuck, steps, faulted, late>>

-----------------------------------------------------------------------------
Control == workflow.control
Carriers == 1..Len(Control)

\* The connections a merge waits for.
Required(node) == {i \in Carriers : Control[i].to = node}

\* _token_node_inputs finds no missing port.
Ready(node) == \A port \in workflow.ports[node] : port \cap values # {}

Stages == {"first", "branch", "fallback"}
Emission == [stage : Stages, key : Keys, branch : Keys, matched : BOOLEAN,
             crossed : BOOLEAN]
Emit(stage, key, branch) ==
    [stage |-> stage, key |-> key, branch |-> branch, matched |-> FALSE,
     crossed |-> FALSE]
NoEmission == Emit("first", "success", "success")

PC == {"seeding", "loop", "invoking", "inside", "emitting", "ended"}

TypeOK ==
    /\ workflow \in Workflow
    /\ pc \in PC
    /\ at \in Nat \ {0}
    /\ queue \in Seq(Nodes)
    /\ current \in Nodes
    /\ emission \in Emission
    /\ values \subseteq Outputs
    /\ visits \in [Nodes -> Nat]
    /\ traversals \in [Carriers -> Nat]
    /\ arrivals \in [Nodes -> SUBSET Carriers]
    /\ activated \in [Nodes -> Nat]
    /\ stuck \in [Nodes -> Nat]
    /\ steps \in Nat
    /\ faulted \subseteq Nodes
    /\ cancelled \in BOOLEAN
    /\ late \in Nat

Init ==
    /\ workflow \in Workflows
    /\ pc = "seeding"
    /\ at = 1
    /\ queue = <<>>
    /\ current = CHOOSE n \in Nodes : TRUE
    /\ emission = NoEmission
    /\ values = {}
    /\ visits = [n \in Nodes |-> 0]
    /\ traversals = [i \in Carriers |-> 0]
    /\ arrivals = [n \in Nodes |-> {}]
    /\ activated = [n \in Nodes |-> 0]
    /\ stuck = [n \in Nodes |-> 0]
    /\ steps = 0
    /\ faulted = {}
    /\ cancelled = FALSE
    /\ late = 0

-----------------------------------------------------------------------------
(* Tokens.                                                                 *)

\* Variant: a node that is in the queue is not queued again.
ActivateOnce(node) ==
    IF \E i \in 1..Len(queue) : queue[i] = node
    THEN UNCHANGED <<queue, activated>>
    ELSE /\ queue' = Append(queue, node)
         /\ activated' = [activated EXCEPT ![node] = @ + 1]

Activate(node) ==
    /\ queue' = Append(queue, node)
    /\ activated' = [activated EXCEPT ![node] = @ + 1]

\* Variant: the arrivals are kept when the merge is released.
ArriveUncleared(i) ==
    LET node == Control[i].to
        got == arrivals[node] \cup {i}
    IN  IF node \notin workflow.barriers
        THEN Activate(node) /\ UNCHANGED arrivals
        ELSE /\ arrivals' = [arrivals EXCEPT ![node] = got]
             /\ IF Required(node) \subseteq got
                THEN Activate(node)
                ELSE UNCHANGED <<queue, activated>>

\* enqueue: a merge of policy 'all' collects one arrival per connection.
Arrive(i) ==
    LET node == Control[i].to
        got == arrivals[node] \cup {i}
    IN  IF node \notin workflow.barriers
        THEN Activate(node) /\ UNCHANGED arrivals
        ELSE IF Required(node) \subseteq got
        THEN Activate(node) /\ arrivals' = [arrivals EXCEPT ![node] = {}]
        ELSE arrivals' = [arrivals EXCEPT ![node] = got] /\ UNCHANGED <<queue, activated>>

\* for node in workflow.nodes: the nodes without incoming control start.
SeedNode ==
    /\ pc = "seeding"
    /\ at <= Len(workflow.order)
    /\ at' = at + 1
    /\ IF Required(workflow.order[at]) = {}
       THEN Activate(workflow.order[at])
       ELSE UNCHANGED <<queue, activated>>
    /\ UNCHANGED <<workflow, pc, current, emission, traversals, arrivals, recordVars, cancelled>>

SeedingDone ==
    /\ pc = "seeding"
    /\ at > Len(workflow.order)
    /\ at' = 1
    /\ pc' = "loop"
    /\ UNCHANGED <<workflow, current, emission, tokenVars, recordVars, cancelled>>

-----------------------------------------------------------------------------
(* One iteration of the main loop.                                         *)

Without(s, i) == [j \in 1..(Len(s) - 1) |-> IF j < i THEN s[j] ELSE s[j + 1]]

\* The first token whose node is ready leaves the queue; 'running' is published.
StartNode ==
    /\ pc = "loop"
    /\ \E i \in 1..Len(queue) :
         /\ Ready(queue[i])
         /\ \A j \in 1..(i - 1) : ~Ready(queue[j])
         /\ current' = queue[i]
         /\ queue' = Without(queue, i)
         /\ visits' = [visits EXCEPT ![queue[i]] = @ + 1]
    /\ steps' = steps + 1
    /\ pc' = "invoking"
    /\ UNCHANGED <<workflow, at, emission, values, traversals, arrivals,
                   activated, stuck, faulted, cancelled, late>>

\* Variant: the blocked token goes to the end of the queue, unrecorded.
DeadlockRequeued ==
    /\ pc = "loop"
    /\ queue # <<>>
    /\ \A i \in 1..Len(queue) : ~Ready(queue[i])
    /\ queue' = Append(Tail(queue), Head(queue))
    /\ UNCHANGED <<workflow, pc, at, current, emission, traversals, arrivals, activated,
                   recordVars, cancelled>>

\* No token can run: the oldest one is recorded as a deadlock and dropped.
Deadlock ==
    /\ pc = "loop"
    /\ queue # <<>>
    /\ \A i \in 1..Len(queue) : ~Ready(queue[i])
    /\ stuck' = [stuck EXCEPT ![Head(queue)] = @ + 1]
    /\ queue' = Tail(queue)
    /\ UNCHANGED <<workflow, pc, at, current, emission, values, visits, traversals,
                   arrivals, activated, steps, faulted, cancelled, late>>

\* while queue: the loop is left.
End ==
    /\ pc = "loop"
    /\ queue = <<>>
    /\ pc' = "ended"
    /\ UNCHANGED <<workflow, at, current, emission, tokenVars, recordVars, cancelled>>

\* More than the allowed steps: a faulted record, and the loop is left.
ExceedSteps ==
    /\ pc = "invoking"
    /\ steps > MaxSteps
    /\ faulted' = faulted \cup {current}
    /\ pc' = "ended"
    /\ UNCHANGED <<workflow, at, current, emission, tokenVars, values, visits, stuck,
                   steps, cancelled, late>>

\* NodeExecutionCancelled, from the checkpoint before the node (or, for a
\* node that polls, inside it): a cancelled record, and the loop is left.
StopCancelled ==
    /\ \/ pc = "invoking" /\ steps <= MaxSteps
       \/ pc = "inside"
    /\ cancelled
    /\ pc' = "ended"
    /\ UNCHANGED <<workflow, at, current, emission, tokenVars, recordVars, cancelled>>

PassCheckpoint ==
    /\ pc = "invoking"
    /\ steps <= MaxSteps
    /\ ~cancelled
    /\ pc' = "inside"
    /\ UNCHANGED <<workflow, at, current, emission, tokenVars, recordVars, cancelled>>

\* counter-limit compares its visit with the parameter; other nodes choose.
Outcomes ==
    IF workflow.limit[current] = 0 THEN workflow.outcomes[current]
    ELSE IF visits[current] < workflow.limit[current] THEN {"under-limit"}
    ELSE {"limit-reached"}

\* Pass-through outputs of an input that has a value.
Passed == {p.output : p \in {q \in workflow.through[current] : q.feeds \cap values # {}}}

\* Variant: pass-through outputs are not stored.
StoredSlots == workflow.slots[current]

\* What the node leaves in values and virtual_pin_values.
Stored == workflow.slots[current] \cup Passed

\* The node returns; its outputs are stored and emit_control is called for
\* 'failure' or for 'success'.
Return(branch) ==
    /\ pc = "inside"
    /\ branch \in Outcomes
    /\ values' = values \cup Stored
    /\ faulted' = IF branch = "failure" THEN faulted \cup {current} ELSE faulted
    /\ emission' = Emit("first", IF branch = "failure" THEN "failure" ELSE "success", branch)
    /\ late' = IF cancelled THEN late + 1 ELSE late
    /\ pc' = "emitting"
    /\ UNCHANGED <<workflow, at, current, tokenVars, visits, stuck, steps, cancelled>>

\* The node raises, or storing its outputs does when some are stored already;
\* its failure output.
Raise ==
    /\ pc = "inside"
    /\ current \in workflow.fragile
    /\ \E kept \in SUBSET Stored : values' = values \cup kept
    /\ faulted' = faulted \cup {current}
    /\ emission' = Emit("first", "failure", "failure")
    /\ pc' = "emitting"
    /\ UNCHANGED <<workflow, at, current, tokenVars, visits, stuck, steps, cancelled, late>>

-----------------------------------------------------------------------------
(* emit_control, one connection at a time.                                 *)

Matches(i) == Control[i].from = current /\ Control[i].key = emission.key

Exhausted(i) == Control[i].max # Unlimited /\ traversals[i] >= Control[i].max

Emitting == pc = "emitting" /\ at <= Len(Control)
Emitted == pc = "emitting" /\ at > Len(Control)

SkipConnection ==
    /\ Emitting
    /\ ~Matches(at)
    /\ at' = at + 1
    /\ UNCHANGED <<workflow, pc, current, emission, tokenVars, recordVars, cancelled>>

RefuseConnection ==
    /\ Emitting
    /\ Matches(at)
    /\ Exhausted(at)
    /\ emission' = [emission EXCEPT !.matched = TRUE]
    /\ at' = at + 1
    /\ UNCHANGED <<workflow, pc, current, tokenVars, recordVars, cancelled>>

CrossConnection ==
    /\ Emitting
    /\ Matches(at)
    /\ ~Exhausted(at)
    /\ emission' = [emission EXCEPT !.matched = TRUE, !.crossed = TRUE]
    /\ traversals' = [traversals EXCEPT ![at] = @ + 1]
    /\ Arrive(at)
    /\ at' = at + 1
    /\ UNCHANGED <<workflow, pc, current, recordVars, cancelled>>

\* A branch other than success and failure is emitted after 'success'.
EmitBranch ==
    /\ Emitted
    /\ emission.stage = "first"
    /\ emission.branch \notin {"success", "failure"}
    /\ emission' = Emit("branch", emission.branch, emission.branch)
    /\ at' = 1
    /\ UNCHANGED <<workflow, pc, current, tokenVars, recordVars, cancelled>>

\* A branch whose connections are all exhausted leaves by 'completed'.
Exhaustion == emission.stage = "branch" /\ emission.matched /\ ~emission.crossed

EmitCompleted ==
    /\ Emitted
    /\ Exhaustion
    /\ emission' = Emit("fallback", "completed", emission.branch)
    /\ at' = 1
    /\ UNCHANGED <<workflow, pc, current, tokenVars, recordVars, cancelled>>

EmissionDone ==
    /\ Emitted
    /\ emission.stage = "first" => emission.branch \in {"success", "failure"}
    /\ ~Exhaustion
    /\ emission' = NoEmission
    /\ at' = 1
    /\ pc' = "loop"
    /\ UNCHANGED <<workflow, current, tokenVars, recordVars, cancelled>>

-----------------------------------------------------------------------------
\* The commit that context.is_cancelled reads.
Cancel ==
    /\ pc # "ended"
    /\ ~cancelled
    /\ cancelled' = TRUE
    /\ UNCHANGED <<workflow, pc, at, current, emission, tokenVars, recordVars>>

EngineStep ==
    \/ SeedNode
    \/ SeedingDone
    \/ StartNode
    \/ Deadlock
    \/ End
    \/ ExceedSteps
    \/ StopCancelled
    \/ PassCheckpoint
    \/ \E branch \in Keys : Return(branch)
    \/ Raise
    \/ SkipConnection
    \/ RefuseConnection
    \/ CrossConnection
    \/ EmitBranch
    \/ EmitCompleted
    \/ EmissionDone

Next == EngineStep \/ Cancel

Spec == Init /\ [][Next]_vars

\* The thread is scheduled and every node returns or raises.
FairSpec == Spec /\ WF_vars(EngineStep)
=============================================================================
