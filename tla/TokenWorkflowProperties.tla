----------------------- MODULE TokenWorkflowProperties -----------------------
(***************************************************************************)
(* What TokenWorkflow is meant to guarantee.                               *)
(***************************************************************************)
EXTENDS TokenWorkflow

(***************************************************************************)
(* A merge of policy 'all' never runs more often than each of its branches *)
(* has delivered, however the branches overtake each other or loop; and a  *)
(* merge every branch has delivered to has been activated.                 *)
(***************************************************************************)
BarrierWaitsForAll ==
    \A m \in workflow.barriers :
        /\ \A i \in Required(m) :
             activated[m] + (IF i \in arrivals[m] THEN 1 ELSE 0) <= traversals[i]
        /\ (Required(m) # {} /\ \A i \in Required(m) : traversals[i] > 0) => activated[m] > 0

Places(node) == Cardinality({i \in 1..Len(queue) : queue[i] = node})

\* What the connections carried to a node: <<i, k>> is the k-th token of connection i.
Carried(node) == UNION {{i} \X (1..traversals[i]) : i \in Required(node)}

Scheduled == {workflow.order[i] : i \in 1..Len(workflow.order)}

(***************************************************************************)
(* No token is lost or invented: what a connection carried to a node other *)
(* than a barrier is in the queue, has run, or is recorded as a deadlock,  *)
(* and a node without such connections has the one token it starts with.   *)
(***************************************************************************)
TokensAreConserved ==
    pc # "seeding" =>
    \A n \in Nodes :
        /\ visits[n] + stuck[n] + Places(n) = activated[n]
        /\ n \notin workflow.barriers =>
             activated[n] = (IF Required(n) = {} /\ n \in Scheduled THEN 1 ELSE 0) + Cardinality(Carried(n))

(***************************************************************************)
(* A deadlock is recorded only when nothing can run any more: after it no  *)
(* node starts and no token moves, so the records that follow are true.    *)
(***************************************************************************)
DeadlockIsFinal ==
    [][(\E n \in Nodes : stuck[n] > 0) => visits' = visits /\ traversals' = traversals]_vars

(***************************************************************************)
(* No connection carries more tokens than its limit.                       *)
(***************************************************************************)
LimitsHold ==
    \A i \in Carriers : Control[i].max # Unlimited => traversals[i] <= Control[i].max

(***************************************************************************)
(* After the cancellation is visible at most the node that is past its     *)
(* checkpoint completes.                                                   *)
(***************************************************************************)
AtMostOneLateNode == late <= 1

\* What a node is sure to store when it returns: slots, and pass-through
\* outputs of an input it cannot run without.
Sure(n) ==
    workflow.slots[n] \cup {p.output : p \in {q \in workflow.through[n] : q.feeds \in workflow.ports[n]}}

\* Among any nodes there is one whose required ports are sure to be fed by
\* the others.
DataHasOrder ==
    \A S \in SUBSET Scheduled : S # {} =>
        \E n \in S : \A port \in workflow.ports[n] : \E m \in Scheduled \ S : port \cap Sure(m) # {}

(***************************************************************************)
(* In a workflow without control connections whose required data come in   *)
(* an order from outputs that are sure to be stored, tokens get stuck only *)
(* behind a node that has faulted, and an undisturbed run executes every   *)
(* node exactly once.  Validation does not ask for such outputs: a         *)
(* required port behind an output of binding 'none', or behind one that    *)
(* repeats an optional input nothing feeds in time, ends in                *)
(* control-data-deadlock without a fault.                                  *)
(***************************************************************************)
DataFlowIsNeverStuck ==
    Carriers = {} /\ DataHasOrder =>
        /\ (\E n \in Nodes : stuck[n] > 0) => faulted # {}
        /\ (pc = "ended" /\ ~cancelled /\ faulted = {}) => \A n \in Scheduled : visits[n] = 1

(***************************************************************************)
(* Every execution ends, whatever the nodes return.                        *)
(***************************************************************************)
Terminates == <>(pc = "ended")
=============================================================================
