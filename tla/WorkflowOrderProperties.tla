----------------------- MODULE WorkflowOrderProperties -----------------------
(***************************************************************************)
(* What WorkflowOrder is meant to guarantee.                               *)
(***************************************************************************)
EXTENDS WorkflowOrder

(***************************************************************************)
(* No node appears twice, and none before a node it depends on, by data or *)
(* by a virtual pin.                                                       *)
(***************************************************************************)
OrderIsTopological ==
    \A j \in 1..Len(result) :
        /\ \A i \in 1..(j - 1) : result[i] # result[j]
        /\ \A m \in Nodes :
             <<m, result[j]>> \in workflow.data \/ <<m, result[j]>> \in PinDependencies =>
               \E i \in 1..(j - 1) : result[i] = m

\* Nodes that all wait for one another; there are some if and only if the
\* dependencies have a cycle.
WaitForEachOther(S) == S # {} /\ \A n \in S : \E m \in S : <<m, n>> \in Dependencies

(***************************************************************************)
(* CycleError is raised exactly for cyclic dependencies, and an order that *)
(* is returned holds every node.                                           *)
(***************************************************************************)
CycleErrorIsExact ==
    /\ outcome = "cycle" => \E S \in SUBSET Nodes : WaitForEachOther(S)
    /\ outcome = "ordered" => /\ ~\E S \in SUBSET Nodes : WaitForEachOther(S)
                              /\ Members(result) = Nodes

\* A node that is not in the order up to place j, and all its dependencies before it.
CouldHave(n, j) ==
    /\ \A i \in 1..j : result[i] # n
    /\ \A m \in Sources(n) : \E i \in 1..(j - 1) : result[i] = m

Repeats(s) == \E i, j \in 1..Len(s) : i # j /\ s[i] = s[j]

(***************************************************************************)
(* Each place goes to the preferred one of all nodes that could have it,   *)
(* also when the preference is incomplete or names nodes that are gone.    *)
(* One that names nodes several times may put a node it does not name      *)
(* before one that it does: rank holds last places, but counts names once. *)
(***************************************************************************)
PreferenceDecides ==
    \A j \in 1..Len(result) : \A n \in Nodes : CouldHave(n, j) =>
        /\ n \in Members(Preference) /\ ~Repeats(Preference) => result[j] \in Members(Preference)
        /\ Precedes(result[j], n)
=============================================================================
