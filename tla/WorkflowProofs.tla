--------------------------- MODULE WorkflowProofs ----------------------------
(***************************************************************************)
(* Proofs about workflows as documents: the order in which the nodes of    *)
(* one are stored (WorkflowOrder, for every workflow), the file that keeps *)
(* it (WorkflowRepository, for any number of editors, saves and crashes),  *)
(* and the validation that decides whether it may be stored                *)
(* (WorkflowValidation, for every graph).                                  *)
(***************************************************************************)
EXTENDS WorkflowValidationProperties, WorkflowRepositoryProperties, FiniteSetTheorems, SequenceTheorems,
        WellFoundedInduction, TLAPS

(***************************************************************************)
(* The order.  What is in the result, ready or still waiting adds up to    *)
(* the workflow, and each count is that of the dependencies that are not   *)
(* in the result yet.                                                      *)
(***************************************************************************)
Injective(s) == \A i, j \in 1..Len(s) : s[i] = s[j] => i = j

\* A sequence without repetition has as many members as places.
LEMMA MembersCount ==
  ASSUME NEW T, NEW s \in Seq(T), Injective(s)
  PROVE  IsFiniteSet(Members(s)) /\ Cardinality(Members(s)) = Len(s)
  <1> DEFINE f == [i \in 1..Len(s) |-> s[i]]
  <1>1. Len(s) \in Nat
    OBVIOUS
  <1>2. f \in Surjection(1..Len(s), Members(s))
    BY DEF Surjection, Members
  <1>3. f \in Injection(1..Len(s), Members(s))
    BY DEF Injection, IsInjective, Members, Injective
  <1>4. IsFiniteSet(1..Len(s)) /\ Cardinality(1..Len(s)) = Len(s)
    <2>1. 1 \in Int /\ Len(s) \in Int
      BY <1>1
    <2>2. /\ IsFiniteSet(1..Len(s))
          /\ Cardinality(1..Len(s)) = IF 1 > Len(s) THEN 0 ELSE Len(s) - 1 + 1
      BY <2>1, FS_Interval
    <2>3. Len(s) = IF 1 > Len(s) THEN 0 ELSE Len(s) - 1 + 1
      BY <1>1
    <2> QED
      BY <2>2, <2>3
  <1>5. /\ IsFiniteSet(Members(s))
        /\ Cardinality(Members(s)) = Cardinality(1..Len(s)) <=> f \in Injection(1..Len(s), Members(s))
    BY <1>2, <1>4, FS_Surjection
  <1> QED
    BY <1>3, <1>4, <1>5

LEMMA MembersAppend ==
  ASSUME NEW T, NEW s \in Seq(T), NEW x \in T
  PROVE  Members(Append(s, x)) = Members(s) \cup {x}
  <1>1. /\ Len(Append(s, x)) = Len(s) + 1
        /\ Append(s, x)[Len(s) + 1] = x
        /\ \A i \in 1..Len(s) : Append(s, x)[i] = s[i]
    OBVIOUS
  <1>2. Len(s) \in Nat
    OBVIOUS
  <1> QED
    BY <1>1, <1>2 DEF Members

LEMMA NodesFinite ==
  ASSUME workflow \in Workflow
  PROVE  /\ workflow.nodes \in Seq(Ids)
         /\ Injective(workflow.nodes)
         /\ IsFiniteSet(Nodes)
         /\ Cardinality(Nodes) = Len(workflow.nodes)
  <1>1. workflow.nodes \in Seq(Ids) /\ Injective(workflow.nodes)
    BY DEF Workflow, Injective
  <1> QED
    BY <1>1, MembersCount DEF Nodes

-----------------------------------------------------------------------------
\* The open dependencies of a node.
Unmet(n) == Sources(n) \ Members(result)

IInv ==
    /\ workflow \in Workflow
    /\ outcome \in {"ordering", "ordered", "cycle"}
    /\ result \in Seq(Nodes)
    /\ Injective(result)
    /\ indegree = [n \in Nodes |-> Cardinality(Unmet(n))]
    /\ ready = {n \in Nodes : n \notin Members(result) /\ Unmet(n) = {}}
    /\ \A j \in 1..Len(result) : \A m \in Sources(result[j]) : \E i \in 1..(j - 1) : result[i] = m
    /\ \A S \in SUBSET Nodes : WaitForEachOther(S) => S \cap Members(result) = {}
    /\ outcome = "cycle" => ready = {} /\ Len(result) # Len(workflow.nodes)
    /\ outcome = "ordered" => Len(result) = Len(workflow.nodes)

LEMMA OpenFinite ==
  ASSUME workflow \in Workflow, NEW n
  PROVE  IsFiniteSet(Unmet(n)) /\ Cardinality(Unmet(n)) \in Nat /\ (Cardinality(Unmet(n)) = 0 <=> Unmet(n) = {})
  <1>1. Unmet(n) \in SUBSET Nodes
    BY DEF Unmet, Sources
  <1>2. IsFiniteSet(Unmet(n))
    BY <1>1, NodesFinite, FS_Subset
  <1> QED
    BY <1>2, FS_CardinalityType, FS_EmptySet

LEMMA InitIInv == OrderInit => IInv
  <1> SUFFICES ASSUME OrderInit PROVE IInv
    OBVIOUS
  <1>1. Members(result) = {} /\ Len(result) = 0 /\ result \in Seq(Nodes)
    BY DEF OrderInit, Members
  <1>2. \A n \in Nodes : Unmet(n) = Sources(n)
    BY <1>1 DEF Unmet
  <1>3. indegree = [n \in Nodes |-> Cardinality(Unmet(n))]
    BY <1>2 DEF OrderInit
  <1>4. ready = {n \in Nodes : n \notin Members(result) /\ Unmet(n) = {}}
    BY <1>1, <1>2 DEF OrderInit
  <1>5. Injective(result)
    BY <1>1 DEF Injective
  <1> QED
    BY <1>1, <1>3, <1>4, <1>5, WorkflowsAssumption DEF OrderInit, IInv

-----------------------------------------------------------------------------
LEMMA TakeFirstIInv == IInv /\ TakeFirst => IInv'
  <1> SUFFICES ASSUME IInv, TakeFirst PROVE IInv'
    OBVIOUS
  <1>1. PICK current \in ready :
          /\ result' = Append(result, current)
          /\ indegree' = [n \in Nodes |-> IF <<current, n>> \in Dependencies
                                          THEN indegree[n] - 1 ELSE indegree[n]]
          /\ ready' = (ready \ {current}) \cup Freed(current)
    BY DEF TakeFirst
  <1>2. workflow' = workflow /\ outcome' = outcome /\ outcome = "ordering"
    BY DEF TakeFirst
  <1>3. /\ Nodes' = Nodes
        /\ Dependencies' = Dependencies
        /\ \A n : Sources(n)' = Sources(n)
        /\ \A S : WaitForEachOther(S)' = WaitForEachOther(S)
    BY <1>2 DEF Nodes, Dependencies, PinDependencies, Sources, WaitForEachOther
  <1>4. current \in Nodes /\ current \notin Members(result) /\ Unmet(current) = {}
    BY <1>1 DEF IInv
  <1>5. result' \in Seq(Nodes)
    BY <1>1, <1>4 DEF IInv
  <1>6. Members(result)' = Members(result) \cup {current}
    BY <1>1, <1>4, MembersAppend DEF IInv
  <1>7. \A n : Unmet(n)' = Unmet(n) \ {current}
    BY <1>3, <1>6 DEF Unmet
  <1>8. \A n \in Nodes : current \in Unmet(n) <=> <<current, n>> \in Dependencies
    BY <1>4 DEF Unmet, Sources
  <1>9. /\ Len(result') = Len(result) + 1
        /\ result'[Len(result) + 1] = current
        /\ \A i \in 1..Len(result) : result'[i] = result[i]
        /\ Len(result) \in Nat
    BY <1>1 DEF IInv
  <1>10. Injective(result)'
    <2>1. \A i \in 1..Len(result) : result[i] # current
      BY <1>4 DEF Members
    <2> QED
      BY <2>1, <1>9 DEF IInv, Injective
  <1>11. \A n \in Nodes : indegree'[n] = Cardinality(Unmet(n)')
    <2> SUFFICES ASSUME NEW n \in Nodes PROVE indegree'[n] = Cardinality(Unmet(n)')
      OBVIOUS
    <2>1. indegree[n] = Cardinality(Unmet(n))
      BY DEF IInv
    <2>2. IsFiniteSet(Unmet(n))
      BY OpenFinite DEF IInv
    <2>3. Cardinality(Unmet(n) \ {current}) =
            IF current \in Unmet(n) THEN Cardinality(Unmet(n)) - 1 ELSE Cardinality(Unmet(n))
      BY <2>2, FS_RemoveElement
    <2> QED
      BY <1>1, <1>7, <1>8, <2>1, <2>3
  <1>12. indegree' = [n \in Nodes |-> Cardinality(Unmet(n)')]
    BY <1>1, <1>11
  <1>13. \A n \in Nodes : indegree'[n] = 0 <=> Unmet(n)' = {}
    <2>1. \A n \in Nodes : IsFiniteSet(Unmet(n) \ {current})
      BY OpenFinite, FS_RemoveElement DEF IInv
    <2> QED
      BY <2>1, <1>7, <1>11, FS_EmptySet
  <1>14. ready' = {n \in Nodes : n \notin Members(result)' /\ Unmet(n)' = {}}
    <2>1. ASSUME NEW n \in ready'
          PROVE  n \in Nodes /\ n \notin Members(result)' /\ Unmet(n)' = {}
      <3>1. CASE n \in ready \ {current}
        BY <3>1, <1>6, <1>7 DEF IInv
      <3>2. CASE n \in Freed(current)
        <4>1. n \in Nodes /\ <<current, n>> \in Dependencies /\ Unmet(n)' = {}
          BY <3>2, <1>13 DEF Freed
        <4>2. n # current
          BY <4>1, <1>4, <1>8
        <4>3. n \notin Members(result)
          <5> SUFFICES ASSUME n \in Members(result) PROVE FALSE
            OBVIOUS
          <5>1. PICK j \in 1..Len(result) : result[j] = n
            BY DEF Members
          <5>2. current \in Sources(n)
            BY <4>1, <1>4 DEF Sources
          <5>3. PICK i \in 1..(j - 1) : result[i] = current
            BY <5>1, <5>2 DEF IInv
          <5>4. i \in 1..Len(result)
            BY <1>9, <5>1
          <5> QED
            BY <5>3, <5>4, <1>4 DEF Members
        <4> QED
          BY <4>1, <4>2, <4>3, <1>6
      <3> QED
        BY <3>1, <3>2, <1>1
    <2>2. ASSUME NEW n \in Nodes, n \notin Members(result)', Unmet(n)' = {}
          PROVE  n \in ready'
      <3>1. n # current /\ n \notin Members(result) /\ Unmet(n) \subseteq {current}
        BY <2>2, <1>6, <1>7
      <3>2. CASE Unmet(n) = {}
        BY <3>1, <3>2, <1>1 DEF IInv
      <3>3. CASE current \in Unmet(n)
        BY <3>3, <2>2, <1>1, <1>8, <1>13 DEF Freed
      <3> QED
        BY <3>1, <3>2, <3>3
    <2> QED
      BY <2>1, <2>2
  <1>15. (\A j \in 1..Len(result) : \A m \in Sources(result[j]) : \E i \in 1..(j - 1) : result[i] = m)'
    <2> SUFFICES ASSUME NEW j \in 1..Len(result'), NEW m \in Nodes, <<m, result'[j]>> \in Dependencies
                 PROVE  \E i \in 1..(j - 1) : result'[i] = m
      BY <1>3 DEF Sources
    <2>1. CASE j \in 1..Len(result)
      <3>1. m \in Sources(result[j])
        BY <2>1, <1>9 DEF Sources
      <3>2. PICK i \in 1..(j - 1) : result[i] = m
        BY <2>1, <3>1 DEF IInv
      <3>3. i \in 1..Len(result)
        BY <2>1, <1>9
      <3> QED
        BY <3>2, <3>3, <1>9
    <2>2. CASE j = Len(result) + 1
      <3>1. m \in Members(result)
        BY <2>2, <1>4, <1>9 DEF Unmet, Sources
      <3>2. PICK i \in 1..Len(result) : result[i] = m
        BY <3>1 DEF Members
      <3> QED
        BY <2>2, <3>2, <1>9
    <2> QED
      BY <2>1, <2>2, <1>9
  <1>16. \A S \in SUBSET Nodes : WaitForEachOther(S) => S \cap Members(result)' = {}
    <2> SUFFICES ASSUME NEW S \in SUBSET Nodes, WaitForEachOther(S)
                 PROVE  S \cap Members(result)' = {}
      OBVIOUS
    <2>1. S \cap Members(result) = {}
      BY DEF IInv
    <2>2. current \notin S
      <3> SUFFICES ASSUME current \in S PROVE FALSE
        OBVIOUS
      <3>1. PICK m \in S : <<m, current>> \in Dependencies
        BY DEF WaitForEachOther
      <3>2. m \in Members(result)
        BY <3>1, <1>4 DEF Unmet, Sources
      <3> QED
        BY <2>1, <3>2
    <2> QED
      BY <2>1, <2>2, <1>6
  <1>17. outcome' = "ordering"
    BY <1>2
  <1> QED
    BY <1>2, <1>3, <1>5, <1>10, <1>12, <1>14, <1>15, <1>16, <1>17 DEF IInv

-----------------------------------------------------------------------------
\* What does not change the workflow, the result and the sets keeps IInv.
LEMMA Frame ==
  ASSUME IInv, UNCHANGED <<workflow, indegree, ready, result>>,
         outcome' \in {"ordering", "ordered", "cycle"},
         outcome' = "cycle" => ready = {} /\ Len(result) # Len(workflow.nodes),
         outcome' = "ordered" => Len(result) = Len(workflow.nodes)
  PROVE  IInv'
  <1>1. /\ Nodes' = Nodes
        /\ Members(result)' = Members(result)
        /\ \A n : Sources(n)' = Sources(n)
        /\ \A n : Unmet(n)' = Unmet(n)
        /\ \A S : WaitForEachOther(S)' = WaitForEachOther(S)
        /\ Injective(result)' = Injective(result)
    BY DEF Nodes, Dependencies, PinDependencies, Sources, Unmet, WaitForEachOther, Injective
  <1> QED
    BY ZenonT(60), <1>1 DEF IInv

LEMMA NextIInv == IInv /\ [OrderNext]_orderVars => IInv'
  <1> SUFFICES ASSUME IInv, [OrderNext]_orderVars PROVE IInv'
    OBVIOUS
  <1>1. CASE TakeFirst
    BY <1>1, TakeFirstIInv
  <1>2. CASE Return
    BY <1>2, Frame DEF Return
  <1>3. CASE UNCHANGED orderVars
    BY <1>3, Frame DEF orderVars, IInv
  <1> QED
    BY <1>1, <1>2, <1>3 DEF OrderNext

LEMMA Inductive == OrderSpec => []IInv
  BY InitIInv, NextIInv, PTL DEF OrderSpec

(***************************************************************************)
(* Type correctness: no dependency is counted down more often than it was  *)
(* counted.                                                                *)
(***************************************************************************)
THEOREM OrderTypeCorrect == OrderSpec => []OrderTypeOK
  <1>1. IInv => OrderTypeOK
    <2> SUFFICES ASSUME IInv PROVE OrderTypeOK
      OBVIOUS
    <2>1. indegree \in [Nodes -> Nat]
      BY OpenFinite DEF IInv
    <2> QED
      BY <2>1 DEF IInv, OrderTypeOK
  <1> QED
    BY <1>1, Inductive, PTL

(***************************************************************************)
(* No node appears twice, and none before a node it depends on.            *)
(***************************************************************************)
THEOREM Topological == OrderSpec => []OrderIsTopological
  <1>1. IInv => OrderIsTopological
    <2> SUFFICES ASSUME IInv, NEW j \in 1..Len(result)
                 PROVE  /\ \A i \in 1..(j - 1) : result[i] # result[j]
                        /\ \A m \in Nodes :
                             <<m, result[j]>> \in workflow.data \/ <<m, result[j]>> \in PinDependencies =>
                               \E i \in 1..(j - 1) : result[i] = m
      BY DEF OrderIsTopological
    <2>1. Len(result) \in Nat /\ result[j] \in Nodes
      BY DEF IInv
    <2>2. \A i \in 1..(j - 1) : result[i] # result[j]
      BY <2>1 DEF IInv, Injective
    <2>3. \A m \in Nodes : <<m, result[j]>> \in workflow.data \/ <<m, result[j]>> \in PinDependencies
                             => m \in Sources(result[j])
      BY <2>1 DEF Sources, Dependencies
    <2> QED
      BY <2>2, <2>3 DEF IInv
  <1> QED
    BY <1>1, Inductive, PTL

(***************************************************************************)
(* CycleError is raised if and only if there are nodes that wait for one   *)
(* another; otherwise every node is in the order.                          *)
(***************************************************************************)
THEOREM CycleErrorExact == OrderSpec => []CycleErrorIsExact
  <1>1. IInv => CycleErrorIsExact
    <2> SUFFICES ASSUME IInv PROVE CycleErrorIsExact
      OBVIOUS
    <2>1. IsFiniteSet(Nodes) /\ Cardinality(Nodes) = Len(workflow.nodes)
      BY NodesFinite DEF IInv
    <2>2. Cardinality(Members(result)) = Len(result)
      BY MembersCount DEF IInv
    <2>3. Members(result) \in SUBSET Nodes
      BY DEF IInv, Members
    <2>4. ASSUME outcome = "cycle"
          PROVE  \E S \in SUBSET Nodes : WaitForEachOther(S)
      <3> DEFINE S == Nodes \ Members(result)
      <3>1. S # {}
        <4>1. Members(result) # Nodes
          BY <2>1, <2>2, <2>4 DEF IInv
        <4> QED
          BY <4>1, <2>3
      <3>2. ASSUME NEW n \in S
            PROVE  \E m \in S : <<m, n>> \in Dependencies
        <4>1. Unmet(n) # {}
          BY <2>4, <3>2 DEF IInv
        <4> QED
          BY <4>1 DEF Unmet, Sources
      <3> QED
        BY <3>1, <3>2 DEF WaitForEachOther
    <2>5. ASSUME outcome = "ordered"
          PROVE  /\ ~\E S \in SUBSET Nodes : WaitForEachOther(S)
                 /\ Members(result) = Nodes
      <3>1. Members(result) = Nodes
        BY <2>1, <2>2, <2>3, <2>5, FS_Subset DEF IInv
      <3> QED
        BY <3>1 DEF IInv, WaitForEachOther
    <2> QED
      BY <2>4, <2>5 DEF CycleErrorIsExact
  <1> QED
    BY <1>1, Inductive, PTL

-----------------------------------------------------------------------------
(***************************************************************************)
(* Preference.  Whoever could have a place when it is taken is ready then, *)
(* and what was placed stays.                                              *)
(***************************************************************************)
FirstInv == \A j \in 1..Len(result) : \A n \in Nodes : CouldHave(n, j) => Precedes(result[j], n)

LEMMA OrderKeyUnchanged ==
  ASSUME workflow' = workflow
  PROVE  /\ Nodes' = Nodes
         /\ \A n : Sources(n)' = Sources(n)
         /\ \A m, n : Precedes(m, n)' = Precedes(m, n)
  BY DEF Nodes, Sources, Dependencies, PinDependencies, Precedes, Place, Preference, Fallback

LEMMA TakeFirstFirst == IInv /\ FirstInv /\ TakeFirst => FirstInv'
  <1> SUFFICES ASSUME IInv, FirstInv, TakeFirst PROVE FirstInv'
    OBVIOUS
  <1>1. PICK current \in ready :
          /\ \A n \in ready \ {current} : Precedes(current, n)
          /\ result' = Append(result, current)
    BY DEF TakeFirst
  <1>2. /\ Nodes' = Nodes
        /\ \A n : Sources(n)' = Sources(n)
        /\ \A m, n : Precedes(m, n)' = Precedes(m, n)
    BY OrderKeyUnchanged DEF TakeFirst
  <1>3. /\ Len(result') = Len(result) + 1
        /\ result'[Len(result) + 1] = current
        /\ \A i \in 1..Len(result) : result'[i] = result[i]
        /\ Len(result) \in Nat
    BY <1>1 DEF IInv
  <1> SUFFICES ASSUME NEW j \in 1..Len(result'), NEW n \in Nodes, CouldHave(n, j)'
               PROVE  Precedes(result'[j], n)
    BY <1>2 DEF FirstInv
  <1>4. /\ \A i \in 1..j : result'[i] # n
        /\ \A m \in Sources(n) : \E i \in 1..(j - 1) : result'[i] = m
    BY <1>2 DEF CouldHave
  <1>5. CASE j \in 1..Len(result)
    <2>1. \A i \in 1..j : result'[i] = result[i]
      BY <1>3, <1>5
    <2>2. \A i \in 1..(j - 1) : i \in 1..j
      BY <1>3, <1>5
    <2>3. CouldHave(n, j)
      BY <1>4, <2>1, <2>2 DEF CouldHave
    <2>4. j \in 1..j
      BY <1>3, <1>5
    <2> QED
      BY <1>5, <2>1, <2>3, <2>4 DEF FirstInv
  <1>6. CASE j = Len(result) + 1
    <2>1. n # current /\ n \notin Members(result)
      BY <1>3, <1>4, <1>6 DEF Members
    <2>2. Unmet(n) = {}
      <3>1. \A m \in Sources(n) : \E i \in 1..Len(result) : result[i] = m
        BY <1>3, <1>4, <1>6
      <3> QED
        BY <3>1 DEF Unmet, Members
    <2>3. n \in ready \ {current}
      BY <2>1, <2>2 DEF IInv
    <2> QED
      BY <1>1, <1>3, <1>6, <2>3
  <1> QED
    BY <1>3, <1>5, <1>6

LEMMA FirstKept == OrderSpec => []FirstInv
  <1>1. OrderInit => FirstInv
    BY DEF OrderInit, FirstInv
  <1>2. IInv /\ FirstInv /\ [OrderNext]_orderVars => FirstInv'
    <2>1. ASSUME FirstInv, workflow' = workflow, result' = result PROVE FirstInv'
      BY <2>1, OrderKeyUnchanged DEF FirstInv, CouldHave
    <2> QED
      BY <2>1, TakeFirstFirst DEF OrderNext, Return, orderVars
  <1> QED
    BY <1>1, <1>2, Inductive, PTL DEF OrderSpec

\* Of two nodes, a preference that names none twice prefers the one it names.
LEMMA NamedPrecedes ==
  ASSUME workflow \in Workflow, ~Repeats(Preference), NEW n \in Nodes, n \in Members(Preference),
         NEW m \in Nodes, Precedes(m, n)
  PROVE  m \in Members(Preference)
  <1> SUFFICES ASSUME m \notin Members(Preference) PROVE FALSE
    OBVIOUS
  <1> DEFINE last(i) == Preference[i] = n /\ \A j \in (i + 1)..Len(Preference) : Preference[j] # n
  <1>1. Preference \in Seq(Ids) /\ Injective(Preference)
    BY DEF Workflow, Preference, Repeats, Injective
  <1>2. Cardinality(Members(Preference)) = Len(Preference) /\ Len(Preference) \in Nat
    BY <1>1, MembersCount
  <1>3. Place(n) \in 1..Len(Preference)
    <2>1. PICK i \in 1..Len(Preference) : Preference[i] = n
      BY DEF Members
    <2>2. \A j \in (i + 1)..Len(Preference) : j \in 1..Len(Preference) /\ j # i
      BY <1>2
    <2>3. last(i)
      BY <1>1, <2>1, <2>2 DEF Injective
    <2>4. Place(n) = CHOOSE k \in 1..Len(Preference) : last(k)
      BY DEF Place
    <2> HIDE DEF last
    <2> QED
      BY <2>1, <2>3, <2>4
  <1>4. \A k \in Nodes : Fallback(k) \in 1..Len(workflow.nodes)
    BY DEF Fallback, Nodes, Members
  <1>5. Len(workflow.nodes) \in Nat
    BY NodesFinite
  <1>6. Place(m) = Len(Preference) + Fallback(m)
    BY <1>2 DEF Place
  <1>7. Place(m) > Place(n)
    BY <1>2, <1>3, <1>4, <1>5, <1>6
  <1> QED
    BY <1>2, <1>3, <1>4, <1>5, <1>6, <1>7 DEF Precedes

(***************************************************************************)
(* Each place goes to the preferred one of all nodes that could have it.   *)
(***************************************************************************)
THEOREM PreferenceAlwaysDecides == OrderSpec => []PreferenceDecides
  <1>1. IInv /\ FirstInv => PreferenceDecides
    <2> SUFFICES ASSUME IInv, FirstInv, NEW j \in 1..Len(result), NEW n \in Nodes, CouldHave(n, j)
                 PROVE  /\ n \in Members(Preference) /\ ~Repeats(Preference) =>
                             result[j] \in Members(Preference)
                        /\ Precedes(result[j], n)
      BY DEF PreferenceDecides
    <2>1. result[j] \in Nodes /\ Precedes(result[j], n)
      BY DEF IInv, FirstInv
    <2> QED
      BY <2>1, NamedPrecedes DEF IInv
  <1> QED
    BY <1>1, Inductive, FirstKept, PTL

-----------------------------------------------------------------------------
(***************************************************************************)
(* The file.  Whoever holds the lock has in hand what the file is, except  *)
(* a reader that migrates: it has in hand what the file was when it was    *)
(* read.  From this follows what every writer may do to the file, and from *)
(* the numbers of the saves that a revision, until one is lost, means one  *)
(* content.                                                                *)
(***************************************************************************)
Migrating == {"backing up", "copying", "persisting"}
Comparing == {"comparing", "replacing", "synchronizing"}

Revision(document) == IF document = None THEN 0 ELSE document.revision

Old == Document(1, 0, 0)

\* The lock excludes.
LockInv == \A e \in Editors : handlers[e].pc \in Migrating \cup Comparing => lock = e

\* What a request has in hand.
HandlerInv(e) ==
    LET h == handlers[e] IN
    /\ h.saving => h.pc \notin {"idle", "opening"} /\ h.base # None
    /\ ~h.saving /\ h.pc \in {"locking"} \cup Migrating => h.payload = Old /\ original = Old
    /\ h.pc \in Migrating => h.payload = Old /\ original = Old
    /\ h.pc \in Comparing => h.saving /\ ~IsOld(h.payload)
    /\ h.saving /\ h.pc \in Migrating \cup {"comparing", "replacing"} => h.payload = file
    /\ h.pc = "replacing" => h.base.revision = StoredRevision(e)
    /\ h.pc = "synchronizing" => file = Document(2, StoredRevision(e) + 1, h.content)

\* Only what was there at the start has the old version.
OldInv == (IsOld(file) => original = Old /\ file = Old) /\ (IsOld(disk) => original = Old /\ disk = Old)

Sound == TypeOK /\ LockInv /\ OldInv /\ \A e \in Editors : HandlerInv(e)

\* Each save has its own number; as long as nothing is replaced, a content
\* that is stored is not one that is still to be written.
Unwritten(e) == handlers[e].saving /\ handlers[e].pc # "synchronizing"

NumbersInv ==
    /\ \A e \in Editors : handlers[e].saving => handlers[e].content \in 1..saves
    /\ \A e, f \in Editors :
          e # f /\ handlers[e].saving /\ handlers[f].saving => handlers[e].content # handlers[f].content
    /\ \A e \in Editors : Unwritten(e) => handlers[e].content \notin {Content(file), Content(disk)}
    /\ Content(file) <= saves /\ Content(disk) <= saves
    /\ Content(file) = 0 => Revision(file) = 0
    /\ Content(disk) = 0 => Revision(disk) = 0
    /\ Content(file) = Content(disk) => Revision(file) = Revision(disk)

\* Nothing an editor has seen is newer than the file, and what has its
\* revision has its content.
Behind(document, stored) ==
    /\ document.revision <= Revision(stored)
    /\ document.revision = Revision(stored) => document.content = Content(stored)

KnownInv ==
    ~lost => \A e \in Editors : /\ viewed[e] # None => Behind(viewed[e], file)
                                /\ handlers[e].saving => Behind(handlers[e].base, file)

SyncedInv == original # Old => synced <= Revision(disk) /\ Revision(disk) <= Revision(file)

\* The copy is made before the file is migrated.
BackupInv ==
    original = Old /\ ~torn =>
        /\ backup \in {None, Torn, Old} /\ spare \in {None, Torn, Old}
        /\ backup # Old => file = Old /\ disk = Old
        /\ \A e \in Editors : handlers[e].pc = "copying" => backup = Torn
        /\ backup = Torn => \E e \in Editors : handlers[e].pc = "copying"
        /\ \A e \in Editors : handlers[e].pc = "persisting" => backup = Old

-----------------------------------------------------------------------------
LEMMA Constants ==
  /\ Old \in Documents /\ Torn \in Documents /\ Default \in Documents
  /\ Old # Torn /\ IsOld(Old) /\ ~IsOld(Default) /\ Migrated(Old) = Default
  /\ Old # None /\ Torn # None /\ Default # None
  BY NoneAssumption DEF Old, Torn, Default, Document, Documents, IsOld, Migrated

LEMMA DocumentType ==
  ASSUME NEW r \in Nat, NEW c \in Nat
  PROVE  /\ Document(2, r, c) \in Documents /\ Document(2, r, c) # None /\ ~IsOld(Document(2, r, c))
         /\ Document(2, r, c).revision = r /\ Document(2, r, c).content = c
  BY NoneAssumption DEF Document, Documents, IsOld

LEMMA RevisionType ==
  ASSUME NEW d \in Documents \cup {None}
  PROVE  Revision(d) \in Nat /\ Content(d) \in Nat
  BY DEF Revision, Content, Documents

LEMMA Stored == \A e : StoredRevision(e) = Revision(handlers[e].payload)
  BY DEF StoredRevision, Revision

LEMMA HandlerOf == Sound => \A e \in Editors : handlers[e] \in Handler /\ HandlerInv(e)
  BY DEF Sound, TypeOK

LEMMA IdleHandler == Idle \in Handler /\ Idle.pc = "idle" /\ ~Idle.saving
  BY DEF Idle, Handler

\* The step of one request: it changes the file under the lock only.
LEMMA SoundLocal ==
  ASSUME Sound, NEW e \in Editors, NEW h \in Handler, handlers' = [handlers EXCEPT ![e] = h],
         original' = original, OldInv', HandlerInv(e)',
         file' = file \/ lock = e,
         lock' = lock \/ (lock \in {e, None} /\ lock' \in {e, None}),
         h.pc \in Migrating \cup Comparing => lock' = e,
         file' \in Documents \cup {None}, disk' \in Documents \cup {None},
         backup' \in Documents \cup {None}, spare' \in Documents \cup {None}, viewed' \in [Editors -> Documents \cup {None}],
         saves' \in Nat, synced' \in Nat, crashes' \in Nat
  PROVE  Sound'
  <1>1. TypeOK'
    BY DEF Sound, TypeOK
  <1>2. \A f \in Editors : f # e => handlers'[f] = handlers[f]
    BY DEF Sound, TypeOK
  <1>3. handlers'[e] = h
    BY DEF Sound, TypeOK
  <1>4. e # None
    BY NoneAssumption
  <1>5. LockInv'
    <2> SUFFICES ASSUME NEW f \in Editors, handlers'[f].pc \in Migrating \cup Comparing PROVE lock' = f
      BY DEF LockInv
    <2>1. CASE f = e
      BY <1>3, <2>1
    <2>2. CASE f # e
      <3>1. lock = f /\ f # None
        BY <1>2, <2>2, NoneAssumption DEF Sound, LockInv
      <3> QED
        BY <2>2, <3>1
    <2> QED
      BY <2>1, <2>2
  <1>6. ASSUME NEW f \in Editors, f # e PROVE HandlerInv(f)'
    <2>1. HandlerInv(f) /\ handlers'[f] = handlers[f]
      BY <1>2, <1>6 DEF Sound
    <2>2. StoredRevision(f)' = StoredRevision(f)
      BY <2>1 DEF StoredRevision
    <2>3. file' = file \/ handlers[f].pc \notin Migrating \cup Comparing
      BY <1>6 DEF Sound, LockInv
    <2> QED
      BY <2>1, <2>2, <2>3 DEF HandlerInv, Comparing
  <1> QED
    BY <1>1, <1>5, <1>6 DEF Sound

LEMMA SoundInitially == Init => Sound
  <1> SUFFICES ASSUME Init PROVE Sound
    OBVIOUS
  <1>1. \A e \in Editors : handlers[e] = Idle
    BY DEF Init
  <1>2. original \in {None, Old, Default}
    BY DEF Init, Originals, Old
  <1>3. TypeOK
    BY <1>2, Constants, IdleHandler DEF Init, TypeOK, Originals, Old
  <1>4. LockInv
    BY <1>1, IdleHandler DEF LockInv, Migrating, Comparing
  <1>5. OldInv
    BY <1>2, Constants DEF Init, OldInv, IsOld
  <1>6. \A e \in Editors : HandlerInv(e)
    BY <1>1, IdleHandler DEF HandlerInv, Migrating, Comparing
  <1> QED
    BY <1>3, <1>4, <1>5, <1>6 DEF Sound

\* What most steps leave alone.
LEMMA OldFrame == OldInv /\ UNCHANGED <<original, file, disk>> => OldInv'
  BY DEF OldInv

LEMMA AskReadSound == ASSUME Sound, NEW e \in Editors, AskRead(e) PROVE Sound'
  <1> DEFINE h == [handlers[e] EXCEPT !.pc = "opening"]
  <1>1. handlers[e] \in Handler /\ HandlerInv(e) /\ handlers[e].pc = "idle"
    BY HandlerOf DEF AskRead, At
  <1>2. h \in Handler /\ h.pc = "opening" /\ ~h.saving
    BY <1>1 DEF Handler, HandlerInv
  <1>3. handlers' = [handlers EXCEPT ![e] = h] /\ handlers'[e] = h
    BY DEF AskRead, Goto, Sound, TypeOK
  <1> HIDE DEF h
  <1>4. HandlerInv(e)'
    BY <1>2, <1>3 DEF HandlerInv, Migrating, Comparing
  <1> QED
    BY <1>2, <1>3, <1>4, SoundLocal, OldFrame DEF AskRead, Sound, TypeOK, Migrating, Comparing

LEMMA AskSaveSound == ASSUME Sound, NEW e \in Editors, AskSave(e) PROVE Sound'
  <1> DEFINE h == [Idle EXCEPT !.pc = "locking", !.saving = TRUE, !.base = viewed[e], !.content = saves + 1]
  <1>1. viewed[e] \in Documents /\ saves + 1 \in Nat /\ saves' \in Nat /\ viewed[e] # None
    BY DEF AskSave, Sound, TypeOK
  <1>2. h \in Handler /\ h.pc = "locking" /\ h.saving /\ h.base # None
    BY <1>1 DEF Handler, Idle
  <1>3. handlers' = [handlers EXCEPT ![e] = h] /\ handlers'[e] = h
    BY DEF AskSave, Sound, TypeOK
  <1> HIDE DEF h
  <1>4. HandlerInv(e)'
    BY <1>2, <1>3 DEF HandlerInv, Migrating, Comparing
  <1> QED
    BY <1>1, <1>2, <1>3, <1>4, SoundLocal, OldFrame DEF AskSave, Sound, TypeOK, Migrating, Comparing

\* A request ends: nobody loses the lock but itself.
LEMMA EndSound ==
  ASSUME Sound, NEW e \in Editors, End(e), original' = original, OldInv', file' = file \/ lock = e,
         file' \in Documents \cup {None}, disk' \in Documents \cup {None},
         backup' \in Documents \cup {None}, spare' \in Documents \cup {None}, viewed' \in [Editors -> Documents \cup {None}],
         saves' \in Nat, synced' \in Nat, crashes' \in Nat
  PROVE  Sound'
  <1>1. handlers' = [handlers EXCEPT ![e] = Idle] /\ handlers'[e] = Idle
    BY DEF End, Sound, TypeOK
  <1>2. lock' = lock \/ (lock \in {e, None} /\ lock' \in {e, None})
    BY DEF End
  <1>3. HandlerInv(e)'
    BY <1>1, IdleHandler DEF HandlerInv, Migrating, Comparing
  <1> QED
    BY <1>1, <1>2, <1>3, SoundLocal, IdleHandler DEF Migrating, Comparing

LEMMA OpenSound == ASSUME Sound, NEW e \in Editors, Open(e) PROVE Sound'
  <1>1. handlers[e] \in Handler /\ HandlerInv(e) /\ handlers[e].pc = "opening"
    BY HandlerOf DEF Open, At
  <1>2. CASE IsOld(file)
    <2> DEFINE h == [handlers[e] EXCEPT !.pc = "locking", !.payload = file]
    <2>1. file = Old /\ original = Old
      BY <1>2 DEF Sound, OldInv
    <2>2. h \in Handler /\ h.pc = "locking" /\ ~h.saving /\ h.payload = Old
      BY <1>1, <2>1, Constants DEF Handler, HandlerInv
    <2>3. handlers' = [handlers EXCEPT ![e] = h] /\ handlers'[e] = h
      BY <1>2 DEF Open, Sound, TypeOK
    <2>4. UNCHANGED <<original, file, disk, backup, spare, lock, viewed, saves, synced, crashes>>
      BY <1>2 DEF Open
    <2> HIDE DEF h
    <2>5. HandlerInv(e)'
      BY <2>1, <2>2, <2>3, <2>4 DEF HandlerInv, Migrating, Comparing
    <2> QED
      BY <2>2, <2>3, <2>4, <2>5, SoundLocal, OldFrame DEF Sound, TypeOK, Migrating, Comparing
  <1>3. CASE ~IsOld(file)
    <2>1. End(e) /\ viewed' \in [Editors -> Documents \cup {None}]
      BY <1>3, Constants DEF Open, Sound, TypeOK
    <2>2. UNCHANGED <<original, file, disk, backup, spare, saves, synced, crashes>>
      BY DEF Open
    <2> QED
      BY <2>1, <2>2, EndSound, OldFrame DEF Sound, TypeOK
  <1> QED
    BY <1>2, <1>3

LEMMA LockSound == ASSUME Sound, NEW e \in Editors, Lock(e) PROVE Sound'
  <1> DEFINE payload == IF handlers[e].saving THEN file ELSE handlers[e].payload
             pc == IF IsOld(payload) THEN "backing up" ELSE "comparing"
             h == [handlers[e] EXCEPT !.payload = payload, !.pc = pc]
  <1>1. handlers[e] \in Handler /\ HandlerInv(e) /\ handlers[e].pc = "locking" /\ lock = None /\ lock' = e
    BY HandlerOf DEF Lock, At
  <1>2. payload \in Documents \cup {None}
    BY <1>1 DEF Sound, TypeOK, Handler
  <1>3. handlers' = [handlers EXCEPT ![e] = h] /\ handlers'[e] = h
    BY DEF Lock, Sound, TypeOK
  <1>4. UNCHANGED <<original, file, disk, backup, spare, viewed, saves, synced, crashes>>
    BY DEF Lock
  <1>5. IsOld(payload) => payload = Old /\ original = Old
    BY <1>1 DEF Sound, OldInv, HandlerInv
  <1>6. ~handlers[e].saving => IsOld(payload)
    BY <1>1, Constants DEF HandlerInv
  <1>7. handlers[e].saving => payload = file
    OBVIOUS
  <1> HIDE DEF payload
  <1>8. /\ h \in Handler /\ h.pc = pc /\ h.payload = payload /\ h.saving = handlers[e].saving
        /\ h.base = handlers[e].base
    BY <1>1, <1>2 DEF Handler
  <1>9. HandlerInv(e)'
    <2> HIDE DEF h
    <2> QED
      BY <1>1, <1>3, <1>4, <1>5, <1>6, <1>7, <1>8 DEF HandlerInv, Migrating, Comparing
  <1> HIDE DEF h
  <1> QED
    BY <1>1, <1>3, <1>4, <1>8, <1>9, SoundLocal, OldFrame DEF Sound, TypeOK

\* A step of the holder of the lock from one point to the next.
LEMMA GotoSound ==
  ASSUME Sound, NEW e \in Editors, NEW pc \in {"copying", "persisting"}, Goto(e, pc),
         handlers[e].pc \in Migrating, UNCHANGED <<original, file, disk, spare, lock, viewed, saves, synced, crashes>>,
         backup' \in Documents \cup {None}
  PROVE  Sound'
  <1> DEFINE h == [handlers[e] EXCEPT !.pc = pc]
  <1>1. handlers[e] \in Handler /\ HandlerInv(e) /\ lock = e
    BY HandlerOf DEF Sound, LockInv
  <1>2. /\ h \in Handler /\ h.pc = pc /\ h.payload = handlers[e].payload /\ h.saving = handlers[e].saving
        /\ h.base = handlers[e].base
    BY <1>1 DEF Handler
  <1>3. handlers' = [handlers EXCEPT ![e] = h] /\ handlers'[e] = h
    BY DEF Goto, Sound, TypeOK
  <1> HIDE DEF h
  <1>4. HandlerInv(e)'
    BY <1>1, <1>2, <1>3 DEF HandlerInv, Migrating, Comparing
  <1> QED
    BY <1>1, <1>2, <1>3, <1>4, SoundLocal, OldFrame DEF Sound, TypeOK

LEMMA CopySound ==
  ASSUME Sound, NEW e \in Editors, HasBackup(e) \/ OpenBackup(e) \/ CopyBackup(e) PROVE Sound'
  <1>1. \E pc \in {"copying", "persisting"} : Goto(e, pc)
    BY DEF HasBackup, OpenBackup, CopyBackup
  <1>2. /\ handlers[e].pc \in Migrating
        /\ UNCHANGED <<original, file, disk, spare, lock, viewed, saves, synced, crashes>>
    BY DEF HasBackup, OpenBackup, CopyBackup, At, Migrating
  <1>3. backup' \in Documents \cup {None}
    BY Constants DEF HasBackup, OpenBackup, CopyBackup, Sound, TypeOK
  <1> QED
    BY <1>1, <1>2, <1>3, GotoSound

LEMMA PersistSound == ASSUME Sound, NEW e \in Editors, Persist(e) PROVE Sound'
  <1>1. handlers[e] \in Handler /\ HandlerInv(e) /\ handlers[e].pc = "persisting" /\ lock = e
    BY HandlerOf DEF Persist, At, Sound, LockInv, Migrating
  <1>2. handlers[e].payload = Old
    BY <1>1 DEF HandlerInv, Migrating
  <1>3. file' = Default /\ UNCHANGED <<original, disk, backup, spare, saves, synced, crashes>>
    BY <1>2, Constants DEF Persist
  <1>4. OldInv'
    BY <1>3, Constants DEF Sound, OldInv
  <1>5. CASE handlers[e].saving
    <2> DEFINE h == [handlers[e] EXCEPT !.pc = "comparing", !.payload = Default]
    <2>1. handlers' = [handlers EXCEPT ![e] = h] /\ handlers'[e] = h /\ UNCHANGED <<lock, viewed>>
      BY <1>2, <1>5, Constants DEF Persist, Sound, TypeOK
    <2>2. h \in Handler /\ h.pc = "comparing" /\ h.payload = Default /\ h.saving /\ h.base = handlers[e].base
      BY <1>1, <1>5, Constants DEF Handler
    <2> HIDE DEF h
    <2>3. handlers[e].base # None /\ ~IsOld(Default) /\ file' = Default
      BY <1>1, <1>3, <1>5, Constants DEF HandlerInv
    <2>4. HandlerInv(e)'
      <3>1. /\ handlers'[e].pc = "comparing" /\ handlers'[e].saving
            /\ handlers'[e].base # None /\ handlers'[e].payload = Default
        BY <2>1, <2>2, <2>3
      <3> QED
        BY <2>3, <3>1 DEF HandlerInv, Migrating, Comparing
    <2> QED
      BY <1>1, <1>3, <1>4, <2>1, <2>2, <2>4, Constants, SoundLocal DEF Sound, TypeOK
  <1>6. CASE ~handlers[e].saving
    <2>1. End(e) /\ viewed' = [viewed EXCEPT ![e] = Default]
      BY <1>2, <1>6, Constants DEF Persist
    <2>2. viewed' \in [Editors -> Documents \cup {None}]
      BY <2>1, Constants DEF Sound, TypeOK
    <2> QED
      BY <1>1, <1>3, <1>4, <2>1, <2>2, Constants, EndSound DEF Sound, TypeOK
  <1> QED
    BY <1>5, <1>6

LEMMA AcceptSound == ASSUME Sound, NEW e \in Editors, Accept(e) PROVE Sound'
  <1> DEFINE h == [handlers[e] EXCEPT !.pc = "replacing"]
  <1>1. handlers[e] \in Handler /\ HandlerInv(e) /\ handlers[e].pc = "comparing" /\ lock = e
    BY HandlerOf DEF Accept, At, Sound, LockInv, Comparing
  <1>2. /\ h \in Handler /\ h.pc = "replacing" /\ h.payload = handlers[e].payload
        /\ h.saving = handlers[e].saving /\ h.base = handlers[e].base
    BY <1>1 DEF Handler
  <1>3. handlers' = [handlers EXCEPT ![e] = h] /\ handlers'[e] = h
    BY DEF Accept, Goto, Sound, TypeOK
  <1>4. UNCHANGED <<original, file, disk, backup, spare, lock, viewed, saves, synced, crashes>>
    BY DEF Accept
  <1>5. handlers[e].base.revision = StoredRevision(e)
    BY DEF Accept
  <1> HIDE DEF h
  <1>6. StoredRevision(e)' = StoredRevision(e)
    BY <1>2, <1>3 DEF StoredRevision
  <1>7. HandlerInv(e)'
    BY <1>1, <1>2, <1>3, <1>4, <1>5, <1>6 DEF HandlerInv, Migrating, Comparing
  <1> QED
    BY <1>1, <1>2, <1>3, <1>4, <1>7, SoundLocal, OldFrame DEF Sound, TypeOK

LEMMA ReplaceSound == ASSUME Sound, NEW e \in Editors, Replace(e) PROVE Sound'
  <1> DEFINE h == [handlers[e] EXCEPT !.pc = "synchronizing"]
             d == Document(2, StoredRevision(e) + 1, handlers[e].content)
  <1>1. handlers[e] \in Handler /\ HandlerInv(e) /\ handlers[e].pc = "replacing" /\ lock = e
    BY HandlerOf DEF Replace, At, Sound, LockInv, Comparing
  <1>2. /\ h \in Handler /\ h.pc = "synchronizing" /\ h.payload = handlers[e].payload
        /\ h.saving = handlers[e].saving /\ h.base = handlers[e].base /\ h.content = handlers[e].content
    BY <1>1 DEF Handler
  <1>3. handlers' = [handlers EXCEPT ![e] = h] /\ handlers'[e] = h
    BY DEF Replace, Goto, Sound, TypeOK
  <1>4. file' = d /\ UNCHANGED <<original, disk, backup, spare, lock, viewed, saves, synced, crashes>>
    BY DEF Replace
  <1>5. d \in Documents /\ ~IsOld(d)
    <2>1. handlers[e].payload \in Documents \cup {None} /\ handlers[e].content \in Nat
      BY <1>1 DEF Handler
    <2>2. StoredRevision(e) + 1 \in Nat
      BY <2>1, Stored, RevisionType
    <2> QED
      BY <2>1, <2>2, DocumentType
  <1>6. d = Document(2, StoredRevision(e)' + 1, h.content)
    BY <1>2, <1>3 DEF StoredRevision
  <1> HIDE DEF h, d
  <1>7. OldInv'
    BY <1>4, <1>5 DEF Sound, OldInv
  <1>8. HandlerInv(e)'
    BY <1>1, <1>2, <1>3, <1>4, <1>6 DEF HandlerInv, Migrating, Comparing
  <1> QED
    BY <1>1, <1>2, <1>3, <1>4, <1>5, <1>7, <1>8, SoundLocal DEF Sound, TypeOK

LEMMA SynchronizeSound == ASSUME Sound, NEW e \in Editors, Synchronize(e) PROVE Sound'
  <1>1. handlers[e] \in Handler /\ HandlerInv(e) /\ handlers[e].pc = "synchronizing"
    BY HandlerOf DEF Synchronize, At
  <1>2. handlers[e].payload \in Documents \cup {None} /\ file = Document(2, StoredRevision(e) + 1, handlers[e].content)
    BY <1>1 DEF Handler, HandlerInv
  <1>3. /\ synced' = StoredRevision(e) + 1 /\ viewed' = [viewed EXCEPT ![e] = file] /\ End(e)
        /\ disk' = file /\ UNCHANGED <<original, file, backup, spare, saves, crashes>>
    BY <1>2 DEF Synchronize
  <1>4. synced' \in Nat
    BY <1>2, <1>3, Stored, RevisionType
  <1>5. viewed' \in [Editors -> Documents \cup {None}]
    BY <1>3 DEF Sound, TypeOK
  <1>6. OldInv'
    BY <1>3 DEF Sound, OldInv
  <1> QED
    BY <1>3, <1>4, <1>5, <1>6, EndSound DEF Sound, TypeOK

LEMMA PassOverSound == ASSUME Sound, NEW e \in Editors, PassOver(e) PROVE Sound'
  <1>1. handlers[e] \in Handler /\ HandlerInv(e) /\ handlers[e].pc = "synchronizing"
    BY HandlerOf DEF PassOver, At
  <1>2. file = Document(2, StoredRevision(e) + 1, handlers[e].content)
    BY <1>1 DEF HandlerInv
  <1>3. /\ viewed' = [viewed EXCEPT ![e] = file] /\ End(e)
        /\ UNCHANGED <<original, file, disk, backup, spare, saves, synced, crashes>>
    BY <1>2 DEF PassOver
  <1>4. viewed' \in [Editors -> Documents \cup {None}]
    BY <1>3 DEF Sound, TypeOK
  <1> QED
    BY <1>3, <1>4, EndSound, OldFrame DEF Sound, TypeOK

LEMMA SoundStep == Sound /\ [Next]_vars => Sound'
  <1> SUFFICES ASSUME Sound, [Next]_vars PROVE Sound'
    OBVIOUS
  <1>1. CASE UNCHANGED vars
    BY <1>1 DEF vars, Sound, TypeOK, LockInv, OldInv, HandlerInv, StoredRevision
  <1>2. CASE WriteBack \/ WriteBackCopy
    BY <1>2 DEF WriteBack, WriteBackCopy, Sound, TypeOK, LockInv, OldInv, HandlerInv, StoredRevision
  <1>3. CASE Crash
    <2>1. \A e \in Editors : handlers'[e] = Idle
      BY <1>3 DEF Crash
    <2>2. TypeOK'
      BY <1>3, IdleHandler DEF Crash, Sound, TypeOK
    <2>3. LockInv' /\ \A e \in Editors : HandlerInv(e)'
      BY <2>1, IdleHandler DEF LockInv, HandlerInv, Migrating, Comparing
    <2>4. OldInv'
      BY <1>3 DEF Crash, Sound, OldInv
    <2> QED
      BY <2>2, <2>3, <2>4 DEF Sound
  <1>4. ASSUME NEW e \in Editors, RefuseStale(e) \/ Fail(e) PROVE Sound'
    <2>1. End(e) /\ UNCHANGED <<original, file, disk, backup, spare, viewed, saves, synced, crashes>>
      BY <1>4 DEF RefuseStale, Fail
    <2> QED
      BY <2>1, EndSound, OldFrame DEF Sound, TypeOK
  <1> QED
    BY <1>1, <1>2, <1>3, <1>4, AskReadSound, AskSaveSound, OpenSound, LockSound, CopySound, PersistSound,
       AcceptSound, ReplaceSound, SynchronizeSound, PassOverSound DEF Next, Handle

(***************************************************************************)
(* The files and the requests keep their types.                            *)
(***************************************************************************)
THEOREM TypeCorrect == Spec => []TypeOK
  BY SoundInitially, SoundStep, PTL DEF Spec, Sound

-----------------------------------------------------------------------------
(***************************************************************************)
(* What a step does to the file, to the disk and to a save in progress.    *)
(***************************************************************************)
LEMMA FileStep ==
  ASSUME [Next]_vars
  PROVE  file' = file \/ Crash \/ \E e \in Editors : Persist(e) \/ Replace(e)
  BY DEF Next, Handle, vars, WriteBack, WriteBackCopy, AskRead, AskSave, Open, Lock, HasBackup, OpenBackup, CopyBackup,
         RefuseStale, Accept, Synchronize, PassOver, Fail

LEMMA DiskStep ==
  ASSUME [Next]_vars
  PROVE  disk' = disk \/ (file' = file /\ disk' = file)
  BY DEF Next, Handle, vars, WriteBack, WriteBackCopy, Crash, AskRead, AskSave, Open, Lock, HasBackup, OpenBackup, CopyBackup,
         Persist, RefuseStale, Accept, Replace, Synchronize, PassOver, Fail

LEMMA SavesStep ==
  ASSUME [Next]_vars
  PROVE  saves' = saves \/ \E e \in Editors : AskSave(e)
  BY DEF Next, Handle, vars, WriteBack, WriteBackCopy, Crash, AskRead, Open, Lock, HasBackup, OpenBackup, CopyBackup,
         Persist, RefuseStale, Accept, Replace, Synchronize, PassOver, Fail

LEMMA SavingStep ==
  ASSUME Sound, [Next]_vars, NEW f \in Editors, handlers'[f].saving
  PROVE  \/ AskSave(f)
         \/ /\ handlers[f].saving
            /\ handlers'[f].content = handlers[f].content
            /\ handlers'[f].base = handlers[f].base
            /\ Unwritten(f)' => Unwritten(f) /\ ~Replace(f)
  <1>1. handlers \in [Editors -> Handler]
    BY DEF Sound, TypeOK
  <1>2. Unwritten(f)' => ~Replace(f)
    BY <1>1 DEF Unwritten, Replace, Goto, Handler
  <1>3. CASE UNCHANGED vars \/ WriteBack \/ WriteBackCopy
    BY <1>2, <1>3 DEF vars, WriteBack, WriteBackCopy, Unwritten
  <1>4. CASE Crash
    BY <1>4, IdleHandler DEF Crash
  <1>5. ASSUME NEW e \in Editors, AskSave(e), e # f PROVE handlers'[f] = handlers[f]
    BY <1>1, <1>5 DEF AskSave
  <1>6. ASSUME NEW e \in Editors, End(e) PROVE handlers'[f] = handlers[f]
    BY <1>1, <1>6, IdleHandler DEF End
  <1>7. ASSUME NEW e \in Editors, NEW pc, Goto(e, pc), ~At(e, "synchronizing")
        PROVE  /\ handlers[f].saving
               /\ handlers'[f].content = handlers[f].content
               /\ handlers'[f].base = handlers[f].base
               /\ Unwritten(f)' => Unwritten(f)
    BY <1>1, <1>7 DEF Goto, At, Unwritten, Handler
  <1>8. ASSUME NEW e \in Editors, NEW pc, NEW payload, ~At(e, "synchronizing"),
               handlers' = [handlers EXCEPT ![e].pc = pc, ![e].payload = payload]
        PROVE  /\ handlers[f].saving
               /\ handlers'[f].content = handlers[f].content
               /\ handlers'[f].base = handlers[f].base
               /\ Unwritten(f)' => Unwritten(f)
    BY <1>1, <1>8 DEF At, Unwritten, Handler
  <1>9. ASSUME NEW e \in Editors, Handle(e) \/ AskRead(e)
        PROVE  \/ End(e)
               \/ ~At(e, "synchronizing") /\ \E pc : Goto(e, pc)
               \/ /\ ~At(e, "synchronizing")
                  /\ \E pc, payload : handlers' = [handlers EXCEPT ![e].pc = pc, ![e].payload = payload]
    <2>1. CASE AskRead(e)
      BY <2>1 DEF AskRead, At
    <2>2. CASE Open(e)
      BY <2>2 DEF Open, At
    <2>3. CASE Lock(e)
      <3> DEFINE payload == IF handlers[e].saving THEN file ELSE handlers[e].payload
                 pc == IF IsOld(payload) THEN "backing up" ELSE "comparing"
      <3>1. /\ ~At(e, "synchronizing")
            /\ handlers' = [handlers EXCEPT ![e].payload = payload, ![e].pc = pc]
        BY <2>3 DEF Lock, At
      <3>2. handlers' = [handlers EXCEPT ![e].pc = pc, ![e].payload = payload]
        BY <1>1, <3>1 DEF Handler
      <3> QED
        BY ZenonT(60), <3>1, <3>2
    <2>4. CASE HasBackup(e) \/ OpenBackup(e) \/ CopyBackup(e) \/ Accept(e) \/ Replace(e)
      BY <2>4 DEF HasBackup, OpenBackup, CopyBackup, Accept, Replace, At
    <2>5. CASE Persist(e)
      BY <2>5 DEF Persist, At
    <2>6. CASE RefuseStale(e) \/ Synchronize(e) \/ PassOver(e) \/ Fail(e)
      BY <2>6 DEF RefuseStale, Synchronize, PassOver, Fail
    <2> QED
      BY <1>9, <2>1, <2>2, <2>3, <2>4, <2>5, <2>6 DEF Handle
  <1>10. ASSUME NEW e \in Editors, Handle(e) \/ AskRead(e)
         PROVE  /\ handlers[f].saving
                /\ handlers'[f].content = handlers[f].content
                /\ handlers'[f].base = handlers[f].base
                /\ Unwritten(f)' => Unwritten(f)
    <2>1. CASE End(e)
      BY <1>6, <2>1 DEF Unwritten
    <2> QED
      BY <1>7, <1>8, <1>9, <1>10, <2>1
  <1> QED
    BY <1>2, <1>3, <1>4, <1>5, <1>10 DEF Next, Unwritten

\* What is written to the file: the old content with the new version, or a save.
LEMMA PersistWrites ==
  ASSUME Sound, NEW e \in Editors, Persist(e)
  PROVE  file' = Default /\ disk' = disk /\ saves' = saves /\ (handlers[e].saving => file = Old)
  <1>1. handlers[e].payload = Old /\ (handlers[e].saving => file = Old)
    BY HandlerOf DEF Persist, At, HandlerInv, Migrating
  <1> QED
    BY <1>1, Constants DEF Persist

LEMMA ReplaceWrites ==
  ASSUME Sound, NEW e \in Editors, Replace(e)
  PROVE  /\ Revision(file') = Revision(file) + 1 /\ Content(file') = handlers[e].content
         /\ handlers[e].saving /\ handlers[e].pc = "replacing" /\ handlers[e].base.revision = Revision(file)
         /\ file # Old /\ disk' = disk /\ saves' = saves
  <1>1. /\ handlers[e].payload = file /\ handlers[e].base.revision = StoredRevision(e) /\ ~IsOld(file)
        /\ handlers[e].saving /\ handlers[e].pc = "replacing" /\ handlers[e].content \in Nat
    BY HandlerOf DEF Replace, At, HandlerInv, Comparing, Handler
  <1>2. StoredRevision(e) = Revision(file) /\ Revision(file) \in Nat
    BY <1>1, Stored, RevisionType DEF Sound, TypeOK
  <1>3. file' = Document(2, Revision(file) + 1, handlers[e].content)
    BY <1>2 DEF Replace
  <1> QED
    BY <1>1, <1>2, <1>3, DocumentType, Constants DEF Revision, Content, Replace

LEMMA Values ==
  /\ Revision(None) = 0 /\ Content(None) = 0
  /\ Revision(Old) = 0 /\ Content(Old) = 0
  /\ Revision(Default) = 0 /\ Content(Default) = 0
  BY Constants DEF Revision, Content, Old, Default, Document

LEMMA NumbersInitially == Init => NumbersInv
  <1> SUFFICES ASSUME Init PROVE NumbersInv
    OBVIOUS
  <1>1. \A e \in Editors : handlers[e] = Idle
    BY DEF Init
  <1>2. file \in {None, Old, Default} /\ disk = file /\ saves = 0
    BY DEF Init, Originals, Old
  <1>3. Content(file) = 0 /\ Revision(file) = 0
    BY <1>2, Values
  <1> QED
    BY <1>1, <1>2, <1>3, IdleHandler DEF NumbersInv, Unwritten

LEMMA NumbersStep == Sound /\ NumbersInv /\ [Next]_vars => NumbersInv'
  <1> SUFFICES ASSUME Sound, NumbersInv, [Next]_vars PROVE NumbersInv'
    OBVIOUS
  <1> DEFINE Saving(f) == handlers[f].saving
             c(f) == handlers[f].content
  <1>1. /\ saves \in Nat /\ Content(file) \in Nat /\ Content(disk) \in Nat
        /\ Revision(file) \in Nat /\ Revision(disk) \in Nat
    BY RevisionType DEF Sound, TypeOK
  <1>2. \A f \in Editors : Saving(f) => c(f) \in 1..saves
    BY DEF NumbersInv
  <1>3. \A f, g \in Editors : f # g /\ Saving(f) /\ Saving(g) => c(f) # c(g)
    BY DEF NumbersInv
  <1>4. \A f \in Editors : Saving(f)' =>
           \/ AskSave(f)
           \/ Saving(f) /\ c(f)' = c(f) /\ (Unwritten(f)' => Unwritten(f) /\ ~Replace(f))
    BY SavingStep
  <1>5. \A f \in Editors : AskSave(f) =>
           /\ c(f)' = saves + 1 /\ saves' = saves + 1
           /\ UNCHANGED <<file, disk>>
           /\ \A g \in Editors : g # f => handlers'[g] = handlers[g]
    BY DEF AskSave, Sound, TypeOK
  <1>6. saves' \in Nat /\ saves <= saves'
    BY <1>1, <1>5, SavesStep
  <1>7. \A f \in Editors : Saving(f)' => c(f)' \in 1..saves'
    BY <1>1, <1>2, <1>4, <1>5, <1>6
  <1>8. \A f, g \in Editors : f # g /\ Saving(f)' /\ Saving(g)' => c(f)' # c(g)'
    <2> SUFFICES ASSUME NEW f \in Editors, NEW g \in Editors, f # g, Saving(f)', Saving(g)'
                 PROVE  c(f)' # c(g)'
      OBVIOUS
    <2>1. CASE AskSave(f)
      BY <1>1, <1>2, <1>5, <2>1
    <2>2. CASE AskSave(g)
      BY <1>1, <1>2, <1>5, <2>2
    <2>3. CASE ~AskSave(f) /\ ~AskSave(g)
      BY <1>3, <1>4, <2>3
    <2> QED
      BY <2>1, <2>2, <2>3
  \* The contents that are stored.
  <1>9. /\ Content(file') \in {0, Content(file), Content(disk)} \cup {c(f) : f \in {g \in Editors : Replace(g)}}
        /\ Content(disk') \in {Content(file), Content(disk)}
    <2>1. Content(disk') \in {Content(file), Content(disk)}
      BY DiskStep
    <2>2. CASE Crash
      BY <2>1, <2>2 DEF Crash
    <2>3. CASE \E e \in Editors : Persist(e)
      BY <2>1, <2>3, PersistWrites, Values
    <2>4. CASE \E e \in Editors : Replace(e)
      BY <2>1, <2>4, ReplaceWrites
    <2> QED
      BY <2>1, <2>2, <2>3, <2>4, FileStep
  <1>10. \A f \in Editors : Unwritten(f) => c(f) \notin {0, Content(file), Content(disk)}
    BY <1>1, <1>2 DEF NumbersInv, Unwritten
  <1>11. \A f \in Editors : Replace(f) => Unwritten(f)
    BY ReplaceWrites DEF Unwritten
  <1>12. ASSUME NEW f \in Editors, Unwritten(f)' PROVE c(f)' \notin {Content(file'), Content(disk')}
    <2>1. CASE AskSave(f)
      <3>1. c(f)' = saves + 1 /\ UNCHANGED <<file, disk>>
        BY <1>5, <2>1
      <3>2. Content(file) <= saves /\ Content(disk) <= saves
        BY DEF NumbersInv
      <3> QED
        BY <1>1, <3>1, <3>2
    <2>2. CASE ~AskSave(f)
      <3>1. Saving(f) /\ c(f)' = c(f) /\ Unwritten(f) /\ ~Replace(f)
        BY <1>4, <1>12, <2>2 DEF Unwritten
      <3>2. \A g \in Editors : Replace(g) => c(g) # c(f)
        BY <1>3, <1>11, <3>1 DEF Unwritten
      <3> QED
        BY <1>9, <1>10, <3>1, <3>2
    <2> QED
      BY <2>1, <2>2
  <1>13. Content(file') <= saves' /\ Content(disk') <= saves'
    <2>1. Content(file) <= saves /\ Content(disk) <= saves
      BY DEF NumbersInv
    <2>2. \A f \in Editors : Replace(f) => c(f) \in 1..saves
      BY <1>2, <1>11 DEF Unwritten
    <2>3. \A n \in {0, Content(file), Content(disk)} : n \in Nat /\ n <= saves'
      BY <1>1, <1>6, <2>1
    <2>4. \A n \in {c(f) : f \in {g \in Editors : Replace(g)}} : n \in Nat /\ n <= saves'
      BY <1>1, <1>6, <2>2
    <2> QED
      BY <1>9, <2>3, <2>4
  <1>14. /\ Content(file') = 0 => Revision(file') = 0
         /\ Content(disk') = 0 => Revision(disk') = 0
         /\ Content(file') = Content(disk') => Revision(file') = Revision(disk')
    <2>1. CASE file' = file
      BY <2>1, DiskStep DEF NumbersInv
    <2>2. CASE Crash
      BY <2>2 DEF Crash, NumbersInv
    <2>3. CASE \E e \in Editors : Persist(e)
      BY <2>3, PersistWrites, Values DEF NumbersInv
    <2>4. ASSUME NEW e \in Editors, Replace(e) PROVE Content(file') \notin {0, Content(disk)} /\ disk' = disk
      BY <1>10, <1>11, <2>4, ReplaceWrites
    <2> QED
      BY <2>1, <2>2, <2>3, <2>4, FileStep DEF NumbersInv
  <1> QED
    BY <1>7, <1>8, <1>12, <1>13, <1>14 DEF NumbersInv

-----------------------------------------------------------------------------
(***************************************************************************)
(* What the editors know.                                                  *)
(***************************************************************************)
\* A file without a document stands for the default one.
Same(stored, other) == Revision(stored) = Revision(other) /\ Content(stored) = Content(other)

LEMMA ViewStep ==
  ASSUME Sound, [Next]_vars, NEW f \in Editors
  PROVE  viewed'[f] = viewed[f] \/ (viewed'[f] # None /\ Same(viewed'[f], file'))
  <1>1. viewed \in [Editors -> Documents \cup {None}]
    BY DEF Sound, TypeOK
  <1>2. ASSUME NEW e \in Editors, Open(e)
        PROVE  \/ viewed' = viewed
               \/ \E d : viewed' = [viewed EXCEPT ![e] = d] /\ d # None /\ Same(d, file')
    <2>1. CASE IsOld(file)
      BY <1>2, <2>1 DEF Open
    <2>2. CASE ~IsOld(file) /\ file = None
      <3>1. viewed' = [viewed EXCEPT ![e] = Default] /\ file' = None
        BY <1>2, <2>2 DEF Open
      <3>2. Same(Default, None)
        BY Values DEF Same
      <3> QED
        BY <3>1, <3>2, Constants
    <2>3. CASE ~IsOld(file) /\ file # None
      <3>1. viewed' = [viewed EXCEPT ![e] = file] /\ file' = file
        BY <1>2, <2>3 DEF Open
      <3> QED
        BY <2>3, <3>1 DEF Same
    <2> QED
      BY <2>1, <2>2, <2>3
  <1>3. ASSUME NEW e \in Editors, Persist(e)
        PROVE  viewed' = viewed \/ (viewed' = [viewed EXCEPT ![e] = Default] /\ file' = Default)
    <2>1. handlers[e].payload = Old
      BY <1>3, HandlerOf DEF Persist, At, HandlerInv, Migrating
    <2> QED
      BY <1>3, <2>1, Constants DEF Persist
  <1>4. ASSUME NEW e \in Editors, Synchronize(e) \/ PassOver(e)
        PROVE  viewed' = [viewed EXCEPT ![e] = file] /\ file' = file /\ file # None
    <2>1. file = Document(2, StoredRevision(e) + 1, handlers[e].content)
      BY <1>4, HandlerOf DEF Synchronize, PassOver, At, HandlerInv
    <2>2. StoredRevision(e) \in Nat /\ handlers[e].content \in Nat
      BY HandlerOf, Stored, RevisionType DEF Handler
    <2> QED
      BY <1>4, <2>1, <2>2, DocumentType DEF Synchronize, PassOver
  <1>5. \/ viewed' = viewed
        \/ \E e \in Editors : Open(e) \/ Persist(e) \/ Synchronize(e) \/ PassOver(e)
    BY DEF Next, Handle, vars, WriteBack, WriteBackCopy, Crash, AskRead, AskSave, Lock, HasBackup, OpenBackup, CopyBackup,
           RefuseStale, Accept, Replace, Fail
  <1> QED
    BY <1>1, <1>2, <1>3, <1>4, <1>5, Constants DEF Same

\* The steps that are not a loss.
LEMMA FileOnwards ==
  ASSUME Sound, NumbersInv, HistoryNext, ~lost'
  PROVE  Same(file', file) \/ \E e \in Editors : Replace(e)
  <1>1. ~LosesSave /\ Next
    BY DEF HistoryNext
  <1>2. CASE file' = file
    BY <1>2 DEF Same
  <1>3. CASE Crash
    <2>1. file' = disk /\ crashes' # crashes
      BY <1>3 DEF Crash, Sound, TypeOK
    <2>2. Content(file') = Content(file)
      BY <1>1, <2>1 DEF LosesSave
    <2> QED
      BY <2>1, <2>2 DEF Same, NumbersInv
  <1>4. ASSUME NEW e \in Editors, Persist(e) PROVE Same(file', file)
    <2>1. CASE handlers[e].saving
      BY <1>4, <2>1, PersistWrites, Values DEF Same
    <2>2. CASE ~handlers[e].saving
      <3>1. MigratesLate
        BY <1>4, <2>2, IdleHandler DEF Persist, MigratesLate, End, Sound, TypeOK
      <3>2. Content(file') = Content(file) /\ file' = Default
        BY <1>1, <1>4, <3>1, PersistWrites DEF LosesSave
      <3> QED
        BY <3>2, Values DEF Same, NumbersInv
    <2> QED
      BY <2>1, <2>2
  <1> QED
    BY <1>1, <1>2, <1>3, <1>4, FileStep

LEMMA KnownInitially == HistoryInit => KnownInv
  BY IdleHandler DEF HistoryInit, Init, KnownInv

LEMMA KnownStep == Sound /\ NumbersInv /\ KnownInv /\ [HistoryNext]_<<vars, torn, lost>> => KnownInv'
  <1> SUFFICES ASSUME Sound, NumbersInv, KnownInv, [HistoryNext]_<<vars, torn, lost>> PROVE KnownInv'
    OBVIOUS
  <1>1. CASE UNCHANGED <<vars, torn, lost>>
    BY <1>1 DEF KnownInv, vars
  <1>2. CASE HistoryNext
    <2> SUFFICES ASSUME ~lost' PROVE KnownInv'
      BY DEF KnownInv
    <2>1. ~lost /\ [Next]_vars /\ Sound'
      BY <1>2, SoundStep DEF HistoryNext
    <2>2. \A d \in Documents : Behind(d, file) => Behind(d, file')
      <3> SUFFICES ASSUME NEW d \in Documents, Behind(d, file) PROVE Behind(d, file')
        OBVIOUS
      <3>1. d.revision \in Nat /\ Revision(file) \in Nat
        BY RevisionType DEF Documents, Sound, TypeOK
      <3>2. CASE Same(file', file)
        BY <3>2 DEF Same, Behind
      <3>3. CASE \E e \in Editors : Replace(e)
        BY <3>1, <3>3, ReplaceWrites DEF Behind
      <3> QED
        BY <1>2, <3>2, <3>3, FileOnwards
    <2>3. ASSUME NEW e \in Editors, viewed'[e] # None PROVE Behind(viewed'[e], file')
      <3>1. CASE viewed'[e] = viewed[e]
        BY <2>1, <2>2, <2>3, <3>1 DEF KnownInv, Sound, TypeOK
      <3>2. CASE Same(viewed'[e], file')
        <4>1. Revision(viewed'[e]) = viewed'[e].revision /\ Content(viewed'[e]) = viewed'[e].content
          BY <2>3 DEF Revision, Content
        <4>2. Revision(file') \in Nat
          BY <2>1, RevisionType DEF Sound, TypeOK
        <4> QED
          BY <3>2, <4>1, <4>2 DEF Behind, Same
      <3> QED
        BY <2>1, <3>1, <3>2, ViewStep
    <2>4. ASSUME NEW e \in Editors, handlers'[e].saving PROVE Behind(handlers'[e].base, file')
      <3>1. CASE AskSave(e)
        <4>1. handlers'[e].base = viewed[e] /\ viewed[e] # None
          BY <3>1 DEF AskSave, Idle, Sound, TypeOK
        <4> QED
          BY <2>1, <2>2, <4>1 DEF KnownInv, Sound, TypeOK
      <3>2. CASE handlers[e].saving /\ handlers'[e].base = handlers[e].base
        <4>1. handlers[e].base \in Documents
          BY <3>2, HandlerOf DEF HandlerInv, Handler
        <4> QED
          BY <2>1, <2>2, <3>2, <4>1 DEF KnownInv
      <3> QED
        BY <2>1, <2>4, <3>1, <3>2, SavingStep
    <2> QED
      BY <2>3, <2>4 DEF KnownInv
  <1> QED
    BY <1>1, <1>2

\* The invariant of the history without its copy.
LEMMA HistoryStep == [HistoryNext]_<<vars, torn, lost>> => [Next]_vars
  BY DEF HistoryNext, vars

LEMMA OverwritingStep ==
  ASSUME Sound, NumbersInv, KnownInv, HistoryNext
  PROVE  \/ Content(file') = Content(file)
         \/ \E e \in Editors : At(e, "replacing") /\ handlers[e].base.content = Content(file)
         \/ lost'
  <1> SUFFICES ASSUME ~lost', ~Same(file', file)
               PROVE  \E e \in Editors : At(e, "replacing") /\ handlers[e].base.content = Content(file)
    BY DEF Same
  <1>1. PICK e \in Editors : Replace(e)
    BY FileOnwards
  <1>2. handlers[e].saving /\ At(e, "replacing") /\ handlers[e].base.revision = Revision(file)
    BY <1>1, ReplaceWrites DEF At
  <1>3. Behind(handlers[e].base, file)
    BY <1>2 DEF KnownInv, HistoryNext
  <1> QED
    BY <1>2, <1>3 DEF Behind

(***************************************************************************)
(* Content gives way only to a save that was made from it, whatever the    *)
(* other editors do between the reading and the saving, until a save has   *)
(* been lost.                                                              *)
(***************************************************************************)
THEOREM EditsKept == HistorySpec => EditsAreNotOverwritten
  <1>1. HistoryInit => Sound /\ NumbersInv /\ KnownInv
    BY SoundInitially, NumbersInitially, KnownInitially DEF HistoryInit
  <1>2. Sound /\ NumbersInv /\ KnownInv /\ [HistoryNext]_<<vars, torn, lost>>
           => (Sound /\ NumbersInv /\ KnownInv)'
    BY SoundStep, NumbersStep, KnownStep, HistoryStep
  <1>3. Sound /\ NumbersInv /\ KnownInv /\ [HistoryNext]_<<vars, torn, lost>>
           => [\/ Content(file') = Content(file)
               \/ \E e \in Editors : At(e, "replacing") /\ handlers[e].base.content = Content(file)
               \/ lost']_<<vars, lost>>
    BY OverwritingStep
  <1> QED
    BY <1>1, <1>2, <1>3, PTL DEF HistorySpec, EditsAreNotOverwritten

-----------------------------------------------------------------------------
(***************************************************************************)
(* What is on the disk.  Where nothing is migrated, the revision of the    *)
(* file only grows but for a crash, which leaves what was synchronized.    *)
(***************************************************************************)
LEMMA SyncStep ==
  ASSUME Sound, [Next]_vars
  PROVE  synced' = synced \/ (synced' = Revision(file) /\ file' = file /\ disk' = file)
  <1>1. ASSUME NEW e \in Editors, Synchronize(e) PROVE synced' = Revision(file) /\ file' = file /\ disk' = file
    <2>1. file = Document(2, StoredRevision(e) + 1, handlers[e].content)
      BY <1>1, HandlerOf DEF Synchronize, At, HandlerInv
    <2>2. StoredRevision(e) \in Nat /\ handlers[e].content \in Nat
      BY HandlerOf, Stored, RevisionType DEF Handler
    <2> QED
      BY <1>1, <2>1, <2>2, DocumentType DEF Synchronize, Revision
  <1>2. synced' = synced \/ \E e \in Editors : Synchronize(e)
    BY DEF Next, Handle, vars, WriteBack, WriteBackCopy, Crash, AskRead, AskSave, Open, Lock, HasBackup, OpenBackup, CopyBackup,
           Persist, RefuseStale, Accept, Replace, PassOver, Fail
  <1> QED
    BY <1>1, <1>2

LEMMA SyncedInitially == Init => SyncedInv
  <1> SUFFICES ASSUME Init PROVE SyncedInv
    OBVIOUS
  <1>1. file \in {None, Old, Default} /\ disk = file /\ synced = 0
    BY DEF Init, Originals, Old
  <1> QED
    BY <1>1, Values DEF SyncedInv

LEMMA SyncedStep == Sound /\ SyncedInv /\ [Next]_vars => SyncedInv'
  <1> SUFFICES ASSUME Sound, SyncedInv, [Next]_vars, original' # Old PROVE SyncedInv'
    BY DEF SyncedInv
  <1>1. original' = original
    BY DEF Next, Handle, vars, WriteBack, WriteBackCopy, Crash, AskRead, AskSave, Open, Lock, HasBackup, OpenBackup, CopyBackup,
           Persist, RefuseStale, Accept, Replace, Synchronize, PassOver, Fail
  <1>2. /\ synced <= Revision(disk) /\ Revision(disk) <= Revision(file)
        /\ synced \in Nat /\ Revision(disk) \in Nat /\ Revision(file) \in Nat
    BY <1>1, RevisionType DEF SyncedInv, Sound, TypeOK
  <1>3. ~ \E e \in Editors : Persist(e)
    BY <1>1, HandlerOf DEF Persist, At, HandlerInv, Migrating
  <1>4. CASE file' = file
    BY <1>2, <1>4, SyncStep, DiskStep DEF SyncedInv
  <1>5. CASE Crash
    <2>1. file' = disk /\ disk' = disk /\ synced' = synced
      BY <1>5 DEF Crash
    <2> QED
      BY <1>2, <2>1 DEF SyncedInv
  <1>6. ASSUME NEW e \in Editors, Replace(e) PROVE SyncedInv'
    <2>1. Revision(file') = Revision(file) + 1 /\ disk' = disk /\ synced' = synced
      BY <1>6, ReplaceWrites DEF Replace
    <2> QED
      BY <1>2, <2>1 DEF SyncedInv
  <1> QED
    BY <1>3, <1>4, <1>5, <1>6, FileStep

(***************************************************************************)
(* A save whose directory was synchronized before its answer survives the  *)
(* machine going down, for a file that was not of the old schema.          *)
(***************************************************************************)
THEOREM SavesSurvive == HistorySpec => []SynchronizedSavesSurvive
  <1>1. HistoryInit => Sound /\ SyncedInv
    BY SoundInitially, SyncedInitially DEF HistoryInit
  <1>2. Sound /\ SyncedInv /\ [HistoryNext]_<<vars, torn, lost>> => (Sound /\ SyncedInv)'
    BY SoundStep, SyncedStep, HistoryStep
  <1>3. Sound /\ SyncedInv => SynchronizedSavesSurvive
    <2> SUFFICES ASSUME Sound, SyncedInv, synced > 0, ~IsOld(original)
                 PROVE  disk # None /\ disk.revision >= synced
      BY DEF SynchronizedSavesSurvive
    <2>1. synced <= Revision(disk) /\ synced \in Nat /\ Revision(disk) \in Nat
      BY Constants, RevisionType DEF SyncedInv, Sound, TypeOK
    <2>2. disk # None
      BY <2>1, Values
    <2> QED
      BY <2>1, <2>2 DEF Revision
  <1> QED
    BY <1>1, <1>2, <1>3, PTL DEF HistorySpec

-----------------------------------------------------------------------------
(***************************************************************************)
(* The copy of the file of the old schema.                                 *)
(***************************************************************************)
LEMMA BackupInitially == HistoryInit => BackupInv
  <1> SUFFICES ASSUME HistoryInit, original = Old PROVE BackupInv
    BY DEF BackupInv
  <1>1. \A e \in Editors : handlers[e].pc = "idle"
    BY IdleHandler DEF HistoryInit, Init
  <1> QED
    BY <1>1, Constants DEF HistoryInit, Init, BackupInv

\* Only one request is at work on the copy or on the file.
LEMMA Alone ==
  ASSUME Sound, NEW e \in Editors, NEW f \in Editors,
         handlers[e].pc \in Migrating \cup Comparing, handlers[f].pc \in Migrating \cup Comparing
  PROVE  e = f
  BY DEF Sound, LockInv

LEMMA CopyStep ==
  ASSUME Sound, Next
  PROVE  \/ backup' = backup
         \/ Crash
         \/ \E e \in Editors : OpenBackup(e) \/ CopyBackup(e)
  BY DEF Next, Handle, WriteBack, WriteBackCopy, AskRead, AskSave, Open, Lock, HasBackup, Persist, RefuseStale,
         Accept, Replace, Synchronize, PassOver, Fail

LEMMA CrashCount == Next /\ ~Crash => crashes' = crashes
  BY DEF Next, Handle, WriteBack, WriteBackCopy, AskRead, AskSave, Open, Lock, HasBackup, OpenBackup, CopyBackup,
         Persist, RefuseStale, Accept, Replace, Synchronize, PassOver, Fail

\* How a request comes to copy or to persist, and how it goes on from there.
LEMMA MigratingStep ==
  ASSUME Sound, Next, NEW f \in Editors
  PROVE  /\ handlers'[f].pc = "copying" => OpenBackup(f) \/ handlers[f].pc = "copying"
         /\ handlers'[f].pc = "persisting" => HasBackup(f) \/ CopyBackup(f) \/ handlers[f].pc = "persisting"
         /\ handlers[f].pc = "copying" => handlers'[f].pc = "copying" \/ CopyBackup(f) \/ handlers'[f].pc = "idle"
  <1>1. handlers \in [Editors -> Handler]
    BY DEF Sound, TypeOK
  <1>2. CASE WriteBack \/ WriteBackCopy
    BY <1>2 DEF WriteBack, WriteBackCopy
  <1>3. CASE Crash
    BY <1>3, IdleHandler DEF Crash
  <1>4. ASSUME NEW e \in Editors, e # f, AskRead(e) \/ AskSave(e) \/ Handle(e) PROVE handlers'[f] = handlers[f]
    BY <1>1, <1>4 DEF Handle, Goto, End, AskRead, AskSave, Open, Lock, HasBackup, OpenBackup, CopyBackup,
                      Persist, RefuseStale, Accept, Replace, Synchronize, PassOver, Fail
  <1>5. CASE AskRead(f) \/ AskSave(f) \/ Open(f) \/ Lock(f)
    <2>1. CASE AskRead(f)
      BY <1>1, <2>1 DEF AskRead, Goto, At, Handler
    <2>2. CASE AskSave(f)
      BY <1>1, <2>2 DEF AskSave, At, Handler, Idle
    <2>3. CASE Open(f)
      <3>1. CASE IsOld(file)
        BY <1>1, <2>3, <3>1 DEF Open, At, Handler
      <3>2. CASE ~IsOld(file)
        BY <1>1, <2>3, <3>2, IdleHandler DEF Open, End, At
      <3> QED
        BY <3>1, <3>2
    <2>4. CASE Lock(f)
      <3>1. handlers'[f].pc \in {"backing up", "comparing"} /\ handlers[f].pc = "locking"
        BY <1>1, <2>4 DEF Lock, At, Handler
      <3> QED
        BY <3>1
    <2> QED
      BY <1>5, <2>1, <2>2, <2>3, <2>4
  <1>6. CASE HasBackup(f) \/ OpenBackup(f) \/ CopyBackup(f)
    BY <1>1, <1>6 DEF HasBackup, OpenBackup, CopyBackup, Goto, At, Handler
  <1>7. CASE Persist(f)
    BY <1>1, <1>7, IdleHandler DEF Persist, End, At, Handler
  <1>8. CASE RefuseStale(f) \/ Synchronize(f) \/ PassOver(f) \/ Fail(f)
    BY <1>1, <1>8, IdleHandler DEF RefuseStale, Synchronize, PassOver, Fail, End
  <1>9. CASE Accept(f) \/ Replace(f)
    BY <1>1, <1>9 DEF Accept, Replace, Goto, At, Handler
  <1> QED
    BY <1>2, <1>3, <1>4, <1>5, <1>6, <1>7, <1>8, <1>9 DEF Next, Handle

LEMMA BackupStep == Sound /\ BackupInv /\ [HistoryNext]_<<vars, torn, lost>> => BackupInv'
  <1> SUFFICES ASSUME Sound, BackupInv, HistoryNext, original' = Old, ~torn' PROVE BackupInv'
    BY DEF BackupInv, vars
  <1>1. Next /\ ~torn /\ ~FillsDisk /\ ~LosesCopy /\ original = Old
    BY DEF HistoryNext, Next, Handle, WriteBack, WriteBackCopy, Crash, AskRead, AskSave, Open, Lock, HasBackup, OpenBackup,
           CopyBackup, Persist, RefuseStale, Accept, Replace, Synchronize, PassOver, Fail
  <1>2. /\ backup \in {None, Torn, Old} /\ spare \in {None, Torn, Old}
        /\ backup # Old => file = Old /\ disk = Old
        /\ \A e \in Editors : handlers[e].pc = "copying" => backup = Torn
        /\ backup = Torn => \E e \in Editors : handlers[e].pc = "copying"
        /\ \A e \in Editors : handlers[e].pc = "persisting" => backup = Old
    BY <1>1 DEF BackupInv
  <1>6. spare' = spare \/ spare' = backup
    BY <1>1 DEF Next, Handle, WriteBack, WriteBackCopy, Crash, AskRead, AskSave, Open, Lock, HasBackup,
                OpenBackup, CopyBackup, Persist, RefuseStale, Accept, Replace, Synchronize, PassOver, Fail
  \* Making the copy.
  <1>3. ASSUME NEW e \in Editors, OpenBackup(e) PROVE BackupInv'
    <2>1. /\ backup = None /\ backup' = Torn /\ UNCHANGED <<file, disk>>
          /\ handlers[e].pc = "backing up" /\ handlers'[e].pc = "copying"
      BY <1>3 DEF OpenBackup, Goto, At, Sound, TypeOK, Handler
    <2>2. file = Old /\ disk = Old
      BY <1>2, <2>1, Constants
    <2>3. \A f \in Editors : handlers'[f].pc # "persisting"
      <3> SUFFICES ASSUME NEW f \in Editors, handlers'[f].pc = "persisting" PROVE FALSE
        OBVIOUS
      <3>1. handlers[f].pc \in Migrating
        BY <1>1, MigratingStep DEF HasBackup, CopyBackup, At, Migrating
      <3>2. f = e
        BY <2>1, <3>1, Alone DEF Migrating
      <3> QED
        BY <2>1, <3>2
    <2> QED
      BY <1>2, <1>6, <2>1, <2>2, <2>3, Constants DEF BackupInv
  <1>4. ASSUME NEW e \in Editors, CopyBackup(e) PROVE BackupInv'
    <2>1. /\ backup' = file /\ UNCHANGED <<file, disk>>
          /\ handlers[e].pc = "copying" /\ handlers'[e].pc = "persisting"
      BY <1>4 DEF CopyBackup, Goto, At, Sound, TypeOK, Handler
    <2>2. backup' = Old
      BY <1>2, <2>1, Constants
    <2>3. \A f \in Editors : handlers'[f].pc # "copying"
      <3> SUFFICES ASSUME NEW f \in Editors, handlers'[f].pc = "copying" PROVE FALSE
        OBVIOUS
      <3>1. handlers[f].pc \in Migrating
        BY <1>1, MigratingStep DEF OpenBackup, At, Migrating
      <3>2. f = e
        BY <2>1, <3>1, Alone DEF Migrating
      <3> QED
        BY <2>1, <3>2
    <2> QED
      BY <1>2, <1>6, <2>2, <2>3, Constants DEF BackupInv
  \* The copy stays as it is.
  <1>5. CASE backup' = backup /\ ~Crash /\ ~ \E e \in Editors : OpenBackup(e) \/ CopyBackup(e)
    <2>1. ASSUME NEW f \in Editors, handlers'[f].pc = "copying" PROVE backup' = Torn
      BY <1>1, <1>2, <1>5, <2>1, MigratingStep
    <2>2. ASSUME NEW f \in Editors, handlers'[f].pc = "persisting" PROVE backup' = Old
      <3>1. CASE handlers[f].pc = "persisting"
        BY <1>2, <1>5, <3>1
      <3>2. CASE HasBackup(f)
        <4>1. handlers[f].pc = "backing up" /\ backup # None
          BY <3>2 DEF HasBackup, At
        <4>2. backup # Torn
          BY <1>2, <4>1, Alone DEF Migrating
        <4> QED
          BY <1>2, <1>5, <4>1, <4>2
      <3> QED
        BY <1>1, <1>5, <2>2, <3>1, <3>2, MigratingStep
    <2>3. ASSUME backup' = Torn PROVE \E f \in Editors : handlers'[f].pc = "copying"
      <3>1. PICK f \in Editors : handlers[f].pc = "copying"
        BY <1>2, <1>5, <2>3
      <3>2. handlers'[f].pc # "idle"
        BY <1>1, <1>5, <3>1, CrashCount DEF FillsDisk, At
      <3> QED
        BY <1>1, <1>5, <3>1, <3>2, MigratingStep
    <2>4. ASSUME backup' # Old PROVE file' = Old /\ disk' = Old
      <3>1. file = Old /\ disk = Old
        BY <1>2, <1>5, <2>4
      <3>2. ~ \E e \in Editors : Persist(e)
        BY <1>2, <1>5, <2>4 DEF Persist, At
      <3>3. ~ \E e \in Editors : Replace(e)
        BY <3>1, ReplaceWrites
      <3>4. file' = Old
        BY <1>1, <1>5, <3>1, <3>2, <3>3, FileStep
      <3> QED
        BY <1>1, <3>1, <3>4, DiskStep
    <2> QED
      BY <1>2, <1>5, <1>6, <2>1, <2>2, <2>3, <2>4 DEF BackupInv
  \* The machine goes down: a copy that is not on the disk is lost, but not after the migration.
  <1>7. CASE Crash
    <2>1. backup' = spare /\ file' = disk /\ disk' = disk /\ crashes' # crashes
      BY <1>7 DEF Crash, Sound, TypeOK
    <2>2. \A e \in Editors : handlers'[e].pc = "idle"
      BY <1>7, IdleHandler DEF Crash
    <2>3. backup' # Torn /\ (backup' = backup \/ IsOld(file'))
      BY <1>1, <2>1 DEF LosesCopy
    <2>4. backup' # Old => file' = Old /\ disk' = Old
      BY <1>2, <2>1, <2>3 DEF Sound, OldInv
    <2> QED
      BY <1>2, <1>6, <2>1, <2>2, <2>3, <2>4 DEF BackupInv
  <1> QED
    BY <1>1, <1>3, <1>4, <1>5, <1>7, CopyStep

(***************************************************************************)
(* Once a workflow of the old schema has been migrated, the copy is what   *)
(* it was, unless it was left incomplete by a full disk or lost with the   *)
(* machine: no migration overwrites a copy with a file that was already    *)
(* migrated.                                                               *)
(***************************************************************************)
THEOREM OriginalKept == HistorySpec => []OriginalIsKept
  <1>1. HistoryInit => Sound /\ BackupInv
    BY SoundInitially, BackupInitially DEF HistoryInit
  <1>2. Sound /\ BackupInv /\ [HistoryNext]_<<vars, torn, lost>> => (Sound /\ BackupInv)'
    BY SoundStep, BackupStep, HistoryStep
  <1>3. Sound /\ BackupInv => OriginalIsKept
    <2> SUFFICES ASSUME Sound, BackupInv, IsOld(original), ~IsOld(file), ~torn PROVE backup = original
      BY DEF OriginalIsKept
    <2>1. original = Old
      BY Constants DEF Sound, TypeOK, Originals, Old, IsOld
    <2> QED
      BY <2>1, Constants DEF BackupInv
  <1> QED
    BY <1>1, <1>2, <1>3, PTL DEF HistorySpec

-----------------------------------------------------------------------------
(***************************************************************************)
(* The validation.  Its ordering is that of WorkflowOrder, so what was     *)
(* proved of the one holds of the other.                                   *)
(***************************************************************************)
LEMMA ValidationOrders == ValidationSpec => OrderSpec
  <1>1. ValidationInit => OrderInit
    BY DEF ValidationInit
  <1>2. [ValidationNext]_validationVars => [OrderNext]_orderVars
    BY DEF ValidationNext, Validate, validationVars
  <1> QED
    BY <1>1, <1>2, PTL DEF ValidationSpec, OrderSpec

\* The workflow stays what it is, and the ordering sees what validation sees.
GraphInv ==
    /\ GraphTypeOK(graph)
    /\ workflow = View
    /\ Injective(graph.nodes)
    /\ loop # "searching" => graph.preferred = <<>>
    /\ issues # Pending => loop # "searching" /\ outcome # "ordering"

\* The nodes on the way follow one another; those that are done lead to others that are done,
\* and no loop is among them.
SearchInv ==
    /\ loop \in {"searching", "found", "none"}
    /\ visiting \in Seq(Members(graph.nodes))
    /\ Injective(visiting)
    /\ \A i \in 1..Len(visiting) : visiting[i] \notin visited
    /\ \A i \in 1..(Len(visiting) - 1) : visiting[i + 1] \in Unlimited(visiting[i])
    /\ visited \subseteq Members(graph.nodes)
    /\ \A n \in visited : Unlimited(n) \subseteq visited
    /\ \A S \in SUBSET visited : ~Unbounded(S)
    /\ loop = "found" => \E S \in SUBSET Members(graph.nodes) : Unbounded(S)
    /\ loop = "none" => visited = Members(graph.nodes)

LEMMA ViewIs ==
  ASSUME graph' = graph
  PROVE  /\ View' = View
         /\ \A n : Unlimited(n)' = Unlimited(n)
         /\ \A S : Unbounded(S)' = Unbounded(S)
         /\ GraphTypeOK(graph)' = GraphTypeOK(graph)
         /\ Injective(graph.nodes)' = Injective(graph.nodes)
  BY DEF View, Pins, DataLinks, ControlLinks, Unlimited, IsNode, Unbounded, GraphTypeOK, Injective, Members

LEMMA GraphInitially == ValidationInit => GraphInv
  <1> SUFFICES ASSUME ValidationInit PROVE GraphInv
    OBVIOUS
  <1>1. workflow \in Workflows /\ graph \in Graphs(workflow) /\ workflow = View
    BY DEF ValidationInit, OrderInit
  <1>2. workflow \in Workflow
    BY <1>1, WorkflowsAssumption
  <1>3. Injective(workflow.nodes)
    BY <1>2, NodesFinite
  <1>4. workflow.nodes = graph.nodes
    BY <1>1 DEF View
  <1> QED
    BY <1>1, <1>3, <1>4, GraphsAssumption DEF GraphInv, ValidationInit

LEMMA GraphStep == GraphInv /\ [ValidationNext]_validationVars => GraphInv'
  <1> SUFFICES ASSUME GraphInv, [ValidationNext]_validationVars PROVE GraphInv'
    OBVIOUS
  <1>1. graph' = graph /\ workflow' = workflow
    BY DEF ValidationNext, Validate, Return, TakeFirst, OrderNext, validationVars, orderVars
  <1>2. issues' # Pending => loop' # "searching" /\ outcome' # "ordering"
    BY DEF GraphInv, ValidationNext, Validate, Return, TakeFirst, OrderNext, validationVars, orderVars, searchVars,
       Search, Searching, Enter, Meet, Leave, Exhaust
  <1>3. loop' # "searching" => graph.preferred = <<>>
    BY DEF GraphInv, ValidationNext, Validate, validationVars, searchVars, Search, Searching, Enter, Meet, Leave, Exhaust
  <1> QED
    BY <1>1, <1>2, <1>3, ViewIs DEF GraphInv

LEMMA GraphKept == ValidationSpec => []GraphInv
  BY GraphInitially, GraphStep, PTL DEF ValidationSpec

LEMMA Successors ==
  ASSUME GraphInv, NEW n
  PROVE  Unlimited(n) \subseteq Members(graph.nodes)
  BY DEF Unlimited, IsNode

\* A set of nodes from which one never comes out.
LEMMA UnboundedMeans ==
  ASSUME GraphInv, NEW S \in SUBSET Members(graph.nodes)
  PROVE  Unbounded(S) <=> S # {} /\ \A n \in S : Unlimited(n) \cap S # {}
  <1>1. \A l \in ControlLinks : l \in graph.links /\ l.limited \in BOOLEAN
    BY DEF ControlLinks, GraphInv, GraphTypeOK, Links
  <1>2. ASSUME Unbounded(S), NEW n \in S PROVE Unlimited(n) \cap S # {}
    <2>1. PICK l \in ControlLinks : l.source = n /\ l.target \in S /\ ~l.limited
      BY <1>2 DEF Unbounded
    <2>2. l.target \in Unlimited(n)
      BY <2>1 DEF Unlimited, IsNode
    <2> QED
      BY <2>1, <2>2
  <1>3. ASSUME S # {}, \A n \in S : Unlimited(n) \cap S # {} PROVE Unbounded(S)
    <2>1. \A n \in S : \E l \in ControlLinks : l.source = n /\ l.target \in S /\ ~l.limited
      BY <1>3 DEF Unlimited
    <2> QED
      BY <1>3, <2>1 DEF Unbounded
  <1> QED
    BY <1>2, <1>3 DEF Unbounded

LEMMA SearchInitially == ValidationInit => SearchInv
  BY DEF ValidationInit, SearchInv, Injective, Unbounded

LEMMA EnterKeeps == ASSUME GraphInv, SearchInv, Enter, graph' = graph PROVE SearchInv'
  <1>1. PICK n \in Ahead : n \notin visited /\ n \notin Members(visiting) /\ visiting' = Append(visiting, n)
    BY DEF Enter
  <1>2. visited' = visited /\ loop' = loop
    BY DEF Enter
  <1>3. Len(visiting) \in Nat
    BY DEF SearchInv
  <1>4. n \in Members(graph.nodes)
    BY <1>1, Successors DEF Ahead, Roots
  <1>5. /\ Len(visiting') = Len(visiting) + 1
        /\ visiting'[Len(visiting) + 1] = n
        /\ \A i \in 1..Len(visiting) : visiting'[i] = visiting[i]
        /\ visiting' \in Seq(Members(graph.nodes))
    BY <1>1, <1>4 DEF SearchInv
  <1>6. Injective(visiting')
    BY <1>1, <1>3, <1>5 DEF SearchInv, Injective, Members
  <1>7. \A i \in 1..Len(visiting') : visiting'[i] \notin visited
    BY <1>1, <1>3, <1>5 DEF SearchInv
  <1>8. \A i \in 1..(Len(visiting') - 1) : visiting'[i + 1] \in Unlimited(visiting'[i])
    <2> SUFFICES ASSUME NEW i \in 1..(Len(visiting') - 1) PROVE visiting'[i + 1] \in Unlimited(visiting'[i])
      OBVIOUS
    <2>1. i \in 1..Len(visiting)
      BY <1>3, <1>5
    <2>2. CASE i = Len(visiting)
      <3>1. visiting # <<>>
        BY <2>1, <2>2
      <3> QED
        BY <1>1, <1>5, <2>1, <2>2, <3>1 DEF Ahead, Current
    <2>3. CASE i # Len(visiting)
      <3>1. i \in 1..(Len(visiting) - 1) /\ i + 1 \in 1..Len(visiting)
        BY <1>3, <2>1, <2>3
      <3> QED
        BY <1>5, <2>1, <3>1 DEF SearchInv
    <2> QED
      BY <2>2, <2>3
  <1> QED
    BY <1>2, <1>5, <1>6, <1>7, <1>8, ViewIs DEF SearchInv

LEMMA MeetKeeps == ASSUME GraphInv, SearchInv, Meet, graph' = graph PROVE SearchInv'
  <1>1. PICK m \in Ahead : m \in Members(visiting)
    BY DEF Meet
  <1>2. visiting' = visiting /\ visited' = visited /\ loop' = "found"
    BY DEF Meet
  <1>3. PICK k \in 1..Len(visiting) : visiting[k] = m
    BY <1>1 DEF Members
  <1>4. Len(visiting) \in Nat /\ visiting # <<>>
    BY <1>3 DEF SearchInv
  <1> DEFINE S == {visiting[i] : i \in k..Len(visiting)}
  <1>5. S \in SUBSET Members(graph.nodes)
    BY <1>3, <1>4 DEF SearchInv
  <1>6. m \in S
    BY <1>3, <1>4
  <1>7. ASSUME NEW n \in S PROVE Unlimited(n) \cap S # {}
    <2>1. PICK i \in k..Len(visiting) : visiting[i] = n
      BY <1>7
    <2>2. CASE i = Len(visiting)
      BY <1>1, <1>4, <1>6, <2>1, <2>2 DEF Ahead, Current
    <2>3. CASE i # Len(visiting)
      <3>1. i \in 1..(Len(visiting) - 1) /\ i + 1 \in k..Len(visiting)
        BY <1>3, <1>4, <2>1, <2>3
      <3>2. visiting[i + 1] \in Unlimited(n) /\ visiting[i + 1] \in S
        BY <2>1, <3>1 DEF SearchInv
      <3> QED
        BY <3>2
    <2> QED
      BY <2>2, <2>3
  <1>8. Unbounded(S)
    <2> HIDE DEF S
    <2> QED
      BY <1>5, <1>6, <1>7, UnboundedMeans
  <1>9. \E T \in SUBSET Members(graph.nodes) : Unbounded(T)
    BY <1>5, <1>8
  <1> QED
    BY <1>2, <1>9, ViewIs DEF SearchInv

\* A sequence without its last element.
LEMMA Shorter ==
  ASSUME NEW T, NEW s \in Seq(T), s # <<>>
  PROVE  /\ SubSeq(s, 1, Len(s) - 1) \in Seq(T)
         /\ Len(SubSeq(s, 1, Len(s) - 1)) = Len(s) - 1
         /\ \A i \in 1..(Len(s) - 1) : SubSeq(s, 1, Len(s) - 1)[i] = s[i]
  <1> DEFINE k == Len(s) - 1
  <1>1. Len(s) \in Nat /\ k \in Int /\ k \in Nat /\ 1 \in Int /\ \A i \in 1..k : s[i] \in T
    OBVIOUS
  <1>2. /\ SubSeq(s, 1, k) \in Seq(T)
        /\ Len(SubSeq(s, 1, k)) = IF 1 <= k THEN k - 1 + 1 ELSE 0
        /\ \A i \in 1..(k - 1 + 1) : SubSeq(s, 1, k)[i] = s[1 + i - 1]
    <2> HIDE DEF k
    <2> QED
      BY <1>1, SubSeqProperties
  <1> HIDE DEF k
  <1>3. Len(SubSeq(s, 1, k)) = k /\ \A i \in 1..k : SubSeq(s, 1, k)[i] = s[i]
    BY <1>1, <1>2
  <1> QED
    BY <1>2, <1>3 DEF k

LEMMA LeaveKeeps == ASSUME GraphInv, SearchInv, Leave, graph' = graph PROVE SearchInv'
  <1> DEFINE n == visiting[Len(visiting)]
  <1>1. /\ visiting # <<>> /\ Unlimited(n) \subseteq visited
        /\ visited' = visited \cup {n} /\ loop' = loop /\ loop = "searching"
        /\ visiting' = SubSeq(visiting, 1, Len(visiting) - 1)
    BY DEF Leave, Ahead, Current, Searching
  <1>2. Len(visiting) \in Nat /\ Len(visiting) \in 1..Len(visiting)
    BY <1>1 DEF SearchInv
  <1>3. n \in Members(graph.nodes) /\ n \notin visited
    BY <1>2 DEF SearchInv
  <1>4. /\ visiting' \in Seq(Members(graph.nodes))
        /\ Len(visiting') = Len(visiting) - 1
        /\ \A i \in 1..(Len(visiting) - 1) : visiting'[i] = visiting[i]
    BY <1>1, Shorter DEF SearchInv
  <1>5. Injective(visiting')
    BY <1>2, <1>4 DEF SearchInv, Injective
  <1>6. \A i \in 1..Len(visiting') : visiting'[i] \notin visited'
    <2> SUFFICES ASSUME NEW i \in 1..Len(visiting') PROVE visiting'[i] \notin visited'
      OBVIOUS
    <2>1. i \in 1..Len(visiting) /\ i # Len(visiting) /\ visiting'[i] = visiting[i]
      BY <1>2, <1>4
    <2>2. visiting[i] # n
      BY <1>2, <2>1 DEF SearchInv, Injective
    <2> QED
      BY <1>1, <2>1, <2>2 DEF SearchInv
  <1>7. \A i \in 1..(Len(visiting') - 1) : visiting'[i + 1] \in Unlimited(visiting'[i])
    <2> SUFFICES ASSUME NEW i \in 1..(Len(visiting') - 1) PROVE visiting'[i + 1] \in Unlimited(visiting'[i])
      OBVIOUS
    <2>1. i \in 1..(Len(visiting) - 1) /\ i + 1 \in 1..(Len(visiting) - 1)
      BY <1>2, <1>4
    <2> QED
      BY <1>4, <2>1 DEF SearchInv
  <1> HIDE DEF n
  <1>8. \A m \in visited' : Unlimited(m) \subseteq visited'
    BY <1>1 DEF SearchInv
  <1>9. ASSUME NEW S \in SUBSET visited', Unbounded(S) PROVE FALSE
    <2> DEFINE T == S \ {n}
    <2>1. S \in SUBSET Members(graph.nodes) /\ T \in SUBSET visited /\ T \in SUBSET Members(graph.nodes)
      BY <1>1, <1>3, <1>9 DEF SearchInv
    <2>2. S # {} /\ \A m \in S : Unlimited(m) \cap S # {}
      BY <1>9, <2>1, UnboundedMeans
    <2>3. \A m \in S : Unlimited(m) \subseteq visited
      BY <1>1, <1>9 DEF SearchInv
    <2>4. \A m \in S : Unlimited(m) \cap T # {}
      BY <1>3, <2>2, <2>3
    <2>5. Unbounded(T)
      <3>1. T # {}
        BY <2>2, <2>4
      <3>2. \A m \in T : Unlimited(m) \cap T # {}
        BY <2>4
      <3> HIDE DEF T
      <3> QED
        BY <2>1, <3>1, <3>2, UnboundedMeans
    <2> QED
      BY <2>1, <2>5 DEF SearchInv
  <1>10. visited' \subseteq Members(graph.nodes)
    BY <1>1, <1>3 DEF SearchInv
  <1> QED
    BY <1>1, <1>4, <1>5, <1>6, <1>7, <1>8, <1>9, <1>10, ViewIs DEF SearchInv

\* Every set of numbers has a least one, and so every set of nodes a first one.
LEMMA LeastExists == \A P \in SUBSET Nat : P # {} => \E i \in P : \A j \in P : i <= j
  <1> SUFFICES ASSUME NEW P \in SUBSET Nat, P # {} PROVE \E i \in P : \A j \in P : i <= j
    OBVIOUS
  <1> DEFINE R == OpToRel(<, Nat)
  <1>1. \A i, j \in Nat : <<i, j>> \in R <=> i < j
    BY DEF OpToRel
  <1>2. IsWellFoundedOn(R, Nat)
    BY NatLessThanWellFounded
  <1> HIDE DEF R
  <1>3. PICK i \in P : \A j \in P : ~ (<<j, i>> \in R)
    BY <1>2, WFMin
  <1>4. ASSUME NEW j \in P PROVE i <= j
    <2>1. i \in Nat /\ j \in Nat
      OBVIOUS
    <2>2. ~ (j < i)
      BY <1>1, <1>3, <2>1
    <2> QED
      BY <2>1, <2>2
  <1> QED
    BY <1>4

LEMMA FirstExists ==
  ASSUME GraphInv, NEW R \in SUBSET Members(graph.nodes), R # {}
  PROVE  \E n \in R : \A m \in R : PlaceIn(graph.nodes, n) <= PlaceIn(graph.nodes, m)
  <1> DEFINE P == {i \in 1..Len(graph.nodes) : graph.nodes[i] \in R}
  <1>1. Len(graph.nodes) \in Nat
    BY DEF GraphInv, GraphTypeOK
  <1>2. P # {} /\ P \in SUBSET Nat
    BY <1>1 DEF Members
  <1>3. \A m \in R : PlaceIn(graph.nodes, m) \in P /\ graph.nodes[PlaceIn(graph.nodes, m)] = m
    BY DEF PlaceIn, Members
  <1>4. \A i \in P : PlaceIn(graph.nodes, graph.nodes[i]) = i
    BY <1>3 DEF GraphInv, Injective
  <1>5. PICK i \in P : \A j \in P : i <= j
    <2> HIDE DEF P
    <2> QED
      BY <1>2, LeastExists
  <1> QED
    BY <1>3, <1>4, <1>5

LEMMA ExhaustKeeps == ASSUME GraphInv, SearchInv, Exhaust, graph' = graph PROVE SearchInv'
  <1>1. visiting = <<>> /\ Ahead = {} /\ UNCHANGED <<visiting, visited>> /\ loop' = "none"
    BY DEF Exhaust
  <1>2. Roots = {}
    <2>1. Roots \in SUBSET Members(graph.nodes)
      BY DEF Roots
    <2> QED
      BY <1>1, <2>1, FirstExists DEF Ahead
  <1>3. visited = Members(graph.nodes)
    BY <1>2 DEF Roots, SearchInv
  <1> QED
    BY <1>1, <1>3, ViewIs DEF SearchInv

LEMMA SearchStep == GraphInv /\ SearchInv /\ [ValidationNext]_validationVars => SearchInv'
  <1> SUFFICES ASSUME GraphInv, SearchInv, [ValidationNext]_validationVars PROVE SearchInv'
    OBVIOUS
  <1>1. CASE Search /\ graph' = graph
    BY <1>1, EnterKeeps, MeetKeeps, LeaveKeeps, ExhaustKeeps DEF Search
  <1>2. CASE UNCHANGED <<graph, searchVars>>
    BY <1>2, ViewIs DEF SearchInv, searchVars
  <1> QED
    BY <1>1, <1>2 DEF ValidationNext, Validate, validationVars

(***************************************************************************)
(* has_unbounded_cycle answers "found" if and only if some set of nodes    *)
(* activates one another for ever by control connections without a limit,  *)
(* whichever way the depth-first search takes.                             *)
(***************************************************************************)
THEOREM SearchExact ==
  ValidationSpec => [](loop # "searching" =>
                         (loop = "found" <=> \E S \in SUBSET Members(graph.nodes) : Unbounded(S)))
  <1>1. SearchInv => (loop # "searching" =>
                        (loop = "found" <=> \E S \in SUBSET Members(graph.nodes) : Unbounded(S)))
    BY DEF SearchInv
  <1>2. ValidationSpec => []SearchInv
    BY SearchInitially, SearchStep, GraphKept, PTL DEF ValidationSpec
  <1> QED
    BY <1>1, <1>2, PTL

-----------------------------------------------------------------------------
(***************************************************************************)
(* A stored order that is right.                                           *)
(***************************************************************************)
StoredIsRight ==
    /\ workflow.preferred = <<>>
    /\ Injective(workflow.execution) /\ Members(workflow.execution) = Nodes
    /\ \A j \in 1..Len(workflow.execution) : \A m \in Sources(workflow.execution[j]) :
          \E i \in 1..(j - 1) : workflow.execution[i] = m

\* What has been taken so far is the beginning of it.
StoredInv ==
    StoredIsRight =>
        \A i \in 1..Len(result) : i \in 1..Len(workflow.execution) /\ result[i] = workflow.execution[i]

LEMMA PlaceOfStored ==
  ASSUME workflow \in Workflow, StoredIsRight, NEW k \in 1..Len(workflow.execution)
  PROVE  Place(workflow.execution[k]) = k
  <1> DEFINE e == workflow.execution
             last(i) == e[i] = e[k] /\ \A j \in (i + 1)..Len(e) : e[j] # e[k]
  <1>1. e \in Seq(Ids) /\ Len(e) \in Nat /\ e # <<>>
    BY DEF Workflow
  <1>2. Preference = e
    BY <1>1 DEF Preference, StoredIsRight
  <1>3. e[k] \in Members(Preference)
    BY <1>2 DEF Members
  <1>4. last(k)
    <2> SUFFICES ASSUME NEW j \in (k + 1)..Len(e), e[j] = e[k] PROVE FALSE
      OBVIOUS
    <2>1. j \in 1..Len(e) /\ j # k
      BY <1>1
    <2> QED
      BY <2>1 DEF StoredIsRight, Injective
  <1>5. \A i \in 1..Len(e) : last(i) => i = k
    BY DEF StoredIsRight, Injective
  <1>6. Place(e[k]) = CHOOSE i \in 1..Len(e) : last(i)
    BY <1>2, <1>3 DEF Place
  <1> HIDE DEF last
  <1> QED
    BY <1>4, <1>5, <1>6

LEMMA StoredStep == IInv /\ StoredInv /\ [OrderNext]_orderVars => StoredInv'
  <1> SUFFICES ASSUME IInv, StoredInv, [OrderNext]_orderVars, StoredIsRight'
               PROVE  \A i \in 1..Len(result') : i \in 1..Len(workflow'.execution) /\ result'[i] = workflow'.execution[i]
    BY DEF StoredInv
  <1> DEFINE e == workflow.execution
  <1>1. workflow' = workflow
    BY DEF OrderNext, TakeFirst, Return, orderVars
  <1>2. StoredIsRight
    <2>1. (workflow.preferred = <<>>)' /\ Injective(workflow.execution)' /\ (Members(workflow.execution) = Nodes)'
      BY DEF StoredIsRight
    <2>2. workflow.preferred = <<>> /\ Injective(workflow.execution) /\ Members(workflow.execution) = Nodes
      <3>1. Nodes' = Nodes /\ Members(workflow.execution)' = Members(workflow.execution)
        BY <1>1 DEF Members, Nodes
      <3>2. Injective(workflow.execution)' = Injective(workflow.execution)
        BY <1>1 DEF Injective
      <3> QED
        BY <1>1, <2>1, <3>1, <3>2
    <2>3. ASSUME NEW j \in 1..Len(workflow.execution), NEW m \in Sources(workflow.execution[j])
          PROVE  \E i \in 1..(j - 1) : workflow.execution[i] = m
      <3>1. \A n : Sources(n)' = Sources(n)
        BY <1>1 DEF Sources, Dependencies, PinDependencies, Nodes, Members
      <3>2. Sources(workflow.execution[j])' = Sources(workflow.execution[j])
        BY <1>1, <3>1
      <3>3. j \in 1..Len(workflow'.execution) /\ m \in Sources(workflow.execution[j])'
        BY <1>1, <3>2
      <3>4. \E i \in 1..(j - 1) : workflow'.execution[i] = m
        BY <3>3 DEF StoredIsRight
      <3> QED
        BY <1>1, <3>4
    <2> QED
      BY <2>2, <2>3 DEF StoredIsRight
  <1>3. \A i \in 1..Len(result) : i \in 1..Len(e) /\ result[i] = e[i]
    BY <1>2 DEF StoredInv
  <1>4. CASE result' = result
    BY <1>1, <1>3, <1>4
  <1>5. CASE TakeFirst
    <2>1. PICK current \in ready :
            /\ \A n \in ready \ {current} : Precedes(current, n)
            /\ result' = Append(result, current)
      BY <1>5 DEF TakeFirst
    <2>2. /\ Len(result') = Len(result) + 1 /\ Len(result) \in Nat
          /\ result'[Len(result) + 1] = current
          /\ \A i \in 1..Len(result) : result'[i] = result[i]
      BY <2>1 DEF IInv
    <2>3. current \in Nodes /\ current \notin Members(result)
      BY <2>1 DEF IInv
    <2>4. PICK p \in 1..Len(e) : e[p] = current
      BY <2>3, <1>2 DEF StoredIsRight, Members
    <2>5. e \in Seq(Ids) /\ Len(e) \in Nat
      BY DEF IInv, Workflow
    <2> DEFINE k == Len(result) + 1
    <2>6. p \notin 1..Len(result)
      BY <1>3, <2>3, <2>4 DEF Members
    <2>7. k \in 1..Len(e) /\ k <= p
      BY <2>2, <2>4, <2>5, <2>6
    <2>8. e[k] \in Nodes
      BY <1>2, <2>7 DEF StoredIsRight, Members
    <2>9. e[k] \notin Members(result)
      <3> SUFFICES ASSUME NEW i \in 1..Len(result), result[i] = e[k] PROVE FALSE
        BY DEF Members
      <3>1. e[i] = e[k] /\ i \in 1..Len(e)
        BY <1>3
      <3> QED
        BY <1>2, <2>2, <2>7, <3>1 DEF StoredIsRight, Injective
    <2>10. Unmet(e[k]) = {}
      <3> SUFFICES ASSUME NEW m \in Sources(e[k]) PROVE m \in Members(result)
        BY DEF Unmet
      <3>1. PICK i \in 1..(k - 1) : e[i] = m
        BY <1>2, <2>7 DEF StoredIsRight
      <3>2. i \in 1..Len(result)
        BY <2>2
      <3> QED
        BY <1>3, <3>1, <3>2 DEF Members
    <2>11. e[k] \in ready
      BY <2>8, <2>9, <2>10 DEF IInv
    <2>12. e[k] = current
      <3> SUFFICES ASSUME e[k] # current PROVE FALSE
        OBVIOUS
      <3>1. Precedes(current, e[k])
        BY <2>1, <2>11
      <3>2. Place(current) = p /\ Place(e[k]) = k
        BY <1>2, <2>4, <2>7, PlaceOfStored DEF IInv
      <3> HIDE DEF k
      <3>3. p < k \/ p = k
        BY <3>1, <3>2 DEF Precedes
      <3> QED
        BY <2>4, <2>5, <2>7, <3>3
    <2> QED
      BY <1>1, <1>3, <2>2, <2>7, <2>12
  <1> QED
    BY <1>4, <1>5 DEF OrderNext, Return, orderVars

LEMMA StoredKept == OrderSpec => []StoredInv
  <1>1. OrderInit => StoredInv
    BY DEF OrderInit, StoredInv
  <1> QED
    BY <1>1, StoredStep, Inductive, PTL DEF OrderSpec

(***************************************************************************)
(* stable_topological_order is stable: when no order is preferred, a       *)
(* stored order that holds each node once, after all it depends on, is     *)
(* returned as it is.                                                      *)
(***************************************************************************)
THEOREM StoredOrderReturned ==
  OrderSpec => [](outcome = "ordered" /\ StoredIsRight => result = workflow.execution)
  <1>1. IInv /\ StoredInv => (outcome = "ordered" /\ StoredIsRight => result = workflow.execution)
    <2> SUFFICES ASSUME IInv, StoredInv, outcome = "ordered", StoredIsRight PROVE result = workflow.execution
      OBVIOUS
    <2>1. workflow.execution \in Seq(Ids) /\ Injective(workflow.execution) /\ Members(workflow.execution) = Nodes
      BY DEF IInv, Workflow, StoredIsRight
    <2>2. Len(workflow.execution) = Len(workflow.nodes)
      BY <2>1, MembersCount, NodesFinite DEF IInv
    <2>3. Len(result) = Len(workflow.execution) /\ result \in Seq(Ids)
      BY <2>2 DEF IInv, Nodes, Members, Workflow
    <2> QED
      BY <2>1, <2>3 DEF StoredInv
  <1> QED
    BY <1>1, Inductive, StoredKept, PTL

LEMMA OrderedHasAll == IInv /\ outcome = "ordered" => Members(result) = Nodes
  <1> SUFFICES ASSUME IInv, outcome = "ordered" PROVE Members(result) = Nodes
    OBVIOUS
  <1>1. IsFiniteSet(Nodes) /\ Cardinality(Nodes) = Len(workflow.nodes)
    BY NodesFinite DEF IInv
  <1>2. Cardinality(Members(result)) = Len(result)
    BY MembersCount DEF IInv
  <1>3. Members(result) \in SUBSET Nodes
    BY DEF IInv, Members
  <1> QED
    BY <1>1, <1>2, <1>3, FS_Subset DEF IInv

-----------------------------------------------------------------------------
LEMMA PlaceMeans ==
  ASSUME NEW T, NEW s \in Seq(T), Injective(s)
  PROVE  /\ \A i \in 1..Len(s) : PlaceIn(s, s[i]) = i
         /\ \A n \in Members(s) : PlaceIn(s, n) \in 1..Len(s) /\ s[PlaceIn(s, n)] = n
  BY DEF PlaceIn, Members, Injective

\* A sequence with as many members as places repeats none.
LEMMA CountInjective ==
  ASSUME NEW T, NEW s \in Seq(T), Cardinality(Members(s)) = Len(s)
  PROVE  Injective(s)
  <1> DEFINE f == [i \in 1..Len(s) |-> s[i]]
  <1>1. Len(s) \in Nat
    OBVIOUS
  <1>2. f \in Surjection(1..Len(s), Members(s))
    BY DEF Surjection, Members
  <1>3. IsFiniteSet(1..Len(s)) /\ Cardinality(1..Len(s)) = Len(s)
    <2>1. 1 \in Int /\ Len(s) \in Int
      BY <1>1
    <2>2. Cardinality(1..Len(s)) = IF 1 > Len(s) THEN 0 ELSE Len(s) - 1 + 1
      BY <2>1, FS_Interval
    <2>3. IsFiniteSet(1..Len(s))
      BY <2>1, FS_Interval
    <2>4. Len(s) = IF 1 > Len(s) THEN 0 ELSE Len(s) - 1 + 1
      BY <1>1
    <2> QED
      BY <2>2, <2>3, <2>4
  <1>4. f \in Injection(1..Len(s), Members(s))
    BY <1>2, <1>3, FS_Surjection
  <1> QED
    BY <1>4 DEF Injection, IsInjective, Injective

ReturnsStored == outcome = "ordered" /\ result = graph.execution

\* Whatever depends on a node comes after it.
LEMMA StoredForward ==
  ASSUME IInv, GraphInv, ReturnsStored, NEW m \in Nodes, NEW n \in Nodes, <<m, n>> \in Dependencies
  PROVE  /\ PlaceIn(graph.execution, m) \in Nat /\ PlaceIn(graph.execution, n) \in Nat
         /\ PlaceIn(graph.execution, m) < PlaceIn(graph.execution, n)
  <1> DEFINE e == graph.execution
             j == PlaceIn(e, n)
  <1>1. e \in Seq(Ids) /\ Injective(e) /\ Members(e) = Nodes /\ Len(e) \in Nat
    <2>1. result = e /\ Members(result) = Nodes /\ Injective(result)
      BY OrderedHasAll DEF ReturnsStored, IInv
    <2>2. e \in Seq(Ids)
      BY DEF GraphInv, GraphTypeOK
    <2> QED
      BY <2>1, <2>2
  <1>2. j \in 1..Len(e) /\ e[j] = n
    BY <1>1, PlaceMeans
  <1>3. m \in Sources(e[j])
    BY <1>2 DEF Sources
  <1>4. PICK i \in 1..(j - 1) : e[i] = m
    <2> HIDE DEF j
    <2> QED
      BY <1>2, <1>3 DEF IInv, ReturnsStored
  <1>5. i \in 1..Len(e) /\ PlaceIn(e, m) = i
    BY <1>1, <1>2, <1>4, PlaceMeans
  <1> QED
    BY <1>1, <1>2, <1>4, <1>5

LEMMA OrderExact ==
  ASSUME IInv, StoredInv, GraphInv, outcome # "ordering", graph.preferred = <<>>
  PROVE  CycleIssues = {} /\ OrderIssues = {} <=> ReturnsStored
  <1> DEFINE e == graph.execution
  <1>1. /\ workflow.nodes = graph.nodes /\ workflow.execution = e /\ workflow.preferred = <<>>
        /\ Nodes = Members(graph.nodes)
    BY DEF GraphInv, View, Nodes
  <1>2. e \in Seq(Ids) /\ workflow \in Workflow
    BY DEF GraphInv, GraphTypeOK, IInv
  <1>3. IsFiniteSet(Nodes) /\ Cardinality(Nodes) = Len(graph.nodes)
    BY <1>1, <1>2, NodesFinite
  <1>4. /\ CycleIssues = {} <=> outcome = "ordered"
        /\ OrderIssues = {} <=> /\ IsComplete(e)
                                /\ \A edge \in workflow.data \cup PinDependencies : ~Backward(e, edge)
    BY DEF IInv, CycleIssues, OrderIssues
  <1>5. ASSUME outcome = "ordered", IsComplete(e),
               \A edge \in workflow.data \cup PinDependencies : ~Backward(e, edge)
        PROVE  ReturnsStored
    <2>1. Len(e) = Len(graph.nodes) /\ Members(e) = Nodes
      BY <1>1, <1>5 DEF IsComplete
    <2>2. Injective(e)
      BY <1>2, <1>3, <2>1, CountInjective
    <2>3. ASSUME NEW j \in 1..Len(e), NEW m \in Sources(e[j])
          PROVE  \E i \in 1..(j - 1) : e[i] = m
      <3>1. <<m, e[j]>> \in workflow.data \cup PinDependencies /\ m \in Members(e) /\ e[j] \in Members(e)
        BY <2>1, <2>3 DEF Sources, Dependencies, Members
      <3>2. ~(PlaceIn(e, m) >= PlaceIn(e, e[j]))
        <4>1. ~Backward(e, <<m, e[j]>>)
          BY <1>5, <3>1
        <4> QED
          BY <3>1, <4>1 DEF Backward
      <3>3. /\ PlaceIn(e, e[j]) = j /\ PlaceIn(e, m) \in 1..Len(e) /\ e[PlaceIn(e, m)] = m /\ Len(e) \in Nat
        BY <1>2, <2>2, <3>1, PlaceMeans
      <3> QED
        BY <3>2, <3>3
    <2>4. StoredIsRight
      BY <1>1, <2>1, <2>2, <2>3 DEF StoredIsRight
    <2>5. Len(result) = Len(e) /\ result \in Seq(Ids)
      <3>1. Len(result) = Len(graph.nodes) /\ result \in Seq(Nodes)
        BY <1>1, <1>5 DEF IInv
      <3>2. graph.nodes \in Seq(Ids)
        BY DEF GraphInv, GraphTypeOK
      <3>3. Members(graph.nodes) \subseteq Ids
        BY <3>2 DEF Members
      <3>4. Nodes \subseteq Ids
        BY <1>1, <3>3
      <3> QED
        BY <2>1, <3>1, <3>4
    <2>6. result = e
      BY <1>1, <1>2, <2>4, <2>5 DEF StoredInv
    <2> QED
      BY <1>5, <2>6 DEF ReturnsStored
  <1>6. ASSUME ReturnsStored
        PROVE  /\ outcome = "ordered" /\ IsComplete(e)
               /\ \A edge \in workflow.data \cup PinDependencies : ~Backward(e, edge)
    <2>1. outcome = "ordered" /\ IsComplete(e)
      BY <1>1, <1>6, OrderedHasAll DEF ReturnsStored, IsComplete, IInv
    <2>2. ASSUME NEW edge \in workflow.data \cup PinDependencies PROVE ~Backward(e, edge)
      <3> SUFFICES ASSUME edge[1] \in Nodes, edge[2] \in Nodes
                   PROVE  ~(PlaceIn(e, edge[1]) >= PlaceIn(e, edge[2]))
        BY <1>1, <2>1 DEF Backward, IsComplete
      <3>1. edge = <<edge[1], edge[2]>>
        BY <1>2 DEF Workflow, PinDependencies
      <3>2. <<edge[1], edge[2]>> \in Dependencies
        BY <3>1 DEF Dependencies
      <3> QED
        BY <1>6, <3>2, StoredForward
    <2> QED
      BY <2>1, <2>2
  <1> QED
    BY <1>4, <1>5, <1>6 DEF ReturnsStored

-----------------------------------------------------------------------------
(***************************************************************************)
(* What an answer without issues means.                                    *)
(***************************************************************************)
LEMMA AtMostOne ==
  ASSUME NEW S, IsFiniteSet(S)
  PROVE  /\ Cardinality(S) > 1 <=> ~\A x, y \in S : x = y
         /\ Cardinality(S) <= 1 <=> \A x, y \in S : x = y
  <1>1. Cardinality(S) \in Nat
    BY FS_CardinalityType
  <1>2. CASE S = {}
    BY <1>2, FS_EmptySet
  <1>3. CASE S # {}
    <2>1. Cardinality(S) # 0
      BY <1>3, FS_EmptySet
    <2>2. Cardinality(S) = 1 <=> \E x : S = {x}
      BY FS_Singleton
    <2>3. (\E x : S = {x}) <=> \A x, y \in S : x = y
      BY <1>3
    <2> QED
      BY <1>1, <2>1, <2>2, <2>3
  <1> QED
    BY <1>2, <1>3

LEMMA PortIs ==
  ASSUME GraphInv, NEW n, NEW id, HasPort(n, id)
  PROVE  /\ n \in Members(graph.nodes)
         /\ Port(n, id) \in graph.ports[n] /\ Port(n, id).id = id
         /\ Port(n, id) \in Ports
         /\ \A p \in graph.ports[n] : p.id = id => p = Port(n, id)
  <1>1. n \in Members(graph.nodes) /\ \E p \in graph.ports[n] : p.id = id
    BY DEF HasPort, IsNode
  <1>2. Port(n, id) \in graph.ports[n] /\ Port(n, id).id = id
    BY <1>1 DEF Port
  <1>3. n \in Ids
    BY <1>1 DEF GraphInv, GraphTypeOK, Members
  <1> QED
    BY <1>1, <1>2, <1>3 DEF GraphInv, GraphTypeOK, Named

LEMMA GraphFinite ==
  ASSUME GraphInv
  PROVE  /\ \A kind, name : IsFiniteSet(Pins(kind, name))
         /\ \A n, p : IsFiniteSet(Feeds(n, p))
         /\ \A n : IsFiniteSet(GenericTypes(n))
         /\ \A name : IsFiniteSet(GroupTypes(name))
  <1>1. IsFiniteSet(Members(graph.nodes))
    BY MembersCount DEF GraphInv, GraphTypeOK
  <1>2. ASSUME NEW kind, NEW name PROVE IsFiniteSet(Pins(kind, name))
    BY <1>1, FS_Subset DEF Pins
  <1>3. ASSUME NEW n, NEW p PROVE IsFiniteSet(Feeds(n, p))
    <2>1. IsFiniteSet(graph.links)
      BY DEF GraphInv, GraphTypeOK, Named
    <2>2. Feeds(n, p) \in SUBSET graph.links
      BY DEF Feeds, DataLinks
    <2> QED
      BY <2>1, <2>2, FS_Subset
  <1>4. \A l : Found(l) => SourcePort(l).type \in Types /\ TargetPort(l).type \in Types
    <2> SUFFICES ASSUME NEW l, Found(l) PROVE SourcePort(l).type \in Types /\ TargetPort(l).type \in Types
      OBVIOUS
    <2>1. SourcePort(l) \in Ports /\ TargetPort(l) \in Ports
      BY PortIs DEF Found, SourcePort, TargetPort
    <2> QED
      BY <2>1 DEF Ports
  <1>5. ASSUME NEW n PROVE IsFiniteSet(GenericTypes(n))
    <2>1. GenericTypes(n) \in SUBSET Types
      BY <1>4 DEF GenericTypes, Carrying
    <2> QED
      BY <2>1, TypesAssumption, FS_Subset
  <1>6. ASSUME NEW name PROVE IsFiniteSet(GroupTypes(name))
    <2>1. \A n \in Group(name) : n \in Ids
      BY DEF Group, Pins, GraphInv, GraphTypeOK, Members
    <2>2. \A n \in Group(name) : \A p \in graph.ports[n] : p.type \in Types
      BY <2>1 DEF GraphInv, GraphTypeOK, Ports
    <2>3. GroupTypes(name) \in SUBSET Types
      BY <1>4, <2>2 DEF GroupTypes
    <2> QED
      BY <2>3, TypesAssumption, FS_Subset
  <1> QED
    BY <1>2, <1>3, <1>5, <1>6

-----------------------------------------------------------------------------
LEMMA PinIssuesMeans ==
  PinIssues = {} <=>
    \A name \in Groups :
       /\ name # Blank /\ Cardinality(Pins(InputPin, name)) = 1 /\ Pins(OutputPin, name) # {}
       /\ ~(Cardinality(GroupTypes(name)) > 1)
  <1> DEFINE D(name) ==
               IF name = Blank THEN {"invalid-parameter"}
               ELSE (IF Cardinality(Pins(InputPin, name)) # 1 \/ Pins(OutputPin, name) = {}
                     THEN {"invalid-parameter"} ELSE {})
                    \cup (IF Cardinality(GroupTypes(name)) > 1 THEN {"generic-type-conflict"} ELSE {})
  <1>1. PinIssues = UNION {D(name) : name \in Groups}
    BY DEF PinIssues
  <1>2. ASSUME NEW name
        PROVE  D(name) = {} <=> /\ name # Blank /\ Cardinality(Pins(InputPin, name)) = 1
                                /\ Pins(OutputPin, name) # {}
                                /\ ~(Cardinality(GroupTypes(name)) > 1)
    OBVIOUS
  <1> HIDE DEF D
  <1>3. PinIssues = {} <=> \A name \in Groups : D(name) = {}
    BY <1>1
  <1> QED
    BY <1>2, <1>3

LEMMA PinsForward ==
  ASSUME IInv, GraphInv, ReturnsStored, NEW name \in Names, name # Blank, Cardinality(Pins(InputPin, name)) = 1,
         NEW input \in Pins(InputPin, name), NEW output \in Pins(OutputPin, name)
  PROVE  PlaceIn(graph.execution, input) < PlaceIn(graph.execution, output)
  <1>1. workflow.inputs[name] = Pins(InputPin, name) /\ workflow.outputs[name] = Pins(OutputPin, name)
    BY DEF GraphInv, View
  <1>2. <<input, output>> \in PinDependencies
    BY <1>1 DEF PinDependencies
  <1>3. input \in Nodes /\ output \in Nodes
    BY DEF Pins, Nodes, GraphInv, View
  <1> QED
    BY <1>2, <1>3, StoredForward DEF Dependencies

LEMMA PinsExact ==
  ASSUME IInv, GraphInv, ReturnsStored
  PROVE  PinIssues = {} <=> PinsArePaired
  <1> DEFINE Paired(name) ==
               /\ name # Blank
               /\ \E input \in Pins(InputPin, name) :
                    /\ Pins(InputPin, name) = {input}
                    /\ \A output \in Pins(OutputPin, name) :
                         PlaceIn(graph.execution, input) < PlaceIn(graph.execution, output)
               /\ Pins(OutputPin, name) # {}
               /\ \A t, u \in GroupTypes(name) : t = u
  <1>1. PinsArePaired <=> \A name \in Groups : Paired(name)
    BY DEF PinsArePaired, Groups
  <1>2. ASSUME NEW name \in Groups
        PROVE  Paired(name) <=>
                 /\ name # Blank /\ Cardinality(Pins(InputPin, name)) = 1 /\ Pins(OutputPin, name) # {}
                 /\ ~(Cardinality(GroupTypes(name)) > 1)
    <2>1. name \in Names
      BY DEF Groups, GraphInv, GraphTypeOK, Members
    <2>2. Cardinality(Pins(InputPin, name)) = 1 <=> \E x : Pins(InputPin, name) = {x}
      BY GraphFinite, FS_Singleton
    <2>3. ~(Cardinality(GroupTypes(name)) > 1) <=> \A t, u \in GroupTypes(name) : t = u
      BY GraphFinite, AtMostOne
    <2>4. ASSUME name # Blank, Cardinality(Pins(InputPin, name)) = 1
          PROVE  \E input \in Pins(InputPin, name) :
                    /\ Pins(InputPin, name) = {input}
                    /\ \A output \in Pins(OutputPin, name) :
                         PlaceIn(graph.execution, input) < PlaceIn(graph.execution, output)
      BY <2>1, <2>2, <2>4, PinsForward
    <2> QED
      BY <2>2, <2>3, <2>4
  <1> HIDE DEF Paired
  <1> QED
    BY <1>1, <1>2, PinIssuesMeans

-----------------------------------------------------------------------------
LEMMA LinkIssuesMeans ==
  LinkIssues = {} <=>
    \A l \in graph.links :
       /\ ~\E k \in Earlier(l) : SameEnds(l, k)
       /\ l.control \/ l.source # l.target
       /\ IsNode(l.source) /\ IsNode(l.target)
       /\ Found(l) /\ SourcePort(l).control = l.control /\ TargetPort(l).control = l.control /\ Directed(l)
       /\ l \in Carrying => ~Mismatch(l)
       /\ l \in Carrying /\ ~TargetPort(l).variadic => ~\E k \in Earlier(l) : SameTarget(l, k)
  <1>1. "duplicate-connection" \in LinkIssues <=> \E l \in graph.links : \E k \in Earlier(l) : SameEnds(l, k)
    BY DEF LinkIssues
  <1>2. "self-loop" \in LinkIssues <=> \E l \in graph.links : ~l.control /\ l.source = l.target
    BY DEF LinkIssues
  <1>3. "unknown-node" \in LinkIssues <=> \E l \in graph.links : ~IsNode(l.source) \/ ~IsNode(l.target)
    BY DEF LinkIssues
  <1>4. "unknown-port" \in LinkIssues <=>
          \E l \in graph.links :
             /\ IsNode(l.source) /\ IsNode(l.target)
             /\ \/ ~Found(l)
                \/ SourcePort(l).control # l.control \/ TargetPort(l).control # l.control
                \/ ~Directed(l)
    BY DEF LinkIssues
  <1>5. "type-mismatch" \in LinkIssues <=> \E l \in graph.links : l \in Carrying /\ Mismatch(l)
    BY DEF LinkIssues
  <1>6. "input-already-connected" \in LinkIssues <=>
          \E l \in graph.links :
             l \in Carrying /\ ~TargetPort(l).variadic /\ \E k \in Earlier(l) : SameTarget(l, k)
    BY DEF LinkIssues
  <1>7. LinkIssues \subseteq {"duplicate-connection", "self-loop", "unknown-node", "unknown-port", "type-mismatch",
                              "input-already-connected"}
    BY DEF LinkIssues
  <1>8. LinkIssues = {} <=>
          /\ "duplicate-connection" \notin LinkIssues /\ "self-loop" \notin LinkIssues
          /\ "unknown-node" \notin LinkIssues /\ "unknown-port" \notin LinkIssues
          /\ "type-mismatch" \notin LinkIssues /\ "input-already-connected" \notin LinkIssues
    BY <1>7
  <1> QED
    BY <1>1, <1>2, <1>3, <1>4, <1>5, <1>6, <1>8

LEMMA InputIssuesMeans ==
  InputIssues = {} <=>
    \A n \in Members(graph.nodes) :
       /\ \A p \in graph.ports[n] : Needed(p) => \E l \in Carrying : l.target = n /\ l.targetPort = p.id
       /\ ~(Cardinality(GenericTypes(n)) > 1)
  <1>1. "missing-required-input" \in InputIssues <=>
          \E n \in Members(graph.nodes) : \E p \in graph.ports[n] :
             Needed(p) /\ ~\E l \in Carrying : l.target = n /\ l.targetPort = p.id
    BY DEF InputIssues
  <1>2. "generic-type-conflict" \in InputIssues <=>
          \E n \in Members(graph.nodes) : Cardinality(GenericTypes(n)) > 1
    BY DEF InputIssues
  <1>3. InputIssues = {} <=> "missing-required-input" \notin InputIssues /\ "generic-type-conflict" \notin InputIssues
    BY DEF InputIssues
  <1> QED
    BY <1>1, <1>2, <1>3

\* A connection as its two ports see it.
LEMMA LinkIs ==
  ASSUME GraphInv, NEW l \in graph.links
  PROVE  /\ l \in Links /\ l.control \in BOOLEAN /\ l.id \in Nat
         /\ l \in DataLinks <=> ~l.control
         /\ \A k \in graph.links : k # l => k.id < l.id \/ l.id < k.id
  <1>1. l \in Links /\ \A k \in graph.links : k \in Links /\ (k.id = l.id => k = l)
    BY DEF GraphInv, GraphTypeOK, Named
  <1>2. l \in Links /\ l.control \in BOOLEAN /\ l.id \in Nat
    BY <1>1 DEF Links
  <1>3. \A k \in graph.links : k.id \in Nat
    BY <1>1 DEF Links
  <1>4. \A k \in graph.links : k # l => k.id < l.id \/ l.id < k.id
    BY <1>1, <1>2, <1>3
  <1> QED
    BY <1>2, <1>4 DEF DataLinks

LEMMA DataForward ==
  ASSUME IInv, GraphInv, ReturnsStored, NEW l \in DataLinks, IsNode(l.source), IsNode(l.target)
  PROVE  /\ PlaceIn(graph.execution, l.source) \in Nat
         /\ PlaceIn(graph.execution, l.source) < PlaceIn(graph.execution, l.target)
  <1>1. <<l.source, l.target>> \in workflow.data
    BY DEF GraphInv, View
  <1>2. l.source \in Nodes /\ l.target \in Nodes
    BY DEF IsNode, Nodes, GraphInv, View
  <1> QED
    BY <1>1, <1>2, StoredForward DEF Dependencies

\* A connection without an issue.
Clean(l) ==
    /\ ~\E k \in Earlier(l) : SameEnds(l, k)
    /\ l.control \/ l.source # l.target
    /\ IsNode(l.source) /\ IsNode(l.target)
    /\ Found(l) /\ SourcePort(l).control = l.control /\ TargetPort(l).control = l.control /\ Directed(l)
    /\ l \in Carrying => ~Mismatch(l)
    /\ l \in Carrying /\ ~TargetPort(l).variadic => ~\E k \in Earlier(l) : SameTarget(l, k)

\* The two ports of a connection.
LEMMA EndsAre ==
  ASSUME GraphInv, NEW l, Found(l)
  PROVE  /\ l.source \in Members(graph.nodes) /\ l.target \in Members(graph.nodes)
         /\ SourcePort(l) \in graph.ports[l.source] /\ SourcePort(l).id = l.sourcePort
         /\ TargetPort(l) \in graph.ports[l.target] /\ TargetPort(l).id = l.targetPort
         /\ SourcePort(l) \in Ports /\ TargetPort(l) \in Ports
         /\ \A q \in graph.ports[l.source] : q.id = l.sourcePort => q = SourcePort(l)
         /\ \A p \in graph.ports[l.target] : p.id = l.targetPort => p = TargetPort(l)
  BY PortIs DEF Found, SourcePort, TargetPort

LEMMA CleanIsSound ==
  ASSUME IInv, GraphInv, ReturnsStored, \A l \in graph.links : Clean(l),
         \A n \in Members(graph.nodes) : \A p \in graph.ports[n] :
            Needed(p) => \E l \in Carrying : l.target = n /\ l.targetPort = p.id
  PROVE  LinksAreSound /\ InputsAreFed
  <1>1. ASSUME NEW l \in graph.links
        PROVE  /\ {l.source, l.target} \subseteq Members(graph.nodes)
               /\ \E p \in graph.ports[l.target] : p.id = l.targetPort /\ ~p.output /\ p.control = l.control
               /\ \E q \in graph.ports[l.source] : q.id = l.sourcePort /\ q.output /\ q.control = l.control
               /\ ~\E k \in graph.links : k.id # l.id /\ SameEnds(k, l)
    <2>1. Clean(l)
      OBVIOUS
    <2>2. Found(l) /\ SourcePort(l).control = l.control /\ TargetPort(l).control = l.control /\ Directed(l)
      BY <2>1 DEF Clean
    <2>3. ASSUME NEW k \in graph.links, k.id # l.id, SameEnds(k, l) PROVE FALSE
      <3>1. k.id < l.id \/ l.id < k.id
        BY <2>3, LinkIs
      <3>2. SameEnds(l, k)
        BY <2>3 DEF SameEnds
      <3>3. k \in Earlier(l) \/ l \in Earlier(k)
        BY <3>1 DEF Earlier
      <3>4. Clean(k)
        OBVIOUS
      <3> QED
        BY <2>1, <2>3, <3>2, <3>3, <3>4 DEF Clean
    <2> QED
      BY <2>2, <2>3, EndsAre DEF Directed
  <1>2. ASSUME NEW l \in DataLinks
        PROVE  l \in graph.links /\ ~l.control /\ Found(l) /\ l \in Carrying /\ Clean(l)
    <2>1. l \in graph.links /\ ~l.control /\ Clean(l)
      BY DEF DataLinks
    <2>2. Found(l) /\ ~SourcePort(l).control /\ ~TargetPort(l).control
      BY <2>1, LinkIs DEF Clean
    <2> QED
      BY <2>1, <2>2 DEF Carrying
  <1>3. ASSUME NEW n \in Members(graph.nodes), NEW p \in graph.ports[n], ~p.control, ~p.output
        PROVE  /\ p.required => Feeds(n, p) # {}
               /\ ~p.variadic => Cardinality(Feeds(n, p)) <= 1
               /\ \A l \in Feeds(n, p) :
                    /\ PlaceIn(graph.execution, l.source) < PlaceIn(graph.execution, n)
                    /\ \E q \in graph.ports[l.source] :
                         q.id = l.sourcePort /\ q.output /\ ~q.control /\ Fits(q.type, p.type)
    <2>1. ASSUME p.required PROVE Feeds(n, p) # {}
      <3>1. PICK l \in Carrying : l.target = n /\ l.targetPort = p.id
        BY <1>3, <2>1 DEF Needed
      <3> QED
        BY <3>1 DEF Feeds, Carrying
    <2>2. ASSUME NEW l \in Feeds(n, p)
          PROVE  /\ l \in DataLinks /\ l.target = n /\ l.targetPort = p.id
                 /\ p = TargetPort(l)
      <3>1. l \in DataLinks /\ l.target = n /\ l.targetPort = p.id
        BY DEF Feeds
      <3> QED
        BY <3>1, <1>2, EndsAre
    <2>3. ASSUME ~p.variadic PROVE Cardinality(Feeds(n, p)) <= 1
      <3>1. ASSUME NEW l \in Feeds(n, p), NEW k \in Feeds(n, p), l # k, k.id < l.id PROVE FALSE
        <4>1. l \in Carrying /\ Clean(l) /\ k \in graph.links /\ ~TargetPort(l).variadic
          BY <1>2, <2>2, <2>3
        <4>2. SameTarget(l, k)
          BY <2>2 DEF SameTarget
        <4>3. k \in Earlier(l)
          BY <3>1, <4>1 DEF Earlier
        <4> QED
          BY <4>1, <4>2, <4>3 DEF Clean
      <3>2. \A l, k \in Feeds(n, p) : l = k
        BY <1>2, <2>2, <3>1, LinkIs
      <3> QED
        BY <3>2, GraphFinite, AtMostOne
    <2>4. ASSUME NEW l \in Feeds(n, p)
          PROVE  /\ PlaceIn(graph.execution, l.source) < PlaceIn(graph.execution, n)
                 /\ \E q \in graph.ports[l.source] :
                      q.id = l.sourcePort /\ q.output /\ ~q.control /\ Fits(q.type, p.type)
      <3>1. l \in DataLinks /\ l \in Carrying /\ Clean(l) /\ Found(l) /\ p = TargetPort(l) /\ l.target = n
        BY <1>2, <2>2
      <3>2. PlaceIn(graph.execution, l.source) < PlaceIn(graph.execution, n)
        BY <3>1, DataForward DEF Clean
      <3>3. SourcePort(l).output /\ ~SourcePort(l).control /\ ~Mismatch(l)
        BY <3>1 DEF Clean, Directed, Carrying
      <3>4. Fits(SourcePort(l).type, p.type)
        BY <3>1, <3>3 DEF Mismatch, Fits
      <3> QED
        BY <3>1, <3>2, <3>3, <3>4, EndsAre
    <2> QED
      BY <2>1, <2>3, <2>4
  <1>4. LinksAreSound
    BY <1>1 DEF LinksAreSound
  <1>5. InputsAreFed
    BY <1>3 DEF InputsAreFed
  <1> QED
    BY <1>4, <1>5

LEMMA SoundIsClean ==
  ASSUME IInv, GraphInv, ReturnsStored, LinksAreSound, InputsAreFed
  PROVE  /\ \A l \in graph.links : Clean(l)
         /\ \A n \in Members(graph.nodes) : \A p \in graph.ports[n] :
               Needed(p) => \E l \in Carrying : l.target = n /\ l.targetPort = p.id
  <1>1. ASSUME NEW l \in graph.links
        PROVE  /\ IsNode(l.source) /\ IsNode(l.target) /\ Found(l) /\ Directed(l)
               /\ SourcePort(l).control = l.control /\ TargetPort(l).control = l.control
    <2>1. IsNode(l.source) /\ IsNode(l.target)
      BY DEF LinksAreSound, IsNode
    <2>2. PICK p \in graph.ports[l.target] : p.id = l.targetPort /\ ~p.output /\ p.control = l.control
      BY DEF LinksAreSound
    <2>3. PICK q \in graph.ports[l.source] : q.id = l.sourcePort /\ q.output /\ q.control = l.control
      BY DEF LinksAreSound
    <2>4. Found(l)
      BY <2>1, <2>2, <2>3 DEF Found, HasPort
    <2>5. p = TargetPort(l) /\ q = SourcePort(l)
      BY <2>2, <2>3, <2>4, EndsAre
    <2> QED
      BY <2>1, <2>2, <2>3, <2>4, <2>5 DEF Directed
  <1>2. ASSUME NEW l \in graph.links, ~l.control
        PROVE  l \in DataLinks /\ l \in Carrying /\ l \in Feeds(l.target, TargetPort(l))
    <2>1. l \in DataLinks /\ TargetPort(l).id = l.targetPort
      BY <1>1, <1>2, EndsAre, LinkIs
    <2> QED
      BY <1>1, <1>2, <2>1 DEF Carrying, Feeds
  <1>3. ASSUME NEW l \in Carrying
        PROVE  /\ l \in graph.links /\ ~l.control /\ Found(l)
               /\ l.target \in Members(graph.nodes) /\ TargetPort(l) \in graph.ports[l.target]
               /\ ~TargetPort(l).control /\ ~TargetPort(l).output
    <2>1. l \in graph.links /\ ~l.control /\ Found(l) /\ ~TargetPort(l).control
      BY DEF Carrying, DataLinks
    <2> QED
      BY <1>1, <2>1, EndsAre DEF Directed
  <1>4. ASSUME NEW l \in graph.links, NEW k \in Earlier(l), SameEnds(l, k) PROVE FALSE
    <2>1. k \in graph.links /\ k.id < l.id
      BY DEF Earlier
    <2>2. SameEnds(k, l)
      BY <1>4 DEF SameEnds
    <2>3. k.id # l.id
      BY <2>1, LinkIs
    <2> QED
      BY <2>1, <2>2, <2>3 DEF LinksAreSound
  <1>5. ASSUME NEW l \in graph.links, ~l.control PROVE l.source # l.target
    BY <1>1, <1>2, <1>5, DataForward
  <1>6. ASSUME NEW l \in Carrying PROVE ~Mismatch(l)
    <2>1. l \in Feeds(l.target, TargetPort(l))
      BY <1>2, <1>3
    <2>2. PICK q \in graph.ports[l.source] : q.id = l.sourcePort /\ Fits(q.type, TargetPort(l).type)
      BY <1>3, <2>1 DEF InputsAreFed
    <2>3. q = SourcePort(l)
      BY <1>3, <2>2, EndsAre
    <2> QED
      BY <2>2, <2>3 DEF Fits, Mismatch
  <1>7. ASSUME NEW l \in Carrying, ~TargetPort(l).variadic, NEW k \in Earlier(l), SameTarget(l, k) PROVE FALSE
    <2>1. k \in graph.links /\ k.id < l.id /\ k.target = l.target /\ k.targetPort = l.targetPort
      BY <1>7 DEF Earlier, SameTarget
    <2>2. l.id \in Nat
      BY <1>3, LinkIs
    <2>3. TargetPort(k) = TargetPort(l)
      BY <2>1 DEF TargetPort
    <2>4. ~k.control
      BY <1>1, <1>3, <2>1, <2>3, LinkIs
    <2>5. k \in Feeds(l.target, TargetPort(l)) /\ l \in Feeds(l.target, TargetPort(l))
      BY <1>2, <1>3, <2>1, <2>3, <2>4
    <2>6. Cardinality(Feeds(l.target, TargetPort(l))) <= 1
      BY <1>3, <1>7 DEF InputsAreFed
    <2>7. k = l
      BY <2>5, <2>6, GraphFinite, AtMostOne
    <2> QED
      BY <2>1, <2>2, <2>7
  <1>8. ASSUME NEW l \in graph.links PROVE Clean(l)
    BY <1>1, <1>4, <1>5, <1>6, <1>7 DEF Clean
  <1>9. ASSUME NEW n \in Members(graph.nodes), NEW p \in graph.ports[n], Needed(p)
        PROVE  \E l \in Carrying : l.target = n /\ l.targetPort = p.id
    <2>1. Feeds(n, p) # {}
      BY <1>9 DEF InputsAreFed, Needed
    <2>2. PICK l \in DataLinks : l.target = n /\ l.targetPort = p.id
      BY <2>1 DEF Feeds
    <2>3. l \in graph.links /\ ~l.control
      BY DEF DataLinks
    <2> QED
      BY <1>2, <2>2, <2>3
  <1> QED
    BY <1>8, <1>9

LEMMA LinksExact ==
  ASSUME IInv, GraphInv, ReturnsStored
  PROVE  LinkIssues = {} /\ InputIssues = {} <=>
           /\ LinksAreSound /\ InputsAreFed
           /\ \A n \in Members(graph.nodes) : \A t, u \in GenericTypes(n) : t = u
  <1>1. LinkIssues = {} <=> \A l \in graph.links : Clean(l)
    BY LinkIssuesMeans DEF Clean
  <1>2. \A n \in Members(graph.nodes) :
          ~(Cardinality(GenericTypes(n)) > 1) <=> \A t, u \in GenericTypes(n) : t = u
    BY GraphFinite, AtMostOne
  <1> QED
    BY <1>1, <1>2, InputIssuesMeans, CleanIsSound, SoundIsClean

Issues ==
    NodeIssues \cup PinIssues \cup LinkIssues \cup InputIssues \cup ControlIssues \cup CycleIssues \cup OrderIssues

IssuesInv == issues # Pending => issues = Issues

LEMMA IssuesAre ==
  ASSUME UNCHANGED <<orderVars, graph, searchVars>>
  PROVE  Issues' = Issues
  <1>1. workflow' = workflow /\ outcome' = outcome /\ graph' = graph /\ loop' = loop
    BY DEF orderVars, searchVars
  <1>2. /\ \A kind, name : Pins(kind, name)' = Pins(kind, name)
        /\ DataLinks' = DataLinks
        /\ \A n : IsNode(n)' = IsNode(n)
        /\ \A n, id : Port(n, id)' = Port(n, id)
        /\ \A l : Earlier(l)' = Earlier(l)
    BY <1>1 DEF Pins, Members, DataLinks, IsNode, Port, Earlier
  <1>3. \A l : Found(l)' = Found(l)
    BY <1>1, <1>2 DEF Found, HasPort
  <1>4. \A l : SourcePort(l)' = SourcePort(l) /\ TargetPort(l)' = TargetPort(l)
    BY <1>2 DEF SourcePort, TargetPort
  <1>5. Carrying' = Carrying
    BY <1>2, <1>3, <1>4 DEF Carrying
  <1>6. \A name : GroupTypes(name)' = GroupTypes(name)
    BY <1>1, <1>2, <1>3, <1>4 DEF GroupTypes, Group
  <1>7. Groups' = Groups
    BY <1>1 DEF Groups, Members
  <1>8. PinIssues' = PinIssues
    BY <1>2, <1>6, <1>7 DEF PinIssues
  <1>9. LinkIssues' = LinkIssues
    <2>1. \A l : Directed(l)' = Directed(l) /\ Mismatch(l)' = Mismatch(l)
      BY <1>4 DEF Directed, Mismatch
    <2>2. "duplicate-connection" \in LinkIssues' <=> "duplicate-connection" \in LinkIssues
      BY <1>1, <1>2 DEF LinkIssues
    <2>3. "self-loop" \in LinkIssues' <=> "self-loop" \in LinkIssues
      BY <1>1 DEF LinkIssues
    <2>4. "unknown-node" \in LinkIssues' <=> "unknown-node" \in LinkIssues
      BY <1>1, <1>2 DEF LinkIssues
    <2>5. "unknown-port" \in LinkIssues' <=> "unknown-port" \in LinkIssues
      BY <1>1, <1>2, <1>3, <1>4, <2>1 DEF LinkIssues
    <2>6. "type-mismatch" \in LinkIssues' <=> "type-mismatch" \in LinkIssues
      BY <1>1, <1>5, <2>1 DEF LinkIssues
    <2>7. "input-already-connected" \in LinkIssues' <=> "input-already-connected" \in LinkIssues
      BY <1>1, <1>2, <1>4, <1>5 DEF LinkIssues
    <2>8. \A code \in LinkIssues \cup LinkIssues' :
            code \in {"duplicate-connection", "self-loop", "unknown-node", "unknown-port", "type-mismatch",
                     "input-already-connected"}
      BY DEF LinkIssues
    <2> QED
      BY <2>2, <2>3, <2>4, <2>5, <2>6, <2>7, <2>8
  <1>10. InputIssues' = InputIssues
    <2>1. \A n : GenericTypes(n)' = GenericTypes(n)
      BY <1>4, <1>5 DEF GenericTypes
    <2> QED
      BY <1>1, <1>5, <2>1 DEF InputIssues, Members
  <1>11. OrderIssues' = OrderIssues
    BY <1>1 DEF OrderIssues, IsComplete, Backward, PlaceIn, PinDependencies, Members
  <1>12. NodeIssues' = NodeIssues /\ ControlIssues' = ControlIssues /\ CycleIssues' = CycleIssues
    BY <1>1 DEF NodeIssues, ControlIssues, CycleIssues
  <1> QED
    BY <1>8, <1>9, <1>10, <1>11, <1>12 DEF Issues

LEMMA IssuesStep == GraphInv /\ IssuesInv /\ [ValidationNext]_validationVars => IssuesInv'
  <1> SUFFICES ASSUME GraphInv, IssuesInv, [ValidationNext]_validationVars PROVE IssuesInv'
    OBVIOUS
  <1>1. CASE Search /\ UNCHANGED issues
    <2>1. loop = "searching"
      BY <1>1 DEF Search, Enter, Meet, Leave, Exhaust, Searching
    <2> QED
      BY <1>1, <2>1 DEF GraphInv, IssuesInv
  <1>2. CASE OrderNext /\ UNCHANGED issues
    <2>1. outcome = "ordering"
      BY <1>2 DEF OrderNext, TakeFirst, Return
    <2> QED
      BY <1>2, <2>1 DEF GraphInv, IssuesInv
  <1>3. CASE Validate
    <2>1. issues' = Issues /\ UNCHANGED <<orderVars, graph, searchVars>>
      BY <1>3 DEF Validate, Issues
    <2> QED
      BY <2>1, IssuesAre DEF IssuesInv
  <1>4. CASE UNCHANGED validationVars
    BY <1>4, IssuesAre DEF IssuesInv, validationVars
  <1> QED
    BY <1>1, <1>2, <1>3, <1>4 DEF ValidationNext

LEMMA IssuesKept == ValidationSpec => []IssuesInv
  <1>1. ValidationInit => IssuesInv
    BY DEF ValidationInit, IssuesInv
  <1> QED
    BY <1>1, IssuesStep, GraphKept, PTL DEF ValidationSpec

(***************************************************************************)
(* validate_workflow accepts a workflow exactly if it can be run as it is  *)
(* stored.  For every graph: neither an unsound workflow without an issue, *)
(* nor an issue about a sound one.                                         *)
(***************************************************************************)
THEOREM AcceptsExactly == ValidationSpec => []AcceptsExactlyTheSound
  <1>1. IInv /\ StoredInv /\ GraphInv /\ SearchInv /\ IssuesInv => AcceptsExactlyTheSound
    <2> SUFFICES ASSUME IInv, StoredInv, GraphInv, SearchInv, IssuesInv, issues # Pending
                 PROVE  issues = {} <=>
                          /\ graph.flawed = {}
                          /\ outcome = "ordered" /\ result = graph.execution
                          /\ LinksAreSound
                          /\ InputsAreFed
                          /\ PinsArePaired
                          /\ \A n \in Members(graph.nodes) : \A t, u \in GenericTypes(n) : t = u
                          /\ ~\E S \in SUBSET Members(graph.nodes) : Unbounded(S)
      BY DEF AcceptsExactlyTheSound
    <2>1. issues = Issues /\ loop # "searching" /\ outcome # "ordering" /\ graph.preferred = <<>>
      BY DEF IssuesInv, GraphInv
    <2>2. NodeIssues = {} <=> graph.flawed = {}
      BY DEF NodeIssues
    <2>3. ControlIssues = {} <=> ~\E S \in SUBSET Members(graph.nodes) : Unbounded(S)
      BY <2>1 DEF ControlIssues, SearchInv
    <2>4. CycleIssues = {} /\ OrderIssues = {} <=> outcome = "ordered" /\ result = graph.execution
      BY <2>1, OrderExact DEF ReturnsStored
    <2>5. ASSUME outcome = "ordered", result = graph.execution
          PROVE  /\ PinIssues = {} <=> PinsArePaired
                 /\ LinkIssues = {} /\ InputIssues = {} <=>
                      /\ LinksAreSound /\ InputsAreFed
                      /\ \A n \in Members(graph.nodes) : \A t, u \in GenericTypes(n) : t = u
      BY <2>5, PinsExact, LinksExact DEF ReturnsStored
    <2>6. issues = {} <=> /\ NodeIssues = {} /\ PinIssues = {} /\ LinkIssues = {} /\ InputIssues = {}
                          /\ ControlIssues = {} /\ CycleIssues = {} /\ OrderIssues = {}
      BY <2>1 DEF Issues
    <2> QED
      BY <2>2, <2>3, <2>4, <2>5, <2>6
  <1>2. ValidationSpec => []SearchInv
    BY SearchInitially, SearchStep, GraphKept, PTL DEF ValidationSpec
  <1> QED
    BY <1>1, <1>2, ValidationOrders, Inductive, StoredKept, GraphKept, IssuesKept, PTL

-----------------------------------------------------------------------------
(***************************************************************************)
(* Validation comes to an end.  Nodes that are left for the search or for  *)
(* the order only become fewer.                                            *)
(***************************************************************************)
OrderLeft == Len(workflow.nodes) - Len(result) + (IF outcome = "ordering" THEN 1 ELSE 0)

SearchLeft == 2 * Cardinality(Roots) - Len(visiting) + (IF loop = "searching" THEN 1 ELSE 0)

StepsLeft == OrderLeft + SearchLeft + (IF issues = Pending THEN 1 ELSE 0)

LEMMA NatSum == \A a, b \in Nat : a + b \in Nat
  OBVIOUS

LEMMA SumLess ==
  \A a, b, c, d \in Int : d < b => /\ a + d + c < a + b + c
                                  /\ d + a + c < b + a + c
  OBVIOUS

LEMMA OrderLeftNat == ASSUME IInv PROVE OrderLeft \in Nat
  <1>1. IsFiniteSet(Nodes) /\ Cardinality(Nodes) = Len(workflow.nodes) /\ Len(workflow.nodes) \in Nat
    BY NodesFinite DEF IInv
  <1>2. Cardinality(Members(result)) = Len(result) /\ Len(result) \in Nat
    BY MembersCount DEF IInv
  <1>3. Members(result) \in SUBSET Nodes
    BY DEF IInv, Members
  <1>4. Cardinality(Members(result)) <= Cardinality(Nodes)
    BY <1>1, <1>3, FS_Subset
  <1>5. Len(result) <= Len(workflow.nodes)
    BY <1>1, <1>2, <1>4
  <1>6. Len(workflow.nodes) - Len(result) \in Nat
    BY <1>1, <1>2, <1>5
  <1>7. (IF outcome = "ordering" THEN 1 ELSE 0) \in Nat
    OBVIOUS
  <1> QED
    BY <1>6, <1>7, NatSum DEF OrderLeft

LEMMA RootsFinite ==
  ASSUME GraphInv, SearchInv
  PROVE  /\ IsFiniteSet(Roots) /\ Cardinality(Roots) \in Nat
         /\ Len(visiting) \in Nat /\ Len(visiting) <= Cardinality(Roots)
  <1>1. IsFiniteSet(Members(graph.nodes))
    BY MembersCount DEF GraphInv, GraphTypeOK
  <1>2. IsFiniteSet(Roots) /\ Cardinality(Roots) \in Nat
    <2>1. Roots \in SUBSET Members(graph.nodes)
      BY DEF Roots
    <2> QED
      BY <1>1, <2>1, FS_Subset, FS_CardinalityType
  <1>3. Members(visiting) \in SUBSET Roots
    <2>1. SUFFICES ASSUME NEW n \in Members(visiting) PROVE n \in Members(graph.nodes) /\ n \notin visited
      BY DEF Roots
    <2>2. PICK i \in 1..Len(visiting) : visiting[i] = n
      BY DEF Members
    <2>3. visiting \in Seq(Members(graph.nodes)) /\ visiting[i] \notin visited
      BY <2>2 DEF SearchInv
    <2> QED
      BY <2>2, <2>3
  <1>4. Cardinality(Members(visiting)) = Len(visiting) /\ Len(visiting) \in Nat
    BY MembersCount DEF SearchInv
  <1>5. Cardinality(Members(visiting)) <= Cardinality(Roots)
    BY <1>2, <1>3, FS_Subset
  <1> QED
    BY <1>2, <1>4, <1>5

LEMMA StepsLeftNat == ASSUME IInv, GraphInv, SearchInv PROVE StepsLeft \in Nat
  <1>1. SearchLeft \in Nat
    BY RootsFinite DEF SearchLeft
  <1> QED
    BY <1>1, OrderLeftNat DEF StepsLeft

LEMMA OrderDescends == ASSUME IInv, OrderNext PROVE OrderLeft' \in Int /\ OrderLeft' < OrderLeft
  <1>1. Len(result) \in Nat /\ Len(workflow.nodes) \in Nat /\ workflow' = workflow /\ outcome = "ordering"
    BY NodesFinite DEF IInv, OrderNext, TakeFirst, Return
  <1>2. CASE TakeFirst
    <2>1. Len(result') = Len(result) + 1 /\ outcome' = outcome
      BY <1>2 DEF TakeFirst, IInv
    <2> QED
      BY <1>1, <2>1 DEF OrderLeft
  <1>3. CASE Return
    BY <1>1, <1>3 DEF Return, OrderLeft
  <1> QED
    BY <1>2, <1>3 DEF OrderNext

LEMMA SearchDescends == ASSUME GraphInv, SearchInv, Search, graph' = graph PROVE SearchLeft' \in Int /\ SearchLeft' < SearchLeft
  <1>1. Cardinality(Roots) \in Nat /\ IsFiniteSet(Roots) /\ Len(visiting) \in Nat /\ loop = "searching"
    BY RootsFinite DEF Search, Enter, Meet, Leave, Exhaust, Searching
  <1>2. visited' = visited => Roots' = Roots
    BY DEF Roots, Members
  <1>3. CASE Enter
    <2>1. Len(visiting') = Len(visiting) + 1 /\ visited' = visited /\ loop' = loop
      BY <1>3 DEF Enter, SearchInv
    <2> QED
      BY <1>1, <1>2, <2>1 DEF SearchLeft
  <1>4. CASE Meet \/ Exhaust
    <2>1. visiting' = visiting /\ visited' = visited /\ loop' # "searching"
      BY <1>4 DEF Meet, Exhaust
    <2> QED
      BY <1>1, <1>2, <2>1 DEF SearchLeft
  <1>5. CASE Leave
    <2>1. visiting # <<>> /\ visited' = visited \cup {Current} /\ loop' = loop
      BY <1>5 DEF Leave
    <2>2. Len(visiting') = Len(visiting) - 1
      BY <1>5, <2>1, Shorter DEF Leave, SearchInv
    <2>3. Current \in Roots
      BY <1>1, <2>1 DEF Current, Roots, SearchInv
    <2>4. Roots' = Roots \ {Current}
      BY <2>1 DEF Roots, Members
    <2>5. Cardinality(Roots') = Cardinality(Roots) - 1
      BY <1>1, <2>3, <2>4, FS_RemoveElement
    <2> QED
      BY <1>1, <2>1, <2>2, <2>5 DEF SearchLeft
  <1> QED
    BY <1>3, <1>4, <1>5 DEF Search

LEMMA AnswerIsNew == "pending" \notin Issues
  <1>1. "pending" \notin PinIssues
    BY DEF PinIssues
  <1>2. "pending" \notin LinkIssues /\ "pending" \notin InputIssues
    BY DEF LinkIssues, InputIssues
  <1>3. "pending" \notin NodeIssues \cup ControlIssues \cup CycleIssues \cup OrderIssues
    BY DEF NodeIssues, ControlIssues, CycleIssues, OrderIssues
  <1> QED
    BY <1>1, <1>2, <1>3 DEF Issues

LEMMA StepDescends ==
  IInv /\ GraphInv /\ SearchInv /\ [ValidationNext]_validationVars =>
    [StepsLeft' < StepsLeft /\ StepsLeft \in Nat]_validationVars
  <1> SUFFICES ASSUME IInv, GraphInv, SearchInv, ValidationNext PROVE StepsLeft' < StepsLeft
    BY StepsLeftNat
  <1> DEFINE answer == IF issues = Pending THEN 1 ELSE 0
  <1>1. OrderLeft \in Nat /\ SearchLeft \in Nat /\ answer \in Nat
    BY OrderLeftNat, RootsFinite DEF SearchLeft
  <1>5. StepsLeft = OrderLeft + SearchLeft + answer /\ StepsLeft' = OrderLeft' + SearchLeft' + answer'
    BY DEF StepsLeft
  <1>6. issues' = issues => answer' = answer
    OBVIOUS
  <1> HIDE DEF answer
  <1>7. OrderLeft \in Int /\ SearchLeft \in Int /\ answer \in Int
    BY <1>1
  <1>2. CASE Search /\ UNCHANGED <<orderVars, graph, issues>>
    <2>1. OrderLeft' = OrderLeft /\ issues' = issues
      BY <1>2 DEF OrderLeft, orderVars
    <2>2. SearchLeft' \in Int /\ SearchLeft' < SearchLeft
      BY <1>2, SearchDescends
    <2>3. answer' = answer
      BY <1>6, <2>1
    <2>4. OrderLeft + SearchLeft' + answer < OrderLeft + SearchLeft + answer
      BY <1>7, <2>2, SumLess
    <2>5. StepsLeft' = OrderLeft + SearchLeft' + answer
      BY <1>5, <2>1, <2>3
    <2> QED
      BY <1>5, <2>4, <2>5
  <1>3. CASE OrderNext /\ UNCHANGED <<graph, searchVars, issues>>
    <2>1. SearchLeft' = SearchLeft /\ issues' = issues
      BY <1>3 DEF SearchLeft, searchVars, Roots, Members
    <2>2. OrderLeft' \in Int /\ OrderLeft' < OrderLeft
      BY <1>3, OrderDescends
    <2>3. answer' = answer
      BY <1>6, <2>1
    <2>4. OrderLeft' + SearchLeft + answer < OrderLeft + SearchLeft + answer
      BY <1>7, <2>2, SumLess
    <2>5. StepsLeft' = OrderLeft' + SearchLeft + answer
      BY <1>5, <2>1, <2>3
    <2> QED
      BY <1>5, <2>4, <2>5
  <1>4. CASE Validate
    <2>1. OrderLeft' = OrderLeft /\ SearchLeft' = SearchLeft
      BY <1>4 DEF Validate, OrderLeft, SearchLeft, orderVars, searchVars, Roots, Members
    <2>2. issues = Pending /\ issues' # Pending
      BY <1>4, AnswerIsNew DEF Validate, Issues, Pending
    <2> QED
      BY <1>1, <1>5, <2>1, <2>2 DEF answer
  <1> QED
    BY <1>2, <1>3, <1>4 DEF ValidationNext

(***************************************************************************)
(* validate_workflow takes a number of steps that is bounded from the      *)
(* start: neither its search nor its ordering can go on for ever.          *)
(***************************************************************************)
THEOREM ValidationRunsOut ==
  ValidationSpec => [][StepsLeft' < StepsLeft /\ StepsLeft \in Nat]_validationVars
  <1>1. ValidationSpec => []SearchInv
    BY SearchInitially, SearchStep, GraphKept, PTL DEF ValidationSpec
  <1> QED
    BY <1>1, StepDescends, ValidationOrders, Inductive, GraphKept, PTL DEF ValidationSpec

-----------------------------------------------------------------------------
LEMMA LastExists ==
  ASSUME NEW n \in Nat, NEW P \in SUBSET (1..n), P # {}
  PROVE  \E i \in P : \A j \in P : j <= i
  <1> DEFINE Q == {n - i : i \in P}
  <1>1. Q \in SUBSET Nat /\ Q # {}
    <2>1. \A i \in P : n - i \in Nat
      OBVIOUS
    <2> QED
      BY <2>1
  <1>2. PICK q \in Q : \A r \in Q : q <= r
    <2> HIDE DEF Q
    <2> QED
      BY <1>1, LeastExists
  <1>3. PICK i \in P : q = n - i
    OBVIOUS
  <1>4. ASSUME NEW j \in P PROVE j <= i
    <2>1. q <= n - j
      BY <1>2
    <2> QED
      BY <1>3, <2>1
  <1> QED
    BY <1>4

LEMMA FallbackIs ==
  ASSUME workflow \in Workflow, NEW n \in Nodes
  PROVE  Fallback(n) \in 1..Len(workflow.nodes) /\ workflow.nodes[Fallback(n)] = n
  BY DEF Fallback, Nodes, Members

LEMMA PlaceIsNat ==
  ASSUME workflow \in Workflow, NEW n \in Nodes
  PROVE  Place(n) \in Nat
  <1>1. Preference \in Seq(Ids) /\ Len(Preference) \in Nat /\ Len(workflow.nodes) \in Nat
    BY DEF Workflow, Preference
  <1>2. CASE n \in Members(Preference)
    <2> DEFINE P == {i \in 1..Len(Preference) : Preference[i] = n}
               last(i) == Preference[i] = n /\ \A j \in (i + 1)..Len(Preference) : Preference[j] # n
    <2>1. P \in SUBSET (1..Len(Preference)) /\ P # {}
      BY <1>2 DEF Members
    <2>2. PICK i \in P : \A j \in P : j <= i
      <3> HIDE DEF P
      <3> QED
        BY <1>1, <2>1, LastExists
    <2>3. i \in 1..Len(Preference) /\ last(i)
      <3> SUFFICES ASSUME NEW j \in (i + 1)..Len(Preference), Preference[j] = n PROVE FALSE
        OBVIOUS
      <3>1. j \in P
        BY <1>1
      <3> QED
        BY <1>1, <2>2, <3>1
    <2>4. Place(n) = CHOOSE k \in 1..Len(Preference) : last(k)
      BY <1>2 DEF Place
    <2> HIDE DEF last
    <2>5. Place(n) \in 1..Len(Preference)
      BY <2>3, <2>4
    <2> QED
      BY <1>1, <2>5
  <1>3. CASE n \notin Members(Preference)
    <2>1. IsFiniteSet(Members(Preference))
      <3> DEFINE f == [i \in 1..Len(Preference) |-> Preference[i]]
      <3>1. f \in Surjection(1..Len(Preference), Members(Preference))
        BY DEF Surjection, Members
      <3>2. IsFiniteSet(1..Len(Preference))
        BY <1>1, FS_Interval
      <3> QED
        BY <3>1, <3>2, FS_Surjection
    <2>2. Cardinality(Members(Preference)) \in Nat
      BY <2>1, FS_CardinalityType
    <2> QED
      BY <1>1, <1>3, <2>2, FallbackIs DEF Place
  <1> QED
    BY <1>2, <1>3

\* The order of the ready list is total, so there is a first in it.
LEMMA FirstOfReady ==
  ASSUME IInv, ready # {}
  PROVE  \E current \in ready : \A n \in ready \ {current} : Precedes(current, n)
  <1>1. ready \in SUBSET Nodes /\ workflow \in Workflow /\ Len(workflow.nodes) \in Nat
    BY NodesFinite DEF IInv
  <1> DEFINE P == {Place(n) : n \in ready}
  <1>2. P \in SUBSET Nat /\ P # {}
    BY <1>1, PlaceIsNat
  <1>3. PICK p \in P : \A q \in P : p <= q
    <2> HIDE DEF P
    <2> QED
      BY <1>2, LeastExists
  <1> DEFINE Q == {Fallback(n) : n \in {m \in ready : Place(m) = p}}
  <1>4. Q \in SUBSET Nat /\ Q # {}
    BY <1>1, FallbackIs
  <1>5. PICK f \in Q : \A g \in Q : f <= g
    <2> HIDE DEF P, Q
    <2> QED
      BY <1>4, LeastExists
  <1>6. PICK current \in ready : Place(current) = p /\ Fallback(current) = f
    OBVIOUS
  <1>7. ASSUME NEW n \in ready \ {current} PROVE Precedes(current, n)
    <2>1. p <= Place(n) /\ p \in Nat /\ Place(n) \in Nat
      BY <1>1, <1>2, <1>3, PlaceIsNat
    <2>2. CASE Place(n) # p
      BY <1>6, <2>1, <2>2 DEF Precedes
    <2>3. CASE Place(n) = p
      <3>1. f <= Fallback(n)
        BY <1>5, <2>3
      <3>2. Fallback(n) # f
        BY <1>1, <1>6, FallbackIs
      <3>3. Fallback(n) \in Nat /\ f \in Nat
        BY <1>1, <1>4, FallbackIs
      <3> QED
        BY <1>6, <2>3, <3>1, <3>2, <3>3 DEF Precedes
    <2> QED
      BY <2>2, <2>3
  <1> QED
    BY <1>7

\* The guards of Enter, Meet, Leave, Exhaust, TakeFirst, Return and Validate.
CanSearch ==
    /\ Searching
    /\ \/ Ahead \ (visited \cup Members(visiting)) # {}
       \/ Ahead \cap Members(visiting) # {}
       \/ visiting # <<>> /\ Ahead \subseteq visited
       \/ visiting = <<>> /\ Ahead = {}

CanOrder ==
    /\ ~Searching /\ outcome = "ordering"
    /\ \/ \E current \in ready : \A n \in ready \ {current} : Precedes(current, n)
       \/ ready = {}

CanAnswer == loop # "searching" /\ outcome # "ordering" /\ issues = Pending

(***************************************************************************)
(* Until it has answered, validate_workflow has a step to take: it ends by *)
(* an answer and in no other way.                                          *)
(***************************************************************************)
THEOREM ValidationGoesOn ==
  ValidationSpec => [](graph.preferred = <<>> /\ issues = Pending => CanSearch \/ CanOrder \/ CanAnswer)
  <1>1. IInv /\ GraphInv /\ SearchInv =>
          (graph.preferred = <<>> /\ issues = Pending => CanSearch \/ CanOrder \/ CanAnswer)
    <2> SUFFICES ASSUME IInv, GraphInv, SearchInv, graph.preferred = <<>>, issues = Pending
                 PROVE  CanSearch \/ CanOrder \/ CanAnswer
      OBVIOUS
    <2>1. CASE loop = "searching"
      <3>1. visiting = <<>> => Ahead \cap visited = {} /\ Members(visiting) = {}
        BY DEF Ahead, Roots, Members
      <3> QED
        BY <2>1, <3>1 DEF CanSearch, Searching
    <2>2. CASE loop # "searching" /\ outcome = "ordering"
      BY <2>2, FirstOfReady DEF CanOrder, Searching
    <2> QED
      BY <2>1, <2>2 DEF CanAnswer
  <1>2. ValidationSpec => []SearchInv
    BY SearchInitially, SearchStep, GraphKept, PTL DEF ValidationSpec
  <1> QED
    BY <1>1, <1>2, ValidationOrders, Inductive, GraphKept, PTL
=============================================================================
