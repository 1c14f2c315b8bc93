------------------------- MODULE TokenWorkflowProofs -------------------------
(***************************************************************************)
(* Machine-checked proofs about TokenWorkflow, for every set of workflows  *)
(* and every limit of steps.                                               *)
(***************************************************************************)
EXTENDS TokenWorkflowProperties, FiniteSetTheorems, TLAPS

\* A counter of one member that goes up leaves a function into the numbers.
LEMMA CountUp ==
  ASSUME NEW S, NEW f \in [S -> Nat], NEW n \in S
  PROVE  [f EXCEPT ![n] = @ + 1] \in [S -> Nat]
OBVIOUS

(***************************************************************************)
(* Type correctness.                                                       *)
(***************************************************************************)
LEMMA ControlType == workflow \in Workflow => Control \in Seq(Connection)
  BY DEF Control, Workflow

LEMMA CarrierType ==
  ASSUME workflow \in Workflow, NEW i \in Carriers
  PROVE  /\ Control[i] \in Connection
         /\ Control[i].to \in Nodes
         /\ Control[i].max \in Nat
  <1>1. Control \in Seq(Connection)
    BY ControlType
  <1>2. Control[i] \in Connection
    BY <1>1 DEF Carriers
  <1> QED
    BY <1>2 DEF Connection

LEMMA OrderType == workflow \in Workflow => workflow.order \in Seq(Nodes)
  BY DEF Workflow

\* The places of the order.
LEMMA OrderPlaces ==
  ASSUME workflow \in Workflow
  PROVE  /\ Len(workflow.order) \in Nat
         /\ \A i \in 1..Len(workflow.order) : workflow.order[i] \in Nodes
         /\ \A i, j \in 1..Len(workflow.order) : workflow.order[i] = workflow.order[j] => i = j
  <1>1. \A i, j \in 1..Len(workflow.order) : workflow.order[i] = workflow.order[j] => i = j
    BY DEF Workflow
  <1> QED
    BY <1>1, OrderType

LEMMA EmitType ==
  ASSUME NEW stage \in Stages, NEW key \in Keys, NEW branch \in Keys
  PROVE  Emit(stage, key, branch) \in Emission
  BY DEF Emit, Emission

LEMMA WithoutType ==
  ASSUME NEW s \in Seq(Nodes), NEW i \in 1..Len(s)
  PROVE  /\ Without(s, i) \in Seq(Nodes)
         /\ Len(Without(s, i)) = Len(s) - 1
         /\ \A j \in 1..Len(Without(s, i)) : \E k \in 1..Len(s) : Without(s, i)[j] = s[k]
  <1>1. Len(s) - 1 \in Nat
    OBVIOUS
  <1>2. \A j \in 1..(Len(s) - 1) : s[j] \in Nodes /\ s[j + 1] \in Nodes
    OBVIOUS
  <1>3. Without(s, i) \in [1..(Len(s) - 1) -> Nodes]
    BY <1>2 DEF Without
  <1>4. Without(s, i) \in Seq(Nodes) /\ Len(Without(s, i)) = Len(s) - 1
    BY <1>1, <1>3
  <1>5. ASSUME NEW j \in 1..(Len(s) - 1)
        PROVE  \E k \in 1..Len(s) : Without(s, i)[j] = s[k]
    <2>1. j \in 1..Len(s) /\ j + 1 \in 1..Len(s)
      OBVIOUS
    <2>2. Without(s, i)[j] = s[j] \/ Without(s, i)[j] = s[j + 1]
      BY DEF Without
    <2> QED
      BY <2>1, <2>2
  <1> QED
    BY <1>4, <1>5

LEMMA ActivateType ==
  ASSUME TypeOK, NEW n \in Nodes, Activate(n)
  PROVE  queue' \in Seq(Nodes) /\ activated' \in [Nodes -> Nat]
  BY DEF TypeOK, Activate

LEMMA ArriveType ==
  ASSUME TypeOK, NEW i \in Carriers, Arrive(i)
  PROVE  /\ queue' \in Seq(Nodes)
         /\ activated' \in [Nodes -> Nat]
         /\ arrivals' \in [Nodes -> SUBSET Carriers]
  <1>1. Control[i].to \in Nodes
    BY CarrierType DEF TypeOK
  <1>2. arrivals[Control[i].to] \cup {i} \in SUBSET Carriers
    BY <1>1 DEF TypeOK
  <1>3. arrivals' \in [Nodes -> SUBSET Carriers]
    BY <1>1, <1>2 DEF Arrive, TypeOK
  <1>4. CASE Activate(Control[i].to)
    BY <1>1, <1>3, <1>4, ActivateType
  <1>5. CASE UNCHANGED <<queue, activated>>
    BY <1>3, <1>5 DEF TypeOK
  <1> QED
    BY <1>4, <1>5 DEF Arrive

LEMMA TypeInitially == Init => TypeOK
  <1> SUFFICES ASSUME Init PROVE TypeOK
    OBVIOUS
  <1>1. current \in Nodes
    BY NodesAssumption DEF Init
  <1>2. emission \in Emission
    BY KeysAssumption, EmitType DEF Init, NoEmission, Stages
  <1>3. workflow \in Workflow /\ traversals \in [Carriers -> Nat]
    BY WorkflowsAssumption DEF Init
  <1>4. arrivals \in [Nodes -> SUBSET Carriers] /\ queue \in Seq(Nodes)
    BY DEF Init
  <1>5. /\ visits \in [Nodes -> Nat] /\ activated \in [Nodes -> Nat] /\ stuck \in [Nodes -> Nat]
        /\ at \in Nat \ {0} /\ pc \in PC
    BY DEF Init, PC
  <1> QED
    BY <1>1, <1>2, <1>3, <1>4, <1>5, WorkflowsAssumption DEF Init, TypeOK

\* Carriers depends on the workflow only, which no step changes.
LEMMA TypeFrame ==
  ASSUME TypeOK, workflow' = workflow,
         pc' \in PC, at' \in Nat \ {0}, queue' \in Seq(Nodes), current' \in Nodes,
         emission' \in Emission, values' \subseteq Outputs, visits' \in [Nodes -> Nat],
         traversals' \in [Carriers -> Nat], arrivals' \in [Nodes -> SUBSET Carriers],
         activated' \in [Nodes -> Nat], stuck' \in [Nodes -> Nat], steps' \in Nat,
         faulted' \subseteq Nodes, cancelled' \in BOOLEAN, late' \in Nat
  PROVE  TypeOK'
  <1>1. Carriers' = Carriers
    BY DEF Carriers, Control
  <1> QED
    BY <1>1 DEF TypeOK

LEMMA StoredType == TypeOK => Stored \subseteq Outputs
  <1> SUFFICES ASSUME TypeOK PROVE Stored \subseteq Outputs
    OBVIOUS
  <1>1. /\ current \in Nodes
        /\ workflow.slots \in [Nodes -> SUBSET Outputs]
        /\ workflow.through \in [Nodes -> SUBSET [output : Outputs, feeds : SUBSET Outputs]]
    BY DEF TypeOK, Workflow
  <1>2. workflow.slots[current] \subseteq Outputs
    BY <1>1
  <1>3. \A p \in workflow.through[current] : p.output \in Outputs
    BY <1>1
  <1> QED
    BY <1>2, <1>3 DEF Stored, Passed

LEMMA WorkflowStays == [Next]_vars => workflow' = workflow
  BY DEF Next, EngineStep, SeedNode, SeedingDone, StartNode, Deadlock, End, ExceedSteps, StopCancelled,
     PassCheckpoint, Return, Raise, SkipConnection, RefuseConnection, CrossConnection,
     EmitBranch, EmitCompleted, EmissionDone, Cancel, vars, tokenVars, recordVars

LEMMA TypeStep == TypeOK /\ [Next]_vars => TypeOK'
  <1> SUFFICES ASSUME TypeOK, [Next]_vars PROVE TypeOK'
    OBVIOUS
  <1> USE DEF TypeOK, tokenVars, recordVars
  <1>0. (workflow' = workflow) => Carriers' = Carriers
    BY DEF Carriers, Control
  <1>1. CASE SeedNode
    <2>1. workflow.order[at] \in Nodes
      <3>1. workflow \in Workflow /\ at \in Nat \ {0} /\ at <= Len(workflow.order)
        BY <1>1 DEF SeedNode
      <3> QED
        BY <3>1, OrderPlaces
    <2>2. CASE Activate(workflow.order[at])
      <3>1. queue' \in Seq(Nodes) /\ activated' \in [Nodes -> Nat]
        <4> HIDE DEF TypeOK
        <4> QED
          BY <2>1, <2>2, ActivateType
      <3>2. at' \in Nat \ {0} /\ UNCHANGED <<workflow, pc, current, emission, traversals,
                                              arrivals, recordVars, cancelled>>
        BY <1>1 DEF SeedNode
      <3> QED
        BY <3>1, <3>2, TypeFrame
    <2>3. CASE UNCHANGED <<queue, activated>>
      <3>1. queue' \in Seq(Nodes) /\ activated' \in [Nodes -> Nat]
        BY <2>3
      <3>2. at' \in Nat \ {0} /\ UNCHANGED <<workflow, pc, current, emission, traversals,
                                              arrivals, recordVars, cancelled>>
        BY <1>1 DEF SeedNode
      <3> QED
        BY <3>1, <3>2, TypeFrame
    <2> QED
      BY <1>1, <2>2, <2>3 DEF SeedNode
  <1>2. CASE SeedingDone
    BY <1>0, <1>2 DEF SeedingDone, PC
  <1>3. CASE StartNode
    <2>1. PICK i \in 1..Len(queue) :
            /\ current' = queue[i]
            /\ queue' = Without(queue, i)
            /\ visits' = [visits EXCEPT ![queue[i]] = @ + 1]
      BY <1>3 DEF StartNode
    <2>2. queue \in Seq(Nodes) /\ queue[i] \in Nodes
      OBVIOUS
    <2>3. queue' \in Seq(Nodes)
      <3> HIDE DEF TypeOK
      <3> QED
        BY <2>1, <2>2, WithoutType
    <2>4. current' \in Nodes /\ visits' \in [Nodes -> Nat]
      <3>1. PICK n \in Nodes : n = queue[i]
        BY <2>2
      <3>2. current' = n /\ visits' = [visits EXCEPT ![n] = @ + 1]
        BY <2>1, <3>1
      <3>3. visits \in [Nodes -> Nat]
        OBVIOUS
      <3> HIDE DEF TypeOK
      <3> QED
        BY <3>2, <3>3, CountUp
    <2>5. steps' \in Nat /\ pc' \in PC
      BY <1>3 DEF StartNode, PC
    <2>6. UNCHANGED <<workflow, at, emission, values, traversals, arrivals, activated, stuck,
                      faulted, cancelled, late>>
      BY <1>3 DEF StartNode
    <2>7. /\ workflow' = workflow /\ at' \in Nat \ {0} /\ emission' \in Emission
          /\ values' \subseteq Outputs /\ traversals' \in [Carriers -> Nat]
          /\ arrivals' \in [Nodes -> SUBSET Carriers] /\ activated' \in [Nodes -> Nat]
          /\ stuck' \in [Nodes -> Nat] /\ faulted' \subseteq Nodes
          /\ cancelled' \in BOOLEAN /\ late' \in Nat
      BY <2>6
    <2>8. TypeOK
      OBVIOUS
    <2> HIDE DEF TypeOK
    <2> QED
      BY <2>3, <2>4, <2>5, <2>7, <2>8, TypeFrame
  <1>4. CASE Deadlock
    <2>1. queue' \in Seq(Nodes) /\ Head(queue) \in Nodes
      BY <1>4 DEF Deadlock
    <2>2. stuck' \in [Nodes -> Nat]
      <3>1. stuck \in [Nodes -> Nat] /\ stuck' = [stuck EXCEPT ![Head(queue)] = stuck[Head(queue)] + 1]
        BY <1>4 DEF Deadlock
      <3>2. stuck[Head(queue)] + 1 \in Nat
        BY <2>1, <3>1
      <3> HIDE DEF TypeOK
      <3> QED
        BY <3>1, <3>2
    <2> QED
      BY <1>0, <1>4, <2>1, <2>2 DEF Deadlock
  <1>5. CASE End
    BY <1>0, <1>5 DEF End, PC
  <1>6. CASE ExceedSteps
    BY <1>0, <1>6 DEF ExceedSteps, PC
  <1>7. CASE StopCancelled
    BY <1>0, <1>7 DEF StopCancelled, PC
  <1>8. CASE PassCheckpoint
    BY <1>0, <1>8 DEF PassCheckpoint, PC
  <1>9. ASSUME NEW branch \in Keys, Return(branch) PROVE TypeOK'
    <2>1. emission' \in Emission
      BY <1>9, EmitType, KeysAssumption DEF Return, Stages
    <2>2. late' \in Nat
      BY <1>9 DEF Return
    <2>3. values' \subseteq Outputs
      BY <1>9, StoredType DEF Return
    <2> QED
      BY <1>0, <1>9, <2>1, <2>2, <2>3 DEF Return, PC
  <1>10. CASE Raise
    <2>1. emission' \in Emission
      BY <1>10, EmitType, KeysAssumption DEF Raise, Stages
    <2>2. values' \subseteq Outputs
      BY <1>10, StoredType DEF Raise
    <2> QED
      BY <1>0, <1>10, <2>1, <2>2 DEF Raise, PC
  <1>11. CASE SkipConnection
    BY <1>0, <1>11 DEF SkipConnection
  <1>12. CASE RefuseConnection
    <2>1. emission' \in Emission
      BY <1>12 DEF RefuseConnection, Emission
    <2> QED
      BY <1>0, <1>12, <2>1 DEF RefuseConnection
  <1>13. CASE CrossConnection
    <2>1. at \in Carriers
      BY <1>13, ControlType DEF CrossConnection, Emitting, Carriers
    <2>2. emission' \in Emission
      BY <1>13 DEF CrossConnection, Emission
    <2>3. traversals' \in [Carriers -> Nat]
      BY <1>13, <2>1 DEF CrossConnection
    <2>4. Arrive(at)
      BY <1>13 DEF CrossConnection
    <2>5. /\ queue' \in Seq(Nodes)
          /\ activated' \in [Nodes -> Nat]
          /\ arrivals' \in [Nodes -> SUBSET Carriers]
      <3> HIDE DEF TypeOK
      <3> QED
        BY <2>1, <2>4, ArriveType
    <2>6. UNCHANGED <<workflow, pc, current, recordVars, cancelled>> /\ at' \in Nat \ {0}
      BY <1>13 DEF CrossConnection
    <2> QED
      BY <1>0, <2>2, <2>3, <2>5, <2>6
  <1>14. CASE EmitBranch
    <2>1. emission' \in Emission
      BY <1>14, EmitType DEF EmitBranch, Stages, Emission
    <2> QED
      BY <1>0, <1>14, <2>1 DEF EmitBranch
  <1>15. CASE EmitCompleted
    <2>1. emission' \in Emission
      BY <1>15, EmitType, KeysAssumption DEF EmitCompleted, Stages, Emission
    <2> QED
      BY <1>0, <1>15, <2>1 DEF EmitCompleted
  <1>16. CASE EmissionDone
    <2>1. emission' \in Emission
      BY <1>16, EmitType, KeysAssumption DEF EmissionDone, NoEmission, Stages
    <2> QED
      BY <1>0, <1>16, <2>1 DEF EmissionDone, PC
  <1>17. CASE Cancel
    BY <1>0, <1>17 DEF Cancel
  <1>18. CASE UNCHANGED vars
    BY <1>0, <1>18 DEF vars
  <1> QED
    BY <1>1, <1>2, <1>3, <1>4, <1>5, <1>6, <1>7, <1>8, <1>9, <1>10, <1>11, <1>12,
       <1>13, <1>14, <1>15, <1>16, <1>17, <1>18 DEF Next, EngineStep

(***************************************************************************)
(* Every reachable state is well typed; the control connections never      *)
(* carry a token to a node or leave by a key the workflow does not have.   *)
(***************************************************************************)
THEOREM TypeCorrect == Spec => []TypeOK
  BY TypeInitially, TypeStep, PTL DEF Spec

(***************************************************************************)
(* Deadlocks.                                                              *)
(***************************************************************************)
AnyStuck == \E n \in Nodes : stuck[n] > 0

\* Once a deadlock is recorded the engine is in its main loop or past it, and
\* every token left waits for data.
StuckInv ==
    AnyStuck => /\ pc \in {"loop", "ended"}
                /\ \A i \in 1..Len(queue) : ~Ready(queue[i])

LEMMA StuckInitially == Init => StuckInv
  BY DEF Init, StuckInv, AnyStuck

LEMMA StuckStep == TypeOK /\ StuckInv /\ [Next]_vars => StuckInv'
  <1> SUFFICES ASSUME TypeOK, StuckInv, [Next]_vars PROVE StuckInv'
    OBVIOUS
  <1> USE DEF tokenVars, recordVars
  <1>1. CASE Deadlock
    <2>1. \A i \in 1..Len(queue') : queue'[i] = queue[i + 1] /\ i + 1 \in 1..Len(queue)
      BY <1>1 DEF Deadlock, TypeOK
    <2>2. UNCHANGED <<values, workflow>> /\ pc = "loop" /\ pc' = pc
      BY <1>1 DEF Deadlock
    <2>3. \A i \in 1..Len(queue) : ~Ready(queue[i])
      BY <1>1 DEF Deadlock
    <2>4. (\A i \in 1..Len(queue) : ~Ready(queue[i]))'
      BY <2>1, <2>2, <2>3 DEF Ready
    <2> QED
      BY <2>2, <2>4 DEF StuckInv
  <1>2. CASE ~AnyStuck /\ ~Deadlock
    <2>1. stuck' = stuck
      BY <1>2 DEF Next, EngineStep, SeedNode, SeedingDone, StartNode, End, ExceedSteps, StopCancelled,
         PassCheckpoint, Return, Raise, SkipConnection, RefuseConnection, CrossConnection,
         EmitBranch, EmitCompleted, EmissionDone, Cancel, vars
    <2> QED
      BY <1>2, <2>1 DEF StuckInv, AnyStuck
  <1>3. CASE AnyStuck /\ ~Deadlock
    <2>1. pc \in {"loop", "ended"} /\ \A i \in 1..Len(queue) : ~Ready(queue[i])
      BY <1>3 DEF StuckInv
    <2>5. ~StartNode
      BY <2>1 DEF StartNode
    <2>2. UNCHANGED <<queue, values, workflow>> /\ pc' \in {"loop", "ended"}
      BY <1>3, <2>1, <2>5 DEF Next, EngineStep, SeedNode, SeedingDone, End, ExceedSteps,
         StopCancelled, PassCheckpoint, Return, Raise, SkipConnection, RefuseConnection,
         CrossConnection, EmitBranch, EmitCompleted, EmissionDone, Cancel, vars, Emitting, Emitted
    <2>4. (\A i \in 1..Len(queue) : ~Ready(queue[i]))'
      BY <2>1, <2>2 DEF Ready
    <2> QED
      BY <2>2, <2>4 DEF StuckInv
  <1> QED
    BY <1>1, <1>2, <1>3

LEMMA StuckFreezes ==
  ASSUME StuckInv, [Next]_vars, AnyStuck
  PROVE  visits' = visits /\ traversals' = traversals
  <1>1. pc \in {"loop", "ended"} /\ \A i \in 1..Len(queue) : ~Ready(queue[i])
    BY DEF StuckInv
  <1> QED
    BY <1>1 DEF Next, EngineStep, SeedNode, SeedingDone, StartNode, Deadlock, End, ExceedSteps,
       StopCancelled, PassCheckpoint, Return, Raise, SkipConnection, RefuseConnection,
       CrossConnection, EmitBranch, EmitCompleted, EmissionDone, Cancel, vars, Emitting, Emitted,
       tokenVars, recordVars

(***************************************************************************)
(* After a control-data-deadlock record no node starts and no token moves  *)
(* (the queue loop of execution.py:196): the deadlock was one.             *)
(***************************************************************************)
THEOREM DeadlockFinal == Spec => DeadlockIsFinal
  <1>1. Init => TypeOK /\ StuckInv
    BY TypeInitially, StuckInitially
  <1>2. TypeOK /\ StuckInv /\ [Next]_vars => (TypeOK /\ StuckInv)'
    BY TypeStep, StuckStep
  <1>3. StuckInv /\ [Next]_vars =>
          [(\E n \in Nodes : stuck[n] > 0) => visits' = visits /\ traversals' = traversals]_vars
    BY StuckFreezes DEF AnyStuck
  <1> QED
    BY <1>1, <1>2, <1>3, PTL DEF Spec, DeadlockIsFinal

(***************************************************************************)
(* Cancellation.                                                           *)
(***************************************************************************)
\* The one node that may complete late had passed its checkpoint.
LateInv ==
    /\ late \in {0, 1}
    /\ late = 1 => cancelled /\ pc # "inside"

(***************************************************************************)
(* After a cancellation is visible at most one node completes: the next    *)
(* one stops at the checkpoint of NodeRuntime.invoke.                      *)
(***************************************************************************)
THEOREM OneLateNode == Spec => []AtMostOneLateNode
  <1>1. Init => LateInv
    BY DEF Init, LateInv
  <1>2. TypeOK /\ LateInv /\ [Next]_vars => LateInv'
    BY DEF TypeOK, LateInv, Next, EngineStep, SeedNode, SeedingDone, StartNode, Deadlock, End,
       ExceedSteps, StopCancelled, PassCheckpoint, Return, Raise, SkipConnection,
       RefuseConnection, CrossConnection, EmitBranch, EmitCompleted, EmissionDone, Cancel, vars,
       Emitting, Emitted, tokenVars, recordVars
  <1>3. LateInv => AtMostOneLateNode
    BY DEF LateInv, AtMostOneLateNode
  <1> QED
    BY TypeCorrect, <1>1, <1>2, <1>3, PTL DEF Spec

(***************************************************************************)
(* Limits and barriers.                                                    *)
(***************************************************************************)
Waits(m, i) == IF i \in arrivals[m] THEN 1 ELSE 0

\* What holds of a merge between two of its activations: the set of arrivals
\* is never complete, and before the first activation it is all there was.
BarrierSound(m) ==
    /\ Required(m) # {} => ~(Required(m) \subseteq arrivals[m])
    /\ \A i \in Required(m) : activated[m] + Waits(m, i) <= traversals[i]
    /\ activated[m] = 0 => \A i \in Required(m) : traversals[i] > 0 => i \in arrivals[m]

BarrierInv == \A m \in workflow.barriers : BarrierSound(m)

LEMMA BarrierNodes == TypeOK => workflow.barriers \subseteq Nodes
  BY DEF TypeOK, Workflow

LEMMA RequiredFrame == workflow' = workflow => \A m : Required(m)' = Required(m)
  BY DEF Required, Carriers, Control

\* Every step but SeedNode and CrossConnection leaves the tokens that were
\* delivered alone.
LEMMA DeliveredFrame ==
  [Next]_vars /\ ~SeedNode /\ ~CrossConnection =>
    UNCHANGED <<workflow, traversals, arrivals, activated>>
  BY DEF Next, EngineStep, SeedingDone, StartNode, Deadlock, End, ExceedSteps, StopCancelled,
     PassCheckpoint, Return, Raise, SkipConnection, RefuseConnection, EmitBranch, EmitCompleted,
     EmissionDone, Cancel, vars, tokenVars, recordVars

LEMMA BarrierFrame ==
  ASSUME NEW m, workflow' = workflow, arrivals'[m] = arrivals[m],
         activated'[m] = activated[m],
         \A i \in Required(m) : traversals'[i] = traversals[i],
         BarrierSound(m)
  PROVE  BarrierSound(m)'
  <1>1. Required(m)' = Required(m)
    BY RequiredFrame
  <1> QED
    BY <1>1 DEF BarrierSound, Waits

LEMMA BarrierCross ==
  ASSUME TypeOK, CrossConnection, NEW m \in workflow.barriers, BarrierSound(m)
  PROVE  BarrierSound(m)'
  <1>1. at \in Carriers /\ workflow' = workflow /\ Arrive(at)
    BY ControlType DEF CrossConnection, Emitting, Carriers, TypeOK
  <1>2. PICK t \in Nodes : t = Control[at].to
    BY <1>1, CarrierType DEF TypeOK
  <1>3. m \in Nodes
    BY BarrierNodes
  <1>4. traversals' = [traversals EXCEPT ![at] = @ + 1]
    BY DEF CrossConnection
  <1>5. at \in Required(m) <=> t = m
    BY <1>1, <1>2 DEF Required
  <1>6. Required(m) \subseteq Carriers
    BY DEF Required
  <1>7. Required(m)' = Required(m)
    BY <1>1, RequiredFrame
  <1>8. CASE t # m
    <2>1. arrivals'[m] = arrivals[m] /\ activated'[m] = activated[m]
      BY <1>1, <1>2, <1>3, <1>8 DEF Arrive, Activate, TypeOK
    <2>2. \A i \in Required(m) : traversals'[i] = traversals[i]
      BY <1>4, <1>5, <1>6, <1>8 DEF TypeOK
    <2> QED
      BY <1>1, <2>1, <2>2, BarrierFrame
  <1>9. CASE t = m /\ Required(m) \subseteq arrivals[m] \cup {at}
    <2>1. activated'[m] = activated[m] + 1 /\ arrivals'[m] = {}
      BY <1>1, <1>2, <1>3, <1>9 DEF Arrive, Activate, TypeOK
    <2>2. \A i \in Required(m) : i # at => i \in arrivals[m]
      BY <1>9
    <2>3. \A i \in Required(m) : activated'[m] <= traversals'[i]
      BY <1>1, <1>3, <1>4, <1>6, <2>1, <2>2 DEF BarrierSound, Waits, TypeOK
    <2>4. activated'[m] # 0 /\ activated'[m] \in Nat
      BY <1>3, <2>1 DEF TypeOK
    <2>5. \A i : Waits(m, i)' = 0
      BY <2>1 DEF Waits
    <2> QED
      BY <1>7, <2>1, <2>3, <2>4, <2>5 DEF BarrierSound
  <1>10. CASE t = m /\ ~(Required(m) \subseteq arrivals[m] \cup {at})
    <2>1. activated'[m] = activated[m] /\ arrivals'[m] = arrivals[m] \cup {at}
      BY <1>1, <1>2, <1>3, <1>10 DEF Arrive, TypeOK
    <2>2. \A i \in Required(m) : activated[m] + (IF i \in arrivals[m] \cup {at} THEN 1 ELSE 0) <= traversals'[i]
      BY <1>1, <1>3, <1>4, <1>6 DEF BarrierSound, Waits, TypeOK
    <2>3. activated[m] = 0 => \A i \in Required(m) : traversals'[i] > 0 => i \in arrivals[m] \cup {at}
      BY <1>1, <1>3, <1>4, <1>6 DEF BarrierSound, TypeOK
    <2> QED
      BY <1>7, <1>10, <2>1, <2>2, <2>3 DEF BarrierSound, Waits
  <1> QED
    BY <1>8, <1>9, <1>10

LEMMA BarrierStep == TypeOK /\ BarrierInv /\ [Next]_vars => BarrierInv'
  <1> SUFFICES ASSUME TypeOK, BarrierInv, [Next]_vars PROVE BarrierInv'
    OBVIOUS
  <1>0. workflow' = workflow
    BY DEF Next, EngineStep, SeedNode, SeedingDone, StartNode, Deadlock, End, ExceedSteps,
       StopCancelled, PassCheckpoint, Return, Raise, SkipConnection, RefuseConnection,
       CrossConnection, EmitBranch, EmitCompleted, EmissionDone, Cancel, vars
  <1> SUFFICES ASSUME NEW m \in workflow.barriers PROVE BarrierSound(m)'
    BY <1>0 DEF BarrierInv
  <1>1. BarrierSound(m) /\ m \in Nodes
    BY BarrierNodes DEF BarrierInv
  <1>2. CASE CrossConnection
    BY <1>1, <1>2, BarrierCross
  <1>3. CASE SeedNode
    <2>1. arrivals' = arrivals /\ traversals' = traversals
      BY <1>3 DEF SeedNode
    <2>2. CASE Required(m) = {}
      <3>1. Required(m)' = {}
        BY <1>0, <2>2, RequiredFrame
      <3> QED
        BY <3>1 DEF BarrierSound
    <2>3. CASE Required(m) # {}
      <3>1. activated'[m] = activated[m]
        BY <1>1, <1>3, <2>3 DEF SeedNode, Activate, TypeOK
      <3> QED
        BY <1>0, <1>1, <2>1, <3>1, BarrierFrame
    <2> QED
      BY <2>2, <2>3
  <1>4. CASE ~CrossConnection /\ ~SeedNode
    BY <1>1, <1>4, DeliveredFrame, BarrierFrame
  <1> QED
    BY <1>2, <1>3, <1>4

(***************************************************************************)
(* A merge of policy 'all' is activated once per complete set of arrivals  *)
(* (enqueue, execution.py:155), whatever the loops around it do.           *)
(***************************************************************************)
THEOREM BarrierHolds == Spec => []BarrierWaitsForAll
  <1>1. Init => BarrierInv
    BY BarrierNodes, TypeInitially DEF Init, BarrierInv, BarrierSound, Waits, Required
  <1>2. TypeOK /\ BarrierInv => BarrierWaitsForAll
    <2> SUFFICES ASSUME TypeOK, BarrierInv, NEW m \in workflow.barriers
                 PROVE /\ \A i \in Required(m) :
                              activated[m] + (IF i \in arrivals[m] THEN 1 ELSE 0) <= traversals[i]
                       /\ (Required(m) # {} /\ \A i \in Required(m) : traversals[i] > 0)
                            => activated[m] > 0
      BY DEF BarrierWaitsForAll
    <2>1. BarrierSound(m) /\ m \in Nodes
      BY BarrierNodes DEF BarrierInv
    <2>2. activated[m] \in Nat
      BY <2>1 DEF TypeOK
    <2> QED
      BY <2>1, <2>2 DEF BarrierSound, Waits
  <1> QED
    BY TypeCorrect, BarrierStep, <1>1, <1>2, PTL DEF Spec

(***************************************************************************)
(* No connection carries more tokens than its max_traversals               *)
(* (emit_control, execution.py:185).                                       *)
(***************************************************************************)
THEOREM LimitsKept == Spec => []LimitsHold
  <1>1. Init => LimitsHold
    BY TypeInitially, CarrierType DEF Init, LimitsHold, TypeOK
  <1>2. TypeOK /\ LimitsHold /\ [Next]_vars => LimitsHold'
    <2> SUFFICES ASSUME TypeOK, LimitsHold, [Next]_vars PROVE LimitsHold'
      OBVIOUS
    <2>1. CASE CrossConnection
      <3>1. at \in Carriers /\ ~Exhausted(at) /\ workflow' = workflow
        BY <2>1, ControlType DEF CrossConnection, Emitting, Carriers, TypeOK
      <3>2. traversals' = [traversals EXCEPT ![at] = @ + 1]
        BY <2>1 DEF CrossConnection
      <3>3. Control' = Control /\ Carriers' = Carriers
        BY <3>1 DEF Control, Carriers
      <3>4. ASSUME NEW i \in Carriers, Control[i].max # Unlimited
            PROVE  traversals'[i] <= Control[i].max
        BY <3>1, <3>2, <3>4, CarrierType DEF Exhausted, LimitsHold, TypeOK
      <3> QED
        BY <3>3, <3>4 DEF LimitsHold, Unlimited
    <2>2. CASE ~CrossConnection
      <3>1. UNCHANGED <<workflow, traversals>>
        BY <2>2 DEF Next, EngineStep, SeedNode, SeedingDone, StartNode, Deadlock, End, ExceedSteps,
           StopCancelled, PassCheckpoint, Return, Raise, SkipConnection, RefuseConnection,
           EmitBranch, EmitCompleted, EmissionDone, Cancel, vars, tokenVars
      <3> QED
        BY <3>1 DEF LimitsHold, Carriers, Control
    <2> QED
      BY <2>1, <2>2
  <1> QED
    BY TypeCorrect, <1>1, <1>2, PTL DEF Spec

-----------------------------------------------------------------------------
(***************************************************************************)
(* Counting.  Tokens are counted by the places they have in the queue and, *)
(* once a connection has carried them, by their numbers.                   *)
(***************************************************************************)
Spots(s, x) == {i \in 1..Len(s) : s[i] = x}

LEMMA SpotsFinite ==
  ASSUME NEW T, NEW s \in Seq(T), NEW x
  PROVE  IsFiniteSet(Spots(s, x)) /\ Cardinality(Spots(s, x)) \in Nat
  <1>1. IsFiniteSet(1..Len(s))
    BY FS_Interval
  <1>2. Spots(s, x) \in SUBSET (1..Len(s))
    BY DEF Spots
  <1> QED
    BY <1>1, <1>2, FS_Subset, FS_CardinalityType

LEMMA SpotsAppend ==
  ASSUME NEW T, NEW s \in Seq(T), NEW y \in T, NEW x
  PROVE  Cardinality(Spots(Append(s, y), x)) = Cardinality(Spots(s, x)) + (IF x = y THEN 1 ELSE 0)
  <1>1. /\ Len(Append(s, y)) = Len(s) + 1 /\ Len(s) \in Nat
        /\ Append(s, y)[Len(s) + 1] = y
        /\ \A i \in 1..Len(s) : Append(s, y)[i] = s[i]
    OBVIOUS
  <1>2. IsFiniteSet(Spots(s, x)) /\ Len(s) + 1 \notin Spots(s, x)
    <2>1. Len(s) + 1 \notin Spots(s, x)
      BY <1>1 DEF Spots
    <2> QED
      BY <2>1, SpotsFinite
  <1>3. CASE x = y
    <2>1. Spots(Append(s, y), x) = Spots(s, x) \cup {Len(s) + 1}
      BY <1>1, <1>3 DEF Spots
    <2> QED
      BY <1>2, <1>3, <2>1, FS_AddElement
  <1>4. CASE x # y
    <2>1. Spots(Append(s, y), x) = Spots(s, x)
      BY <1>1, <1>4 DEF Spots
    <2> QED
      BY <1>4, <2>1, SpotsFinite
  <1> QED
    BY <1>3, <1>4

LEMMA SpotsWithout ==
  ASSUME NEW T, NEW s \in Seq(T), NEW i \in 1..Len(s), NEW x
  PROVE  Cardinality(Spots(s, x)) = Cardinality(Spots(Without(s, i), x)) + (IF x = s[i] THEN 1 ELSE 0)
  <1> DEFINE w == Without(s, i)
             Back(j) == IF j < i THEN j ELSE j + 1
             f == [j \in Spots(w, x) |-> Back(j)]
             rest == Spots(s, x) \ {i}
  <1>1. Len(s) \in Nat /\ Len(s) - 1 \in Nat
    OBVIOUS
  <1>2. w = [j \in 1..(Len(s) - 1) |-> s[Back(j)]]
    BY DEF Without
  <1>3. w \in [1..(Len(s) - 1) -> T]
    <2>1. \A j \in 1..(Len(s) - 1) : Back(j) \in 1..Len(s)
      BY <1>1
    <2>2. \A k \in 1..Len(s) : s[k] \in T
      OBVIOUS
    <2> HIDE DEF Back
    <2> QED
      BY <1>2, <2>1, <2>2
  <1>4. w \in Seq(T) /\ Len(w) = Len(s) - 1
    BY <1>1, <1>3
  <1>5. \A j \in 1..Len(w) : w[j] = s[Back(j)]
    BY <1>2, <1>4
  <1> HIDE DEF w
  <1>6. f \in Bijection(Spots(w, x), rest)
    <2>1. f \in [Spots(w, x) -> rest]
      <3> SUFFICES ASSUME NEW j \in Spots(w, x) PROVE Back(j) \in rest
        OBVIOUS
      <3>1. j \in 1..Len(w) /\ w[j] = x
        BY DEF Spots
      <3>2. Back(j) \in 1..Len(s) /\ Back(j) # i
        BY <1>1, <1>4, <3>1
      <3>3. s[Back(j)] = x
        BY <1>5, <3>1
      <3> QED
        BY <3>2, <3>3 DEF Spots
    <2>2. \A j, k \in Spots(w, x) : f[j] = f[k] => j = k
      BY <1>1, <1>4 DEF Spots
    <2>3. \A k \in rest : \E j \in Spots(w, x) : f[j] = k
      <3> SUFFICES ASSUME NEW k \in rest PROVE \E j \in Spots(w, x) : Back(j) = k
        OBVIOUS
      <3>1. k \in 1..Len(s) /\ k # i /\ s[k] = x
        BY DEF Spots
      <3> DEFINE j == IF k < i THEN k ELSE k - 1
      <3>2. j \in 1..Len(w) /\ Back(j) = k
        BY <1>1, <1>4, <3>1
      <3>3. w[j] = x
        BY <1>5, <3>1, <3>2
      <3> HIDE DEF j
      <3> QED
        BY <3>2, <3>3 DEF Spots
    <2> HIDE DEF f, rest
    <2> QED
      BY <2>1, <2>2, <2>3 DEF Bijection, Injection, Surjection, IsInjective
  <1>7. IsFiniteSet(Spots(w, x)) /\ IsFiniteSet(Spots(s, x)) /\ Cardinality(Spots(w, x)) \in Nat
        /\ Cardinality(Spots(s, x)) \in Nat
    BY <1>4, SpotsFinite
  <1>8. Cardinality(rest) = Cardinality(Spots(w, x))
    <2> HIDE DEF f, rest
    <2> QED
      BY <1>6, <1>7, FS_Bijection DEF ExistsBijection
  <1>9. Cardinality(rest) = IF i \in Spots(s, x) THEN Cardinality(Spots(s, x)) - 1 ELSE Cardinality(Spots(s, x))
    BY <1>7, FS_RemoveElement
  <1>10. i \in Spots(s, x) <=> x = s[i]
    BY DEF Spots
  <1> QED
    BY <1>7, <1>8, <1>9, <1>10 DEF w

LEMMA TailIsWithout ==
  ASSUME NEW T, NEW s \in Seq(T), s # <<>>
  PROVE  Tail(s) = Without(s, 1) /\ 1 \in 1..Len(s) /\ s[1] = Head(s)
  <1>1. Len(s) \in Nat /\ Len(s) # 0
    OBVIOUS
  <1>2. Tail(s) \in Seq(T) /\ Len(Tail(s)) = Len(s) - 1 /\ \A j \in 1..(Len(s) - 1) : Tail(s)[j] = s[j + 1]
    BY <1>1
  <1>3. Without(s, 1) = [j \in 1..(Len(s) - 1) |-> s[j + 1]]
    BY <1>1 DEF Without
  <1> QED
    BY <1>1, <1>2, <1>3

-----------------------------------------------------------------------------
(***************************************************************************)
(* Conservation of tokens.                                                 *)
(***************************************************************************)
\* The nodes the engine has seeded: all, or those before the index.
Seeded(n) ==
    IF pc = "seeding" THEN \E i \in 1..(at - 1) : workflow.order[i] = n ELSE n \in Scheduled

\* A node whose tokens are not collected.
Direct(n) == n \notin workflow.barriers \/ Required(n) = {}

Balance(n) ==
    /\ visits[n] + stuck[n] + Places(n) = activated[n]
    /\ IsFiniteSet(Carried(n))
    /\ Direct(n) =>
         activated[n] = (IF Required(n) = {} /\ Seeded(n) THEN 1 ELSE 0) + Cardinality(Carried(n))

BalanceInv ==
    /\ pc = "seeding" => at \in 1..(Len(workflow.order) + 1)
    /\ \A n \in Nodes : Balance(n)

LEMMA PlacesAreSpots == \A n : Places(n) = Cardinality(Spots(queue, n))
  BY DEF Places, Spots

LEMMA PlacesType == TypeOK => \A n : Places(n) \in Nat
  BY PlacesAreSpots, SpotsFinite DEF TypeOK

LEMMA PlacesActivate ==
  ASSUME TypeOK, NEW t \in Nodes, Activate(t), NEW n \in Nodes
  PROVE  /\ Places(n)' = Places(n) + (IF n = t THEN 1 ELSE 0)
         /\ activated'[n] = activated[n] + (IF n = t THEN 1 ELSE 0)
  <1>1. queue' = Append(queue, t) /\ queue \in Seq(Nodes)
    BY DEF Activate, TypeOK
  <1>2. Cardinality(Spots(queue', n)) = Cardinality(Spots(queue, n)) + (IF n = t THEN 1 ELSE 0)
    BY <1>1, SpotsAppend
  <1>3. Places(n)' = Cardinality(Spots(queue', n))
    BY DEF Places, Spots
  <1>4. activated'[n] = activated[n] + (IF n = t THEN 1 ELSE 0)
    BY DEF Activate, TypeOK
  <1> QED
    BY <1>2, <1>3, <1>4, PlacesAreSpots

LEMMA PlacesWithout ==
  ASSUME TypeOK, NEW i \in 1..Len(queue), queue' = Without(queue, i), NEW n \in Nodes
  PROVE  Places(n) = Places(n)' + (IF n = queue[i] THEN 1 ELSE 0)
  <1>1. queue \in Seq(Nodes)
    BY DEF TypeOK
  <1>2. Cardinality(Spots(queue, n)) = Cardinality(Spots(queue', n)) + (IF n = queue[i] THEN 1 ELSE 0)
    BY <1>1, SpotsWithout
  <1>3. Places(n)' = Cardinality(Spots(queue', n))
    BY DEF Places, Spots
  <1> QED
    BY <1>2, <1>3, PlacesAreSpots

\* A connection that carries one token more adds its number to what the
\* node it leads to was carried.
LEMMA CarriedCross ==
  ASSUME TypeOK, NEW k \in Carriers, workflow' = workflow, traversals' = [traversals EXCEPT ![k] = @ + 1],
         NEW n \in Nodes, IsFiniteSet(Carried(n))
  PROVE  /\ IsFiniteSet(Carried(n)')
         /\ Cardinality(Carried(n)') = Cardinality(Carried(n)) + (IF Control[k].to = n THEN 1 ELSE 0)
  <1> DEFINE token == <<k, traversals[k] + 1>>
  <1>1. traversals[k] \in Nat /\ traversals'[k] = traversals[k] + 1
        /\ \A i \in Carriers : i # k => traversals'[i] = traversals[i]
    BY DEF TypeOK
  <1>2. Required(n)' = Required(n) /\ Required(n) \subseteq Carriers
    BY RequiredFrame DEF Required
  <1>3. k \in Required(n) <=> Control[k].to = n
    BY DEF Required
  <1>4. CASE Control[k].to = n
    <2>1. 1..traversals'[k] = (1..traversals[k]) \cup {traversals[k] + 1}
      BY <1>1
    <2>2. Carried(n)' = Carried(n) \cup {token}
      BY <1>1, <1>2, <1>3, <1>4, <2>1 DEF Carried
    <2>3. token \notin Carried(n)
      <3> SUFFICES ASSUME token \in Carried(n) PROVE FALSE
        OBVIOUS
      <3>1. PICK i \in Required(n) : token \in {i} \X (1..traversals[i])
        BY DEF Carried
      <3>2. i = k /\ traversals[k] + 1 \in 1..traversals[k]
        BY <3>1
      <3> QED
        BY <1>1, <3>2
    <2> HIDE DEF token
    <2> QED
      BY <1>4, <2>2, <2>3, FS_AddElement
  <1>5. CASE Control[k].to # n
    <2>1. Carried(n)' = Carried(n)
      BY <1>1, <1>2, <1>3, <1>5 DEF Carried
    <2>2. Cardinality(Carried(n)) \in Nat
      BY FS_CardinalityType
    <2> QED
      BY <1>5, <2>1, <2>2
  <1> QED
    BY <1>4, <1>5

LEMMA CarriedFrame ==
  ASSUME workflow' = workflow, traversals' = traversals
  PROVE  /\ \A n : Carried(n)' = Carried(n) /\ Required(n)' = Required(n) /\ Direct(n)' = Direct(n)
         /\ Scheduled' = Scheduled
  BY RequiredFrame DEF Carried, Direct, Scheduled

LEMMA BalanceInitially == Init => BalanceInv
  <1> SUFFICES ASSUME Init PROVE BalanceInv
    OBVIOUS
  <1>1. workflow \in Workflow
    BY WorkflowsAssumption DEF Init
  <1>2. at \in 1..(Len(workflow.order) + 1)
    BY <1>1, OrderType DEF Init
  <1> SUFFICES ASSUME NEW n \in Nodes PROVE Balance(n)
    BY <1>2 DEF BalanceInv
  <1>3. Spots(queue, n) = {} /\ Places(n) = 0
    BY PlacesAreSpots, FS_EmptySet DEF Init, Spots
  <1>4. Carried(n) = {}
    BY DEF Init, Carried, Required
  <1>5. IsFiniteSet(Carried(n)) /\ Cardinality(Carried(n)) = 0
    BY <1>4, FS_EmptySet
  <1>6. ~Seeded(n)
    BY DEF Init, Seeded
  <1> QED
    BY <1>3, <1>5, <1>6 DEF Init, Balance

\* Neither tokens nor records move.
LEMMA BalanceFrame ==
  ASSUME BalanceInv, UNCHANGED <<workflow, queue, visits, stuck, activated, traversals>>,
         (pc # "seeding" /\ pc' # "seeding") \/ UNCHANGED <<pc, at>>
  PROVE  BalanceInv'
  <1>1. \A n : Places(n)' = Places(n)
    BY DEF Places
  <1>2. \A n : Seeded(n)' = Seeded(n)
    BY DEF Seeded, Scheduled
  <1>3. \A n : Carried(n)' = Carried(n) /\ Required(n)' = Required(n) /\ Direct(n)' = Direct(n)
    BY CarriedFrame
  <1> QED
    BY <1>1, <1>2, <1>3 DEF BalanceInv, Balance

LEMMA BalanceSeed == ASSUME TypeOK, BalanceInv, SeedNode PROVE BalanceInv'
  <1> DEFINE t == workflow.order[at]
  <1>1. /\ pc = "seeding" /\ pc' = pc /\ at \in 1..Len(workflow.order) /\ at' = at + 1 /\ workflow' = workflow
        /\ traversals' = traversals /\ visits' = visits /\ stuck' = stuck
    BY DEF SeedNode, TypeOK, recordVars
  <1>2. /\ Len(workflow.order) \in Nat /\ t \in Nodes
        /\ \A i, j \in 1..Len(workflow.order) : workflow.order[i] = workflow.order[j] => i = j
    BY <1>1, OrderPlaces DEF TypeOK
  <1>3. at' \in 1..(Len(workflow'.order) + 1)
    BY <1>1, <1>2
  <1>4. \A n : Seeded(n)' <=> Seeded(n) \/ n = t
    <2>1. 1..(at' - 1) = (1..(at - 1)) \cup {at}
      BY <1>1, <1>2
    <2> QED
      BY <1>1, <2>1 DEF Seeded
  <1>5. ~Seeded(t)
    <2>1. \A i \in 1..(at - 1) : i \in 1..Len(workflow.order) /\ i # at
      BY <1>1, <1>2
    <2> QED
      BY <1>1, <1>2, <2>1 DEF Seeded
  <1>6. \A n : Carried(n)' = Carried(n) /\ Required(n)' = Required(n) /\ Direct(n)' = Direct(n)
    BY <1>1, CarriedFrame
  <1> SUFFICES ASSUME NEW n \in Nodes PROVE Balance(n)'
    BY <1>3 DEF BalanceInv
  <1>7. Balance(n) /\ Places(n) \in Nat /\ activated[n] \in Nat
    BY PlacesType DEF BalanceInv, TypeOK
  <1>8. visits[n] \in Nat /\ stuck[n] \in Nat /\ Cardinality(Carried(n)) \in Nat
    BY <1>7, FS_CardinalityType DEF TypeOK, Balance
  <1>9. CASE Required(t) = {}
    <2>1. Activate(t)
      BY <1>9 DEF SeedNode
    <2>2. /\ Places(n)' = Places(n) + (IF n = t THEN 1 ELSE 0)
          /\ activated'[n] = activated[n] + (IF n = t THEN 1 ELSE 0)
      BY <1>2, <2>1, PlacesActivate
    <2> HIDE DEF t
    <2> QED
      BY <1>1, <1>4, <1>5, <1>6, <1>7, <1>8, <1>9, <2>2 DEF Balance
  <1>10. CASE Required(t) # {}
    <2>1. UNCHANGED <<queue, activated>>
      BY <1>10 DEF SeedNode
    <2>2. Places(n)' = Places(n)
      BY <2>1 DEF Places
    <2> HIDE DEF t
    <2> QED
      BY <1>1, <1>4, <1>6, <1>7, <1>10, <2>1, <2>2 DEF Balance
  <1> QED
    BY <1>9, <1>10

LEMMA BalanceSeedingDone == ASSUME TypeOK, BalanceInv, SeedingDone PROVE BalanceInv'
  <1>1. /\ pc = "seeding" /\ at > Len(workflow.order) /\ pc' = "loop"
        /\ UNCHANGED <<workflow, queue, visits, stuck, activated, traversals>>
    BY DEF SeedingDone, tokenVars, recordVars
  <1>2. at - 1 = Len(workflow.order)
    <2>1. Len(workflow.order) \in Nat
      BY OrderType DEF TypeOK
    <2> QED
      BY <1>1, <2>1 DEF BalanceInv
  <1>3. \A n : Seeded(n)' <=> Seeded(n)
    <2>1. \A n : n \in Scheduled <=> \E i \in 1..(at - 1) : workflow.order[i] = n
      BY <1>2 DEF Scheduled
    <2>2. Scheduled' = Scheduled
      BY <1>1 DEF Scheduled
    <2> QED
      BY <1>1, <2>1, <2>2 DEF Seeded
  <1>4. \A n : Places(n)' = Places(n)
    BY <1>1 DEF Places
  <1>5. \A n : Carried(n)' = Carried(n) /\ Required(n)' = Required(n) /\ Direct(n)' = Direct(n)
    BY <1>1, CarriedFrame
  <1> QED
    BY <1>1, <1>3, <1>4, <1>5 DEF BalanceInv, Balance

LEMMA QueuedType == TypeOK => \A i \in 1..Len(queue) : queue[i] \in Nodes
  <1> SUFFICES ASSUME queue \in Seq(Nodes) PROVE \A i \in 1..Len(queue) : queue[i] \in Nodes
    BY DEF TypeOK
  <1> QED
    OBVIOUS

\* A token leaves the queue: its node runs, or it is recorded.
LEMMA BalanceLeave ==
  ASSUME TypeOK, BalanceInv, pc = "loop", pc' # "seeding",
         UNCHANGED <<workflow, activated, traversals>>,
         NEW i \in 1..Len(queue), queue' = Without(queue, i),
         \/ (visits' = [visits EXCEPT ![queue[i]] = @ + 1] /\ stuck' = stuck)
         \/ (stuck' = [stuck EXCEPT ![queue[i]] = @ + 1] /\ visits' = visits)
  PROVE  BalanceInv'
  <1> SUFFICES ASSUME NEW n \in Nodes PROVE Balance(n)'
    BY DEF BalanceInv
  <1>1. Balance(n) /\ Places(n) \in Nat /\ Places(n)' \in Nat
    <2>1. queue' \in Seq(Nodes)
      BY WithoutType DEF TypeOK
    <2>2. Places(n)' = Cardinality(Spots(queue', n))
      BY DEF Places, Spots
    <2> QED
      BY <2>1, <2>2, SpotsFinite, PlacesType DEF BalanceInv
  <1>2. Places(n) = Places(n)' + (IF n = queue[i] THEN 1 ELSE 0)
    BY PlacesWithout
  <1>3. visits'[n] + stuck'[n] = visits[n] + stuck[n] + (IF n = queue[i] THEN 1 ELSE 0)
        /\ visits[n] \in Nat /\ stuck[n] \in Nat /\ visits'[n] \in Nat /\ stuck'[n] \in Nat
    <2>1. PICK t \in Nodes : t = queue[i]
      BY QueuedType
    <2>2. visits \in [Nodes -> Nat] /\ stuck \in [Nodes -> Nat]
      BY DEF TypeOK
    <2>3. CASE visits' = [visits EXCEPT ![t] = @ + 1] /\ stuck' = stuck
      BY <2>1, <2>2, <2>3
    <2>4. CASE stuck' = [stuck EXCEPT ![t] = @ + 1] /\ visits' = visits
      <3>1. stuck'[n] = stuck[n] + (IF n = t THEN 1 ELSE 0)
        BY <2>2, <2>4
      <3>2. visits'[n] = visits[n] /\ visits[n] \in Nat /\ stuck[n] \in Nat
        BY <2>2, <2>4
      <3> QED
        BY <2>1, <3>1, <3>2
    <2> QED
      BY <2>1, <2>3, <2>4
  <1>4. Seeded(n)' = Seeded(n)
    BY DEF Seeded, Scheduled
  <1>5. Carried(n)' = Carried(n) /\ Required(n)' = Required(n) /\ Direct(n)' = Direct(n)
    BY CarriedFrame
  <1>6. visits'[n] + stuck'[n] + Places(n)' = visits[n] + stuck[n] + Places(n)
    <2> DEFINE gone == IF n = queue[i] THEN 1 ELSE 0
    <2>1. gone \in Nat
      OBVIOUS
    <2>2. Places(n) = Places(n)' + gone /\ visits'[n] + stuck'[n] = visits[n] + stuck[n] + gone
      BY <1>2, <1>3
    <2> HIDE DEF gone
    <2> QED
      BY SMTT(30), <1>1, <1>3, <2>1, <2>2
  <1> QED
    BY <1>1, <1>4, <1>5, <1>6 DEF Balance

LEMMA BalanceCross == ASSUME TypeOK, BalanceInv, CrossConnection PROVE BalanceInv'
  <1>1. at \in Carriers /\ workflow' = workflow /\ Arrive(at) /\ pc = "emitting" /\ pc' = pc
    BY ControlType DEF CrossConnection, Emitting, Carriers, TypeOK
  <1>2. traversals' = [traversals EXCEPT ![at] = @ + 1] /\ visits' = visits /\ stuck' = stuck
    BY DEF CrossConnection, recordVars
  <1>3. PICK t \in Nodes : t = Control[at].to
    BY <1>1, CarrierType DEF TypeOK
  <1>4. at \in Required(t)
    BY <1>1, <1>3 DEF Required
  <1> SUFFICES ASSUME NEW n \in Nodes PROVE Balance(n)'
    BY <1>1 DEF BalanceInv
  <1>5. /\ Balance(n) /\ Places(n) \in Nat /\ visits[n] \in Nat /\ stuck[n] \in Nat /\ activated[n] \in Nat
        /\ Cardinality(Carried(n)) \in Nat
    BY PlacesType, FS_CardinalityType DEF BalanceInv, TypeOK, Balance
  <1>6. /\ IsFiniteSet(Carried(n)')
        /\ Cardinality(Carried(n)') = Cardinality(Carried(n)) + (IF t = n THEN 1 ELSE 0)
    BY <1>1, <1>2, <1>3, <1>5, CarriedCross DEF Balance
  <1>7. Required(n)' = Required(n) /\ Direct(n)' = Direct(n) /\ Seeded(n)' = Seeded(n)
    BY <1>1, RequiredFrame DEF Direct, Seeded, Scheduled
  <1>8. CASE Activate(t)
    <2>1. /\ Places(n)' = Places(n) + (IF n = t THEN 1 ELSE 0)
          /\ activated'[n] = activated[n] + (IF n = t THEN 1 ELSE 0)
      BY <1>8, PlacesActivate
    <2> QED
      BY <1>2, <1>4, <1>5, <1>6, <1>7, <2>1 DEF Balance
  <1>9. CASE ~Activate(t)
    <2>1. t \in workflow.barriers /\ UNCHANGED <<queue, activated>>
      BY <1>1, <1>3, <1>9 DEF Arrive
    <2>2. Places(n)' = Places(n)
      BY <2>1 DEF Places
    <2>3. t = n => ~Direct(n)
      BY <1>4, <2>1 DEF Direct
    <2> QED
      BY <1>2, <1>5, <1>6, <1>7, <2>1, <2>2, <2>3 DEF Balance
  <1> QED
    BY <1>8, <1>9

LEMMA BalanceStep == TypeOK /\ BalanceInv /\ [Next]_vars => BalanceInv'
  <1> SUFFICES ASSUME TypeOK, BalanceInv, [Next]_vars PROVE BalanceInv'
    OBVIOUS
  <1>1. CASE SeedNode
    BY <1>1, BalanceSeed
  <1>2. CASE SeedingDone
    BY <1>2, BalanceSeedingDone
  <1>3. CASE StartNode
    <2>1. PICK i \in 1..Len(queue) :
            queue' = Without(queue, i) /\ visits' = [visits EXCEPT ![queue[i]] = @ + 1]
      BY <1>3 DEF StartNode
    <2>2. pc = "loop" /\ pc' # "seeding" /\ UNCHANGED <<workflow, activated, traversals, stuck>>
      BY <1>3 DEF StartNode
    <2> QED
      BY <2>1, <2>2, BalanceLeave
  <1>4. CASE Deadlock
    <2>1. queue' = Without(queue, 1) /\ 1 \in 1..Len(queue) /\ stuck' = [stuck EXCEPT ![queue[1]] = @ + 1]
      BY <1>4, TailIsWithout DEF Deadlock, TypeOK
    <2>2. pc = "loop" /\ pc' # "seeding" /\ UNCHANGED <<workflow, activated, traversals, visits>>
      BY <1>4 DEF Deadlock
    <2> QED
      BY <2>1, <2>2, BalanceLeave
  <1>5. CASE CrossConnection
    BY <1>5, BalanceCross
  <1>6. CASE ~SeedNode /\ ~SeedingDone /\ ~StartNode /\ ~Deadlock /\ ~CrossConnection
    <2>1. /\ UNCHANGED <<workflow, queue, visits, stuck, activated, traversals>>
          /\ (pc # "seeding" /\ pc' # "seeding") \/ UNCHANGED <<pc, at>>
      BY <1>6 DEF Next, EngineStep, End, ExceedSteps, StopCancelled, PassCheckpoint, Return, Raise,
         SkipConnection, RefuseConnection, EmitBranch, EmitCompleted, EmissionDone, Cancel, vars,
         Emitting, Emitted, tokenVars, recordVars
    <2> QED
      BY <2>1, BalanceFrame
  <1> QED
    BY <1>1, <1>2, <1>3, <1>4, <1>5, <1>6

LEMMA Balanced == Spec => []BalanceInv
  BY TypeCorrect, BalanceInitially, BalanceStep, PTL DEF Spec

(***************************************************************************)
(* Every token a connection carried to a node is in the queue, has run or  *)
(* is recorded as a deadlock; so is the first token of a node without      *)
(* incoming control.                                                       *)
(***************************************************************************)
THEOREM TokensConserved == Spec => []TokensAreConserved
  <1>1. BalanceInv => TokensAreConserved
    BY DEF BalanceInv, Balance, TokensAreConserved, Direct, Seeded
  <1> QED
    BY <1>1, Balanced, PTL

-----------------------------------------------------------------------------
(***************************************************************************)
(* Data flow.  A node that has run has left what it is sure to store,      *)
(* unless it failed or is the one the engine is at, since the node that    *)
(* runs has its required data; so without faults the tokens in the queue   *)
(* are those of nodes whose data is missing.                               *)
(***************************************************************************)
Underway(n) == n = current /\ (pc \in {"invoking", "inside"} \/ (pc = "ended" /\ cancelled))

ReadyInv == pc \in {"invoking", "inside"} => Ready(current)

RanInv == \A n \in Nodes : visits[n] > 0 => Sure(n) \subseteq values \/ n \in faulted \/ Underway(n)

EndedInv == pc = "ended" => cancelled \/ faulted # {} \/ queue = <<>>

FlowInv == Carriers = {} /\ DataHasOrder /\ AnyStuck => faulted # {}

LEMMA SureStored == ReadyInv /\ pc = "inside" => Sure(current) \subseteq values \cup Stored
  BY DEF ReadyInv, Ready, Sure, Stored, Passed

LEMMA ReadyStep == TypeOK /\ ReadyInv /\ [Next]_vars => ReadyInv'
  <1> SUFFICES ASSUME TypeOK, ReadyInv, [Next]_vars PROVE ReadyInv'
    OBVIOUS
  <1>1. CASE StartNode
    BY <1>1 DEF StartNode, ReadyInv, Ready
  <1>2. CASE PassCheckpoint
    BY <1>2 DEF PassCheckpoint, ReadyInv, Ready, recordVars
  <1>3. CASE ~StartNode /\ ~PassCheckpoint
    <2>1. pc' \in {"invoking", "inside"} => UNCHANGED <<pc, workflow, values, current>>
      BY <1>3 DEF Next, EngineStep, SeedNode, SeedingDone, Deadlock, End, ExceedSteps, StopCancelled,
         Return, Raise, SkipConnection, RefuseConnection, CrossConnection, Emitting, Emitted,
         EmitBranch, EmitCompleted, EmissionDone, Cancel, vars, tokenVars, recordVars
    <2> QED
      BY <2>1 DEF ReadyInv, Ready
  <1> QED
    BY <1>1, <1>2, <1>3

LEMMA RanStep == TypeOK /\ ReadyInv /\ RanInv /\ [Next]_vars => RanInv'
  <1> SUFFICES ASSUME TypeOK, ReadyInv, RanInv, [Next]_vars PROVE RanInv'
    OBVIOUS
  <1>0. \A n : Sure(n)' = Sure(n)
    BY WorkflowStays DEF Sure
  <1>1. CASE StartNode
    <2>1. PICK t \in Nodes : current' = t /\ visits' = [visits EXCEPT ![t] = @ + 1]
      BY <1>1, QueuedType DEF StartNode
    <2>2. pc = "loop" /\ pc' = "invoking" /\ UNCHANGED <<values, faulted>>
      BY <1>1 DEF StartNode
    <2>3. ASSUME NEW n \in Nodes, visits'[n] > 0
          PROVE  Sure(n) \subseteq values \/ n \in faulted \/ (n = current' /\ pc' = "invoking")
      <3>1. n = t => n = current' /\ pc' = "invoking"
        BY <2>1, <2>2
      <3>2. ASSUME n # t PROVE Sure(n) \subseteq values \/ n \in faulted
        <4>1. visits'[n] = visits[n]
          BY <2>1, <3>2 DEF TypeOK
        <4> QED
          BY <2>2, <2>3, <4>1 DEF RanInv, Underway
      <3> QED
        BY <3>1, <3>2
    <2> QED
      BY <1>0, <2>2, <2>3 DEF RanInv, Underway
  <1>2. CASE ~StartNode
    <2>1. visits' = visits /\ values \subseteq values' /\ faulted \subseteq faulted'
      BY <1>2 DEF Next, EngineStep, SeedNode, SeedingDone, Deadlock, End, ExceedSteps, StopCancelled,
         PassCheckpoint, Return, Raise, SkipConnection, RefuseConnection, CrossConnection,
         EmitBranch, EmitCompleted, EmissionDone, Cancel, vars, tokenVars, recordVars
    <2>2. ASSUME NEW n \in Nodes, Underway(n)
          PROVE  Sure(n) \subseteq values' \/ n \in faulted' \/ Underway(n)'
      <3>1. ASSUME NEW branch \in Keys, Return(branch)
            PROVE  Sure(n) \subseteq values'
        BY <2>2, <3>1, SureStored DEF Return, Underway
      <3>2. CASE \A branch \in Keys : ~Return(branch)
        BY <1>2, <2>2, <3>2 DEF Underway, Next, EngineStep, SeedNode, SeedingDone, Deadlock, End, ExceedSteps,
           StopCancelled, PassCheckpoint, Raise, SkipConnection, RefuseConnection, CrossConnection,
           EmitBranch, EmitCompleted, EmissionDone, Cancel, vars, tokenVars, recordVars, Emitting, Emitted
      <3> QED
        BY <3>1, <3>2
    <2> QED
      BY <1>0, <2>1, <2>2 DEF RanInv
  <1> QED
    BY <1>1, <1>2

LEMMA EndedStep == TypeOK /\ EndedInv /\ [Next]_vars => EndedInv'
  BY DEF TypeOK, EndedInv, Next, EngineStep, SeedNode, SeedingDone, StartNode, Deadlock, End, ExceedSteps,
     StopCancelled, PassCheckpoint, Return, Raise, SkipConnection, RefuseConnection, CrossConnection,
     EmitBranch, EmitCompleted, EmissionDone, Cancel, vars, tokenVars, recordVars, Emitting, Emitted

LEMMA ScheduledType == TypeOK => Scheduled \subseteq Nodes
  <1> SUFFICES ASSUME workflow.order \in Seq(Nodes) PROVE Scheduled \subseteq Nodes
    BY OrderType DEF TypeOK
  <1> QED
    BY DEF Scheduled

\* Without control connections each node has the one token of its seeding.
LEMMA OneToken ==
  ASSUME TypeOK, BalanceInv, Carriers = {}, pc # "seeding", NEW n \in Nodes
  PROVE  visits[n] + stuck[n] + Places(n) = IF n \in Scheduled THEN 1 ELSE 0
  <1>1. Required(n) = {} /\ Carried(n) = {}
    BY DEF Required, Carried
  <1>2. Cardinality(Carried(n)) = 0
    BY <1>1, FS_EmptySet
  <1>3. Balance(n) /\ Direct(n) /\ (Seeded(n) <=> n \in Scheduled)
    BY <1>1 DEF BalanceInv, Direct, Seeded
  <1>4. activated[n] = (IF n \in Scheduled THEN 1 ELSE 0) + 0
    BY <1>1, <1>2, <1>3 DEF Balance
  <1> QED
    BY <1>3, <1>4 DEF Balance

LEMMA PlacesEmpty ==
  ASSUME TypeOK, NEW n
  PROVE  Places(n) = 0 <=> \A i \in 1..Len(queue) : queue[i] # n
  <1>1. IsFiniteSet(Spots(queue, n)) /\ Places(n) = Cardinality(Spots(queue, n))
    BY PlacesAreSpots, SpotsFinite DEF TypeOK
  <1>2. Places(n) = 0 <=> Spots(queue, n) = {}
    BY <1>1, FS_EmptySet
  <1> QED
    BY <1>2 DEF Spots

LEMMA NoFirstDeadlock ==
  ASSUME TypeOK, BalanceInv, RanInv, Carriers = {}, DataHasOrder, Deadlock, ~AnyStuck, faulted = {}
  PROVE  FALSE
  <1> DEFINE S == {queue[i] : i \in 1..Len(queue)}
  <1>1. pc = "loop" /\ \A i \in 1..Len(queue) : ~Ready(queue[i])
    BY DEF Deadlock
  <1>2. S # {}
    <2>1. 1 \in 1..Len(queue)
      BY TailIsWithout DEF Deadlock, TypeOK
    <2> QED
      BY <2>1
  <1>3. \A n \in Nodes : visits[n] \in Nat /\ stuck[n] = 0 /\ Places(n) \in Nat
    BY PlacesType DEF AnyStuck, TypeOK
  <1>4. S \in SUBSET Scheduled
    <2> SUFFICES ASSUME NEW i \in 1..Len(queue) PROVE queue[i] \in Scheduled
      OBVIOUS
    <2>1. queue[i] \in Nodes
      BY QueuedType
    <2>2. Places(queue[i]) # 0
      BY PlacesEmpty
    <2> QED
      BY <1>1, <1>3, <2>1, <2>2, OneToken
  <1>5. PICK n \in S : \A port \in workflow.ports[n] : \E m \in Scheduled \ S : port \cap Sure(m) # {}
    BY <1>2, <1>4 DEF DataHasOrder
  <1>6. ASSUME NEW m \in Scheduled \ S PROVE Sure(m) \subseteq values
    <2>1. m \in Nodes
      BY ScheduledType
    <2>2. Places(m) = 0
      BY PlacesEmpty
    <2>3. visits[m] = 1
      BY <1>1, <1>3, <2>1, <2>2, OneToken
    <2> QED
      BY <1>1, <2>1, <2>3 DEF RanInv, Underway
  <1>7. Ready(n)
    BY <1>5, <1>6 DEF Ready
  <1> QED
    BY <1>1, <1>5, <1>7

LEMMA FlowStep == TypeOK /\ BalanceInv /\ RanInv /\ FlowInv /\ [Next]_vars => FlowInv'
  <1> SUFFICES ASSUME TypeOK, BalanceInv, RanInv, FlowInv, [Next]_vars PROVE FlowInv'
    OBVIOUS
  <1>1. workflow' = workflow /\ faulted \subseteq faulted'
    BY DEF Next, EngineStep, SeedNode, SeedingDone, StartNode, Deadlock, End, ExceedSteps, StopCancelled,
       PassCheckpoint, Return, Raise, SkipConnection, RefuseConnection, CrossConnection,
       EmitBranch, EmitCompleted, EmissionDone, Cancel, vars, tokenVars, recordVars
  <1>2. Carriers' = Carriers /\ DataHasOrder' = DataHasOrder
    BY <1>1 DEF Carriers, Control, DataHasOrder, Scheduled, Sure
  <1>3. CASE Deadlock
    BY <1>1, <1>2, <1>3, NoFirstDeadlock DEF FlowInv
  <1>4. CASE ~Deadlock
    <2>1. stuck' = stuck
      BY <1>4 DEF Next, EngineStep, SeedNode, SeedingDone, StartNode, End, ExceedSteps, StopCancelled,
         PassCheckpoint, Return, Raise, SkipConnection, RefuseConnection, CrossConnection,
         EmitBranch, EmitCompleted, EmissionDone, Cancel, vars, tokenVars, recordVars
    <2> QED
      BY <1>1, <1>2, <2>1 DEF FlowInv, AnyStuck
  <1> QED
    BY <1>3, <1>4

(***************************************************************************)
(* Without control connections, if data dependencies have an order, tokens *)
(* get stuck only behind a fault and an undisturbed run executes every     *)
(* node once.                                                              *)
(***************************************************************************)
THEOREM DataFlowNeverStuck == Spec => []DataFlowIsNeverStuck
  <1>1. Init => ReadyInv /\ RanInv /\ EndedInv /\ FlowInv
    BY DEF Init, ReadyInv, RanInv, EndedInv, FlowInv, AnyStuck
  <1>2. Spec => [](ReadyInv /\ RanInv /\ EndedInv /\ FlowInv)
    BY <1>1, TypeCorrect, Balanced, ReadyStep, RanStep, EndedStep, FlowStep, PTL DEF Spec
  <1>3. TypeOK /\ BalanceInv /\ RanInv /\ EndedInv /\ FlowInv => DataFlowIsNeverStuck
    <2> SUFFICES ASSUME TypeOK, BalanceInv, EndedInv, FlowInv, Carriers = {}, DataHasOrder,
                        pc = "ended", ~cancelled, faulted = {}, NEW n \in Scheduled
                 PROVE  visits[n] = 1
      BY DEF DataFlowIsNeverStuck, FlowInv, AnyStuck
    <2>1. n \in Nodes
      BY ScheduledType
    <2>2. Places(n) = 0
      <3>1. Len(queue) = 0
        BY DEF EndedInv
      <3> QED
        BY <3>1, PlacesEmpty
    <2>3. visits[n] \in Nat /\ stuck[n] = 0
      BY <2>1 DEF FlowInv, AnyStuck, TypeOK
    <2> QED
      BY <2>1, <2>2, <2>3, OneToken
  <1> QED
    BY <1>2, <1>3, TypeCorrect, Balanced, PTL

-----------------------------------------------------------------------------
(***************************************************************************)
(* Termination.  A run of a node pays for all its connections can do: it   *)
(* emits three times at most, each connection queues one token a time, and *)
(* a token that does not run is dropped.                                   *)
(***************************************************************************)
Turn == 6 * Len(Control) + 8

\* Connections that are still to be looked at, in all emissions of this run.
Pass == IF emission.stage = "first" THEN 2 ELSE IF emission.stage = "branch" THEN 1 ELSE 0
Remaining == Pass * (Len(Control) + 1) + (Len(Control) + 1 - at)

Unseeded == Len(workflow.order) + 1 - at

Phase ==
    IF pc = "seeding" THEN 2 * Unseeded + 2
    ELSE IF pc = "loop" THEN 1
    ELSE IF pc = "invoking" THEN Turn + 1
    ELSE IF pc = "inside" THEN Turn
    ELSE IF pc = "emitting" THEN 2 * Remaining + 2
    ELSE 0

\* What is left within a run of a node, or before the first.
Within == Phase + Len(queue) + (IF cancelled THEN 0 ELSE 1)

StepsLeft == Turn * (MaxSteps + 1 - steps) + Within

PlaceInv ==
    /\ pc = "seeding" => at <= Len(workflow.order) + 1
    /\ pc # "seeding" => at <= Len(Control) + 1
    /\ steps <= MaxSteps + 1
    /\ pc \in {"seeding", "loop", "inside", "emitting"} => steps <= MaxSteps

LEMMA Lengths ==
  ASSUME TypeOK
  PROVE  /\ Len(Control) \in Nat /\ Len(workflow.order) \in Nat /\ Len(queue) \in Nat
         /\ at \in Nat \ {0} /\ steps \in Nat /\ MaxSteps \in Nat
  BY ControlType, OrderType, StepsAssumption DEF TypeOK

LEMMA PlaceStep == TypeOK /\ PlaceInv /\ [Next]_vars => PlaceInv'
  <1> SUFFICES ASSUME TypeOK, PlaceInv, [Next]_vars PROVE PlaceInv'
    OBVIOUS
  <1>1. /\ Len(Control) \in Nat /\ Len(workflow.order) \in Nat
        /\ at \in Nat \ {0} /\ steps \in Nat /\ MaxSteps \in Nat
    BY Lengths
  <1>2. workflow' = workflow => Control' = Control
    BY DEF Control
  <1> USE DEF PlaceInv
  <1>3. CASE SeedNode
    BY <1>1, <1>2, <1>3 DEF SeedNode, recordVars
  <1>4. CASE SeedingDone
    BY <1>1, <1>2, <1>4 DEF SeedingDone, recordVars
  <1>5. CASE StartNode
    BY <1>1, <1>2, <1>5 DEF StartNode
  <1>6. CASE Deadlock \/ End \/ ExceedSteps \/ StopCancelled \/ PassCheckpoint
    BY <1>1, <1>2, <1>6 DEF Deadlock, End, ExceedSteps, StopCancelled, PassCheckpoint, recordVars
  <1>7. CASE Raise \/ \E branch \in Keys : Return(branch)
    BY <1>1, <1>2, <1>7 DEF Raise, Return
  <1>8. CASE SkipConnection \/ RefuseConnection \/ CrossConnection
    BY <1>1, <1>2, <1>8 DEF SkipConnection, RefuseConnection, CrossConnection, Emitting, recordVars
  <1>9. CASE EmitBranch \/ EmitCompleted \/ EmissionDone
    BY <1>1, <1>2, <1>9 DEF EmitBranch, EmitCompleted, EmissionDone, Emitted, recordVars
  <1>10. CASE Cancel \/ UNCHANGED vars
    BY <1>1, <1>2, <1>10 DEF Cancel, vars, recordVars
  <1> QED
    BY <1>3, <1>4, <1>5, <1>6, <1>7, <1>8, <1>9, <1>10 DEF Next, EngineStep

LEMMA PlaceKept == Spec => []PlaceInv
  <1>1. Init => PlaceInv
    <2> SUFFICES ASSUME Init PROVE PlaceInv
      OBVIOUS
    <2>1. TypeOK
      BY TypeInitially
    <2> QED
      BY <2>1, Lengths DEF Init, PlaceInv
  <1> QED
    BY <1>1, PlaceStep, TypeCorrect, PTL DEF Spec

LEMMA Product ==
  /\ \A w, k \in Nat : w * k \in Nat
  /\ \A w, k \in Int : w * (k - 1) = w * k - w
  OBVIOUS

LEMMA SumLess ==
  /\ \A a, b \in Nat : a + b \in Nat
  /\ \A a, b, d \in Int : d < b => a + d < a + b
  /\ \A a, w, b, d \in Int : d < b + w => (a - w) + d < a + b
  OBVIOUS

LEMMA PhaseNat == ASSUME TypeOK, PlaceInv PROVE Phase \in Nat /\ Turn \in Nat /\ MaxSteps + 1 - steps \in Nat
  <1>1. /\ Len(Control) \in Nat /\ Len(workflow.order) \in Nat
        /\ at \in Nat \ {0} /\ steps \in Nat /\ MaxSteps \in Nat
    BY Lengths
  <1>2. Turn \in Nat /\ MaxSteps + 1 - steps \in Nat
    BY <1>1 DEF Turn, PlaceInv
  <1>3. pc = "emitting" => Remaining \in Nat
    BY <1>1 DEF Remaining, Pass, PlaceInv
  <1>4. pc = "seeding" => Unseeded \in Nat
    BY <1>1 DEF PlaceInv, Unseeded
  <1> QED
    BY <1>2, <1>3, <1>4 DEF Phase

LEMMA WithinDescends ==
  ASSUME TypeOK, PlaceInv, Next, ~StartNode
  PROVE  steps' = steps /\ workflow' = workflow /\ Within' \in Int /\ Within' < Within
  <1>1. /\ Len(Control) \in Nat /\ Len(workflow.order) \in Nat /\ Len(queue) \in Nat
        /\ at \in Nat \ {0} /\ cancelled \in BOOLEAN
    BY Lengths DEF TypeOK
  <1>2. workflow' = workflow /\ steps' = steps
    BY DEF Next, EngineStep, SeedNode, SeedingDone, Deadlock, End, ExceedSteps, StopCancelled, PassCheckpoint,
       Return, Raise, SkipConnection, RefuseConnection, CrossConnection, EmitBranch, EmitCompleted, EmissionDone,
       Cancel, recordVars
  <1>3. Len(Control)' = Len(Control) /\ Len(workflow.order)' = Len(workflow.order)
    BY <1>2 DEF Control
  <1>4. \A n \in Nodes : Activate(n) => Len(queue') = Len(queue) + 1
    BY DEF Activate, TypeOK
  <1> DEFINE c == IF cancelled THEN 0 ELSE 1
  <1>5. c \in {0, 1} /\ (cancelled' = cancelled => c' = c)
    BY <1>1
  <1>6. Within = Phase + Len(queue) + c /\ Within' = Phase' + Len(queue') + c'
    BY DEF Within
  <1> HIDE DEF c
  <1>7. CASE SeedNode
    <2>1. pc = "seeding" /\ pc' = pc /\ at' = at + 1 /\ at <= Len(workflow.order) /\ cancelled' = cancelled
      BY <1>7 DEF SeedNode
    <2>2. Len(queue') = Len(queue) \/ Len(queue') = Len(queue) + 1
      <3>1. workflow.order[at] \in Nodes
        BY <1>1, <2>1, OrderPlaces DEF TypeOK
      <3> QED
        BY <1>4, <1>7, <3>1 DEF SeedNode
    <2>3. Unseeded' = Unseeded - 1 /\ Unseeded \in Int
      <3> DEFINE n == Len(workflow.order)
      <3>1. n \in Nat /\ Unseeded = n + 1 - at /\ Unseeded' = n + 1 - at'
        BY <1>1, <1>3 DEF Unseeded
      <3> HIDE DEF n
      <3> QED
        BY <1>1, <2>1, <3>1
    <2>4. Phase' = Phase - 2 /\ Phase \in Int
      BY <2>1, <2>3 DEF Phase
    <2> QED
      BY <1>1, <1>2, <1>5, <1>6, <2>1, <2>2, <2>4
  <1>8. CASE CrossConnection
    <2>1. /\ pc = "emitting" /\ pc' = pc /\ at' = at + 1 /\ at <= Len(Control) /\ cancelled' = cancelled
          /\ emission'.stage = emission.stage
      BY <1>8 DEF CrossConnection, Emitting, TypeOK, Emission
    <2>2. Len(queue') = Len(queue) \/ Len(queue') = Len(queue) + 1
      <3>1. Control[at].to \in Nodes
        BY <1>1, <2>1, CarrierType DEF TypeOK, Carriers
      <3> QED
        BY <1>4, <1>8, <3>1 DEF CrossConnection, Arrive
    <2>3. Remaining' = Remaining - 1 /\ Remaining \in Int
      BY <1>1, <1>3, <2>1 DEF Remaining, Pass
    <2>4. Phase' = Phase - 2 /\ Phase \in Int
      BY <2>1, <2>3 DEF Phase
    <2> QED
      BY <1>1, <1>2, <1>5, <1>6, <2>1, <2>2, <2>4
  <1>9. CASE SkipConnection \/ RefuseConnection
    <2>1. /\ pc = "emitting" /\ pc' = pc /\ at' = at + 1 /\ cancelled' = cancelled /\ queue' = queue
          /\ emission'.stage = emission.stage
      BY <1>9 DEF SkipConnection, RefuseConnection, Emitting, TypeOK, Emission, tokenVars
    <2>2. Remaining' = Remaining - 1 /\ Remaining \in Int
      BY <1>1, <1>3, <2>1 DEF Remaining, Pass
    <2>3. Phase' = Phase - 2 /\ Phase \in Int
      BY <2>1, <2>2 DEF Phase
    <2> QED
      BY <1>1, <1>2, <1>5, <1>6, <2>1, <2>3
  <1>10. CASE EmitBranch \/ EmitCompleted
    <2>1. /\ pc = "emitting" /\ pc' = pc /\ at' = 1 /\ cancelled' = cancelled /\ queue' = queue
          /\ at = Len(Control) + 1
          /\ \/ emission.stage = "first" /\ emission'.stage = "branch"
             \/ emission.stage = "branch" /\ emission'.stage = "fallback"
      BY <1>1, <1>10 DEF EmitBranch, EmitCompleted, Emitted, Exhaustion, Emit, PlaceInv, tokenVars
    <2>2. Remaining' = Remaining - 1 /\ Remaining \in Int
      BY <1>1, <1>3, <2>1 DEF Remaining, Pass
    <2>3. Phase' = Phase - 2 /\ Phase \in Int
      BY <2>1, <2>2 DEF Phase
    <2> QED
      BY <1>1, <1>2, <1>5, <1>6, <2>1, <2>3
  <1>11. CASE Deadlock
    <2>1. pc = "loop" /\ pc' = pc /\ queue # <<>> /\ queue' = Tail(queue) /\ cancelled' = cancelled
      BY <1>11 DEF Deadlock
    <2>2. Len(queue') = Len(queue) - 1
      BY <1>1, <2>1 DEF TypeOK
    <2>3. Phase' = 1 /\ Phase = 1
      BY <2>1 DEF Phase
    <2> QED
      BY <1>1, <1>2, <1>5, <1>6, <2>1, <2>2, <2>3
  <1>12. CASE Cancel
    <2>1. pc' = pc /\ at' = at /\ emission' = emission /\ queue' = queue /\ ~cancelled /\ cancelled'
      BY <1>12 DEF Cancel, tokenVars
    <2>2. Phase' = Phase /\ Phase \in Int
      <3>1. Phase' = Phase
        BY <1>3, <2>1 DEF Phase, Turn, Remaining, Pass, Unseeded
      <3> QED
        BY <3>1, PhaseNat
    <2>3. c = 1 /\ c' = 0
      BY <2>1 DEF c
    <2> QED
      BY <1>1, <1>2, <1>6, <2>1, <2>2, <2>3
  <1>13. CASE SeedingDone \/ End \/ ExceedSteps \/ StopCancelled \/ PassCheckpoint \/ Raise \/ EmissionDone
                \/ \E branch \in Keys : Return(branch)
    <2>1. queue' = queue /\ cancelled' = cancelled
      BY <1>13 DEF SeedingDone, End, ExceedSteps, StopCancelled, PassCheckpoint, Raise, Return, EmissionDone, tokenVars
    <2>2. Phase' \in Int /\ Phase \in Int /\ Phase' < Phase
      <3>1. Turn \in Nat /\ Turn >= 8 /\ Turn' = Turn
        BY <1>1, <1>3 DEF Turn
      <3>2. CASE SeedingDone
        BY <1>1, <3>2 DEF SeedingDone, Phase, Unseeded, PlaceInv
      <3>3. CASE End \/ ExceedSteps \/ StopCancelled \/ PassCheckpoint
        BY <3>1, <3>3 DEF End, ExceedSteps, StopCancelled, PassCheckpoint, Phase
      <3>4. CASE Raise \/ \E branch \in Keys : Return(branch)
        <4>1. pc = "inside" /\ pc' = "emitting" /\ emission'.stage = "first" /\ at' = at
          BY <3>4 DEF Raise, Return, Emit
        <4>2. Remaining' = 2 * (Len(Control) + 1) + (Len(Control) + 1 - at)
          BY <1>3, <4>1 DEF Remaining, Pass
        <4>3. Phase = Turn /\ Phase' = 2 * Remaining' + 2
          BY <4>1 DEF Phase
        <4> QED
          BY <1>1, <4>2, <4>3 DEF Turn
      <3>5. CASE EmissionDone
        <4>1. pc = "emitting" /\ pc' = "loop"
          BY <3>5 DEF EmissionDone, Emitted
        <4>2. Remaining \in Nat
          BY <1>1, <4>1 DEF Remaining, Pass, PlaceInv
        <4> QED
          BY <4>1, <4>2 DEF Phase
      <3> QED
        BY <1>13, <3>2, <3>3, <3>4, <3>5
    <2> QED
      BY <1>1, <1>2, <1>5, <1>6, <2>1, <2>2
  <1> QED
    BY <1>7, <1>8, <1>9, <1>10, <1>11, <1>12, <1>13 DEF Next, EngineStep

LEMMA StepDescends == TypeOK /\ PlaceInv /\ [Next]_vars => [StepsLeft' < StepsLeft /\ StepsLeft \in Nat]_vars
  <1> SUFFICES ASSUME TypeOK, PlaceInv, Next PROVE StepsLeft \in Nat /\ StepsLeft' < StepsLeft
    OBVIOUS
  <1> DEFINE k == MaxSteps + 1 - steps
  <1>1. Phase \in Nat /\ Turn \in Nat /\ k \in Nat /\ Len(queue) \in Nat /\ steps \in Nat /\ MaxSteps \in Nat
    BY PhaseNat, Lengths
  <1>2. Within \in Nat
    <2>1. (IF cancelled THEN 0 ELSE 1) \in Nat
      OBVIOUS
    <2> QED
      BY <1>1, <2>1, SumLess DEF Within
  <1>3. Turn * k \in Nat /\ StepsLeft = Turn * k + Within
    <2> HIDE DEF k
    <2>1. Turn * k \in Nat
      BY <1>1, Product
    <2> QED
      BY <2>1 DEF StepsLeft, k
  <1>4. StepsLeft \in Nat
    BY <1>2, <1>3, SumLess
  <1>5. CASE ~StartNode
    <2>1. steps' = steps /\ workflow' = workflow /\ Within' \in Int /\ Within' < Within
      BY <1>5, WithinDescends
    <2>2. Turn' = Turn
      BY <2>1 DEF Turn, Control
    <2>3. StepsLeft' = Turn * k + Within'
      BY <2>1, <2>2 DEF StepsLeft
    <2>4. Turn * k \in Int /\ Within \in Int
      BY <1>2, <1>3
    <2>5. Turn * k + Within' < Turn * k + Within
      <3> HIDE DEF k
      <3> QED
        BY <2>1, <2>4, SumLess
    <2> QED
      BY <1>3, <1>4, <2>3, <2>5
  <1>6. CASE StartNode
    <2>1. /\ pc = "loop" /\ pc' = "invoking" /\ steps' = steps + 1 /\ workflow' = workflow
          /\ cancelled' = cancelled
          /\ \E i \in 1..Len(queue) : queue' = Without(queue, i)
      BY <1>6 DEF StartNode
    <2>2. Len(queue') = Len(queue) - 1
      BY <2>1, WithoutType DEF TypeOK
    <2>3. Turn' = Turn
      BY <2>1 DEF Turn, Control
    <2>4. Phase = 1 /\ Phase' = Turn + 1
      BY <2>1, <2>3 DEF Phase
    <2>5. Within' \in Int /\ Within' < Within + Turn
      <3> DEFINE c == IF cancelled THEN 0 ELSE 1
      <3>1. c \in Int /\ c' = c
        BY <2>1
      <3>2. Within = Phase + Len(queue) + c /\ Within' = Phase' + Len(queue') + c'
        BY DEF Within
      <3> HIDE DEF c
      <3>3. Within = 1 + Len(queue) + c /\ Within' = (Turn + 1) + (Len(queue) - 1) + c
        BY <2>2, <2>4, <3>1, <3>2
      <3>4. \A q, t, d \in Int : /\ (t + 1) + (q - 1) + d \in Int
                                /\ (t + 1) + (q - 1) + d < (1 + q + d) + t
        OBVIOUS
      <3>5. Turn \in Int /\ Len(queue) \in Int
        BY <1>1
      <3> QED
        BY <3>1, <3>3, <3>4, <3>5
    <2>6. StepsLeft' = Turn * (k - 1) + Within'
      <3>1. MaxSteps + 1 - steps' = k - 1
        BY <1>1, <2>1
      <3> QED
        BY <2>3, <3>1 DEF StepsLeft
    <2>7. Turn * (k - 1) = Turn * k - Turn
      <3> HIDE DEF k
      <3>1. Turn \in Int /\ k \in Int
        BY <1>1
      <3> QED
        BY <3>1, Product
    <2>8. Turn * k \in Int /\ Turn \in Int /\ Within \in Int
      BY <1>1, <1>2, <1>3
    <2>9. (Turn * k - Turn) + Within' < Turn * k + Within
      <3> HIDE DEF k
      <3> QED
        BY <2>5, <2>8, SumLess
    <2> QED
      BY <1>3, <1>4, <2>6, <2>7, <2>9
  <1> QED
    BY <1>4, <1>5, <1>6

(***************************************************************************)
(* The engine takes a number of steps that is bounded from the start, for  *)
(* every workflow and whatever its nodes return: the limit of executed     *)
(* steps ends every loop of control connections, and what a node queues    *)
(* is used up.                                                             *)
(***************************************************************************)
THEOREM EngineRunsOut == Spec => [][StepsLeft' < StepsLeft /\ StepsLeft \in Nat]_vars
  BY StepDescends, PlaceKept, TypeCorrect, PTL DEF Spec
=============================================================================
