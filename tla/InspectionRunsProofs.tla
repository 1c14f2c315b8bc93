------------------------ MODULE InspectionRunsProofs ------------------------
(***************************************************************************)
(* Machine-checked proofs about InspectionRuns, for every set of runs,     *)
(* cancel requests, channels, modes and reports and for every bound.       *)
(***************************************************************************)
EXTENDS InspectionRunsProperties, TLAPS

(***************************************************************************)
(* Every variable keeps its type: rows, program counters, cancel requests  *)
(* and histories never leave the values their columns and fields allow.    *)
(***************************************************************************)
LEMMA TypeInitially == Init => TypeOK
  BY BoundsAssumption DEF Init, TypeOK, Absent, Row, Report, NoReport, PC, Idle,
     DeploymentModes, Calibrated

\* The four ways a thread's step touches its own entries keep their types.
LEMMA GotoType ==
  ASSUME NEW r \in Runs, NEW pc \in PC, worker \in [Runs -> PC], Goto(r, pc)
  PROVE  worker' \in [Runs -> PC]
  BY DEF Goto

LEMMA IssueType ==
  ASSUME NEW r \in Runs, NEW command \in {"home", "capture"}, TypeOK,
         Issue(r, command)
  PROVE  /\ commands' \in [Runs -> SUBSET {"home", "capture"}]
         /\ late' \in [Runs -> Nat]
  BY DEF Issue, TypeOK

\* Columns are written one at a time or together; the row stays a row.
LEMMA RowWith ==
  ASSUME NEW x \in Row, NEW status \in Active \cup Terminal,
         NEW nodes \in SUBSET NodeStatuses, NEW decision \in Verdicts \cup {"FAULT"}
  PROVE  /\ [x EXCEPT !.status = status] \in Row
         /\ [x EXCEPT !.nodes = nodes] \in Row
         /\ [x EXCEPT !.artifact = TRUE] \in Row
         /\ [x EXCEPT !.cancel = TRUE] \in Row
         /\ [x EXCEPT !.status = status, !.decision = decision] \in Row
         /\ [x EXCEPT !.status = status, !.result = TRUE, !.decision = decision] \in Row
         /\ [x EXCEPT !.cancel = TRUE, !.status = status] \in Row
         /\ [x EXCEPT !.cancel = TRUE, !.status = x.status] \in Row
  BY DEF Row

LEMMA NodeRowsType ==
  ASSUME NEW r \in Runs, NEW nodes \in SUBSET NodeStatuses, TypeOK,
         NodeRows(r, nodes)
  PROVE  row' \in [Runs -> Row]
  <1>1. [row[r] EXCEPT !.nodes = nodes] \in Row
    BY RowWith DEF TypeOK, Active
  <1>2. QED
    BY <1>1 DEF NodeRows, TypeOK

LEMMA TransitionType ==
  ASSUME NEW r \in Runs, NEW status \in Active \cup Terminal, TypeOK,
         Transition(r, status)
  PROVE  row' \in [Runs -> Row]
  <1>1. [row[r] EXCEPT !.status = status] \in Row
    BY RowWith DEF TypeOK
  <1>2. QED
    BY <1>1 DEF Transition, TypeOK

LEMMA TypeOfControl == TypeOK /\ ControlStep => TypeOK'
  <1> SUFFICES ASSUME TypeOK, ControlStep PROVE TypeOK'
    OBVIOUS
  <1> USE DEF TypeOK, ProcessUnchanged, DevicesUnchanged, StoreUnchanged
  <1>1. ASSUME NEW r \in Runs, CreateRun(r) PROVE TypeOK'
    <2>1. PICK mode \in Modes, enabled \in SUBSET Channels :
             row' = [row EXCEPT ![r] = [Absent EXCEPT !.status = "queued",
                                                      !.mode = mode,
                                                      !.channels = enabled]]
      BY <1>1 DEF CreateRun
    <2>2. [Absent EXCEPT !.status = "queued", !.mode = mode,
                         !.channels = enabled] \in Row
      BY ModesAssumption DEF Absent, Row, Active
    <2>3. row' \in [Runs -> Row]
      BY <2>1, <2>2
    <2>4. worker' \in [Runs -> PC]
      BY <1>1, GotoType DEF CreateRun, PC, Live
    <2>5. QED
      BY <1>1, <2>3, <2>4 DEF CreateRun
  <1>2. ASSUME NEW q \in Requests, NEW r \in Runs, ReadForCancel(q, r) PROVE TypeOK'
    <2>1. [run |-> r, saw |-> row[r].status] \in Reading
      BY <1>2 DEF ReadForCancel, Reading
    <2>2. request' \in [Requests -> Reading \cup {Idle}]
      BY <1>2, <2>1 DEF ReadForCancel
    <2>3. QED
      BY <1>2, <2>2 DEF ReadForCancel
  <1>3. ASSUME NEW q \in Requests, WriteCancel(q) PROVE TypeOK'
    <2>1. request[q] \in Reading
      BY <1>3 DEF WriteCancel
    <2>2. request[q].run \in Runs
      BY <2>1 DEF Reading
    <2> DEFINE x == row[request[q].run]
               closes == request[q].saw \in {"queued", "precheck"}
               status == IF closes THEN "cancelled" ELSE x.status
    <2>3. [x EXCEPT !.cancel = TRUE, !.status = status] \in Row
      BY <2>2, RowWith DEF Terminal
    <2>4. row' = [row EXCEPT ![request[q].run] =
                    [x EXCEPT !.cancel = TRUE, !.status = status]]
      BY <1>3 DEF WriteCancel
    <2>5. row' \in [Runs -> Row]
      BY <2>2, <2>3, <2>4
    <2>6. QED
      BY <1>3, <2>5 DEF WriteCancel
  <1>4. QED
    BY <1>1, <1>2, <1>3 DEF ControlStep

LEMMA TypeOfProcess == TypeOK /\ (Crash \/ Recover) => TypeOK'
  <1> SUFFICES ASSUME TypeOK, Crash \/ Recover PROVE TypeOK'
    OBVIOUS
  <1> USE DEF TypeOK, DevicesUnchanged, StoreUnchanged
  <1>1. CASE Crash
    <2>1. worker' \in [Runs -> PC]
      BY <1>1 DEF Crash, PC
    <2>2. request' \in [Requests -> Reading \cup {Idle}]
      BY <1>1 DEF Crash
    <2>3. crashes' \in 0..MaxCrashes
      BY <1>1, BoundsAssumption DEF Crash
    <2>4. QED
      BY <1>1, <2>1, <2>2, <2>3 DEF Crash
  <1>2. CASE Recover
    <2>0. ASSUME NEW r \in Runs
          PROVE  [row[r] EXCEPT !.status = RecoveredStatus(@)] \in Row
      BY RowWith DEF RecoveredStatus, Terminal
    <2>1. row' \in [Runs -> Row]
      BY <1>2, <2>0 DEF Recover
    <2>2. QED
      BY <1>2, <2>1 DEF Recover
  <1>3. QED
    BY <1>1, <1>2

\* Steps that only move the thread, up to what they issue or remember.
LEMMA TypeOfCommandStep ==
  ASSUME NEW r \in Runs, TypeOK,
         VerifyPose(r) \/ AutoHome(r) \/ VerifyPoseAgain(r) \/ Capture(r)
  PROVE  TypeOK'
  <1> USE DEF TypeOK, ProcessUnchanged, StoreUnchanged
  <1>1. ASSUME NEW report \in Report, Confirm(r, report)
        PROVE  view' \in [Runs -> Report] /\ worker' \in [Runs -> PC]
    BY <1>1, GotoType DEF Confirm, PC, Live, Inside
  <1>2. CASE VerifyPose(r)
    <2>1. view' \in [Runs -> Report] /\ worker' \in [Runs -> PC]
      BY <1>1, <1>2, GotoType, ReportsAssumption
         DEF VerifyPose, PC, Live, Inside
    <2>2. QED
      BY <1>2, <2>1 DEF VerifyPose
  <1>3. CASE AutoHome(r)
    <2>1. worker' \in [Runs -> PC]
      BY <1>3, GotoType DEF AutoHome, PC, Live, Inside
    <2>2. QED
      BY <1>3, <2>1, IssueType DEF AutoHome
  <1>4. CASE VerifyPoseAgain(r)
    <2>1. view' \in [Runs -> Report] /\ worker' \in [Runs -> PC]
      BY <1>1, <1>4, GotoType, ReportsAssumption
         DEF VerifyPoseAgain, PC, Live, Inside
    <2>2. QED
      BY <1>4, <2>1 DEF VerifyPoseAgain
  <1>5. CASE Capture(r)
    <2>1. worker' \in [Runs -> PC]
      BY <1>5, GotoType DEF Capture, PC, Live, Inside
    <2>2. QED
      BY <1>5, <2>1, IssueType DEF Capture
  <1>6. QED
    BY <1>2, <1>3, <1>4, <1>5

\* Steps that read the row and choose the next program point.
LEMMA TypeOfBranch ==
  ASSUME NEW r \in Runs, TypeOK,
         \/ LoadRun(r) \/ CheckCancelled(r) \/ AcceptArtifact(r)
         \/ EndWorkflow(r) \/ Judge(r) \/ HandleDeviceError(r) \/ LoseDatabase(r)
  PROVE  TypeOK'
  <1> USE DEF TypeOK, ProcessUnchanged, DevicesUnchanged, StoreUnchanged
  <1>1. \A pc \in PC : Goto(r, pc) => worker' \in [Runs -> PC]
    BY GotoType
  <1>2. \A pc \in Checkpoints : AfterCheck[pc] \in PC
    BY DEF Checkpoints, AfterCheck, PC, Live, Inside
  <1>3. worker' \in [Runs -> PC]
    <2> USE DEF PC, Live, Inside
    <2>1. CASE LoadRun(r)
      BY <1>1, <2>1 DEF LoadRun
    <2>2. CASE CheckCancelled(r)
      BY <1>1, <1>2, <2>2 DEF CheckCancelled
    <2>3. CASE AcceptArtifact(r)
      BY <1>1, <2>3 DEF AcceptArtifact
    <2>4. CASE EndWorkflow(r)
      BY <1>1, <2>4 DEF EndWorkflow
    <2>5. CASE Judge(r)
      BY <1>1, <2>5 DEF Judge
    <2>6. CASE HandleDeviceError(r)
      BY <1>1, <2>6 DEF HandleDeviceError
    <2>7. CASE LoseDatabase(r)
      BY <1>1, <2>7 DEF LoseDatabase
    <2>8. QED
      BY <2>1, <2>2, <2>3, <2>4, <2>5, <2>6, <2>7
  <1>4. UNCHANGED <<up, crashes, row, outbox, view, activations, request,
                    commands, late>>
    BY DEF LoadRun, CheckCancelled, AcceptArtifact, EndWorkflow, Judge,
           HandleDeviceError, LoseDatabase
  <1>5. QED
    BY <1>3, <1>4

\* Steps that commit: the row, its node rows, or the published result.
LEMMA TypeOfCommit ==
  ASSUME NEW r \in Runs, TypeOK,
         \/ EnterPhase(r) \/ KeepArtifact(r) \/ StartNode(r) \/ PollNode(r)
         \/ InvokeNode(r) \/ Publish(r) \/ Fault(r) \/ AcknowledgeCancel(r)
  PROVE  TypeOK'
  <1> USE DEF TypeOK, ProcessUnchanged, DevicesUnchanged
  <1>1. \A pc \in PC : Goto(r, pc) => worker' \in [Runs -> PC]
    BY GotoType
  <1>2. \A nodes \in SUBSET NodeStatuses :
          NodeRows(r, nodes) => row' \in [Runs -> Row]
    BY NodeRowsType
  <1>3. \A status \in Active \cup Terminal :
          Transition(r, status) => row' \in [Runs -> Row]
    BY TransitionType
  <1>4. row[r].nodes \in SUBSET NodeStatuses
    BY DEF Row
  <1>5. \A status \in NodeStatuses : EndNode(r, status) => row' \in [Runs -> Row]
    BY <1>2, <1>4 DEF EndNode
  <1>6. CASE EnterPhase(r)
    <2>1. worker' \in [Runs -> PC]
      BY <1>1, <1>6 DEF EnterPhase, PC, Live, Inside, Checkpoints
    <2>2. row' \in [Runs -> Row]
      BY <1>3, <1>6 DEF EnterPhase, Active
    <2>3. QED
      BY <1>6, <2>1, <2>2 DEF EnterPhase
  <1>7. CASE KeepArtifact(r)
    <2>1. worker' \in [Runs -> PC]
      BY <1>1, <1>7 DEF KeepArtifact, PC, Live, Inside
    <2>2. [row[r] EXCEPT !.artifact = TRUE] \in Row
      BY RowWith DEF Terminal
    <2>3. QED
      BY <1>7, <2>1, <2>2 DEF KeepArtifact
  <1>8. CASE StartNode(r)
    <2>1. worker' \in [Runs -> PC]
      BY <1>1, <1>8 DEF StartNode, PC, Live, Inside
    <2>2. row' \in [Runs -> Row]
      BY <1>2, <1>4, <1>8 DEF StartNode, NodeStatuses
    <2>3. activations' \in [Runs -> 0..MaxActivations]
      BY <1>8, BoundsAssumption DEF StartNode
    <2>4. QED
      BY <1>8, <2>1, <2>2, <2>3 DEF StartNode
  <1>9. CASE PollNode(r)
    <2>1. worker' \in [Runs -> PC]
      BY <1>1, <1>9 DEF PollNode, PC, Live, Inside
    <2>2. row' \in [Runs -> Row]
      BY <1>5, <1>9 DEF PollNode, NodeStatuses
    <2>3. QED
      BY <1>9, <2>1, <2>2 DEF PollNode
  <1>10. CASE InvokeNode(r)
    <2>1. worker' \in [Runs -> PC]
      BY <1>1, <1>10 DEF InvokeNode, PC, Live, Inside
    <2>2. row' \in [Runs -> Row]
      BY <1>5, <1>10 DEF InvokeNode, NodeStatuses
    <2>3. QED
      BY <1>10, <2>1, <2>2 DEF InvokeNode
  <1>11. CASE Publish(r)
    <2>1. worker' \in [Runs -> PC]
      BY <1>1, <1>11 DEF Publish, PC
    <2>2. PICK verdict \in Verdicts :
            row' = [row EXCEPT ![r].status = "completed", ![r].result = TRUE,
                               ![r].decision = verdict]
      BY <1>11 DEF Publish
    <2>3. [row[r] EXCEPT !.status = "completed", !.result = TRUE,
                         !.decision = verdict] \in Row
      BY RowWith DEF Terminal, Active
    <2>4. row' \in [Runs -> Row]
      BY <2>2, <2>3
    <2>5. outbox' \subseteq Runs \X Channels
      BY <1>11 DEF Publish, Row
    <2>6. QED
      BY <1>11, <2>1, <2>4, <2>5 DEF Publish
  <1>12. CASE Fault(r)
    <2>1. worker' \in [Runs -> PC]
      BY <1>1, <1>12 DEF Fault, PC
    <2>2. [row[r] EXCEPT !.status = "faulted", !.decision = "FAULT"] \in Row
      BY RowWith DEF Terminal, Active
    <2>3. QED
      BY <1>12, <2>1, <2>2 DEF Fault
  <1>13. CASE AcknowledgeCancel(r)
    <2>1. worker' \in [Runs -> PC]
      BY <1>1, <1>13 DEF AcknowledgeCancel, PC
    <2>2. row' \in [Runs -> Row]
      BY <1>3, <1>13 DEF AcknowledgeCancel, Terminal
    <2>3. QED
      BY <1>13, <2>1, <2>2 DEF AcknowledgeCancel
  <1>14. QED
    BY <1>6, <1>7, <1>8, <1>9, <1>10, <1>11, <1>12, <1>13

LEMMA TypeStep == TypeOK /\ [Next]_vars => TypeOK'
  <1> SUFFICES ASSUME TypeOK, [Next]_vars PROVE TypeOK'
    OBVIOUS
  <1>1. CASE ControlStep
    BY <1>1, TypeOfControl
  <1>2. ASSUME NEW r \in Runs, WorkerStep(r) \/ LoseDatabase(r) PROVE TypeOK'
    BY <1>2, TypeOfCommandStep, TypeOfBranch, TypeOfCommit DEF WorkerStep
  <1>3. CASE Crash \/ Recover
    BY <1>3, TypeOfProcess
  <1>4. CASE UNCHANGED vars
    BY <1>4 DEF TypeOK, vars
  <1>5. QED
    BY <1>1, <1>2, <1>3, <1>4 DEF Next

(***************************************************************************)
(* Every reachable state is well typed: no schedule of handlers, threads   *)
(* and crashes writes a status, decision or node status outside the values *)
(* that create_run, the worker and recover_interrupted_status know.        *)
(***************************************************************************)
THEOREM TypeCorrect == Spec => []TypeOK
  <1>1. QED
    BY TypeInitially, TypeStep, PTL DEF Spec

-----------------------------------------------------------------------------
(* The invariants of the thread and its row.                               *)

\* A run nobody has created has no thread, no command and no result.
Uncreated(r) ==
    row[r].status = "absent" =>
        worker[r] = "none" /\ late[r] = 0 /\ ~row[r].result

\* As long as nobody asks to cancel, the row of a working thread is active.
Owned(r) == Working(r) /\ ~row[r].cancel => row[r].status \in Active

\* The thread that has not loaded its run finds it queued or cancelled.
Unstarted(r) == worker[r] = "spawned" => row[r].status \in {"queued", "cancelled"}

\* No thread outlives the process.
ThreadsDieWithProcess == ~up => \A r \in Runs : ~Working(r)

\* The worker's row and program counter belong together.
Attended ==
    /\ \A r \in Runs : Uncreated(r) /\ Owned(r) /\ Unstarted(r)
    /\ ThreadsDieWithProcess
    /\ OverlapOnlyAfterCancel
    /\ NoOrphanedRun

\* What a step of thread r does to rows and program counters, whichever it is.
ThreadEffect(r) ==
    /\ up /\ up' /\ Working(r)
    /\ worker' = [worker EXCEPT ![r] = worker'[r]]
    /\ row' = [row EXCEPT ![r] = row'[r]]
    /\ row'[r].cancel = row[r].cancel
    /\ worker'[r] # "spawned"
    /\ worker'[r] \in Live => row'[r].status \in Active \cup {row[r].status}
    /\ \/ worker'[r] \in Live
       \/ row'[r].status \in Terminal
       \/ row'[r] = row[r] /\ worker[r] = "spawned" /\ row[r].status # "queued"
       \/ row'[r] = row[r] /\ worker'[r] = "lost" /\ DatabaseMayFail

LEMMA ThreadStepEffect ==
  ASSUME TypeOK, NEW r \in Runs, WorkerStep(r) \/ LoseDatabase(r)
  PROVE  ThreadEffect(r)
  <1> DEFINE moved(pc) == /\ worker' = [worker EXCEPT ![r] = pc]
                          /\ worker' = [worker EXCEPT ![r] = worker'[r]]
                          /\ worker'[r] = pc
             wrote == row' = [row EXCEPT ![r] = row'[r]]
  <1> USE DEF Working
  <1>1. \A pc : Goto(r, pc) => moved(pc)
    BY DEF Goto, TypeOK
  <1>2. ASSUME StoreUnchanged PROVE wrote /\ row'[r] = row[r]
    BY <1>2 DEF StoreUnchanged, TypeOK
  <1>3. \A status : Transition(r, status) =>
          /\ wrote
          /\ row'[r].status = status
          /\ row'[r].cancel = row[r].cancel
    BY DEF Transition, TypeOK, Row
  <1>4. \A nodes : NodeRows(r, nodes) =>
          /\ wrote
          /\ row'[r].status = row[r].status
          /\ row'[r].cancel = row[r].cancel
    BY DEF NodeRows, TypeOK, Row
  <1> HIDE DEF moved, wrote
  <1>5. ASSUME NEW pc \in Inside, moved(pc), up, up', Working(r), wrote,
               row'[r].cancel = row[r].cancel,
               row'[r].status \in Active \cup {row[r].status}
        PROVE  ThreadEffect(r)
    BY <1>5 DEF ThreadEffect, moved, wrote, Inside, Live, Checkpoints
  <1>6. ASSUME moved("done"), up, up', Working(r), wrote,
               row'[r].cancel = row[r].cancel, row'[r].status \in Terminal
        PROVE  ThreadEffect(r)
    BY <1>6 DEF ThreadEffect, moved, wrote, Inside, Live, Checkpoints
  <1> USE DEF ProcessUnchanged, At
  <1>7. CASE LoadRun(r)
    <2>1. up /\ up' /\ Working(r)
      BY <1>7 DEF LoadRun, Live
    <2>2. CASE row[r].status = "queued"
      BY <1>1, <1>2, <1>5, <1>7, <2>1, <2>2 DEF LoadRun, Inside
    <2>3. CASE row[r].status # "queued"
      BY <1>1, <1>2, <1>7, <2>1, <2>3
         DEF LoadRun, ThreadEffect, moved, wrote, Live, Inside, Checkpoints
    <2>4. QED
      BY <2>2, <2>3
  <1>8. CASE EnterPhase(r)
    <2>1. up /\ up' /\ Working(r)
      BY <1>8 DEF EnterPhase, Live, Inside
    <2>2. PICK pc \in Checkpoints, status \in Active :
            Goto(r, pc) /\ Transition(r, status)
      BY <1>8 DEF EnterPhase, Checkpoints, Active
    <2>3. QED
      BY <1>1, <1>3, <1>5, <2>1, <2>2 DEF Inside
  <1>9. ASSUME up, up', Working(r), StoreUnchanged,
               \E pc \in Inside : Goto(r, pc)
        PROVE  ThreadEffect(r)
    BY <1>1, <1>2, <1>5, <1>9
  <1>10. CASE CheckCancelled(r) \/ Capture(r) \/ AcceptArtifact(r)
              \/ EndWorkflow(r) \/ Judge(r) \/ HandleDeviceError(r)
    <2>1. up /\ up' /\ Working(r) /\ StoreUnchanged
      BY <1>10 DEF CheckCancelled, Capture, AcceptArtifact, EndWorkflow, Judge,
         HandleDeviceError, Live, Inside
    <2>2. \A pc \in Checkpoints : AfterCheck[pc] \in Inside
      BY DEF Checkpoints, AfterCheck, Inside
    <2>3. \E pc \in Inside : Goto(r, pc)
      <3>1. CASE CheckCancelled(r)
        BY <2>2, <3>1 DEF CheckCancelled, Inside
      <3>2. CASE ~CheckCancelled(r)
        BY <1>10, <3>2 DEF Capture, AcceptArtifact, EndWorkflow, Judge,
           HandleDeviceError, Inside
      <3>3. QED
        BY <3>1, <3>2
    <2>4. QED
      BY <1>9, <2>1, <2>3
  <1>11. CASE VerifyPose(r) \/ AutoHome(r) \/ VerifyPoseAgain(r)
    <2>1. up /\ up' /\ Working(r) /\ StoreUnchanged
      BY <1>11 DEF VerifyPose, AutoHome, VerifyPoseAgain, Live, Inside
    <2>2. \E pc \in Inside : Goto(r, pc)
      BY <1>11 DEF VerifyPose, AutoHome, VerifyPoseAgain, Confirm, Inside
    <2>3. QED
      BY <1>9, <2>1, <2>2
  <1>12. CASE KeepArtifact(r)
    <2>1. up /\ up' /\ Working(r) /\ moved("executing")
      BY <1>1, <1>12 DEF KeepArtifact, Live, Inside
    <2>2. wrote /\ row'[r].cancel = row[r].cancel /\ row'[r].status = row[r].status
      BY <1>12 DEF KeepArtifact, TypeOK, Row, wrote
    <2>3. QED
      BY <1>5, <2>1, <2>2 DEF Inside
  <1>13. CASE StartNode(r) \/ PollNode(r) \/ InvokeNode(r)
    <2>1. up /\ up' /\ Working(r)
      BY <1>13 DEF StartNode, PollNode, InvokeNode, Live, Inside
    <2>2. wrote /\ row'[r].cancel = row[r].cancel /\ row'[r].status = row[r].status
      <3>1. CASE row' = row
        BY <3>1 DEF TypeOK, wrote
      <3>2. CASE \E nodes : NodeRows(r, nodes)
        BY <1>4, <3>2
      <3>3. QED
        BY <1>13, <3>1, <3>2 DEF StartNode, PollNode, InvokeNode, EndNode
    <2>3. \E pc \in Inside : moved(pc)
      <3>1. CASE \E pc \in Inside : Goto(r, pc)
        BY <1>1, <3>1
      <3>2. CASE worker[r] = "workflow" /\ worker' = worker
        BY <3>2 DEF moved, TypeOK, Inside
      <3>3. QED
        BY <1>13, <3>1, <3>2 DEF StartNode, PollNode, InvokeNode, Inside
    <2>4. QED
      BY <1>5, <2>1, <2>2, <2>3
  <1>14. CASE Publish(r)
    <2>1. up /\ up' /\ Working(r) /\ moved("done")
      BY <1>1, <1>14 DEF Publish, Live, Inside
    <2>2. PICK verdict \in Verdicts :
            row' = [row EXCEPT ![r] =
                      [row[r] EXCEPT !.status = "completed", !.result = TRUE,
                                     !.decision = verdict]]
      BY <1>14 DEF Publish
    <2>3. wrote /\ row'[r].cancel = row[r].cancel /\ row'[r].status = "completed"
      BY <2>2 DEF TypeOK, Row, wrote
    <2>4. QED
      BY <1>6, <2>1, <2>3 DEF Terminal
  <1>15. CASE Fault(r)
    <2>1. up /\ up' /\ Working(r) /\ moved("done")
      BY <1>1, <1>15 DEF Fault, Live, Inside
    <2>2. row' = [row EXCEPT ![r] =
                    [row[r] EXCEPT !.status = "faulted", !.decision = "FAULT"]]
      BY <1>15 DEF Fault
    <2>3. wrote /\ row'[r].cancel = row[r].cancel /\ row'[r].status = "faulted"
      BY <2>2 DEF TypeOK, Row, wrote
    <2>4. QED
      BY <1>6, <2>1, <2>3 DEF Terminal
  <1>16. CASE AcknowledgeCancel(r)
    <2>1. up /\ up' /\ Working(r) /\ moved("done")
      BY <1>1, <1>16 DEF AcknowledgeCancel, Live, Inside
    <2>2. QED
      BY <1>3, <1>6, <1>16, <2>1 DEF AcknowledgeCancel, Terminal
  <1>17. CASE LoseDatabase(r)
    BY <1>1, <1>2, <1>17
       DEF LoseDatabase, ThreadEffect, moved, wrote, Live, Inside, Checkpoints
  <1>18. QED
    BY <1>7, <1>8, <1>10, <1>11, <1>12, <1>13, <1>14, <1>15, <1>16, <1>17
       DEF WorkerStep

LEMMA AttendedInitially == Init => Attended
  BY DEF Init, Attended, Absent, Uncreated, Owned, Unstarted, Working,
     ThreadsDieWithProcess, OverlapOnlyAfterCancel, NoOrphanedRun, Live, Inside,
     Checkpoints, Active

\* A thread that steps belongs to a row that exists.
LEMMA ThreadHasRow ==
  ASSUME NEW r \in Runs, Uncreated(r), Working(r)
  PROVE  row[r].status # "absent"
  BY DEF Uncreated, Working, Live, Inside, Checkpoints

LEMMA AttendedByThread ==
  ASSUME TypeOK, Attended, NEW r \in Runs, WorkerStep(r) \/ LoseDatabase(r)
  PROVE  Attended'
  <1>1. ThreadEffect(r)
    BY ThreadStepEffect
  <1>2. /\ \A s \in Runs \ {r} : row'[s] = row[s] /\ worker'[s] = worker[s]
        /\ up' = TRUE
    BY <1>1 DEF ThreadEffect, TypeOK
  <1>3. row[r].status # "absent"
    BY <1>1, ThreadHasRow DEF Attended, ThreadEffect
  <1>4. \A s \in Runs : Working(s)' => Working(s)
    BY <1>1, <1>2 DEF Working, ThreadEffect
  <1>5. Uncreated(r)' /\ Owned(r)' /\ Unstarted(r)'
    <2>1. row'[r].status # "absent"
      BY <1>1, <1>3 DEF ThreadEffect, Active, Terminal, TypeOK
    <2>2. Owned(r)'
      BY <1>1 DEF ThreadEffect, Owned, Attended, Working
    <2>3. QED
      BY <1>1, <2>1, <2>2 DEF ThreadEffect, Uncreated, Unstarted
  <1>6. ASSUME NEW s \in Runs \ {r}
        PROVE  Uncreated(s)' /\ Owned(s)' /\ Unstarted(s)'
    <2>1. Owned(s)' /\ Unstarted(s)'
      BY <1>2 DEF Attended, Owned, Unstarted, Working
    <2>2. late'[s] = late[s]
      BY DEF WorkerStep, LoseDatabase, LoadRun, EnterPhase, CheckCancelled,
         VerifyPose, AutoHome, VerifyPoseAgain, Capture, KeepArtifact,
         AcceptArtifact, StartNode, PollNode, InvokeNode, EndWorkflow, Judge,
         Publish, HandleDeviceError, Fault, AcknowledgeCancel, Issue,
         DevicesUnchanged, TypeOK
    <2>3. Uncreated(s)'
      BY <1>2, <2>2 DEF Attended, Uncreated
    <2>4. QED
      BY <2>1, <2>3
  <1>7. ThreadsDieWithProcess'
    BY <1>2 DEF ThreadsDieWithProcess
  <1>8. OverlapOnlyAfterCancel'
    BY <1>1, <1>2, <1>4 DEF OverlapOnlyAfterCancel, Attended, ThreadEffect
  <1>9. NoOrphanedRun'
    <2>1. row'[r].status \in Active =>
            Working(r)' \/ (DatabaseMayFail /\ worker'[r] = "lost")
      <3>1. Active \cap Terminal = {}
        BY DEF Active, Terminal
      <3>2. worker[r] = "spawned" => row[r].status \in {"queued", "cancelled"}
        BY DEF Attended, Unstarted
      <3>3. row[r].status \in {"queued", "cancelled"} /\ row[r].status # "queued"
              => row[r].status \notin Active
        BY DEF Active
      <3>4. QED
        BY <1>1, <3>1, <3>2, <3>3 DEF ThreadEffect, Working
    <2>2. QED
      BY <1>2, <2>1, <1>1 DEF NoOrphanedRun, Attended, ThreadEffect, Working
  <1>10. QED
    BY <1>5, <1>6, <1>7, <1>8, <1>9 DEF Attended

LEMMA AttendedByControl ==
  ASSUME TypeOK, Attended, ControlStep
  PROVE  Attended'
  <1> USE DEF Attended, ProcessUnchanged, DevicesUnchanged, StoreUnchanged
  <1>1. ASSUME NEW r \in Runs, CreateRun(r) PROVE Attended'
    <2>1. /\ up' = up /\ up /\ late' = late
          /\ worker' = [worker EXCEPT ![r] = "spawned"]
          /\ row[r].status = "absent"
      BY <1>1 DEF CreateRun, Goto
    <2>2. PICK mode \in Modes, enabled \in SUBSET Channels :
             row' = [row EXCEPT ![r] = [Absent EXCEPT !.status = "queued",
                                                      !.mode = mode,
                                                      !.channels = enabled]]
      BY <1>1 DEF CreateRun
    <2>3. row'[r].status = "queued" /\ ~row'[r].cancel
      BY <2>2 DEF TypeOK, Absent
    <2>4. \A s \in Runs \ {r} : row'[s] = row[s] /\ worker'[s] = worker[s]
      BY <2>1, <2>2 DEF TypeOK
    <2>5. worker'[r] = "spawned"
      BY <2>1 DEF TypeOK
    <2>6. \A s \in Runs \ {r} : Working(s)' => row'[s].cancel
      BY <1>1, <2>4 DEF CreateRun, NoActiveRun, Owned, Working
    <2>7. Uncreated(r)' /\ Owned(r)' /\ Unstarted(r)'
      BY <2>3, <2>5 DEF Uncreated, Owned, Unstarted, Active
    <2>8. \A s \in Runs \ {r} : Uncreated(s)' /\ Owned(s)' /\ Unstarted(s)'
      BY <2>1, <2>4 DEF Uncreated, Owned, Unstarted, Working
    <2>9. OverlapOnlyAfterCancel'
      BY <2>6 DEF OverlapOnlyAfterCancel
    <2>10. NoOrphanedRun' /\ ThreadsDieWithProcess'
      BY <2>1, <2>4, <2>5 DEF NoOrphanedRun, ThreadsDieWithProcess, Working, Live
    <2>11. QED
      BY <2>7, <2>8, <2>9, <2>10
  <1>2. ASSUME NEW q \in Requests, NEW r \in Runs, ReadForCancel(q, r)
        PROVE  Attended'
    BY <1>2 DEF ReadForCancel, Uncreated, Owned, Unstarted, Working,
       ThreadsDieWithProcess, OverlapOnlyAfterCancel, NoOrphanedRun
  <1>3. ASSUME NEW q \in Requests, WriteCancel(q) PROVE Attended'
    <2>1. up /\ up' = up /\ worker' = worker /\ late' = late
      BY <1>3 DEF WriteCancel
    <2>2. PICK r \in Runs : r = request[q].run
      BY <1>3 DEF WriteCancel, TypeOK, Reading
    <2>3. \E status \in {"cancelled", row[r].status} :
            row' = [row EXCEPT ![r] = [row[r] EXCEPT !.cancel = TRUE,
                                                     !.status = status]]
      BY <1>3, <2>2 DEF WriteCancel
    <2>4. /\ row'[r].cancel
          /\ row'[r].status \in {"cancelled", row[r].status}
          /\ row'[r].result = row[r].result
      BY <2>2, <2>3 DEF TypeOK, Row
    <2>5. \A s \in Runs \ {r} : row'[s] = row[s]
      BY <2>3 DEF TypeOK
    <2>6. Uncreated(r)' /\ Owned(r)' /\ Unstarted(r)'
      BY <2>1, <2>2, <2>4 DEF Uncreated, Owned, Unstarted
    <2>7. \A s \in Runs \ {r} : Uncreated(s)' /\ Owned(s)' /\ Unstarted(s)'
      BY <2>1, <2>5 DEF Uncreated, Owned, Unstarted, Working
    <2>8. \A s \in Runs : row[s].cancel => row'[s].cancel
      BY <2>4, <2>5
    <2>9. OverlapOnlyAfterCancel'
      BY <2>1, <2>8 DEF OverlapOnlyAfterCancel, Working
    <2>10. \A s \in Runs : row'[s].status \in Active => row[s].status \in Active
      BY <2>4, <2>5 DEF Active
    <2>11. NoOrphanedRun' /\ ThreadsDieWithProcess'
      BY <2>1, <2>10 DEF NoOrphanedRun, ThreadsDieWithProcess, Working
    <2>12. QED
      BY <2>6, <2>7, <2>9, <2>11
  <1>4. QED
    BY <1>1, <1>2, <1>3 DEF ControlStep

LEMMA AttendedByProcess ==
  ASSUME TypeOK, Attended, Crash \/ Recover
  PROVE  Attended'
  <1> USE DEF Attended, DevicesUnchanged, StoreUnchanged
  <1>1. CASE Crash
    <2>1. ~up' /\ row' = row /\ late' = late
      BY <1>1 DEF Crash
    <2>2. \A s \in Runs : worker'[s] \notin Live /\ worker'[s] # "spawned"
      BY <1>1 DEF Crash, Live, Inside, Checkpoints
    <2>3. \A s \in Runs : worker[s] = "none" => worker'[s] = "none"
      BY <1>1 DEF Crash, Live, Inside, Checkpoints
    <2>4. \A s \in Runs : Uncreated(s)' /\ Owned(s)' /\ Unstarted(s)'
      BY <2>1, <2>2, <2>3 DEF Uncreated, Owned, Unstarted, Working
    <2>5. QED
      BY <2>1, <2>2, <2>4
         DEF ThreadsDieWithProcess, OverlapOnlyAfterCancel, NoOrphanedRun, Working
  <1>2. CASE Recover
    <2>1. up' /\ worker' = worker /\ late' = late
      BY <1>2 DEF Recover
    <2>2. \A s \in Runs : ~Working(s) /\ ~Working(s)'
      BY <1>2, <2>1 DEF Recover, ThreadsDieWithProcess, Working
    <2>3. ASSUME NEW s \in Runs
          PROVE  /\ row'[s].status \notin Active
                 /\ row'[s].status = "absent" => row[s].status = "absent"
                 /\ row'[s].result = row[s].result
      <3>1. row[s] \in Row
        BY DEF TypeOK
      <3>2. CASE row[s].status \in Active
        <4>1. row'[s] = [row[s] EXCEPT !.status = RecoveredStatus(row[s].status)]
          BY <1>2, <3>2 DEF Recover, Interrupted
        <4>2. QED
          BY <3>1, <4>1 DEF Row, RecoveredStatus, Active
      <3>3. CASE row[s].status \notin Active
        BY <1>2, <3>3 DEF Recover, Interrupted
      <3>4. QED
        BY <3>2, <3>3
    <2>4. \A s \in Runs : Uncreated(s)' /\ Owned(s)' /\ Unstarted(s)'
      BY <2>1, <2>2, <2>3 DEF Uncreated, Owned, Unstarted, Working, Live
    <2>5. QED
      BY <2>1, <2>2, <2>3, <2>4
         DEF ThreadsDieWithProcess, OverlapOnlyAfterCancel, NoOrphanedRun
  <1>3. QED
    BY <1>1, <1>2

LEMMA AttendedStep == TypeOK /\ Attended /\ [Next]_vars => Attended'
  <1> SUFFICES ASSUME TypeOK, Attended, [Next]_vars PROVE Attended'
    OBVIOUS
  <1>1. CASE UNCHANGED vars
    BY <1>1 DEF vars, Attended, Uncreated, Owned, Unstarted, Working,
       ThreadsDieWithProcess, OverlapOnlyAfterCancel, NoOrphanedRun
  <1>2. QED
    BY <1>1, AttendedByThread, AttendedByControl, AttendedByProcess DEF Next

LEMMA AlwaysAttended == Spec => [](TypeOK /\ Attended)
  BY TypeInitially, TypeStep, AttendedInitially, AttendedStep, PTL DEF Spec

(***************************************************************************)
(* Two inspection threads never work at the same time unless one of their  *)
(* runs has been cancelled: the advisory lock and the active-run check of  *)
(* create_run suffice, for any number of runs, cancel requests and crashes.*)
(***************************************************************************)
THEOREM OverlapNeedsCancel == Spec => []OverlapOnlyAfterCancel
  BY AlwaysAttended, PTL DEF Attended

(***************************************************************************)
(* While the service is up no active row is without a thread that will     *)
(* close it, unless the thread died of a database error.                   *)
(***************************************************************************)
THEOREM ActiveRunsAttended == Spec => []NoOrphanedRun
  BY AlwaysAttended, PTL DEF Attended

(***************************************************************************)
(* A terminal status changes only for a run somebody asked to cancel: a    *)
(* thread that works on a run nobody cancelled finds its row active, and   *)
(* recovery selects active rows only.                                      *)
(***************************************************************************)
THEOREM TerminalUnlessCancelled == Spec => FinalUnlessCancelled
  <1> DEFINE Kept == \A r \in Runs :
                       row[r].status \in Terminal /\ row'[r].status # row[r].status
                         => row'[r].cancel
  <1>1. TypeOK /\ Attended /\ [Next]_vars => [Kept]_vars
    <2> SUFFICES ASSUME TypeOK, Attended, Next, NEW r \in Runs,
                        row[r].status \in Terminal, row'[r].status # row[r].status
                 PROVE  row'[r].cancel
      OBVIOUS
    <2>0. row[r].status \notin Active /\ row[r].status # "absent"
      BY DEF Terminal, Active
    <2>1. ASSUME NEW s \in Runs, WorkerStep(s) \/ LoseDatabase(s)
          PROVE  row'[r].cancel
      <3>1. ThreadEffect(s)
        BY <2>1, ThreadStepEffect
      <3>2. s = r
        BY <3>1 DEF ThreadEffect, TypeOK
      <3>3. QED
        BY <2>0, <3>1, <3>2 DEF ThreadEffect, Attended, Owned, TypeOK, Row
    <2>2. ASSUME NEW s \in Runs, CreateRun(s) PROVE row'[r].cancel
      <3>1. r # s
        BY <2>0, <2>2 DEF CreateRun
      <3>2. QED
        BY <2>2, <3>1 DEF CreateRun, TypeOK
    <2>3. ASSUME NEW q \in Requests, WriteCancel(q) PROVE row'[r].cancel
      <3>1. row' = [row EXCEPT ![request[q].run] = row'[request[q].run]]
        BY <2>3 DEF WriteCancel, TypeOK, Reading
      <3>2. r = request[q].run
        BY <3>1 DEF TypeOK
      <3>3. row[r] \in Row
        BY DEF TypeOK
      <3>4. QED
        BY <2>3, <3>2, <3>3 DEF WriteCancel, TypeOK, Row
    <2>4. CASE Recover
      BY <2>0, <2>4 DEF Recover, Interrupted
    <2>5. CASE row' = row
      BY <2>5
    <2>6. QED
      BY <2>1, <2>2, <2>3, <2>4, <2>5
         DEF Next, ControlStep, ReadForCancel, Crash, StoreUnchanged
  <1>2. QED
    BY <1>1, AlwaysAttended, PTL DEF Spec, FinalUnlessCancelled

-----------------------------------------------------------------------------
(* Commands after a cancellation.                                          *)

\* Where a thread stands that has not sent a command since it last found no
\* cancellation, or has not looked yet.
BeforeCommand == {"none", "spawned", "precheck", "checkPrecheck", "pose",
                  "autoHome", "capture"}

\* A command is late only for a cancelled run, and a thread that is about to
\* send one has sent none late.
Budget(r) ==
    /\ late[r] \in {0, 1}
    /\ late[r] = 1 => row[r].cancel
    /\ worker[r] \in BeforeCommand => late[r] = 0

CommandBudget == \A r \in Runs : Budget(r)

LEMMA BudgetInitially == Init => CommandBudget
  BY DEF Init, CommandBudget, Budget

\* A step that sends nothing keeps the budget if it moves to a point before a
\* command only from another one, or having found no cancellation.
LEMMA BudgetKept ==
  ASSUME NEW r \in Runs, Budget(r), late'[r] = late[r],
         row[r].cancel => row'[r].cancel,
         \/ worker'[r] \notin BeforeCommand
         \/ worker[r] \in BeforeCommand
         \/ ~row[r].cancel
  PROVE  Budget(r)'
  BY DEF Budget

LEMMA BudgetOfCommand ==
  ASSUME TypeOK, NEW r \in Runs, Budget(r), AutoHome(r) \/ Capture(r)
  PROVE  Budget(r)'
  <1>1. late[r] = 0
    BY DEF Budget, BeforeCommand, AutoHome, Capture, At
  <1>2. late'[r] = IF row[r].cancel THEN 1 ELSE 0
    BY <1>1 DEF AutoHome, Capture, Issue, TypeOK
  <1>3. row' = row
    BY DEF AutoHome, Capture, StoreUnchanged
  <1>4. worker'[r] \notin BeforeCommand
    BY DEF AutoHome, Capture, Goto, TypeOK, BeforeCommand
  <1>5. QED
    BY <1>2, <1>3, <1>4 DEF Budget

\* Every other step of the thread sends nothing.
LEMMA SilentThread ==
  ASSUME TypeOK, NEW r \in Runs, WorkerStep(r) \/ LoseDatabase(r),
         ~(AutoHome(r) \/ Capture(r))
  PROVE  /\ late' = late
         /\ \/ worker'[r] \notin BeforeCommand
            \/ worker[r] \in BeforeCommand
            \/ ~row[r].cancel
  <1>1. \A pc : Goto(r, pc) => worker'[r] = pc
    BY DEF Goto, TypeOK
  <1>2. late' = late
    BY DEF WorkerStep, LoseDatabase, LoadRun, EnterPhase, CheckCancelled,
       VerifyPose, VerifyPoseAgain, KeepArtifact, AcceptArtifact, StartNode,
       PollNode, InvokeNode, EndWorkflow, Judge, Publish, HandleDeviceError,
       Fault, AcknowledgeCancel, DevicesUnchanged
  <1> USE DEF BeforeCommand, At
  <1>3. CASE LoadRun(r) \/ EnterPhase(r) \/ VerifyPose(r) \/ VerifyPoseAgain(r)
    <2>1. CASE worker[r] \in BeforeCommand
      BY <1>2, <2>1
    <2>2. CASE worker[r] \notin BeforeCommand
      BY <1>1, <1>2, <1>3, <2>2
         DEF LoadRun, EnterPhase, VerifyPose, VerifyPoseAgain, Confirm
    <2>3. QED
      BY <2>1, <2>2
  <1>4. CASE CheckCancelled(r)
    BY <1>1, <1>2, <1>4 DEF CheckCancelled, CancelSeen
  <1>5. CASE StartNode(r) \/ PollNode(r) \/ InvokeNode(r) \/ LoseDatabase(r)
    <2>1. \/ worker'[r] = worker[r]
          \/ worker'[r] \in {"poll", "judge", "invoke", "workflow", "lost"}
      BY <1>1, <1>5 DEF StartNode, PollNode, InvokeNode, LoseDatabase
    <2>2. QED
      BY <1>2, <2>1
  <1>6. CASE KeepArtifact(r) \/ AcceptArtifact(r) \/ EndWorkflow(r) \/ Judge(r)
             \/ Publish(r) \/ HandleDeviceError(r) \/ Fault(r)
             \/ AcknowledgeCancel(r)
    <2>1. worker'[r] \in {"executing", "workflow", "fault", "judge", "cancelling",
                          "publish", "done"}
      BY <1>1, <1>6 DEF KeepArtifact, AcceptArtifact, EndWorkflow, Judge,
         Publish, HandleDeviceError, Fault, AcknowledgeCancel
    <2>2. QED
      BY <1>2, <2>1
  <1>7. QED
    BY <1>3, <1>4, <1>5, <1>6 DEF WorkerStep

LEMMA BudgetByThread ==
  ASSUME TypeOK, CommandBudget, NEW r \in Runs, WorkerStep(r) \/ LoseDatabase(r)
  PROVE  CommandBudget'
  <1>1. ThreadEffect(r)
    BY ThreadStepEffect
  <1>2. ASSUME NEW s \in Runs \ {r} PROVE Budget(s)'
    <2>1. row'[s] = row[s] /\ worker'[s] = worker[s]
      BY <1>1 DEF ThreadEffect, TypeOK
    <2>2. late'[s] = late[s]
      <3>1. CASE AutoHome(r) \/ Capture(r)
        BY <3>1 DEF AutoHome, Capture, Issue, TypeOK
      <3>2. CASE ~(AutoHome(r) \/ Capture(r))
        BY <3>2, SilentThread
      <3>3. QED
        BY <3>1, <3>2
    <2>3. QED
      BY <2>1, <2>2 DEF CommandBudget, Budget
  <1>3. Budget(r)'
    <2>1. CASE AutoHome(r) \/ Capture(r)
      BY <2>1, BudgetOfCommand DEF CommandBudget
    <2>2. CASE ~(AutoHome(r) \/ Capture(r))
      BY <1>1, <2>2, SilentThread, BudgetKept DEF CommandBudget, ThreadEffect
    <2>3. QED
      BY <2>1, <2>2
  <1>4. QED
    BY <1>2, <1>3 DEF CommandBudget

LEMMA BudgetByOthers ==
  ASSUME TypeOK, Attended, CommandBudget,
         ControlStep \/ Crash \/ Recover \/ UNCHANGED vars
  PROVE  CommandBudget'
  <1> SUFFICES ASSUME NEW r \in Runs PROVE Budget(r)'
    BY DEF CommandBudget
  <1>1. Budget(r) /\ late' = late
    BY DEF CommandBudget, ControlStep, CreateRun, ReadForCancel, WriteCancel,
       Crash, Recover, DevicesUnchanged, vars
  <1>2. ASSUME NEW s \in Runs, CreateRun(s) PROVE Budget(r)'
    <2>1. CASE r = s
      <3>1. late[r] = 0
        BY <1>2, <2>1 DEF Attended, Uncreated, CreateRun
      <3>2. QED
        BY <1>1, <3>1 DEF Budget
    <2>2. CASE r # s
      BY <1>1, <1>2, <2>2 DEF Budget, CreateRun, Goto, TypeOK
    <2>3. QED
      BY <2>1, <2>2
  <1>3. ASSUME NEW q \in Requests, WriteCancel(q) PROVE Budget(r)'
    <2>1. row[r].cancel => row'[r].cancel
      BY <1>3 DEF WriteCancel, TypeOK, Row, Reading
    <2>2. worker' = worker
      BY <1>3 DEF WriteCancel
    <2>3. QED
      BY <1>1, <2>1, <2>2, BudgetKept
  <1>4. CASE Crash
    <2>1. worker'[r] \in {"killed", worker[r]} /\ row' = row
      BY <1>4 DEF Crash, StoreUnchanged, TypeOK
    <2>2. worker'[r] \notin BeforeCommand \/ worker[r] \in BeforeCommand
      BY <2>1 DEF BeforeCommand
    <2>3. QED
      BY <1>1, <2>1, <2>2, BudgetKept
  <1>5. CASE Recover
    <2>1. row'[r].cancel = row[r].cancel
      BY <1>5 DEF Recover, TypeOK, Row
    <2>2. worker' = worker
      BY <1>5 DEF Recover
    <2>3. QED
      BY <1>1, <2>1, <2>2, BudgetKept
  <1>6. CASE row' = row /\ worker' = worker
    BY <1>1, <1>6, BudgetKept
  <1>7. QED
    BY <1>2, <1>3, <1>4, <1>5, <1>6
       DEF ControlStep, ReadForCancel, StoreUnchanged, vars

(***************************************************************************)
(* Once a cancellation is persisted, the thread sends at most one more     *)
(* command: between two of them it passes a checkpoint that reads the      *)
(* intent again, however cancels, crashes and other threads interleave.    *)
(***************************************************************************)
THEOREM OneCommandAfterCancel == Spec => []AtMostOneCommandAfterCancel
  <1>1. TypeOK /\ Attended /\ CommandBudget /\ [Next]_vars => CommandBudget'
    BY BudgetByThread, BudgetByOthers DEF Next
  <1>2. CommandBudget => AtMostOneCommandAfterCancel
    BY DEF CommandBudget, Budget, AtMostOneCommandAfterCancel
  <1>3. QED
    BY <1>1, <1>2, AlwaysAttended, BudgetInitially, PTL DEF Spec

-----------------------------------------------------------------------------
(***************************************************************************)
(* What a run publishes and commands, and that InspectionRuns implements   *)
(* RunLedger.                                                              *)
(***************************************************************************)
\* The artifact is stored before the workflow starts.
AfterArtifact == {"executing", "checkExecuting", "contract", "workflow", "poll",
                  "invoke", "judge", "publish"}

\* What PublicationIsWhole says of one run.
Whole(r) ==
    /\ row[r].result <=> row[r].decision \in Verdicts
    /\ row[r].status = "completed" => row[r].result
    /\ row[r].result => /\ row[r].artifact
                        /\ row[r].nodes \subseteq {"completed"}
    /\ {c \in Channels : <<r, c>> \in outbox}
         = IF row[r].result THEN row[r].channels ELSE {}

\* What a thread has made sure of before it publishes.
Prepared(r) ==
    /\ Working(r) => ~row[r].result
    /\ worker[r] \in AfterArtifact => row[r].artifact
    /\ worker[r] \in Live /\ "running" \in row[r].nodes =>
         worker[r] \in {"poll", "invoke"}
    /\ worker[r] = "publish" => row[r].nodes \subseteq {"completed"}

Published == \A r \in Runs : Whole(r) /\ Prepared(r)

\* A command has its justification, and so has the thread about to send it.
Justified(r) ==
    /\ "capture" \in commands[r] \/ worker[r] \in {"capturing", "checkCapturing", "capture"}
         => /\ view[r].homed /\ view[r].placed
            /\ \/ view[r].fresh /\ view[r].safe
               \/ "home" \in commands[r]
    /\ worker[r] = "repose" => "home" \in commands[r]
    /\ "home" \in commands[r] \/ worker[r] = "autoHome"
         => Simulated(r) /\ StageIsSimulated
    /\ row[r].status = "absent" => commands[r] = {}

JustifiedAll == \A r \in Runs : Justified(r)

\* A cancel handler has read a row that exists.
RequestsNameRuns ==
    \A q \in Requests :
        request[q] # Idle => row[request[q].run].status # "absent"

\* Nobody has cancelled a run that does not exist.
AbsentUncancelled == \A r \in Runs : row[r].status = "absent" => ~row[r].cancel

-----------------------------------------------------------------------------
(* Publication.                                                            *)

LEMMA PublishedInitially == Init => Published
  BY VerdictsAssumption
     DEF Init, Published, Whole, Prepared, Absent, Working, Live, Inside,
         Checkpoints, AfterArtifact

\* Columns of row r that a thread which does not publish leaves as they are,
\* or changes harmlessly.
Unpublished(r) ==
    /\ outbox' = outbox
    /\ row'[r].result = row[r].result
    /\ row'[r].channels = row[r].channels
    /\ row'[r].mode = row[r].mode
    /\ row'[r].decision \in {row[r].decision, "FAULT"}
    /\ row'[r].status # "completed" \/ row'[r].status = row[r].status
    /\ row[r].artifact => row'[r].artifact

LEMMA ThreadUnpublished ==
  ASSUME TypeOK, NEW r \in Runs, WorkerStep(r) \/ LoseDatabase(r), ~Publish(r)
  PROVE  Unpublished(r)
  <1>1. row[r] \in Row /\ row \in [Runs -> Row]
    BY DEF TypeOK
  <1>2. CASE StoreUnchanged
    BY <1>2 DEF StoreUnchanged, Unpublished
  <1>3. ASSUME NEW status \in Active \cup {"cancelled"}, Transition(r, status),
               outbox' = outbox
        PROVE  Unpublished(r)
    BY <1>1, <1>3 DEF Transition, Unpublished, Row, Active
  <1>4. ASSUME NEW nodes, NodeRows(r, nodes) \/ row' = row, outbox' = outbox
        PROVE  Unpublished(r)
    <2>1. CASE row' = row
      BY <1>4, <2>1 DEF Unpublished
    <2>2. CASE NodeRows(r, nodes)
      BY <1>1, <1>4, <2>2 DEF NodeRows, Unpublished, Row
    <2>3. QED
      BY <1>4, <2>1, <2>2
  <1>5. CASE EnterPhase(r)
    BY <1>3, <1>5 DEF EnterPhase, Active
  <1>6. CASE KeepArtifact(r)
    BY <1>1, <1>6 DEF KeepArtifact, Unpublished, Row
  <1>7. CASE StartNode(r) \/ PollNode(r) \/ InvokeNode(r)
    BY <1>4, <1>7 DEF StartNode, PollNode, InvokeNode, EndNode
  <1>8. CASE Fault(r)
    <2>1. row' = [row EXCEPT ![r] =
                    [row[r] EXCEPT !.status = "faulted", !.decision = "FAULT"]]
      BY <1>8 DEF Fault
    <2>2. QED
      BY <1>1, <1>8, <2>1 DEF Fault, Unpublished, Row
  <1>9. CASE AcknowledgeCancel(r)
    BY <1>3, <1>9 DEF AcknowledgeCancel
  <1>10. QED
    BY <1>2, <1>5, <1>6, <1>7, <1>8, <1>9
       DEF WorkerStep, LoadRun, CheckCancelled, VerifyPose, AutoHome,
           VerifyPoseAgain, Capture, AcceptArtifact, EndWorkflow, Judge,
           HandleDeviceError, LoseDatabase

LEMMA WholeByThread ==
  ASSUME TypeOK, NEW r \in Runs, WorkerStep(r) \/ LoseDatabase(r),
         Whole(r), Prepared(r), ~Publish(r)
  PROVE  Whole(r)'
  <1>1. Unpublished(r) /\ Working(r)
    BY ThreadUnpublished, ThreadStepEffect DEF ThreadEffect
  <1>2. ~row[r].result
    BY <1>1 DEF Prepared
  <1>3. QED
    BY <1>1, <1>2, VerdictsAssumption DEF Unpublished, Whole

LEMMA PreparedByThread ==
  ASSUME TypeOK, NEW r \in Runs, WorkerStep(r) \/ LoseDatabase(r),
         Prepared(r), ~Publish(r)
  PROVE  Prepared(r)'
  <1>1. Unpublished(r) /\ Working(r) /\ ~row'[r].result
    BY ThreadUnpublished, ThreadStepEffect DEF ThreadEffect, Unpublished, Prepared
  <1>2. \A pc : Goto(r, pc) => worker'[r] = pc
    BY DEF Goto, TypeOK
  <1>3. row[r].nodes \subseteq NodeStatuses /\ row[r] \in Row
    BY DEF TypeOK, Row
  <1>4. worker'[r] \in AfterArtifact => row'[r].artifact
    <2>1. CASE worker[r] \in AfterArtifact
      BY <1>1, <2>1 DEF Prepared, Unpublished
    <2>2. CASE KeepArtifact(r)
      BY <1>3, <2>2 DEF KeepArtifact, TypeOK, Row
    <2>3. CASE worker[r] \notin AfterArtifact /\ ~KeepArtifact(r)
      <3>1. worker'[r] \notin AfterArtifact
        BY <1>2, <2>3
           DEF WorkerStep, LoseDatabase, LoadRun, EnterPhase, CheckCancelled,
               AfterCheck, VerifyPose, AutoHome, VerifyPoseAgain, Confirm,
               Capture, AcceptArtifact, StartNode, PollNode, InvokeNode,
               EndWorkflow, Judge, HandleDeviceError, Fault,
               AcknowledgeCancel, AfterArtifact, At, Checkpoints
      <3>2. QED
        BY <3>1
    <2>4. QED
      BY <2>1, <2>2, <2>3
  <1>5. ASSUME row'[r].nodes = row[r].nodes, worker[r] \notin {"poll", "invoke", "judge"},
               worker'[r] # "publish"
        PROVE  Prepared(r)'
    BY <1>1, <1>4, <1>5 DEF Prepared, Working
  <1>6. CASE LoadRun(r) \/ EnterPhase(r) \/ CheckCancelled(r) \/ VerifyPose(r)
             \/ AutoHome(r) \/ VerifyPoseAgain(r) \/ Capture(r) \/ AcceptArtifact(r)
    <2>1. row'[r].nodes = row[r].nodes
      BY <1>3, <1>6
         DEF LoadRun, EnterPhase, Transition, CheckCancelled, VerifyPose,
             AutoHome, VerifyPoseAgain, Capture, AcceptArtifact, StoreUnchanged,
             TypeOK, Row
    <2>2. /\ worker[r] \notin {"poll", "invoke", "judge"}
          /\ worker'[r] # "publish"
      BY <1>2, <1>6
         DEF LoadRun, EnterPhase, CheckCancelled, AfterCheck, VerifyPose,
             AutoHome, VerifyPoseAgain, Confirm, Capture, AcceptArtifact, At,
             Checkpoints
    <2>3. QED
      BY <1>5, <2>1, <2>2
  <1>7. CASE KeepArtifact(r) \/ EndWorkflow(r) \/ HandleDeviceError(r) \/ Fault(r)
             \/ AcknowledgeCancel(r)
    <2>1. CASE KeepArtifact(r)
      <3>1. row'[r].nodes = row[r].nodes
        BY <1>3, <2>1 DEF KeepArtifact, TypeOK, Row
      <3>2. QED
        BY <1>2, <1>5, <2>1, <3>1 DEF KeepArtifact, At
    <2>2. CASE EndWorkflow(r) \/ HandleDeviceError(r)
      <3>1. row' = row
        BY <2>2 DEF EndWorkflow, HandleDeviceError, StoreUnchanged
      <3>2. QED
        BY <1>2, <1>5, <2>2, <3>1 DEF EndWorkflow, HandleDeviceError, At
    <2>3. CASE Fault(r) \/ AcknowledgeCancel(r)
      <3>1. worker'[r] = "done"
        BY <1>2, <2>3 DEF Fault, AcknowledgeCancel
      <3>2. QED
        BY <1>1, <1>4, <3>1 DEF Prepared, Working, Live, Inside, Checkpoints
    <2>4. QED
      BY <1>7, <2>1, <2>2, <2>3
  <1>8. CASE StartNode(r) \/ PollNode(r) \/ InvokeNode(r)
    <2>1. \A nodes : NodeRows(r, nodes) => row'[r].nodes = nodes
      BY <1>3 DEF NodeRows, TypeOK, Row
    <2>2. worker'[r] # "publish"
      BY <1>2, <1>8 DEF StartNode, PollNode, InvokeNode, At
    <2>3. "running" \in row'[r].nodes => worker'[r] \in {"poll", "invoke"}
      <3>1. CASE StartNode(r)
        <4>1. "running" \notin row[r].nodes
          BY <3>1, <1>1 DEF StartNode, At, Prepared, Working
        <4>2. QED
          BY <1>2, <2>1, <3>1, <4>1 DEF StartNode
      <3>2. CASE PollNode(r)
        BY <1>2, <2>1, <3>2 DEF PollNode, EndNode
      <3>3. CASE InvokeNode(r)
        BY <1>2, <2>1, <3>3 DEF InvokeNode, EndNode
      <3>4. QED
        BY <1>8, <3>1, <3>2, <3>3
    <2>4. QED
      BY <1>1, <1>4, <2>2, <2>3 DEF Prepared
  <1>9. CASE Judge(r)
    <2>1. row' = row /\ worker[r] = "judge"
      BY <1>9 DEF Judge, StoreUnchanged, At
    <2>2. "running" \notin row[r].nodes
      BY <1>1, <2>1 DEF Prepared, Working
    <2>3. worker'[r] = "publish" => row[r].nodes \subseteq {"completed"}
      BY <1>2, <1>3, <1>9, <2>2 DEF Judge, AnyFaulted, NodeStatuses
    <2>4. QED
      BY <1>1, <1>4, <2>1, <2>2, <2>3 DEF Prepared
  <1>10. CASE LoseDatabase(r)
    <2>1. worker'[r] = "lost"
      BY <1>2, <1>10 DEF LoseDatabase
    <2>2. QED
      BY <1>1, <1>4, <2>1 DEF Prepared, Working, Live, Inside, Checkpoints
  <1>11. QED
    BY <1>6, <1>7, <1>8, <1>9, <1>10 DEF WorkerStep

\* The completing commit, written as one assignment to the row.
LEMMA PublishEffect ==
  ASSUME TypeOK, NEW r \in Runs, Publish(r)
  PROVE  /\ worker[r] = "publish" /\ worker'[r] = "done"
         /\ row'[r].result /\ row'[r].status = "completed"
         /\ row'[r].decision \in Verdicts
         /\ row'[r].artifact = row[r].artifact
         /\ row'[r].nodes = row[r].nodes
         /\ row'[r].channels = row[r].channels
         /\ outbox' = outbox \cup ({r} \X row[r].channels)
         /\ row[r].channels \subseteq Channels
  <1>1. PICK verdict \in Verdicts :
          row' = [row EXCEPT ![r] =
                    [row[r] EXCEPT !.status = "completed", !.result = TRUE,
                                   !.decision = verdict]]
    BY DEF Publish
  <1>2. row[r] \in Row
    BY DEF TypeOK
  <1>3. row'[r] = [row[r] EXCEPT !.status = "completed", !.result = TRUE,
                                 !.decision = verdict]
    BY <1>1 DEF TypeOK
  <1>4. QED
    BY <1>2, <1>3 DEF Publish, Goto, At, TypeOK, Row

LEMMA PublishedByPublish ==
  ASSUME TypeOK, NEW r \in Runs, Publish(r), Whole(r), Prepared(r)
  PROVE  Whole(r)' /\ Prepared(r)'
  <1>1. ~row[r].result /\ row[r].artifact /\ row[r].nodes \subseteq {"completed"}
    BY PublishEffect DEF Prepared, Working, Live, Inside, AfterArtifact
  <1>2. {c \in Channels : <<r, c>> \in outbox} = {}
    BY <1>1 DEF Whole
  <1>3. {c \in Channels : <<r, c>> \in outbox'} = row[r].channels
    BY <1>2, PublishEffect
  <1>4. Whole(r)'
    BY <1>1, <1>3, PublishEffect DEF Whole
  <1>5. Prepared(r)'
    BY <1>1, PublishEffect DEF Prepared, Working, Live, Inside, Checkpoints, AfterArtifact
  <1>6. QED
    BY <1>4, <1>5

\* A thread adds outbox events of its own run only.
LEMMA OthersUntouched ==
  ASSUME TypeOK, NEW r \in Runs, WorkerStep(r) \/ LoseDatabase(r),
         NEW s \in Runs \ {r}
  PROVE  /\ row'[s] = row[s] /\ worker'[s] = worker[s]
         /\ \A c \in Channels : <<s, c>> \in outbox' <=> <<s, c>> \in outbox
         /\ view'[s] = view[s] /\ commands'[s] = commands[s]
  <1>1. row'[s] = row[s] /\ worker'[s] = worker[s]
    BY ThreadStepEffect DEF ThreadEffect, TypeOK
  <1>2. \A c \in Channels : <<s, c>> \in outbox' <=> <<s, c>> \in outbox
    <2>1. CASE Publish(r)
      BY <2>1, PublishEffect
    <2>2. CASE ~Publish(r)
      BY <2>2, ThreadUnpublished DEF Unpublished
    <2>3. QED
      BY <2>1, <2>2
  <1>3. commands'[s] = commands[s]
    BY DEF WorkerStep, LoseDatabase, LoadRun, EnterPhase, CheckCancelled,
       VerifyPose, AutoHome, VerifyPoseAgain, Capture, KeepArtifact,
       AcceptArtifact, StartNode, PollNode, InvokeNode, EndWorkflow, Judge,
       Publish, HandleDeviceError, Fault, AcknowledgeCancel, Issue,
       DevicesUnchanged, TypeOK
  <1>4. view'[s] = view[s]
    <2>1. CASE VerifyPose(r) \/ VerifyPoseAgain(r)
      BY <2>1 DEF VerifyPose, VerifyPoseAgain, Confirm, TypeOK
    <2>2. CASE ~(VerifyPose(r) \/ VerifyPoseAgain(r))
      BY <2>2
         DEF WorkerStep, LoseDatabase, LoadRun, EnterPhase, CheckCancelled,
             AutoHome, Capture, KeepArtifact, AcceptArtifact, StartNode,
             PollNode, InvokeNode, EndWorkflow, Judge, Publish,
             HandleDeviceError, Fault, AcknowledgeCancel, DevicesUnchanged
    <2>3. QED
      BY <2>1, <2>2
  <1>5. QED
    BY <1>1, <1>2, <1>3, <1>4

LEMMA PublishedByThread ==
  ASSUME TypeOK, Published, NEW r \in Runs, WorkerStep(r) \/ LoseDatabase(r)
  PROVE  Published'
  <1>1. Whole(r) /\ Prepared(r)
    BY DEF Published
  <1>2. Whole(r)' /\ Prepared(r)'
    <2>1. CASE Publish(r)
      BY <1>1, <2>1, PublishedByPublish
    <2>2. CASE ~Publish(r)
      BY <1>1, <2>2, WholeByThread, PreparedByThread
    <2>3. QED
      BY <2>1, <2>2
  <1>3. ASSUME NEW s \in Runs \ {r} PROVE Whole(s)' /\ Prepared(s)'
    <2>1. Whole(s) /\ Prepared(s)
      BY DEF Published
    <2>2. {c \in Channels : <<s, c>> \in outbox'} = {c \in Channels : <<s, c>> \in outbox}
      BY OthersUntouched
    <2>3. QED
      BY <2>1, <2>2, OthersUntouched DEF Whole, Prepared, Working
  <1>4. QED
    BY <1>2, <1>3 DEF Published

LEMMA PublishedByOthers ==
  ASSUME TypeOK, Attended, Published,
         ControlStep \/ Crash \/ Recover \/ UNCHANGED vars
  PROVE  Published'
  <1> SUFFICES ASSUME NEW r \in Runs PROVE Whole(r)' /\ Prepared(r)'
    BY DEF Published
  <1>1. Whole(r) /\ Prepared(r) /\ outbox' = outbox
    BY DEF Published, ControlStep, CreateRun, ReadForCancel, WriteCancel,
       Crash, Recover, StoreUnchanged, vars
  <1>2. row[r] \in Row /\ row \in [Runs -> Row] /\ worker \in [Runs -> PC]
    BY DEF TypeOK
  <1>3. ASSUME worker'[r] = worker[r] \/ worker'[r] = "killed",
               row'[r].status \in {row[r].status, "cancelled", "faulted"},
               row'[r].result = row[r].result, row'[r].decision = row[r].decision,
               row'[r].artifact = row[r].artifact, row'[r].nodes = row[r].nodes,
               row'[r].channels = row[r].channels
        PROVE  Whole(r)' /\ Prepared(r)'
    BY <1>1, <1>3 DEF Whole, Prepared, Working, Live, Inside, Checkpoints, AfterArtifact
  <1>4. ASSUME NEW s \in Runs, CreateRun(s) PROVE Whole(r)' /\ Prepared(r)'
    <2>1. PICK mode \in Modes, enabled \in SUBSET Channels :
             row' = [row EXCEPT ![s] = [Absent EXCEPT !.status = "queued",
                                                      !.mode = mode,
                                                      !.channels = enabled]]
      BY <1>4 DEF CreateRun
    <2>2. CASE r = s
      <3>1. ~row[r].result
        BY <1>4, <2>2 DEF CreateRun, Attended, Uncreated
      <3>2. row'[r] = [Absent EXCEPT !.status = "queued", !.mode = mode,
                                     !.channels = enabled]
        BY <1>2, <2>1, <2>2
      <3>3. worker'[r] = "spawned"
        BY <1>2, <1>4, <2>2 DEF CreateRun, Goto
      <3>4. /\ ~row'[r].result /\ row'[r].decision = "none"
            /\ row'[r].nodes = {} /\ row'[r].status = "queued"
        BY <3>2 DEF Absent
      <3>5. Whole(r)'
        BY <1>1, <3>1, <3>4, VerdictsAssumption DEF Whole
      <3>6. Prepared(r)'
        BY <3>3, <3>4 DEF Prepared, AfterArtifact
      <3>7. QED
        BY <3>5, <3>6
    <2>3. CASE r # s
      BY <1>2, <1>3, <1>4, <2>1, <2>3 DEF CreateRun, Goto
    <2>4. QED
      BY <2>2, <2>3
  <1>5. ASSUME NEW q \in Requests, WriteCancel(q) PROVE Whole(r)' /\ Prepared(r)'
    <2>1. PICK s \in Runs : s = request[q].run
      BY <1>5 DEF WriteCancel, TypeOK, Reading
    <2>2. \E status \in {"cancelled", row[s].status} :
            row' = [row EXCEPT ![s] = [row[s] EXCEPT !.cancel = TRUE,
                                                     !.status = status]]
      BY <1>5, <2>1 DEF WriteCancel
    <2>3. QED
      BY <1>2, <1>3, <1>5, <2>1, <2>2 DEF WriteCancel, Row
  <1>6. CASE Crash
    BY <1>2, <1>3, <1>6 DEF Crash, StoreUnchanged
  <1>7. CASE Recover
    BY <1>2, <1>3, <1>7 DEF Recover, RecoveredStatus, Row
  <1>8. CASE row' = row /\ worker' = worker
    BY <1>3, <1>8
  <1>9. QED
    BY <1>4, <1>5, <1>6, <1>7, <1>8
       DEF ControlStep, ReadForCancel, StoreUnchanged, vars

LEMMA PublishedStep == TypeOK /\ Attended /\ Published /\ [Next]_vars => Published'
  BY PublishedByThread, PublishedByOthers DEF Next

LEMMA AlwaysPublished == Spec => []Published
  BY AlwaysAttended, PublishedInitially, PublishedStep, PTL DEF Spec

(***************************************************************************)
(* The completing commit of execute_run is all or nothing: whatever crash  *)
(* or cancel falls before or after it, verdict, result, artifact, finished *)
(* node rows and outbox events are there together or not at all.           *)
(***************************************************************************)
THEOREM WholePublication == Spec => []PublicationIsWhole
  <1>1. Published => PublicationIsWhole
    BY DEF Published, Whole, PublicationIsWhole
  <1>2. QED
    BY <1>1, AlwaysPublished, PTL

-----------------------------------------------------------------------------
(* Justified commands.                                                     *)

LEMMA JustifiedInitially == Init => JustifiedAll
  BY DEF Init, JustifiedAll, Justified

\* The last report a thread relied on is one that confirmed the position.
LEMMA JustifiedByPose ==
  ASSUME TypeOK, NEW r \in Runs, Justified(r), row[r].status # "absent",
         VerifyPose(r) \/ VerifyPoseAgain(r)
  PROVE  Justified(r)'
  <1>1. row' = row /\ commands' = commands
    BY DEF VerifyPose, VerifyPoseAgain, StoreUnchanged
  <1>2. ASSUME NEW report \in Reports, Confirm(r, report),
               (report.fresh /\ report.safe) \/ "home" \in commands[r]
        PROVE  Justified(r)'
    <2>1. view'[r] = report /\ worker'[r] = "capturing"
      BY <1>2 DEF Confirm, Goto, TypeOK
    <2>2. QED
      BY <1>1, <1>2, <2>1 DEF Confirm, Justified, Simulated
  <1>3. CASE view' = view /\ \E pc \in {"deviceError", "fault"} : Goto(r, pc)
    BY <1>1, <1>3 DEF Goto, TypeOK, Justified, Simulated
  <1>4. CASE view' = view /\ Goto(r, "autoHome") /\ Simulated(r) /\ StageIsSimulated
    BY <1>1, <1>4 DEF Goto, TypeOK, Justified, Simulated
  <1>5. CASE VerifyPose(r)
    BY <1>2, <1>3, <1>4, <1>5 DEF VerifyPose
  <1>6. CASE VerifyPoseAgain(r)
    <2>1. "home" \in commands[r]
      BY <1>6 DEF VerifyPoseAgain, At, Justified
    <2>2. QED
      BY <1>2, <1>3, <1>6, <2>1 DEF VerifyPoseAgain
  <1>7. QED
    BY <1>5, <1>6

LEMMA JustifiedByCommand ==
  ASSUME TypeOK, NEW r \in Runs, Justified(r), row[r].status # "absent",
         AutoHome(r) \/ Capture(r)
  PROVE  Justified(r)'
  <1>1. row' = row /\ view' = view
    BY DEF AutoHome, Capture, StoreUnchanged
  <1>2. CASE AutoHome(r)
    BY <1>1, <1>2 DEF AutoHome, At, Issue, Goto, TypeOK, Justified, Simulated
  <1>3. CASE Capture(r)
    BY <1>1, <1>3 DEF Capture, At, Issue, Goto, TypeOK, Justified, Simulated
  <1>4. QED
    BY <1>2, <1>3

LEMMA JustifiedByThread ==
  ASSUME TypeOK, Attended, JustifiedAll, NEW r \in Runs,
         WorkerStep(r) \/ LoseDatabase(r)
  PROVE  JustifiedAll'
  <1>1. row[r].status # "absent" /\ row'[r].status # "absent"
    BY ThreadStepEffect, ThreadHasRow
       DEF Attended, ThreadEffect, Active, Terminal, TypeOK
  <1>2. row'[r].mode = row[r].mode
    <2>1. CASE Publish(r)
      <3>1. PICK verdict \in Verdicts :
              row' = [row EXCEPT ![r] =
                        [row[r] EXCEPT !.status = "completed", !.result = TRUE,
                                       !.decision = verdict]]
        BY <2>1 DEF Publish
      <3>2. QED
        BY <3>1 DEF TypeOK, Row
    <2>2. CASE ~Publish(r)
      BY <2>2, ThreadUnpublished DEF Unpublished
    <2>3. QED
      BY <2>1, <2>2
  <1>3. Justified(r)'
    <2>1. CASE VerifyPose(r) \/ VerifyPoseAgain(r)
      BY <1>1, <2>1, JustifiedByPose DEF JustifiedAll
    <2>2. CASE AutoHome(r) \/ Capture(r)
      BY <1>1, <2>2, JustifiedByCommand DEF JustifiedAll
    <2>3. CASE ~(VerifyPose(r) \/ VerifyPoseAgain(r) \/ AutoHome(r) \/ Capture(r))
      <3>1. view' = view /\ commands' = commands
        BY <2>3
           DEF WorkerStep, LoseDatabase, LoadRun, EnterPhase, CheckCancelled,
               KeepArtifact, AcceptArtifact, StartNode, PollNode, InvokeNode,
               EndWorkflow, Judge, Publish, HandleDeviceError, Fault,
               AcknowledgeCancel, DevicesUnchanged
      <3>2. worker[r] \in {"capturing", "checkCapturing"} \/
              worker'[r] \notin {"capturing", "checkCapturing", "capture", "autoHome"}
        BY <2>3
           DEF WorkerStep, LoseDatabase, LoadRun, EnterPhase, CheckCancelled,
               AfterCheck, KeepArtifact, AcceptArtifact, StartNode, PollNode,
               InvokeNode, EndWorkflow, Judge, Publish, HandleDeviceError,
               Fault, AcknowledgeCancel, At, Goto, TypeOK, Checkpoints
      <3>3. worker[r] \in {"capturing", "checkCapturing"} => worker'[r] # "autoHome"
        BY <2>3
           DEF WorkerStep, LoseDatabase, LoadRun, EnterPhase, CheckCancelled,
               AfterCheck, KeepArtifact, AcceptArtifact, StartNode, PollNode,
               InvokeNode, EndWorkflow, Judge, Publish, HandleDeviceError,
               Fault, AcknowledgeCancel, At, Goto, TypeOK, Checkpoints
      <3>4. worker'[r] # "repose"
        BY <2>3
           DEF WorkerStep, LoseDatabase, LoadRun, EnterPhase, CheckCancelled,
               AfterCheck, KeepArtifact, AcceptArtifact, StartNode, PollNode,
               InvokeNode, EndWorkflow, Judge, Publish, HandleDeviceError,
               Fault, AcknowledgeCancel, At, Goto, TypeOK, Checkpoints
      <3>5. QED
        BY <1>1, <1>2, <3>1, <3>2, <3>3, <3>4 DEF JustifiedAll, Justified, Simulated
    <2>4. QED
      BY <2>1, <2>2, <2>3
  <1>4. ASSUME NEW s \in Runs \ {r} PROVE Justified(s)'
    BY <1>4, OthersUntouched DEF JustifiedAll, Justified, Simulated
  <1>5. QED
    BY <1>3, <1>4 DEF JustifiedAll

LEMMA JustifiedByOthers ==
  ASSUME TypeOK, Attended, JustifiedAll,
         ControlStep \/ Crash \/ Recover \/ UNCHANGED vars
  PROVE  JustifiedAll'
  <1> SUFFICES ASSUME NEW r \in Runs PROVE Justified(r)'
    BY DEF JustifiedAll
  <1>1. /\ Justified(r) /\ view' = view /\ commands' = commands
        /\ row[r] \in Row /\ row \in [Runs -> Row] /\ worker \in [Runs -> PC]
    BY DEF JustifiedAll, ControlStep, CreateRun, ReadForCancel, WriteCancel,
       Crash, Recover, DevicesUnchanged, vars, TypeOK
  <1>2. ASSUME worker'[r] = worker[r] \/ worker'[r] = "killed",
               row'[r].mode = row[r].mode,
               row'[r].status = "absent" => row[r].status = "absent"
        PROVE  Justified(r)'
    BY <1>1, <1>2 DEF Justified, Simulated
  <1>3. ASSUME NEW s \in Runs, CreateRun(s) PROVE Justified(r)'
    <2>1. CASE r = s
      <3>1. commands[r] = {}
        BY <1>1, <1>3, <2>1 DEF CreateRun, Justified
      <3>2. worker'[r] = "spawned"
        BY <1>1, <1>3, <2>1 DEF CreateRun, Goto
      <3>3. QED
        BY <1>1, <3>1, <3>2 DEF Justified
    <2>2. CASE r # s
      BY <1>1, <1>2, <1>3, <2>2 DEF CreateRun, Goto
    <2>3. QED
      BY <2>1, <2>2
  <1>4. ASSUME NEW q \in Requests, WriteCancel(q) PROVE Justified(r)'
    <2>1. PICK s \in Runs : s = request[q].run
      BY <1>4 DEF WriteCancel, TypeOK, Reading
    <2>2. \E status \in {"cancelled", row[s].status} :
            row' = [row EXCEPT ![s] = [row[s] EXCEPT !.cancel = TRUE,
                                                     !.status = status]]
      BY <1>4, <2>1 DEF WriteCancel
    <2>3. QED
      BY <1>1, <1>2, <1>4, <2>1, <2>2 DEF WriteCancel, Row
  <1>5. CASE Crash
    BY <1>1, <1>2, <1>5 DEF Crash, StoreUnchanged
  <1>6. CASE Recover
    BY <1>1, <1>2, <1>6 DEF Recover, RecoveredStatus, Row
  <1>7. CASE row' = row /\ worker' = worker
    BY <1>2, <1>7
  <1>8. QED
    BY <1>3, <1>4, <1>5, <1>6, <1>7
       DEF ControlStep, ReadForCancel, StoreUnchanged, vars

(***************************************************************************)
(* A frame is captured only after a report of a homed stage in position,   *)
(* fresh and with closed interlocks unless the stage was homed in between, *)
(* and only a simulated stage of an uncommissioned run is homed unasked.   *)
(***************************************************************************)
THEOREM JustifiedCommands == Spec => []CommandsAreJustified
  <1>1. TypeOK /\ Attended /\ JustifiedAll /\ [Next]_vars => JustifiedAll'
    BY JustifiedByThread, JustifiedByOthers DEF Next
  <1>2. JustifiedAll => CommandsAreJustified
    BY DEF JustifiedAll, Justified, CommandsAreJustified
  <1>3. QED
    BY <1>1, <1>2, AlwaysAttended, JustifiedInitially, PTL DEF Spec

-----------------------------------------------------------------------------
(* Refinement of RunLedger.                                                *)

\* A cancel handler decides on a row it has read.
LEMMA RequestsStep ==
  TypeOK /\ Attended /\ RequestsNameRuns /\ [Next]_vars => RequestsNameRuns'
  <1> SUFFICES ASSUME TypeOK, Attended, RequestsNameRuns, [Next]_vars
               PROVE  RequestsNameRuns'
    OBVIOUS
  <1>1. \A s \in Runs : row[s].status # "absent" => row'[s].status # "absent"
    <2> SUFFICES ASSUME NEW s \in Runs, row[s].status # "absent"
                 PROVE  row'[s].status # "absent"
      OBVIOUS
    <2>1. ASSUME NEW r \in Runs, WorkerStep(r) \/ LoseDatabase(r)
          PROVE  row'[s].status # "absent"
      <3>1. CASE s = r
        BY <2>1, <3>1, ThreadStepEffect DEF ThreadEffect, Active, Terminal
      <3>2. CASE s # r
        BY <2>1, <3>2, OthersUntouched
      <3>3. QED
        BY <3>1, <3>2
    <2>2. ASSUME NEW r \in Runs, CreateRun(r) PROVE row'[s].status # "absent"
      BY <2>2 DEF CreateRun, TypeOK
    <2>3. ASSUME NEW q \in Requests, WriteCancel(q) PROVE row'[s].status # "absent"
      BY <2>3 DEF WriteCancel, TypeOK, Row, Reading
    <2>4. CASE Recover
      BY <2>4 DEF Recover, RecoveredStatus, TypeOK, Row
    <2>5. QED
      BY <2>1, <2>2, <2>3, <2>4
         DEF Next, ControlStep, ReadForCancel, Crash, StoreUnchanged, vars
  <1>2. \A q \in Requests : request[q] # Idle => request[q].run \in Runs
    BY DEF TypeOK, Reading
  <1>3. ASSUME NEW p \in Requests, NEW r \in Runs, ReadForCancel(p, r)
        PROVE  RequestsNameRuns'
    <2>1. row' = row /\ row[r].status # "absent"
      BY <1>3 DEF ReadForCancel, StoreUnchanged, Active
    <2>2. ASSUME NEW q \in Requests, request'[q] # Idle
          PROVE  row'[request'[q].run].status # "absent"
      <3>1. CASE q = p
        BY <1>3, <2>1, <3>1 DEF ReadForCancel, TypeOK
      <3>2. CASE q # p
        BY <1>3, <2>1, <2>2, <3>2 DEF ReadForCancel, TypeOK, RequestsNameRuns
      <3>3. QED
        BY <3>1, <3>2
    <2>3. QED
      BY <2>2 DEF RequestsNameRuns
  <1>4. CASE \A q \in Requests : request'[q] \in {request[q], Idle}
    BY <1>1, <1>2, <1>4 DEF RequestsNameRuns
  <1>5. CASE \E q \in Requests : WriteCancel(q)
    <2>1. \A q \in Requests : request'[q] \in {request[q], Idle}
      BY <1>5 DEF WriteCancel, TypeOK
    <2>2. QED
      BY <1>4, <2>1
  <1>6. CASE Crash
    <2>1. \A q \in Requests : request'[q] \in {request[q], Idle}
      BY <1>6 DEF Crash
    <2>2. QED
      BY <1>4, <2>1
  <1>7. CASE request' = request
    BY <1>4, <1>7
  <1>8. ASSUME NEW r \in Runs, WorkerStep(r) \/ LoseDatabase(r)
        PROVE  request' = request
    BY <1>8
       DEF WorkerStep, LoseDatabase, LoadRun, EnterPhase, CheckCancelled,
           VerifyPose, AutoHome, VerifyPoseAgain, Capture, KeepArtifact,
           AcceptArtifact, StartNode, PollNode, InvokeNode, EndWorkflow, Judge,
           Publish, HandleDeviceError, Fault, AcknowledgeCancel,
           ProcessUnchanged
  <1>9. QED
    BY <1>3, <1>5, <1>6, <1>7, <1>8
       DEF Next, ControlStep, CreateRun, Recover, ProcessUnchanged, vars

LEMMA AbsentUncancelledStep ==
  TypeOK /\ Attended /\ RequestsNameRuns /\ AbsentUncancelled /\ [Next]_vars
    => AbsentUncancelled'
  <1> SUFFICES ASSUME TypeOK, Attended, RequestsNameRuns, AbsentUncancelled,
                      [Next]_vars, NEW s \in Runs, row'[s].status = "absent"
               PROVE  ~row'[s].cancel
    BY DEF AbsentUncancelled
  <1>1. ASSUME NEW r \in Runs, WorkerStep(r) \/ LoseDatabase(r)
        PROVE  ~row'[s].cancel
    <2>1. CASE s = r
      <3>1. row[r].status # "absent"
        BY <1>1, ThreadStepEffect, ThreadHasRow DEF Attended, ThreadEffect
      <3>2. row'[r].status # "absent"
        BY <1>1, <3>1, ThreadStepEffect DEF ThreadEffect, Active, Terminal
      <3>3. QED
        BY <2>1, <3>2
    <2>2. CASE s # r
      BY <1>1, <2>2, OthersUntouched DEF AbsentUncancelled
    <2>3. QED
      BY <2>1, <2>2
  <1>2. ASSUME NEW r \in Runs, CreateRun(r) PROVE ~row'[s].cancel
    <2>1. CASE s = r
      BY <1>2, <2>1 DEF CreateRun, TypeOK, Absent
    <2>2. CASE s # r
      BY <1>2, <2>2 DEF CreateRun, TypeOK, AbsentUncancelled
    <2>3. QED
      BY <2>1, <2>2
  <1>3. ASSUME NEW q \in Requests, WriteCancel(q) PROVE ~row'[s].cancel
    <2>1. PICK r \in Runs : r = request[q].run /\ row[r].status # "absent"
      BY <1>3 DEF WriteCancel, TypeOK, Reading, RequestsNameRuns
    <2>2. \E status \in {"cancelled", row[r].status} :
            row' = [row EXCEPT ![r] = [row[r] EXCEPT !.cancel = TRUE,
                                                     !.status = status]]
      BY <1>3, <2>1 DEF WriteCancel
    <2>3. s # r
      BY <2>1, <2>2 DEF TypeOK, Row
    <2>4. QED
      BY <2>2, <2>3 DEF TypeOK, AbsentUncancelled
  <1>4. CASE Recover
    BY <1>4 DEF Recover, RecoveredStatus, TypeOK, Row, AbsentUncancelled
  <1>5. CASE row' = row
    BY <1>5 DEF AbsentUncancelled
  <1>6. QED
    BY <1>1, <1>2, <1>3, <1>4, <1>5
       DEF Next, ControlStep, ReadForCancel, Crash, StoreUnchanged, vars

LEMMA AlwaysNamed == Spec => [](RequestsNameRuns /\ AbsentUncancelled)
  <1>1. Init => RequestsNameRuns /\ AbsentUncancelled
    BY DEF Init, RequestsNameRuns, AbsentUncancelled, Absent
  <1>2. QED
    BY <1>1, AlwaysAttended, RequestsStep, AbsentUncancelledStep, PTL DEF Spec

askedToCancel == {r \in Runs : row[r].cancel}

\* A step that moves one run at most, in terms of the ledger.
LEMMA StandingOf ==
  ASSUME NEW r \in Runs
  PROVE  /\ standing[r] = IF row[r].status = "absent" THEN "absent"
                          ELSE IF row[r].result THEN "published"
                          ELSE IF Working(r) THEN "open" ELSE "closed"
         /\ standing'[r] = IF row'[r].status = "absent" THEN "absent"
                           ELSE IF row'[r].result THEN "published"
                           ELSE IF Working(r)' THEN "open" ELSE "closed"
  BY DEF standing

\* Functions over the runs that agree everywhere, or everywhere but at r.
LEMMA StandingMoves ==
  ASSUME NEW r \in Runs, \A s \in Runs \ {r} : standing'[s] = standing[s]
  PROVE  /\ standing' = [standing EXCEPT ![r] = standing'[r]]
         /\ standing'[r] = standing[r] => standing' = standing
  <1>1. /\ standing = [s \in Runs |-> standing[s]]
        /\ standing' = [s \in Runs |-> standing'[s]]
    BY DEF standing
  <1>2. QED
    BY <1>1

LEMMA LedgerInitially == Init => Ledger!LedgerInit
  BY DEF Init, Ledger!LedgerInit, standing, Absent

LEMMA LedgerByThread ==
  ASSUME TypeOK, Attended, Published, NEW r \in Runs,
         WorkerStep(r) \/ LoseDatabase(r)
  PROVE  [Ledger!LedgerNext]_<<standing, askedToCancel, outbox>>
  <1>1. ThreadEffect(r)
    BY ThreadStepEffect
  <1>2. standing[r] = "open"
    BY <1>1, StandingOf, ThreadHasRow
       DEF ThreadEffect, Attended, Published, Prepared
  <1>3. \A s \in Runs \ {r} : standing'[s] = standing[s]
    BY OthersUntouched, StandingOf DEF Working
  <1>4. askedToCancel' = askedToCancel
    BY <1>1 DEF ThreadEffect, askedToCancel, TypeOK
  <1>5. row'[r].status # "absent"
    BY <1>1, <1>2, StandingOf DEF ThreadEffect, Active, Terminal
  <1>6. CASE Publish(r)
    <2>1. standing' = [standing EXCEPT ![r] = "published"]
      BY <1>3, <1>5, <1>6, PublishEffect, StandingOf, StandingMoves
    <2>2. Ledger!PublishRun(r)
      BY <1>2, <1>4, <1>6, <2>1, PublishEffect
         DEF Ledger!PublishRun, askedToCancel
    <2>3. QED
      BY <2>2 DEF Ledger!LedgerNext
  <1>7. CASE ~Publish(r)
    <2>1. outbox' = outbox /\ ~row'[r].result
      BY <1>1, <1>7, ThreadUnpublished
         DEF Unpublished, Published, Prepared, ThreadEffect
    <2>2. CASE Working(r)'
      <3>1. standing' = standing
        BY <1>2, <1>3, <1>5, <2>1, <2>2, StandingOf, StandingMoves
      <3>2. QED
        BY <1>4, <2>1, <3>1
    <2>3. CASE ~Working(r)'
      <3>1. standing' = [standing EXCEPT ![r] = "closed"]
        BY <1>3, <1>5, <2>1, <2>3, StandingOf, StandingMoves
      <3>2. Ledger!Close(r)
        BY <1>2, <1>4, <2>1, <3>1 DEF Ledger!Close, askedToCancel
      <3>3. QED
        BY <3>2 DEF Ledger!LedgerNext
    <2>4. QED
      BY <2>2, <2>3
  <1>8. QED
    BY <1>6, <1>7

LEMMA LedgerByCreate ==
  ASSUME TypeOK, Attended, AbsentUncancelled, NEW r \in Runs, CreateRun(r)
  PROVE  Ledger!Admit(r)
  <1>1. PICK mode \in Modes, enabled \in SUBSET Channels :
          row' = [row EXCEPT ![r] = [Absent EXCEPT !.status = "queued",
                                                   !.mode = mode,
                                                   !.channels = enabled]]
    BY DEF CreateRun
  <1>2. row'[r] = [Absent EXCEPT !.status = "queued", !.mode = mode,
                                 !.channels = enabled]
    BY <1>1 DEF TypeOK
  <1>3. /\ row[r].status = "absent" /\ ~row[r].cancel
        /\ row'[r].status = "queued" /\ ~row'[r].cancel /\ ~row'[r].result
    BY <1>2 DEF CreateRun, Absent, AbsentUncancelled
  <1>4. \A s \in Runs \ {r} : row'[s] = row[s] /\ worker'[s] = worker[s]
    BY <1>1 DEF TypeOK, CreateRun, Goto
  <1>5. worker'[r] = "spawned"
    BY DEF TypeOK, CreateRun, Goto
  <1>6. standing[r] = "absent" /\ standing'[r] = "open"
    BY <1>3, <1>5, StandingOf DEF Working, Live
  <1>7. standing' = [standing EXCEPT ![r] = "open"]
    <2>1. \A s \in Runs \ {r} : standing'[s] = standing[s]
      BY <1>4, StandingOf DEF Working
    <2>2. QED
      BY <1>6, <2>1, StandingMoves
  <1>8. \A s \in Runs : standing[s] = "open" => s \in askedToCancel
    BY StandingOf DEF Attended, Owned, CreateRun, NoActiveRun, askedToCancel
  <1>9. askedToCancel' = askedToCancel
    BY <1>3, <1>4 DEF askedToCancel
  <1>10. outbox' = outbox
    BY DEF CreateRun
  <1>11. QED
    BY <1>6, <1>7, <1>8, <1>9, <1>10 DEF Ledger!Admit, askedToCancel

LEMMA LedgerByCancel ==
  ASSUME TypeOK, RequestsNameRuns, NEW q \in Requests, WriteCancel(q)
  PROVE  \E r \in Runs : Ledger!AskToCancel(r)
  <1>1. PICK r \in Runs : r = request[q].run /\ row[r].status # "absent"
    BY DEF WriteCancel, TypeOK, Reading, RequestsNameRuns
  <1>2. \E status \in {"cancelled", row[r].status} :
          row' = [row EXCEPT ![r] = [row[r] EXCEPT !.cancel = TRUE,
                                                   !.status = status]]
    BY <1>1 DEF WriteCancel
  <1>3. /\ \A s \in Runs \ {r} : row'[s] = row[s]
        /\ row'[r].cancel /\ row'[r].status # "absent"
        /\ row'[r].result = row[r].result
        /\ worker' = worker /\ outbox' = outbox
    BY <1>1, <1>2 DEF TypeOK, Row, WriteCancel
  <1>4. \A s \in Runs : standing'[s] = standing[s]
    BY <1>1, <1>3, StandingOf DEF Working
  <1>5. standing' = standing
    BY <1>1, <1>4, StandingMoves
  <1>6. askedToCancel' = askedToCancel \cup {r}
    BY <1>3 DEF askedToCancel
  <1>7. standing[r] # "absent"
    BY <1>1, StandingOf
  <1>8. Ledger!AskToCancel(r)
    BY <1>3, <1>5, <1>6, <1>7 DEF Ledger!AskToCancel, askedToCancel
  <1>9. QED
    BY <1>8

LEMMA LedgerByProcess ==
  ASSUME TypeOK, Attended, Crash \/ Recover
  PROVE  [Ledger!LedgerNext]_<<standing, askedToCancel, outbox>>
  <1>1. CASE Crash
    <2>1. row' = row /\ outbox' = outbox /\ askedToCancel' = askedToCancel
      BY <1>1 DEF Crash, StoreUnchanged, askedToCancel
    <2>2. \A s \in Runs : ~Working(s)'
      BY <1>1 DEF Crash, Working, Live, Inside, Checkpoints
    <2>3. standing' = [s \in Runs |-> IF standing[s] = "open" THEN "closed"
                                                             ELSE standing[s]]
      BY <2>1, <2>2 DEF standing
    <2>4. QED
      BY <2>1, <2>3 DEF Ledger!LedgerNext, Ledger!Restart, askedToCancel
  <1>2. CASE Recover
    <2>1. worker' = worker /\ outbox' = outbox
      BY <1>2 DEF Recover, StoreUnchanged
    <2>2. \A s \in Runs :
             /\ row'[s].status = "absent" <=> row[s].status = "absent"
             /\ row'[s].result = row[s].result
             /\ row'[s].cancel = row[s].cancel
      BY <1>2 DEF Recover, Interrupted, Active, RecoveredStatus, TypeOK, Row
    <2>3. standing' = standing
      BY <2>1, <2>2 DEF standing, Working
    <2>4. askedToCancel' = askedToCancel
      BY <2>2 DEF askedToCancel
    <2>5. QED
      BY <2>1, <2>3, <2>4
  <1>3. QED
    BY <1>1, <1>2

(***************************************************************************)
(* The runtime implements the ledger: every step of a handler, a thread or *)
(* the process admits, cancels, publishes or closes one run, restarts, or  *)
(* leaves the ledger as it is.                                             *)
(***************************************************************************)
THEOREM LedgerImplemented == Spec => KeepsLedger
  <1> DEFINE abstract == <<standing, askedToCancel, outbox>>
  <1>1. TypeOK /\ Attended /\ Published /\ RequestsNameRuns /\ AbsentUncancelled
          /\ [Next]_vars => [Ledger!LedgerNext]_abstract
    <2> SUFFICES ASSUME TypeOK, Attended, Published, RequestsNameRuns,
                        AbsentUncancelled, [Next]_vars
                 PROVE  [Ledger!LedgerNext]_abstract
      OBVIOUS
    <2>1. CASE \E r \in Runs : CreateRun(r)
      BY <2>1, LedgerByCreate DEF Ledger!LedgerNext
    <2>2. CASE \E q \in Requests : WriteCancel(q)
      BY <2>2, LedgerByCancel DEF Ledger!LedgerNext
    <2>3. CASE \E r \in Runs : WorkerStep(r) \/ LoseDatabase(r)
      BY <2>3, LedgerByThread
    <2>4. CASE Crash \/ Recover
      BY <2>4, LedgerByProcess
    <2>5. CASE row' = row /\ worker' = worker /\ outbox' = outbox
      BY <2>5 DEF standing, askedToCancel, Working
    <2>6. QED
      BY <2>1, <2>2, <2>3, <2>4, <2>5
         DEF Next, ControlStep, ReadForCancel, StoreUnchanged, vars
  <1>2. QED
    BY <1>1, AlwaysAttended, AlwaysPublished, AlwaysNamed, LedgerInitially, PTL
       DEF Spec, KeepsLedger, Ledger!LedgerSpec, Ledger!ledgerVars, askedToCancel

-----------------------------------------------------------------------------
(* The outcome of a cancelled run.                                         *)

\* No thread works on a faulted row.
Unfaulted == \A r \in Runs : Working(r) => row[r].status # "faulted"

LEMMA UnfaultedStep ==
  ASSUME TypeOK, Attended, Unfaulted, [Next]_vars
  PROVE  Unfaulted'
  <1> SUFFICES ASSUME NEW s \in Runs, Working(s)' PROVE row'[s].status # "faulted"
    BY DEF Unfaulted
  <1>1. ASSUME NEW r \in Runs, WorkerStep(r) \/ LoseDatabase(r)
        PROVE  row'[s].status # "faulted"
    <2>1. CASE s = r
      BY <1>1, <2>1, ThreadStepEffect DEF ThreadEffect, Unfaulted, Working, Active
    <2>2. CASE s # r
      BY <1>1, <2>2, OthersUntouched DEF Unfaulted, Working
    <2>3. QED
      BY <2>1, <2>2
  <1>2. ASSUME NEW r \in Runs, CreateRun(r) PROVE row'[s].status # "faulted"
    BY <1>2 DEF CreateRun, Goto, TypeOK, Absent, Unfaulted, Working
  <1>3. ASSUME NEW q \in Requests, WriteCancel(q) PROVE row'[s].status # "faulted"
    BY <1>3 DEF WriteCancel, TypeOK, Row, Reading, Unfaulted, Working
  <1>4. CASE Recover
    BY <1>4 DEF Recover, Attended, ThreadsDieWithProcess, Working
  <1>5. CASE row' = row /\ worker' = worker
    BY <1>5 DEF Unfaulted, Working
  <1>6. CASE Crash
    BY <1>6 DEF Crash, Working, Live, Inside, Checkpoints
  <1>7. QED
    BY <1>1, <1>2, <1>3, <1>4, <1>5, <1>6
       DEF Next, ControlStep, ReadForCancel, StoreUnchanged, vars

LEMMA AlwaysUnfaulted == Spec => []Unfaulted
  <1>1. Init => Unfaulted
    BY DEF Init, Unfaulted, Absent
  <1>2. QED
    BY <1>1, UnfaultedStep, AlwaysAttended, PTL DEF Spec

\* The thread of a cancelled run has no way left to its publication.
Stopping(r) ==
    /\ row[r].cancel /\ ~row[r].result
    /\ \/ worker[r] \in Stoppable \cup
             {"deviceError", "cancelling", "fault", "done", "lost", "killed"}
       \/ worker[r] = "judge" /\ "cancelled" \in row[r].nodes

\* The thread that handles a device error has seen the cancellation.
Acknowledged(r) ==
    /\ row[r].cancel
    /\ \/ worker[r] \in {"lost", "killed"}
       \/ worker[r] \in {"deviceError", "cancelling"} /\ row[r].status # "faulted"
       \/ worker[r] = "done" /\ row[r].status = "cancelled"

LEMMA StoppingByThread ==
  ASSUME TypeOK, NEW r \in Runs, Stopping(r), WorkerStep(r) \/ LoseDatabase(r)
  PROVE  Stopping(r)'
  <1>1. ~Publish(r)
    BY DEF Publish, At, Stopping, Stoppable, Checkpoints
  <1>2. row'[r].cancel /\ ~row'[r].result
    BY <1>1, ThreadStepEffect, ThreadUnpublished DEF ThreadEffect, Unpublished, Stopping
  <1>3. ASSUME NEW pc \in Stoppable \cup
                        {"deviceError", "cancelling", "fault", "done", "lost", "killed"},
               Goto(r, pc)
        PROVE  Stopping(r)'
    BY <1>2, <1>3 DEF Goto, TypeOK, Stopping
  <1> USE DEF At
  <1>4. CASE PollNode(r)
    <2>1. EndNode(r, "cancelled") /\ Goto(r, "judge")
      BY <1>4 DEF PollNode, Stopping
    <2>2. worker'[r] = "judge" /\ "cancelled" \in row'[r].nodes
      BY <2>1 DEF EndNode, NodeRows, Goto, TypeOK, Row
    <2>3. QED
      BY <1>2, <2>2 DEF Stopping
  <1>5. CASE Judge(r)
    <2>1. "cancelled" \in row[r].nodes
      BY <1>5 DEF Judge, Stopping, Stoppable, Checkpoints
    <2>2. QED
      BY <1>3, <1>5, <2>1 DEF Judge
  <1>6. CASE CheckCancelled(r)
    BY <1>3, <1>6 DEF CheckCancelled, CancelSeen, Stopping
  <1>7. CASE LoadRun(r) \/ EnterPhase(r) \/ AutoHome(r) \/ Capture(r) \/ KeepArtifact(r)
    BY <1>3, <1>7 DEF LoadRun, EnterPhase, AutoHome, Capture, KeepArtifact, Stoppable, Checkpoints
  <1>8. CASE VerifyPose(r) \/ VerifyPoseAgain(r)
    <2>1. \E pc \in {"deviceError", "fault", "capturing", "autoHome"} : Goto(r, pc)
      BY <1>8 DEF VerifyPose, VerifyPoseAgain, Confirm
    <2>2. QED
      BY <1>3, <2>1 DEF Stoppable
  <1>9. CASE HandleDeviceError(r) \/ Fault(r) \/ AcknowledgeCancel(r) \/ LoseDatabase(r)
    BY <1>3, <1>9 DEF HandleDeviceError, Fault, AcknowledgeCancel, LoseDatabase
  <1>10. ~(AcceptArtifact(r) \/ StartNode(r) \/ InvokeNode(r) \/ EndWorkflow(r))
    BY DEF AcceptArtifact, StartNode, InvokeNode, EndWorkflow, Stopping, Stoppable, Checkpoints
  <1>11. QED
    BY <1>1, <1>4, <1>5, <1>6, <1>7, <1>8, <1>9, <1>10 DEF WorkerStep

LEMMA AcknowledgedByThread ==
  ASSUME TypeOK, NEW r \in Runs, Acknowledged(r), WorkerStep(r) \/ LoseDatabase(r)
  PROVE  Acknowledged(r)'
  <1>1. row'[r].cancel = row[r].cancel
    BY ThreadStepEffect DEF ThreadEffect
  <1>2. HandleDeviceError(r) \/ AcknowledgeCancel(r) \/ LoseDatabase(r)
    BY DEF WorkerStep, LoadRun, EnterPhase, CheckCancelled, VerifyPose, AutoHome,
           VerifyPoseAgain, Capture, KeepArtifact, AcceptArtifact, StartNode, PollNode,
           InvokeNode, EndWorkflow, Judge, Publish, Fault, At, Acknowledged, Checkpoints
  <1>3. CASE HandleDeviceError(r)
    BY <1>1, <1>3 DEF HandleDeviceError, At, Goto, StoreUnchanged, Acknowledged, TypeOK
  <1>4. CASE AcknowledgeCancel(r)
    BY <1>1, <1>4 DEF AcknowledgeCancel, Transition, Goto, Acknowledged, TypeOK, Row
  <1>5. CASE LoseDatabase(r)
    BY <1>1, <1>5 DEF LoseDatabase, Goto, Acknowledged, TypeOK
  <1>6. QED
    BY <1>2, <1>3, <1>4, <1>5

\* Cancel handlers, the next run, a crash and recovery leave both as they are.
LEMMA OutcomeByOthers ==
  ASSUME TypeOK, Attended, NEW r \in Runs, worker[r] # "none",
         \/ ControlStep \/ Crash \/ Recover \/ UNCHANGED vars
         \/ \E s \in Runs \ {r} : WorkerStep(s) \/ LoseDatabase(s)
  PROVE  (Stopping(r) => Stopping(r)') /\ (Acknowledged(r) => Acknowledged(r)')
  <1> USE DEF Stopping, Acknowledged
  <1>1. ASSUME NEW s \in Runs, CreateRun(s)
        PROVE  (Stopping(r) => Stopping(r)') /\ (Acknowledged(r) => Acknowledged(r)')
    <2>1. s # r \/ row[r].status = "absent"
      BY <1>1 DEF CreateRun
    <2>2. row[r].status # "absent"
      BY DEF Attended, Uncreated
    <2>3. row'[r] = row[r] /\ worker'[r] = worker[r]
      BY <1>1, <2>1, <2>2 DEF CreateRun, Goto, TypeOK
    <2>4. QED
      BY <2>3
  <1>2. ASSUME NEW q \in Requests, WriteCancel(q)
        PROVE  (Stopping(r) => Stopping(r)') /\ (Acknowledged(r) => Acknowledged(r)')
    <2>1. /\ row'[r].status \in {row[r].status, "cancelled"}
          /\ row[r].cancel => row'[r].cancel
          /\ row'[r].result = row[r].result /\ row'[r].nodes = row[r].nodes
          /\ worker' = worker
      <3>1. CASE r = request[q].run
        BY <1>2, <3>1 DEF WriteCancel, TypeOK, Row
      <3>2. CASE r # request[q].run
        BY <1>2, <3>2 DEF WriteCancel, TypeOK
      <3>3. QED
        BY <3>1, <3>2
    <2>2. QED
      BY <2>1
  <1>3. CASE Crash
    <2>1. row' = row /\ worker'[r] \in {worker[r], "killed"}
      BY <1>3 DEF Crash, StoreUnchanged
    <2>2. worker'[r] \notin Live
      BY <1>3 DEF Crash, Live, Inside, Checkpoints
    <2>3. worker[r] \in Live => worker'[r] = "killed"
      BY <1>3 DEF Crash
    <2>4. "judge" \in Live /\ {"deviceError", "cancelling"} \subseteq Live
      BY DEF Live, Inside
    <2>5. QED
      BY <2>1, <2>2, <2>3, <2>4
  <1>4. CASE Recover
    <2>1. /\ worker' = worker /\ ~Working(r)
          /\ row'[r].cancel = row[r].cancel /\ row'[r].result = row[r].result
          /\ row'[r].nodes = row[r].nodes
          /\ row[r].status = "cancelled" => row'[r].status = "cancelled"
      BY <1>4 DEF Recover, Interrupted, Active, TypeOK, Row, Attended, ThreadsDieWithProcess
    <2>2. {"deviceError", "cancelling"} \subseteq Live
      BY DEF Live, Inside
    <2>3. QED
      BY <2>1, <2>2 DEF Working
  <1>5. ASSUME NEW s \in Runs \ {r}, WorkerStep(s) \/ LoseDatabase(s)
        PROVE  (Stopping(r) => Stopping(r)') /\ (Acknowledged(r) => Acknowledged(r)')
    BY <1>5, OthersUntouched
  <1>6. CASE row' = row /\ worker' = worker
    BY <1>6
  <1>7. QED
    BY <1>1, <1>2, <1>3, <1>4, <1>5, <1>6 DEF ControlStep, ReadForCancel, StoreUnchanged, vars

(***************************************************************************)
(* A cancellation decides the outcome of its run if the thread has yet to  *)
(* look at it: nothing is published from then on, and a device error no    *)
(* longer ends in a fault unless the thread dies and recovery closes the   *)
(* row.                                                                    *)
(***************************************************************************)
THEOREM TimelyCancelKept == Spec => TimelyCancelHolds
  <1>1. ASSUME NEW r \in Runs
        PROVE  Spec => /\ [](row[r].cancel /\ worker[r] \in Stoppable \cup {"deviceError"}
                               => [](~row[r].result))
                       /\ [](row[r].cancel /\ worker[r] = "deviceError"
                               => [](row[r].status = "faulted" => worker[r] \in {"lost", "killed"}))
    <2> DEFINE asked == row[r].cancel /\ worker[r] \in Stoppable \cup {"deviceError"}
               open == ~row[r].result
               met == row[r].cancel /\ worker[r] = "deviceError"
               excused == row[r].status = "faulted" => worker[r] \in {"lost", "killed"}
    <2>1. Published /\ asked => Stopping(r)
      BY DEF Published, Prepared, Stopping, Working, Live, Inside, Stoppable
    <2>2. Unfaulted /\ met => Acknowledged(r)
      BY DEF Unfaulted, Acknowledged, Working, Live, Inside
    <2>3. TypeOK /\ Attended /\ Stopping(r) /\ [Next]_vars => Stopping(r)'
      <3>1. Stopping(r) => worker[r] # "none"
        BY DEF Stopping, Stoppable, Checkpoints
      <3>2. QED
        BY <3>1, StoppingByThread, OutcomeByOthers DEF Next
    <2>4. TypeOK /\ Attended /\ Acknowledged(r) /\ [Next]_vars => Acknowledged(r)'
      <3>1. Acknowledged(r) => worker[r] # "none"
        BY DEF Acknowledged
      <3>2. QED
        BY <3>1, AcknowledgedByThread, OutcomeByOthers DEF Next
    <2>5. (Stopping(r) => open) /\ (Acknowledged(r) => excused)
      BY DEF Stopping, Acknowledged
    <2> HIDE DEF asked, open, met, excused
    <2>6. Spec => [](asked => []open) /\ [](met => []excused)
      BY <2>1, <2>2, <2>3, <2>4, <2>5, AlwaysAttended, AlwaysPublished, AlwaysUnfaulted, PTL
         DEF Spec
    <2>7. QED
      BY <2>6 DEF asked, open, met, excused
  <1>2. QED
    BY <1>1 DEF TimelyCancelHolds
=============================================================================
