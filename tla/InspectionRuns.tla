--------------------------- MODULE InspectionRuns ---------------------------
(***************************************************************************)
(* The inspection-run lifecycle of the AOI backend                         *)
(* (backend/app/services/inspection_runtime_service.py with the router     *)
(* backend/app/api/inspection_runs.py that drives it).                     *)
(*                                                                         *)
(* PostgreSQL holds one row per run.  Three kinds of actors change it, each*)
(* through a database session of its own:                                  *)
(*   - the create handler, serialised by an advisory lock;                 *)
(*   - one daemon worker thread per run (execute_run), which commits a     *)
(*     status before every piece of external work;                         *)
(*   - cancel handlers (request_cancellation), which read the row in one   *)
(*     statement and write it in a later one, without a lock.              *)
(* The process may crash at any point; startup recovery then closes every  *)
(* active row.  The unit of work of an action is what the code does between*)
(* two commits, two reads of the row, or two adapter calls.                *)
(*                                                                         *)
(* A session never refreshes a loaded row by itself, so a write carries    *)
(* the decision of an earlier read: "request" holds what a cancel handler  *)
(* read, "worker" where a worker stands.  UPDATE writes only the columns   *)
(* the session changed, hence the EXCEPTs below.                           *)
(*                                                                         *)
(* A definition marked "variant" is not part of Next: it is the definition *)
(* after it with a plausible mistake, kept to show which property notices. *)
(***************************************************************************)
EXTENDS Naturals, FiniteSets

CONSTANTS
    Runs,              \* run identifiers that may be created
    Requests,          \* concurrent cancel requests
    Channels,          \* integration channels: plc, mes
    Modes,             \* deployment modes a commissioning snapshot may carry
    Verdicts,          \* decisions a workflow may reach: PASS, FAIL
    Reports,           \* motion states the adapter may report
    StageIsSimulated,  \* the motion adapter reports DeviceMode.SIMULATION
    DatabaseMayFail,   \* a statement of a worker may raise a database error
    MaxActivations,    \* bound: node activations of one workflow
    MaxCrashes         \* bound: crashes of the backend process

\* A commissioned station has the mode of its profile, any other the first.
Calibrated == {"hardware-pilot", "production"}
DeploymentModes == {"simulation-uncommissioned", "simulation"} \cup Calibrated

Report == [fresh: BOOLEAN, safe: BOOLEAN, homed: BOOLEAN, placed: BOOLEAN]

ASSUME VerdictsAssumption == {"none", "FAULT"} \cap Verdicts = {}
ASSUME ReportsAssumption == Reports \subseteq Report
ASSUME ModesAssumption == Modes \subseteq DeploymentModes
ASSUME FlagsAssumption ==
    StageIsSimulated \in BOOLEAN /\ DatabaseMayFail \in BOOLEAN
ASSUME BoundsAssumption == MaxActivations \in Nat /\ MaxCrashes \in Nat

VARIABLES
    up,          \* the backend process serves requests
    crashes,     \* crashes so far
    row,         \* the inspection_runs row of each run
    outbox,      \* integration_outbox_events rows, one per run and channel
    worker,      \* program counter of the thread that executes the run
    view,        \* the motion state the worker relies on
    activations, \* node activations started so far
    request,     \* what each cancel request has read
    commands,    \* history: device commands issued for the run
    late         \* history: commands issued after cancellation was persisted

vars == <<up, crashes, row, outbox, worker, view, activations, request,
          commands, late>>

-----------------------------------------------------------------------------
Active == {"queued", "precheck", "capturing", "executing"}
Terminal == {"completed", "faulted", "cancelled"}
NodeStatuses == {"running", "completed", "faulted", "cancelled"}

\* nodes collects the statuses of the run's inspection_node_runs rows.
Row == [status: Active \cup Terminal \cup {"absent"}, cancel: BOOLEAN,
        mode: DeploymentModes, channels: SUBSET Channels, artifact: BOOLEAN,
        nodes: SUBSET NodeStatuses, result: BOOLEAN,
        decision: Verdicts \cup {"none", "FAULT"}]

NoReport == [fresh |-> FALSE, safe |-> FALSE, homed |-> FALSE, placed |-> FALSE]

Checkpoints == {"checkPrecheck", "checkCapturing", "checkExecuting"}

\* Program points inside the try block of execute_run.
Inside == Checkpoints \cup
    {"precheck", "pose", "autoHome", "repose", "capturing", "capture", "keep",
     "executing", "contract", "workflow", "poll", "invoke", "judge", "publish",
     "deviceError", "fault", "cancelling"}

\* The thread exists and has not finished; "lost" is one that died of a database
\* error, "killed" one that died with the process.
Live == Inside \cup {"spawned"}
PC == Live \cup {"none", "done", "lost", "killed"}

Idle == [run |-> "none"]
Reading == [run: Runs, saw: Active]

Absent ==
    [status |-> "absent", cancel |-> FALSE, mode |-> "production",
     channels |-> {}, artifact |-> FALSE, nodes |-> {}, result |-> FALSE,
     decision |-> "none"]

TypeOK ==
    /\ up \in BOOLEAN
    /\ crashes \in 0..MaxCrashes
    /\ row \in [Runs -> Row]
    /\ outbox \subseteq Runs \X Channels
    /\ worker \in [Runs -> PC]
    /\ view \in [Runs -> Report]
    /\ activations \in [Runs -> 0..MaxActivations]
    /\ request \in [Requests -> Reading \cup {Idle}]
    /\ commands \in [Runs -> SUBSET {"home", "capture"}]
    /\ late \in [Runs -> Nat]

Init ==
    /\ up = TRUE
    /\ crashes = 0
    /\ row = [r \in Runs |-> Absent]
    /\ outbox = {}
    /\ worker = [r \in Runs |-> "none"]
    /\ view = [r \in Runs |-> NoReport]
    /\ activations = [r \in Runs |-> 0]
    /\ request = [q \in Requests |-> Idle]
    /\ commands = [r \in Runs |-> {}]
    /\ late = [r \in Runs |-> 0]

-----------------------------------------------------------------------------
(* Building blocks of the worker.                                          *)

At(r, pc) == up /\ worker[r] = pc

Goto(r, pc) == worker' = [worker EXCEPT ![r] = pc]

\* _transition: the status is set in the session and committed at once.
Transition(r, status) == row' = [row EXCEPT ![r].status = status]

\* A command leaves for an adapter.
Issue(r, command) ==
    /\ commands' = [commands EXCEPT ![r] = @ \cup {command}]
    /\ late' = [late EXCEPT ![r] = IF row[r].cancel THEN @ + 1 ELSE @]

ProcessUnchanged == UNCHANGED <<up, crashes, request>>
DevicesUnchanged == UNCHANGED <<view, commands, late>>
StoreUnchanged == UNCHANGED <<row, outbox>>

-----------------------------------------------------------------------------
(* Control plane.                                                          *)

\* get_latest_active_run, as create_run uses it.
NoBusyRun == \A s \in Runs : row[s].status \notin Active \ {"queued"}  \* variant
NoActiveRun == \A s \in Runs : row[s].status \notin Active

\* POST /api/inspection-runs.  The advisory lock makes the check and the
\* insert one step as far as other creates are concerned; the row is not
\* visible to anyone else before its commit.  The thread starts after it.
\* The snapshot of a station without a profile names no channel.
CreateRun(r) ==
    /\ up
    /\ row[r].status = "absent"
    /\ NoActiveRun
    /\ \E mode \in Modes, enabled \in SUBSET Channels :
         /\ mode = "simulation-uncommissioned" => enabled = {}
         /\ row' = [row EXCEPT ![r] = [Absent EXCEPT !.status = "queued",
                                                     !.mode = mode,
                                                     !.channels = enabled]]
    /\ Goto(r, "spawned")
    /\ UNCHANGED <<outbox, activations>>
    /\ ProcessUnchanged /\ DevicesUnchanged

\* request_cancellation, first half: the handler loads the row and decides
\* on the status it sees.  A terminal run is returned as it is.
ReadForCancel(q, r) ==
    /\ up
    /\ request[q] = Idle
    /\ row[r].status \in Active
    /\ request' = [request EXCEPT ![q] = [run |-> r, saw |-> row[r].status]]
    /\ UNCHANGED <<up, crashes, worker, activations>>
    /\ StoreUnchanged /\ DevicesUnchanged

\* Second half: persist the intent, and close the run when the status read
\* before was queued or precheck, whatever the status is by now.
WriteCancel(q) ==
    /\ up
    /\ request[q] # Idle
    /\ LET r == request[q].run
       IN row' = [row EXCEPT
                    ![r].cancel = TRUE,
                    ![r].status = IF request[q].saw \in {"queued", "precheck"}
                                    THEN "cancelled" ELSE @]
    /\ request' = [request EXCEPT ![q] = Idle]
    /\ UNCHANGED <<up, crashes, outbox, worker, activations>>
    /\ DevicesUnchanged

\* The process dies: threads and half-done requests go with it, rows stay.
Crash ==
    /\ up
    /\ crashes < MaxCrashes
    /\ up' = FALSE
    /\ crashes' = crashes + 1
    /\ worker' = [r \in Runs |-> IF worker[r] \in Live THEN "killed" ELSE worker[r]]
    /\ request' = [q \in Requests |-> Idle]
    /\ UNCHANGED activations
    /\ StoreUnchanged /\ DevicesUnchanged

\* The rows recover_interrupted_runs selects.
InterruptedByDevice(status) == status \in Active \ {"queued"}  \* variant
InterruptedOrNot(status) == status # "absent"                  \* variant
Interrupted(status) == status \in Active

\* recover_interrupted_status: physical work faults, the rest is cancelled.
RecoveredStatus(status) ==
    IF status \in {"capturing", "executing"} THEN "faulted" ELSE "cancelled"

\* Startup, before the first request: recover_interrupted_runs in one commit.
Recover ==
    /\ ~up
    /\ up' = TRUE
    /\ row' = [r \in Runs |->
                 IF Interrupted(row[r].status)
                   THEN [row[r] EXCEPT !.status = RecoveredStatus(@)]
                   ELSE row[r]]
    /\ UNCHANGED <<crashes, outbox, worker, activations, request>>
    /\ DevicesUnchanged

-----------------------------------------------------------------------------
(* execute_run.                                                            *)

\* A run that is no longer queued when its thread loads it is left alone:
\* InspectionRunError ends the thread.
LoadRun(r) ==
    /\ At(r, "spawned")
    /\ Goto(r, IF row[r].status = "queued" THEN "precheck" ELSE "done")
    /\ UNCHANGED activations
    /\ ProcessUnchanged /\ StoreUnchanged /\ DevicesUnchanged

\* The three commits that announce a phase before its external work.
EnterPhase(r) ==
    /\ up
    /\ \/ At(r, "precheck") /\ Transition(r, "precheck") /\ Goto(r, "checkPrecheck")
       \/ At(r, "capturing") /\ Transition(r, "capturing") /\ Goto(r, "checkCapturing")
       \/ At(r, "executing") /\ Transition(r, "executing") /\ Goto(r, "checkExecuting")
    /\ UNCHANGED <<outbox, activations>>
    /\ ProcessUnchanged /\ DevicesUnchanged

AfterCheck ==
    [checkPrecheck |-> "pose", checkCapturing |-> "capture",
     checkExecuting |-> "contract"]

\* _check_cancelled: only cancel_requested is read again.
CancelSeenOnce(r) == row[r].cancel /\ worker[r] = "checkPrecheck"  \* variant
CancelSeen(r) == row[r].cancel

CheckCancelled(r) ==
    /\ up
    /\ worker[r] \in Checkpoints
    /\ Goto(r, IF CancelSeen(r) THEN "cancelling" ELSE AfterCheck[worker[r]])
    /\ UNCHANGED activations
    /\ ProcessUnchanged /\ StoreUnchanged /\ DevicesUnchanged

Simulated(r) == row[r].mode = "simulation-uncommissioned"

\* The report that lets the run proceed is remembered.
ConfirmPlaced(r, report) ==  \* variant
    /\ report.placed
    /\ view' = [view EXCEPT ![r] = report]
    /\ Goto(r, "capturing")
Confirm(r, report) ==
    /\ report.homed /\ report.placed
    /\ view' = [view EXCEPT ![r] = report]
    /\ Goto(r, "capturing")

\* The calibration evidence may have expired since the run was created; the
\* adapter may fail, or report any state its schema allows.
VerifyPose(r) ==
    /\ At(r, "pose")
    /\ \/ (Goto(r, "deviceError") \/ (row[r].mode \in Calibrated /\ Goto(r, "fault"))) /\ UNCHANGED view
       \/ \E report \in Reports :
            LET ready == report.fresh /\ report.safe
                home == ~report.homed /\ Simulated(r) /\ StageIsSimulated
            IN \/ ready /\ Confirm(r, report)
               \/ ready /\ home /\ Goto(r, "autoHome") /\ UNCHANGED view
               \/ /\ ~ready \/ (~home /\ ~(report.homed /\ report.placed))
                  /\ Goto(r, "fault")
                  /\ UNCHANGED view
    /\ UNCHANGED <<activations, commands, late>>
    /\ ProcessUnchanged /\ StoreUnchanged

\* motion.home, sent only to a simulated stage by an uncommissioned run.
AutoHome(r) ==
    /\ At(r, "autoHome")
    /\ Issue(r, "home")
    /\ Goto(r, "repose") \/ Goto(r, "deviceError")
    /\ UNCHANGED <<view, activations>>
    /\ ProcessUnchanged /\ StoreUnchanged

\* The state read after homing is checked for position only.
VerifyPoseAgain(r) ==
    /\ At(r, "repose")
    /\ \/ \E report \in Reports : Confirm(r, report)
       \/ \E next \in {"deviceError", "fault"} : Goto(r, next) /\ UNCHANGED view
    /\ UNCHANGED <<activations, commands, late>>
    /\ ProcessUnchanged /\ StoreUnchanged

\* camera.capture, inspection_image and the artifact file; the adapter or
\* the disk may fail.
Capture(r) ==
    /\ At(r, "capture")
    /\ Issue(r, "capture")
    /\ \E next \in {"keep", "deviceError", "fault"} : Goto(r, next)
    /\ UNCHANGED <<view, activations>>
    /\ ProcessUnchanged /\ StoreUnchanged

KeepArtifact(r) ==
    /\ At(r, "keep")
    /\ row' = [row EXCEPT ![r].artifact = TRUE]
    /\ Goto(r, "executing")
    /\ UNCHANGED <<outbox, activations>>
    /\ ProcessUnchanged /\ DevicesUnchanged

\* run_reference_slice, the production bindings and the image decoder may
\* reject the artifact.
AcceptArtifact(r) ==
    /\ At(r, "contract")
    /\ Goto(r, "workflow") \/ Goto(r, "fault")
    /\ UNCHANGED activations
    /\ ProcessUnchanged /\ StoreUnchanged /\ DevicesUnchanged

-----------------------------------------------------------------------------
(* execute_workflow with observe_node: which node runs next is abstracted, *)
(* what is persisted about it, and when cancellation is polled, is not.    *)

NodeRows(r, nodes) == row' = [row EXCEPT ![r].nodes = nodes]

\* A node activation is persisted as running; or the remaining activations
\* are blocked on data, one of which is persisted as faulted.
StartNode(r) ==
    /\ At(r, "workflow")
    /\ activations[r] < MaxActivations
    /\ activations' = [activations EXCEPT ![r] = @ + 1]
    /\ \/ NodeRows(r, row[r].nodes \cup {"running"}) /\ Goto(r, "poll")
       \/ NodeRows(r, row[r].nodes \cup {"faulted"}) /\ UNCHANGED worker
    /\ UNCHANGED outbox
    /\ ProcessUnchanged /\ DevicesUnchanged

EndNode(r, status) ==
    NodeRows(r, (row[r].nodes \ {"running"}) \cup {status})

\* NodeRuntime.invoke polls cancel_requested before the node's own code.
PollNode(r) ==
    /\ At(r, "poll")
    /\ IF row[r].cancel
         THEN EndNode(r, "cancelled") /\ Goto(r, "judge")
         ELSE Goto(r, "invoke") /\ UNCHANGED row
    /\ UNCHANGED <<outbox, activations>>
    /\ ProcessUnchanged /\ DevicesUnchanged

\* The node completes, faults (the run goes on along its failure branch, or
\* runs out of activations), or polls again and sees the cancellation.
InvokeNode(r) ==
    /\ At(r, "invoke")
    /\ \/ \E status \in {"completed", "faulted"} :
            EndNode(r, status) /\ Goto(r, "workflow")
       \/ row[r].cancel /\ EndNode(r, "cancelled") /\ Goto(r, "judge")
    /\ UNCHANGED <<outbox, activations>>
    /\ ProcessUnchanged /\ DevicesUnchanged

\* The activation queue is empty.
EndWorkflow(r) ==
    /\ At(r, "workflow")
    /\ Goto(r, "judge")
    /\ UNCHANGED activations
    /\ ProcessUnchanged /\ StoreUnchanged /\ DevicesUnchanged

\* faulted_record: the first node record with that status.
OnlyFaulted(r) == row[r].nodes = {"faulted"}  \* variant
AnyFaulted(r) == "faulted" \in row[r].nodes

\* A faulted record outweighs a cancelled one.  Encoding or storing the
\* previews, or a deleted recipe, may still fault the run.
Judge(r) ==
    /\ At(r, "judge")
    /\ IF AnyFaulted(r) THEN Goto(r, "fault")
       ELSE IF "cancelled" \in row[r].nodes THEN Goto(r, "cancelling")
       ELSE Goto(r, "publish") \/ Goto(r, "fault")
    /\ UNCHANGED activations
    /\ ProcessUnchanged /\ StoreUnchanged /\ DevicesUnchanged

\* Result, decision, outbox events and the completed status: one commit.
Publish(r) ==
    /\ At(r, "publish")
    /\ \E verdict \in Verdicts :
         row' = [row EXCEPT ![r].status = "completed", ![r].result = TRUE,
                            ![r].decision = verdict]
    /\ outbox' = outbox \cup ({r} \X row[r].channels)
    /\ Goto(r, "done")
    /\ UNCHANGED activations
    /\ ProcessUnchanged /\ DevicesUnchanged

-----------------------------------------------------------------------------
(* The except clauses of execute_run.                                      *)

\* DeviceServiceError: the intent is read again before the run is faulted.
HandleDeviceError(r) ==
    /\ At(r, "deviceError")
    /\ Goto(r, IF row[r].cancel THEN "cancelling" ELSE "fault")
    /\ UNCHANGED activations
    /\ ProcessUnchanged /\ StoreUnchanged /\ DevicesUnchanged

Fault(r) ==
    /\ At(r, "fault")
    /\ row' = [row EXCEPT ![r].status = "faulted", ![r].decision = "FAULT"]
    /\ Goto(r, "done")
    /\ UNCHANGED <<outbox, activations>>
    /\ ProcessUnchanged /\ DevicesUnchanged

\* InspectionCancelled, NodeExecutionCancelled, a cancelled node record.
AcknowledgeCancelUnsaved(r) ==  \* variant
    /\ At(r, "cancelling")
    /\ Goto(r, "done")
    /\ UNCHANGED activations
    /\ ProcessUnchanged /\ StoreUnchanged /\ DevicesUnchanged

AcknowledgeCancel(r) ==
    /\ At(r, "cancelling")
    /\ Transition(r, "cancelled")
    /\ Goto(r, "done")
    /\ UNCHANGED <<outbox, activations>>
    /\ ProcessUnchanged /\ DevicesUnchanged

\* A database error leaves the session unusable without a rollback, and no
\* except clause rolls back: _fault raises in turn and the thread dies.
LoseDatabase(r) ==
    /\ DatabaseMayFail
    /\ up
    /\ worker[r] \in Live
    /\ Goto(r, "lost")
    /\ UNCHANGED activations
    /\ ProcessUnchanged /\ StoreUnchanged /\ DevicesUnchanged

-----------------------------------------------------------------------------
WorkerStep(r) ==
    \/ LoadRun(r) \/ EnterPhase(r) \/ CheckCancelled(r)
    \/ VerifyPose(r) \/ AutoHome(r) \/ VerifyPoseAgain(r)
    \/ Capture(r) \/ KeepArtifact(r) \/ AcceptArtifact(r)
    \/ StartNode(r) \/ PollNode(r) \/ InvokeNode(r) \/ EndWorkflow(r)
    \/ Judge(r) \/ Publish(r)
    \/ HandleDeviceError(r) \/ Fault(r) \/ AcknowledgeCancel(r)

ControlStep ==
    \/ \E r \in Runs : CreateRun(r)
    \/ \E q \in Requests, r \in Runs : ReadForCancel(q, r)
    \/ \E q \in Requests : WriteCancel(q)

Next ==
    \/ ControlStep
    \/ \E r \in Runs : WorkerStep(r) \/ LoseDatabase(r)
    \/ Crash
    \/ Recover

Spec == Init /\ [][Next]_vars

\* Threads are scheduled, every adapter call has a client timeout, and a
\* crashed backend is started again.  Nobody has to create or cancel a run.
Fairness == WF_vars(Recover) /\ \A r \in Runs : WF_vars(WorkerStep(r))

FairSpec == Spec /\ Fairness
=============================================================================
