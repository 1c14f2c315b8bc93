---------------------------- MODULE TrainingJobs ----------------------------
(***************************************************************************)
(* Training jobs of the AOI backend (training_job_service.py and           *)
(* training_execution_service.py).                                         *)
(*                                                                         *)
(* A create handler commits a queued research_runs row and then hands it   *)
(* to a pool of threads.  The thread that takes it commits the stage it    *)
(* has reached at five checkpoints, and at the end the outputs.  Cancel    *)
(* handlers read the status, choose the next one by the transition table,  *)
(* and write it in a later statement.                                      *)
(*                                                                         *)
(* "seen" is the status the thread's session holds in its identity map.    *)
(* A SELECT, also one FOR UPDATE, that finds an object of the session does *)
(* not overwrite its attributes, and a commit does not expire them         *)
(* (expire_on_commit=False): the thread tests the status it wrote last.    *)
(*                                                                         *)
(* A definition marked "variant" is not part of Next: it is the definition *)
(* after it with a plausible mistake, kept to show which property notices. *)
(***************************************************************************)
EXTENDS Naturals, Sequences, FiniteSets

CONSTANTS
    Jobs,            \* job identifiers that may be created
    Requests,        \* concurrent cancel requests
    PoolSize,        \* threads of _TRAINING_EXECUTOR
    StatusWidth,     \* characters the status column holds
    ActionMayFail,   \* the node action, a dataset or the artifact store may fail
    DatabaseMayFail, \* a statement outside the thread's try block may fail
    MaxCrashes       \* bound: crashes of the backend process

ASSUME PoolAssumption == PoolSize \in Nat \ {0}
ASSUME WidthAssumption == StatusWidth \in Nat
ASSUME FailureAssumption == ActionMayFail \in BOOLEAN /\ DatabaseMayFail \in BOOLEAN
ASSUME CrashAssumption == MaxCrashes \in Nat

VARIABLES
    up,        \* the backend process serves requests
    crashes,   \* crashes so far
    row,       \* the research_runs row of each job
    pool,      \* jobs submitted to the pool and not yet taken, in order
    worker,    \* program counter of the thread that executes the job
    seen,      \* the status the thread's session holds
    request,   \* what each cancel request has read
    contested  \* history: jobs a cancel handler has written to

vars == <<up, crashes, row, pool, worker, seen, request, contested>>

-----------------------------------------------------------------------------
(* core/training/contracts.py                                              *)

Stages == {"preparing-dataset", "validating", "training", "evaluating",
           "persisting-artifacts"}
Terminal == {"completed", "failed", "cancelled"}
Status == Stages \cup Terminal \cup {"queued", "cancelling"}

\* _ALLOWED_TRANSITIONS
AllowedFrom(status) ==
    CASE status = "queued" -> {"preparing-dataset", "cancelled", "failed"}
      [] status = "preparing-dataset" -> {"validating", "cancelling", "failed"}
      [] status = "validating" -> {"training", "cancelling", "failed"}
      [] status = "training" -> {"evaluating", "cancelling", "failed"}
      [] status = "evaluating" -> {"persisting-artifacts", "cancelling", "failed"}
      [] status = "persisting-artifacts" -> {"completed", "cancelling", "failed"}
      [] status = "cancelling" -> {"cancelled", "failed"}
      [] OTHER -> {}

\* The characters of a stage, and whether the column holds them.
StageLength(stage) ==
    CASE stage = "preparing-dataset" -> 17
      [] stage = "persisting-artifacts" -> 20
      [] stage = "training" -> 8
      [] OTHER -> 10

Fits(stage) == StageLength(stage) <= StatusWidth

\* _PROGRESS_STAGE_ORDER
StageOrder(stage) ==
    CASE stage = "queued" -> 0
      [] stage = "preparing-dataset" -> 1
      [] stage = "validating" -> 2
      [] stage = "training" -> 3
      [] stage = "evaluating" -> 4
      [] stage = "persisting-artifacts" -> 5

-----------------------------------------------------------------------------
\* progress is the stage of the progress column; published tells whether
\* metrics, output_artifacts and the research_artifacts rows are there.
Row == [status: Status \cup {"absent"}, progress: Stages \cup {"queued"},
        published: BOOLEAN]

Absent == [status |-> "absent", progress |-> "queued", published |-> FALSE]

\* A thread is about to commit a stage, inside the node action, about to
\* lock the row, about to commit the outputs, or in an except clause.
Trying == Stages \cup {"action", "lock", "publish"}
Running == Trying \cup {"stopped", "failing"}

\* Submitted or about to be; "lost" is a crash, "dead" a handler or thread
\* whose own statement failed where nothing catches it.
Waiting == {"created", "pooled"}
PC == Running \cup Waiting \cup {"none", "done", "lost", "dead"}

Idle == [job |-> "none"]
Reading == [job: Jobs, saw: Stages \cup {"queued"}]

TypeOK ==
    /\ up \in BOOLEAN
    /\ crashes \in 0..MaxCrashes
    /\ row \in [Jobs -> Row]
    /\ pool \in Seq(Jobs)
    /\ worker \in [Jobs -> PC]
    /\ seen \in [Jobs -> Status \cup {"absent"}]
    /\ request \in [Requests -> Reading \cup {Idle}]
    /\ contested \subseteq Jobs

Init ==
    /\ up = TRUE
    /\ crashes = 0
    /\ row = [j \in Jobs |-> Absent]
    /\ pool = <<>>
    /\ worker = [j \in Jobs |-> "none"]
    /\ seen = [j \in Jobs |-> "queued"]
    /\ request = [q \in Requests |-> Idle]
    /\ contested = {}

Goto(j, pc) == worker' = [worker EXCEPT ![j] = pc]

At(j, pc) == up /\ worker[j] = pc

-----------------------------------------------------------------------------
(* Handlers.                                                               *)

\* TrainingPlatform.create up to its commit; the intent has been validated.
CreateJob(j) ==
    /\ up
    /\ row[j].status = "absent"
    /\ row' = [row EXCEPT ![j].status = "queued"]
    /\ Goto(j, "created")
    /\ UNCHANGED <<up, crashes, pool, seen, request, contested>>

\* ... and the dispatcher's submit after it.
Dispatch(j) ==
    /\ At(j, "created")
    /\ pool' = Append(pool, j)
    /\ Goto(j, "pooled")
    /\ UNCHANGED <<up, crashes, row, seen, request, contested>>

\* The statement that rereads the row before the submit fails.
DispatchFails(j) ==
    /\ DatabaseMayFail
    /\ At(j, "created")
    /\ Goto(j, "dead")
    /\ UNCHANGED <<up, crashes, row, pool, seen, request, contested>>

\* TrainingPlatform.cancel reads the row; the transition table refuses a
\* terminal or cancelling job.
ReadForCancel(q, j) ==
    /\ up
    /\ request[q] = Idle
    /\ row[j].status \in Stages \cup {"queued"}
    /\ request' = [request EXCEPT ![q] = [job |-> j, saw |-> row[j].status]]
    /\ UNCHANGED <<up, crashes, row, pool, worker, seen, contested>>

\* The status chosen from that reading.
CancelStatus(saw) == IF saw = "queued" THEN "cancelled" ELSE "cancelling"

\* The UPDATE waits for a thread that holds the row lock, then proceeds.
WriteCancel(q) ==
    /\ up
    /\ request[q] # Idle
    /\ LET j == request[q].job
       IN /\ worker[j] # "publish"
          /\ row' = [row EXCEPT ![j].status = CancelStatus(request[q].saw)]
          /\ contested' = contested \cup {j}
    /\ request' = [request EXCEPT ![q] = Idle]
    /\ UNCHANGED <<up, crashes, pool, worker, seen>>

-----------------------------------------------------------------------------
(* The thread: TrainingOrchestrator.execute around                         *)
(* execute_training_dispatch.                                              *)

HandlersUnchanged == UNCHANGED <<up, crashes, request, contested>>

\* A job that is no longer queued when its thread loads it is left alone:
\* the error ends in a future nobody reads.
MayStart(status) == status = "queued"

\* A job that holds one of the threads of the pool.
OccupiesForGood(j) == worker[j] \in Running \cup {"done"}  \* variant
Occupies(j) == worker[j] \in Running

NextInPool(j) ==
    /\ up
    /\ pool # <<>> /\ j = Head(pool)
    /\ Cardinality({k \in Jobs : Occupies(k)}) < PoolSize
    /\ pool' = Tail(pool)

TakeJob(j) ==
    /\ NextInPool(j)
    /\ seen' = [seen EXCEPT ![j] = row[j].status]
    /\ Goto(j, IF MayStart(row[j].status) THEN "preparing-dataset" ELSE "done")
    /\ UNCHANGED row /\ HandlersUnchanged

\* The thread cannot load the row.
LoadFails(j) ==
    /\ DatabaseMayFail
    /\ NextInPool(j)
    /\ Goto(j, "dead")
    /\ UNCHANGED <<row, seen>> /\ HandlersUnchanged

\* is_cancelled
CancelSeen(j) == seen[j] \in {"cancelling", "cancelled"}

\* What execute_training_dispatch does after a checkpoint.
SkipValidation(stage) ==  \* variant
    CASE stage = "preparing-dataset" -> "training"
      [] stage = "training" -> "action"
      [] stage = "evaluating" -> "persisting-artifacts"
      [] stage = "persisting-artifacts" -> "lock"
AfterStage(stage) ==
    CASE stage = "preparing-dataset" -> "validating"
      [] stage = "validating" -> "training"
      [] stage = "training" -> "action"
      [] stage = "evaluating" -> "persisting-artifacts"
      [] stage = "persisting-artifacts" -> "lock"

\* checkpoint and persist_progress: a stage that repeats or regresses, and
\* one the column does not hold, raise.
Checkpoint(j) ==
    /\ up
    /\ worker[j] \in Stages
    /\ LET stage == worker[j]
           forward == StageOrder(stage) > StageOrder(row[j].progress)
       IN IF ~CancelSeen(j) /\ forward /\ Fits(stage)
            THEN /\ row' = [row EXCEPT ![j].status = stage, ![j].progress = stage]
                 /\ seen' = [seen EXCEPT ![j] = stage]
                 /\ Goto(j, AfterStage(stage))
            ELSE /\ Goto(j, IF CancelSeen(j) THEN "stopped" ELSE "failing")
                 /\ UNCHANGED <<row, seen>>
    /\ UNCHANGED pool /\ HandlersUnchanged

\* runtime.execute polls is_cancelled.
RunAction(j) ==
    /\ At(j, "action")
    /\ Goto(j, IF CancelSeen(j) THEN "stopped" ELSE "evaluating")
    /\ UNCHANGED <<row, pool, seen>> /\ HandlersUnchanged

\* _locked_run before completion: the row is locked, its status not reread.
LockRow(j) ==
    /\ At(j, "lock")
    /\ Goto(j, IF CancelSeen(j) THEN "stopped"
               ELSE IF seen[j] = "persisting-artifacts" THEN "publish"
               ELSE "failing")
    /\ UNCHANGED <<row, pool, seen>> /\ HandlersUnchanged

\* Artifact rows, metrics and the completed status: one commit.
Publish(j) ==
    /\ At(j, "publish")
    /\ IF CancelSeen(j)
         THEN Goto(j, "stopped") /\ UNCHANGED <<row, seen>>
         ELSE /\ row' = [row EXCEPT ![j].status = "completed", ![j].published = TRUE]
              /\ seen' = [seen EXCEPT ![j] = "completed"]
              /\ Goto(j, "done")
    /\ UNCHANGED pool /\ HandlersUnchanged

\* A missing runtime, the node action, malformed outputs, the artifact store
\* or a statement raises inside the try block.
Raise(j) ==
    /\ ActionMayFail
    /\ up
    /\ worker[j] \in Trying
    /\ Goto(j, "failing")
    /\ UNCHANGED <<row, pool, seen>> /\ HandlersUnchanged

\* The except clauses roll back, which expires the loaded row, and then
\* write their status whatever the row says.
Close(j) ==
    /\ up
    /\ worker[j] \in {"stopped", "failing"}
    /\ LET status == IF worker[j] = "stopped" THEN "cancelled" ELSE "failed"
       IN /\ row' = [row EXCEPT ![j].status = status, ![j].published = FALSE]
          /\ seen' = [seen EXCEPT ![j] = status]
    /\ Goto(j, "done")
    /\ UNCHANGED pool /\ HandlersUnchanged

\* Their own commit fails: the thread ends and the row stays.
CloseFails(j) ==
    /\ DatabaseMayFail
    /\ up
    /\ worker[j] \in {"stopped", "failing"}
    /\ Goto(j, "dead")
    /\ UNCHANGED <<row, pool, seen>> /\ HandlersUnchanged

-----------------------------------------------------------------------------
(* The process.                                                            *)

Crash ==
    /\ up
    /\ crashes < MaxCrashes
    /\ up' = FALSE
    /\ crashes' = crashes + 1
    /\ worker' = [j \in Jobs |-> IF worker[j] \in Running \cup Waiting
                                  THEN "lost" ELSE worker[j]]
    /\ pool' = <<>>
    /\ request' = [q \in Requests |-> Idle]
    /\ UNCHANGED <<row, seen, contested>>

\* ACTIVE_TRAINING_STATUSES: the rows recover_orphaned_training_jobs selects.
OrphanedInTraining(status) == status \in {"training", "cancelling"}  \* variant
OrphanedOrEnded(status) == status \notin {"absent", "queued"}        \* variant
Orphaned(status) == status \in Stages \cup {"cancelling"}

Recover ==
    /\ ~up
    /\ up' = TRUE
    /\ row' = [j \in Jobs |-> IF Orphaned(row[j].status)
                               THEN [row[j] EXCEPT !.status = "failed"]
                               ELSE row[j]]
    /\ UNCHANGED <<crashes, pool, worker, seen, request, contested>>

-----------------------------------------------------------------------------
ThreadStep(j) ==
    \/ Checkpoint(j) \/ RunAction(j) \/ LockRow(j) \/ Publish(j)
    \/ Raise(j) \/ Close(j) \/ CloseFails(j)

HandlerStep ==
    \/ \E j \in Jobs : CreateJob(j) \/ Dispatch(j) \/ DispatchFails(j)
    \/ \E q \in Requests, j \in Jobs : ReadForCancel(q, j)
    \/ \E q \in Requests : WriteCancel(q)

Next ==
    \/ HandlerStep
    \/ \E j \in Jobs : TakeJob(j) \/ LoadFails(j) \/ ThreadStep(j)
    \/ Crash
    \/ Recover

Spec == Init /\ [][Next]_vars

\* A handler that has committed goes on to submit, pool threads take the
\* next job and are scheduled, node actions end, a crashed backend restarts.
Fairness ==
    /\ WF_vars(Recover)
    /\ \A j \in Jobs : WF_vars(Dispatch(j)) /\ WF_vars(TakeJob(j)) /\ WF_vars(ThreadStep(j))

FairSpec == Spec /\ Fairness
=============================================================================
