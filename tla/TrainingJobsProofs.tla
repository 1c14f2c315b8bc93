------------------------- MODULE TrainingJobsProofs -------------------------
(***************************************************************************)
(* Machine-checked proofs about TrainingJobs, for every set of jobs and    *)
(* cancel requests, every pool size, column width and bound.               *)
(***************************************************************************)
EXTENDS TrainingJobsProperties, TLAPS

(***************************************************************************)
(* Type correctness.                                                       *)
(***************************************************************************)
LEMMA TypeInitially == Init => TypeOK
  BY CrashAssumption DEF Init, TypeOK, Absent, Row, Status, PC

LEMMA RowWith ==
  ASSUME NEW x \in Row, NEW status \in Status, NEW stage \in Stages
  PROVE  /\ [x EXCEPT !.status = status] \in Row
         /\ [x EXCEPT !.status = stage, !.progress = stage] \in Row
         /\ [x EXCEPT !.status = status, !.published = TRUE] \in Row
         /\ [x EXCEPT !.status = status, !.published = FALSE] \in Row
  BY DEF Row, Status

LEMMA AfterStageType == \A stage \in Stages : AfterStage(stage) \in Trying
  BY DEF AfterStage, Stages, Trying

LEMMA TypeOfHandler == TypeOK /\ HandlerStep => TypeOK'
  <1> SUFFICES ASSUME TypeOK, HandlerStep PROVE TypeOK'
    OBVIOUS
  <1> USE DEF TypeOK
  <1>1. ASSUME NEW j \in Jobs, CreateJob(j) PROVE TypeOK'
    <2>1. [row[j] EXCEPT !.status = "queued"] \in Row
      BY RowWith DEF Status, Stages
    <2>2. row' \in [Jobs -> Row] /\ worker' \in [Jobs -> PC]
      BY <1>1, <2>1 DEF CreateJob, Goto, PC, Waiting
    <2>3. QED
      BY <1>1, <2>2 DEF CreateJob
  <1>2. ASSUME NEW j \in Jobs, Dispatch(j) PROVE TypeOK'
    <2>1. pool' \in Seq(Jobs) /\ worker' \in [Jobs -> PC]
      BY <1>2 DEF Dispatch, Goto, PC, Waiting
    <2>2. QED
      BY <1>2, <2>1 DEF Dispatch
  <1>5. ASSUME NEW j \in Jobs, DispatchFails(j) PROVE TypeOK'
    <2>1. worker' \in [Jobs -> PC]
      BY <1>5 DEF DispatchFails, Goto, PC
    <2>2. QED
      BY <1>5, <2>1 DEF DispatchFails
  <1>3. ASSUME NEW q \in Requests, NEW j \in Jobs, ReadForCancel(q, j) PROVE TypeOK'
    <2>1. [job |-> j, saw |-> row[j].status] \in Reading
      BY <1>3 DEF ReadForCancel, Reading
    <2>2. request' \in [Requests -> Reading \cup {Idle}]
      BY <1>3, <2>1 DEF ReadForCancel
    <2>3. QED
      BY <1>3, <2>2 DEF ReadForCancel
  <1>4. ASSUME NEW q \in Requests, WriteCancel(q) PROVE TypeOK'
    <2>1. PICK j \in Jobs : j = request[q].job
      BY <1>4 DEF WriteCancel, Reading
    <2>2. PICK status \in {"cancelled", "cancelling"} :
            row' = [row EXCEPT ![j] = [row[j] EXCEPT !.status = status]]
      BY <1>4, <2>1 DEF WriteCancel, CancelStatus
    <2>3. row' \in [Jobs -> Row]
      BY <2>2, RowWith DEF Status, Terminal, Stages
    <2>4. QED
      BY <1>4, <2>1, <2>3 DEF WriteCancel
  <1>6. QED
    BY <1>1, <1>2, <1>3, <1>4, <1>5 DEF HandlerStep

LEMMA TypeOfThread ==
  ASSUME TypeOK, NEW j \in Jobs, TakeJob(j) \/ LoadFails(j) \/ ThreadStep(j)
  PROVE  TypeOK'
  <1> USE DEF TypeOK, HandlersUnchanged
  <1>1. \A pc \in PC : Goto(j, pc) => worker' \in [Jobs -> PC]
    BY DEF Goto
  <1>2. Running \subseteq PC /\ {"done", "dead"} \subseteq PC
    BY DEF PC
  <1>3. CASE TakeJob(j)
    <2>1. worker' \in [Jobs -> PC]
      BY <1>1, <1>2, <1>3 DEF TakeJob, Running, Trying, Stages
    <2>2. pool' \in Seq(Jobs)
      BY <1>3 DEF TakeJob, NextInPool
    <2>3. seen' \in [Jobs -> Status \cup {"absent"}]
      BY <1>3 DEF TakeJob, Row
    <2>4. QED
      BY <1>3, <2>1, <2>2, <2>3 DEF TakeJob, NextInPool
  <1>4. CASE Checkpoint(j)
    <2>1. PICK stage \in Stages : stage = worker[j]
      BY <1>4 DEF Checkpoint
    <2>2. worker' \in [Jobs -> PC]
      BY <1>1, <1>2, <1>4, <2>1, AfterStageType DEF Checkpoint, Running
    <2>3. row' \in [Jobs -> Row]
      <3>1. CASE row' = row
        BY <3>1
      <3>2. CASE row' = [row EXCEPT ![j] = [row[j] EXCEPT !.status = stage,
                                                        !.progress = stage]]
        BY <3>2, RowWith DEF Status
      <3>3. QED
        BY <1>4, <2>1, <3>1, <3>2 DEF Checkpoint
    <2>4. seen' \in [Jobs -> Status \cup {"absent"}]
      BY <1>4, <2>1 DEF Checkpoint, Status
    <2>5. QED
      BY <1>4, <2>2, <2>3, <2>4 DEF Checkpoint
  <1>5. CASE RunAction(j) \/ LockRow(j) \/ Raise(j) \/ CloseFails(j)
    <2>1. worker' \in [Jobs -> PC]
      BY <1>1, <1>2, <1>5
         DEF RunAction, LockRow, Raise, CloseFails, Running, Trying, Stages
    <2>2. QED
      BY <1>5, <2>1 DEF RunAction, LockRow, Raise, CloseFails
  <1>6. CASE Publish(j)
    <2>1. worker' \in [Jobs -> PC]
      BY <1>1, <1>2, <1>6 DEF Publish, Running
    <2>2. row' \in [Jobs -> Row]
      <3>1. CASE row' = row
        BY <3>1
      <3>2. CASE row' = [row EXCEPT ![j] = [row[j] EXCEPT !.status = "completed",
                                                        !.published = TRUE]]
        BY <3>2, RowWith DEF Status, Terminal, Stages
      <3>3. QED
        BY <1>6, <3>1, <3>2 DEF Publish
    <2>3. seen' \in [Jobs -> Status \cup {"absent"}]
      BY <1>6 DEF Publish, Status, Terminal
    <2>4. QED
      BY <1>6, <2>1, <2>2, <2>3 DEF Publish
  <1>7. CASE Close(j)
    <2>1. worker' \in [Jobs -> PC]
      BY <1>1, <1>2, <1>7 DEF Close
    <2>2. PICK status \in {"cancelled", "failed"} :
            /\ row' = [row EXCEPT ![j] = [row[j] EXCEPT !.status = status,
                                                       !.published = FALSE]]
            /\ seen' = [seen EXCEPT ![j] = status]
      BY <1>7 DEF Close
    <2>3. [row[j] EXCEPT !.status = status, !.published = FALSE] \in Row
      BY RowWith DEF Status, Terminal, Stages
    <2>4. row' \in [Jobs -> Row] /\ seen' \in [Jobs -> Status \cup {"absent"}]
      BY <2>2, <2>3 DEF Status, Terminal
    <2>5. QED
      BY <1>7, <2>1, <2>4 DEF Close
  <1>8. CASE LoadFails(j)
    <2>1. worker' \in [Jobs -> PC] /\ pool' \in Seq(Jobs)
      BY <1>1, <1>2, <1>8 DEF LoadFails, NextInPool
    <2>2. QED
      BY <1>8, <2>1 DEF LoadFails, NextInPool
  <1>9. QED
    BY <1>3, <1>4, <1>5, <1>6, <1>7, <1>8 DEF ThreadStep

LEMMA TypeOfProcess == TypeOK /\ (Crash \/ Recover) => TypeOK'
  <1> SUFFICES ASSUME TypeOK, Crash \/ Recover PROVE TypeOK'
    OBVIOUS
  <1> USE DEF TypeOK
  <1>1. CASE Crash
    <2>1. worker' \in [Jobs -> PC] /\ pool' \in Seq(Jobs)
      BY <1>1 DEF Crash, PC
    <2>2. request' \in [Requests -> Reading \cup {Idle}]
      BY <1>1 DEF Crash
    <2>3. crashes' \in 0..MaxCrashes
      BY <1>1, CrashAssumption DEF Crash
    <2>4. QED
      BY <1>1, <2>1, <2>2, <2>3 DEF Crash
  <1>2. CASE Recover
    <2>1. \A j \in Jobs : [row[j] EXCEPT !.status = "failed"] \in Row
      BY RowWith DEF Status, Terminal, Stages
    <2>2. row' \in [Jobs -> Row]
      BY <1>2, <2>1 DEF Recover
    <2>3. QED
      BY <1>2, <2>2 DEF Recover
  <1>3. QED
    BY <1>1, <1>2

LEMMA TypeStep == TypeOK /\ [Next]_vars => TypeOK'
  <1>1. TypeOK /\ UNCHANGED vars => TypeOK'
    BY DEF TypeOK, vars
  <1>2. QED
    BY <1>1, TypeOfHandler, TypeOfThread, TypeOfProcess DEF Next

(***************************************************************************)
(* Every reachable state is well typed: whatever handlers, threads and     *)
(* crashes write, a row shows a status and a stage of the contract.        *)
(***************************************************************************)
THEOREM TypeCorrect == Spec => []TypeOK
  BY TypeInitially, TypeStep, PTL DEF Spec

-----------------------------------------------------------------------------
(* The invariant of a job, its thread and its cancel handlers.             *)

\* The stage a thread has committed when it stands at a program point.
Reached(pc) ==
    CASE pc = "preparing-dataset" -> "queued"
      [] pc = "validating" -> "preparing-dataset"
      [] pc = "training" -> "validating"
      [] pc = "action" -> "training"
      [] pc = "evaluating" -> "training"
      [] pc = "persisting-artifacts" -> "evaluating"
      [] OTHER -> "persisting-artifacts"

\* The thread sees the status it wrote last and nothing else; so does the
\* row, unless a cancel handler has written to it.
Trusting(j) ==
    /\ worker[j] \in Trying =>
         /\ seen[j] = Reached(worker[j])
         /\ row[j].progress = Reached(worker[j])
         /\ j \notin contested => row[j].status = Reached(worker[j])
    /\ worker[j] # "stopped"
    /\ worker[j] = "failing" /\ j \notin contested =>
         row[j].status \in Stages \cup {"queued"}

\* Before a thread takes it a job is queued or cancelled.
Untouched(j) ==
    /\ row[j].status = "absent" <=> worker[j] = "none"
    /\ worker[j] \in Waiting \cup {"none"} => row[j].progress = "queued"
    /\ worker[j] \in Waiting => row[j].status \in {"queued", "cancelled"}
    /\ worker[j] \in Waiting /\ j \notin contested => row[j].status = "queued"
    /\ worker[j] = "none" => j \notin contested

\* After its thread has gone a job has ended, is cancelled once more, or was
\* in the pool when the process died.
Ended(j) ==
    /\ worker[j] = "done" => row[j].status \in Terminal \cup {"cancelling"}
    /\ worker[j] = "lost" /\ up => row[j].status \in Terminal \cup {"queued"}

\* What is published is what OutputsAreEarned says, and its thread has ended.
Earned(j) ==
    /\ row[j].published => worker[j] = "done"
    /\ row[j].status = "completed" => row[j].published
    /\ row[j].published => /\ row[j].progress = "persisting-artifacts"
                           /\ row[j].status = "completed" \/ j \in contested

JobOK(j) == Trusting(j) /\ Untouched(j) /\ Ended(j) /\ Earned(j)

\* A handler has read a job that exists; before a thread takes a job, and
\* after a crash, there is only "queued" to read.
RequestOK(q) ==
    request[q] # Idle =>
        /\ worker[request[q].job] # "none"
        /\ worker[request[q].job] \in Waiting \cup {"lost"} => request[q].saw = "queued"

DownOK ==
    ~up => /\ \A j \in Jobs : worker[j] \notin Running \cup Waiting
           /\ \A q \in Requests : request[q] = Idle

\* The queue of the pool holds each pooled job once.
PoolOK ==
    /\ \A i \in 1..Len(pool) : worker[pool[i]] = "pooled"
    /\ \A i, k \in 1..Len(pool) : pool[i] = pool[k] => i = k

Sound ==
    /\ \A j \in Jobs : JobOK(j)
    /\ \A q \in Requests : RequestOK(q)
    /\ DownOK
    /\ PoolOK

LEMMA SoundInitially == Init => Sound
  BY DEF Init, Absent, Sound, JobOK, Trusting, Untouched, Ended, Earned, RequestOK,
         DownOK, PoolOK, Idle, Running, Trying, Stages, Waiting

\* A job that a step does not touch stays as it is.
LEMMA JobFrame ==
  ASSUME NEW k \in Jobs, JobOK(k),
         row'[k] = row[k], worker'[k] = worker[k], seen'[k] = seen[k],
         k \in contested' <=> k \in contested,
         up' = up
  PROVE  JobOK(k)'
  BY DEF JobOK, Trusting, Untouched, Ended, Earned

\* The classes of program points are apart.
LEMMA Points ==
  /\ Running \cap Waiting = {}
  /\ Running \cap {"none", "done", "lost", "dead"} = {}
  /\ Waiting \cap {"none", "done", "lost", "dead"} = {}
  BY DEF Running, Trying, Stages, Waiting

LEMMA SoundCreate ==
  ASSUME TypeOK, Sound, NEW j \in Jobs, CreateJob(j)
  PROVE  Sound'
  <1> USE DEF CreateJob, Goto
  <1>1. worker[j] = "none" /\ JobOK(j)
    BY DEF Sound, JobOK, Untouched
  <1>2. /\ worker' = [worker EXCEPT ![j] = "created"]
        /\ row' = [row EXCEPT ![j] = [row[j] EXCEPT !.status = "queued"]]
    OBVIOUS
  <1>3. worker'[j] = "created" /\ row'[j].status = "queued"
    BY <1>2 DEF TypeOK, Row
  <1>4. row'[j].progress = "queued" /\ row'[j].published = FALSE /\ j \notin contested'
    <2>1. row[j].progress = "queued" /\ j \notin contested /\ row[j].published = FALSE
      BY <1>1 DEF JobOK, Untouched, Earned, TypeOK, Row
    <2>2. QED
      BY <1>2, <2>1 DEF TypeOK, Row
  <1>5. JobOK(j)'
    BY <1>3, <1>4 DEF JobOK, Trusting, Untouched, Ended, Earned, Trying, Stages, Waiting
  <1>6. \A k \in Jobs : JobOK(k)'
    <2> TAKE k \in Jobs
    <2>1. CASE k # j
      BY <1>2, <2>1, JobFrame DEF Sound, TypeOK
    <2>2. QED
      BY <1>5, <2>1
  <1>7. \A q \in Requests : RequestOK(q)'
    <2> TAKE q \in Requests
    <2>1. CASE request[q] # Idle
      <3>1. request[q].job \in Jobs /\ request[q].job # j
        BY <1>1, <2>1 DEF Sound, RequestOK, TypeOK, Reading
      <3>2. QED
        BY <1>2, <2>1, <3>1 DEF Sound, RequestOK, TypeOK
    <2>2. CASE request[q] = Idle
      BY <2>2 DEF RequestOK
    <2>3. QED
      BY <2>1, <2>2
  <1>8. PoolOK'
    BY <1>1, <1>2 DEF Sound, PoolOK, TypeOK
  <1>9. QED
    BY <1>6, <1>7, <1>8 DEF Sound, DownOK

LEMMA SoundDispatch ==
  ASSUME TypeOK, Sound, NEW j \in Jobs, Dispatch(j)
  PROVE  Sound'
  <1> USE DEF Dispatch, Goto, At
  <1>1. /\ worker[j] = "created" /\ JobOK(j)
        /\ worker' = [worker EXCEPT ![j] = "pooled"] /\ worker'[j] = "pooled"
    BY DEF Sound, TypeOK
  <1>2. JobOK(j)'
    BY <1>1 DEF JobOK, Trusting, Untouched, Ended, Earned, Trying, Stages, Waiting
  <1>3. \A k \in Jobs : JobOK(k)'
    <2> TAKE k \in Jobs
    <2>1. CASE k # j
      BY <1>1, <2>1, JobFrame DEF Sound, TypeOK
    <2>2. QED
      BY <1>2, <2>1
  <1>4. \A q \in Requests : RequestOK(q)'
    <2> TAKE q \in Requests
    <2>1. request[q] # Idle => request[q].job \in Jobs
      BY DEF TypeOK, Reading
    <2>2. QED
      BY <1>1, <2>1 DEF Sound, RequestOK, TypeOK, Waiting
  <1>5. PoolOK'
    <2>1. /\ Len(pool') = Len(pool) + 1
          /\ pool'[Len(pool) + 1] = j
          /\ \A i \in 1..Len(pool) : pool'[i] = pool[i] /\ pool[i] \in Jobs /\ pool[i] # j
      BY <1>1 DEF Sound, PoolOK, TypeOK
    <2>2. \A i \in 1..Len(pool') : worker'[pool'[i]] = "pooled"
      BY <1>1, <2>1 DEF Sound, PoolOK, TypeOK
    <2>3. \A i, k \in 1..Len(pool') : pool'[i] = pool'[k] => i = k
      BY <2>1 DEF Sound, PoolOK, TypeOK
    <2>4. QED
      BY <2>2, <2>3 DEF PoolOK
  <1>6. QED
    BY <1>3, <1>4, <1>5 DEF Sound, DownOK

LEMMA SoundRead ==
  ASSUME TypeOK, Sound, NEW q \in Requests, NEW j \in Jobs, ReadForCancel(q, j)
  PROVE  Sound'
  <1> USE DEF ReadForCancel
  <1>1. \A k \in Jobs : JobOK(k)'
    BY JobFrame DEF Sound
  <1>2. worker[j] # "none" /\ (worker[j] \in Waiting \cup {"lost"} => row[j].status = "queued")
    BY DEF Sound, JobOK, Untouched, Ended, Stages, Terminal
  <1>3. request' = [request EXCEPT ![q] = [job |-> j, saw |-> row[j].status]]
    OBVIOUS
  <1>4. \A p \in Requests : RequestOK(p)'
    <2> TAKE p \in Requests
    <2>1. CASE p = q
      BY <1>2, <1>3, <2>1 DEF RequestOK, TypeOK
    <2>2. CASE p # q
      BY <1>3, <2>2 DEF Sound, RequestOK, TypeOK
    <2>3. QED
      BY <2>1, <2>2
  <1>5. QED
    BY <1>1, <1>4 DEF Sound, DownOK, PoolOK

LEMMA SoundWrite ==
  ASSUME TypeOK, Sound, NEW q \in Requests, WriteCancel(q)
  PROVE  Sound'
  <1> USE DEF WriteCancel
  <1>1. PICK j \in Jobs : j = request[q].job
    BY DEF TypeOK, Reading
  <1>2. /\ JobOK(j) /\ RequestOK(q) /\ worker[j] # "none"
        /\ worker[j] \in Waiting \cup {"lost"} => request[q].saw = "queued"
    BY <1>1 DEF Sound, RequestOK
  <1>3. PICK status \in {"cancelled", "cancelling"} :
          /\ status = CancelStatus(request[q].saw)
          /\ row' = [row EXCEPT ![j] = [row[j] EXCEPT !.status = status]]
    BY <1>1 DEF CancelStatus
  <1>4. worker[j] \in Waiting \cup {"lost"} => status = "cancelled"
    BY <1>2, <1>3 DEF CancelStatus
  <1>5. /\ row'[j].status = status
        /\ row'[j].progress = row[j].progress
        /\ row'[j].published = row[j].published
        /\ contested' = contested \cup {j}
    BY <1>1, <1>3 DEF TypeOK, Row
  <1>6. JobOK(j)'
    <2>1. Trusting(j)'
      BY <1>2, <1>5 DEF JobOK, Trusting
    <2>2. Untouched(j)'
      BY <1>2, <1>3, <1>4, <1>5 DEF JobOK, Untouched, Waiting
    <2>3. Ended(j)'
      BY <1>2, <1>3, <1>4, <1>5 DEF JobOK, Ended, Terminal
    <2>4. Earned(j)'
      BY <1>2, <1>3, <1>5 DEF JobOK, Earned
    <2>5. QED
      BY <2>1, <2>2, <2>3, <2>4 DEF JobOK
  <1>7. \A k \in Jobs : JobOK(k)'
    <2> TAKE k \in Jobs
    <2>1. CASE k # j
      BY <1>3, <1>5, <2>1, JobFrame DEF Sound, TypeOK
    <2>2. QED
      BY <1>6, <2>1
  <1>8. \A p \in Requests : RequestOK(p)'
    <2> TAKE p \in Requests
    <2>1. request' = [request EXCEPT ![q] = Idle]
      OBVIOUS
    <2>2. CASE p = q
      BY <2>1, <2>2 DEF RequestOK, TypeOK
    <2>3. CASE p # q
      BY <2>1, <2>3 DEF Sound, RequestOK, TypeOK
    <2>4. QED
      BY <2>2, <2>3
  <1>9. QED
    BY <1>7, <1>8 DEF Sound, DownOK, PoolOK

LEMMA SoundDispatchFails ==
  ASSUME TypeOK, Sound, NEW j \in Jobs, DispatchFails(j)
  PROVE  Sound'
  <1> USE DEF DispatchFails, Goto, At
  <1>1. /\ worker[j] = "created" /\ JobOK(j)
        /\ worker' = [worker EXCEPT ![j] = "dead"] /\ worker'[j] = "dead"
    BY DEF Sound, TypeOK
  <1>2. JobOK(j)'
    BY <1>1 DEF JobOK, Trusting, Untouched, Ended, Earned, Trying, Stages, Waiting
  <1>3. \A k \in Jobs : JobOK(k)'
    <2> TAKE k \in Jobs
    <2>1. CASE k # j
      BY <1>1, <2>1, JobFrame DEF Sound, TypeOK
    <2>2. QED
      BY <1>2, <2>1
  <1>4. \A q \in Requests : RequestOK(q)'
    <2> TAKE q \in Requests
    <2>1. request[q] # Idle => request[q].job \in Jobs
      BY DEF TypeOK, Reading
    <2>2. QED
      BY <1>1, <2>1 DEF Sound, RequestOK, TypeOK, Waiting
  <1>5. PoolOK'
    BY <1>1 DEF Sound, PoolOK, TypeOK
  <1>6. QED
    BY <1>3, <1>4, <1>5 DEF Sound, DownOK

\* What is known of the job a thread takes.
LEMMA Taken ==
  ASSUME TypeOK, Sound, NEW j \in Jobs, NextInPool(j)
  PROVE  /\ Len(pool) > 0 /\ j = pool[1] /\ worker[j] = "pooled" /\ JobOK(j)
         /\ row[j].status \in {"queued", "cancelled"}
         /\ row[j].progress = "queued"
         /\ row[j].published = FALSE
         /\ j \notin contested => row[j].status = "queued"
  <1>1. Len(pool) > 0 /\ j = pool[1] /\ worker[j] = "pooled" /\ JobOK(j)
    BY DEF NextInPool, Sound, PoolOK, TypeOK
  <1>2. QED
    BY <1>1 DEF JobOK, Untouched, Earned, Waiting, TypeOK, Row

\* What a step that takes a job from the pool leaves to show: that job.
LEMMA SoundLeavePool ==
  ASSUME TypeOK, Sound, NEW j \in Jobs, NextInPool(j), HandlersUnchanged, row' = row,
         NEW pc, Goto(j, pc), pc \notin Waiting \cup {"lost", "none"},
         \A k \in Jobs : k # j => seen'[k] = seen[k],
         JobOK(j)'
  PROVE  Sound'
  <1> USE DEF HandlersUnchanged
  <1>0. up /\ pool # <<>> /\ pool' = Tail(pool)
    BY DEF NextInPool
  <1>1. /\ Len(pool) > 0 /\ j = pool[1] /\ worker[j] = "pooled"
        /\ Len(pool') = Len(pool) - 1
        /\ \A i \in 1..Len(pool') : pool'[i] = pool[i + 1]
    <2>1. Len(pool) > 0 /\ j = pool[1] /\ worker[j] = "pooled"
      BY Taken
    <2>2. QED
      BY <1>0, <2>1 DEF TypeOK
  <1>2. worker'[j] = pc /\ \A k \in Jobs : k # j => worker'[k] = worker[k]
    BY DEF Goto, TypeOK
  <1>3. \A k \in Jobs : JobOK(k)'
    <2> TAKE k \in Jobs
    <2>1. CASE k # j
      BY <1>0, <1>2, <2>1, JobFrame DEF Sound
    <2>2. QED
      BY <2>1
  <1>4. \A q \in Requests : RequestOK(q)'
    <2> TAKE q \in Requests
    <2>1. request[q] # Idle => request[q].job \in Jobs
      BY DEF TypeOK, Reading
    <2>2. QED
      BY <1>2, <2>1 DEF Sound, RequestOK
  <1>5. PoolOK'
    <2>1. \A i \in 1..Len(pool') :
            /\ i + 1 \in 1..Len(pool) /\ pool'[i] = pool[i + 1]
            /\ pool'[i] \in Jobs /\ pool'[i] # j
      BY <1>1 DEF Sound, PoolOK, TypeOK
    <2>2. \A i \in 1..Len(pool') : worker'[pool'[i]] = "pooled"
      BY <1>2, <2>1 DEF Sound, PoolOK
    <2>3. \A i, k \in 1..Len(pool') : pool'[i] = pool'[k] => i = k
      BY <1>1, <2>1 DEF Sound, PoolOK, TypeOK
    <2>4. QED
      BY <2>2, <2>3 DEF PoolOK
  <1>6. QED
    BY <1>0, <1>3, <1>4, <1>5 DEF Sound, DownOK

LEMMA SoundTake ==
  ASSUME TypeOK, Sound, NEW j \in Jobs, TakeJob(j) \/ LoadFails(j)
  PROVE  Sound'
  <1> USE DEF HandlersUnchanged
  <1>1. CASE TakeJob(j)
    <2> DEFINE pc == IF MayStart(row[j].status) THEN "preparing-dataset" ELSE "done"
    <2>1. NextInPool(j) /\ Goto(j, pc) /\ row' = row
      BY <1>1 DEF TakeJob
    <2>2. /\ worker'[j] = pc /\ seen'[j] = row[j].status
          /\ \A k \in Jobs : k # j => seen'[k] = seen[k]
      BY <1>1, <2>1 DEF TakeJob, Goto, TypeOK
    <2>3. JobOK(j)'
      BY ZenonT(60), <1>1, <2>1, <2>2, Taken
         DEF TakeJob, JobOK, Trusting, Reached, Untouched, Ended, Earned,
             MayStart, Trying, Stages, Waiting, Terminal
    <2>4. pc \notin Waiting \cup {"lost", "none"}
      BY DEF Waiting
    <2>5. QED
      BY <1>1, <2>1, <2>2, <2>3, <2>4, SoundLeavePool DEF TakeJob
  <1>2. CASE LoadFails(j)
    <2>1. /\ NextInPool(j) /\ Goto(j, "dead")
          /\ row' = row /\ seen' = seen /\ contested' = contested
      BY <1>2 DEF LoadFails
    <2>2. worker'[j] = "dead" /\ worker[j] # "none" /\ JobOK(j) /\ row[j].published = FALSE
      BY <2>1, Taken DEF Goto, TypeOK
    <2>3. JobOK(j)'
      BY <2>1, <2>2 DEF JobOK, Trusting, Untouched, Ended, Earned, Trying, Stages, Waiting
    <2>4. "dead" \notin Waiting \cup {"lost", "none"}
      BY DEF Waiting
    <2>5. QED
      BY <1>2, <2>1, <2>3, <2>4, SoundLeavePool DEF LoadFails
  <1>3. QED
    BY <1>1, <1>2

\* What a thread's step leaves to show: its own job.
LEMMA SoundFrame ==
  ASSUME TypeOK, Sound, NEW j \in Jobs, up, worker[j] \in Running,
         HandlersUnchanged, pool' = pool,
         \A k \in Jobs : k # j =>
            row'[k] = row[k] /\ worker'[k] = worker[k] /\ seen'[k] = seen[k],
         worker'[j] \in Running \cup {"done", "dead"},
         JobOK(j)'
  PROVE  Sound'
  <1> USE DEF HandlersUnchanged
  <1>1. \A k \in Jobs : JobOK(k)'
    <2> TAKE k \in Jobs
    <2>1. CASE k # j
      BY <2>1, JobFrame DEF Sound
    <2>2. QED
      BY <2>1
  <1>2. \A q \in Requests : RequestOK(q)'
    <2> TAKE q \in Requests
    <2>1. request[q] # Idle => request[q].job \in Jobs
      BY DEF TypeOK, Reading
    <2>2. QED
      BY <2>1, Points DEF Sound, RequestOK
  <1>3. PoolOK'
    <2>1. \A i \in 1..Len(pool) : pool[i] \in Jobs /\ pool[i] # j
      BY Points DEF Sound, PoolOK, TypeOK, Waiting
    <2>2. QED
      BY <2>1 DEF Sound, PoolOK
  <1>4. QED
    BY <1>1, <1>2, <1>3 DEF Sound, DownOK

\* A thread that moves on, or fails, without writing its row.
LEMMA SoundMove ==
  ASSUME TypeOK, Sound, NEW j \in Jobs, up, worker[j] \in Running,
         HandlersUnchanged, pool' = pool, row' = row, seen' = seen,
         NEW pc, Goto(j, pc),
         \/ pc = "dead"
         \/ pc = "failing" /\ worker[j] \in Trying
         \/ pc \in Trying /\ worker[j] \in Trying /\ Reached(pc) = Reached(worker[j])
  PROVE  Sound'
  <1>1. /\ worker'[j] = pc
        /\ \A k \in Jobs : k # j => worker'[k] = worker[k]
    BY DEF Goto, TypeOK
  <1>2. JobOK(j) /\ row[j].published = FALSE /\ row[j].status # "absent"
    <2>1. worker[j] \notin {"none", "done"}
      BY Points
    <2>2. QED
      BY <2>1 DEF Sound, JobOK, Earned, Untouched, TypeOK, Row
  <1>3. pc \in Running \cup {"dead"} /\ pc \notin Waiting \cup {"none", "done", "lost"}
    BY DEF Running, Trying, Stages, Waiting
  <1>4. Trusting(j)'
    <2>1. CASE pc = "dead"
      BY <1>1, <2>1 DEF Trusting, Trying, Stages
    <2>2. CASE pc = "failing" /\ worker[j] \in Trying
      <3>1. j \notin contested => row[j].status \in Stages \cup {"queued"}
        BY <1>2, <2>2 DEF JobOK, Trusting, Reached, Trying, Stages
      <3>2. QED
        BY <1>1, <2>2, <3>1 DEF Trusting, Trying, Stages, HandlersUnchanged
    <2>3. CASE pc \in Trying /\ worker[j] \in Trying /\ Reached(pc) = Reached(worker[j])
      <3>1. pc \notin {"stopped", "failing"}
        BY <2>3 DEF Trying, Stages
      <3>2. QED
        BY <1>1, <1>2, <2>3, <3>1 DEF JobOK, Trusting, HandlersUnchanged
    <2>4. QED
      BY <2>1, <2>2, <2>3
  <1>5. Untouched(j)' /\ Ended(j)' /\ Earned(j)'
    BY <1>1, <1>2, <1>3 DEF JobOK, Untouched, Ended, Earned
  <1>6. QED
    BY <1>1, <1>3, <1>4, <1>5, SoundFrame DEF JobOK

\* What the thread's session holds never shows a cancellation.
LEMMA NeverSeen ==
  ASSUME Sound, NEW j \in Jobs, worker[j] \in Trying
  PROVE  ~CancelSeen(j) /\ seen[j] = Reached(worker[j])
  BY DEF Sound, JobOK, Trusting, CancelSeen, Reached

LEMMA SoundCheckpoint ==
  ASSUME TypeOK, Sound, NEW j \in Jobs, Checkpoint(j)
  PROVE  Sound'
  <1> DEFINE stage == worker[j]
  <1> stage \in Stages /\ up /\ pool' = pool /\ HandlersUnchanged
    BY DEF Checkpoint
  <1>1. stage \in Trying /\ stage \in Running /\ JobOK(j) /\ ~CancelSeen(j)
    BY NeverSeen DEF Trying, Running, Sound
  <1>2. CASE row' = row
    <2>1. seen' = seen /\ Goto(j, "failing")
      <3>1. row[j].progress # stage
        BY <1>1 DEF JobOK, Trusting, Reached, Stages
      <3>2. ~(row' = [row EXCEPT ![j].status = stage, ![j].progress = stage])
        BY <1>2, <3>1 DEF TypeOK, Row
      <3>3. QED
        BY <1>1, <3>2 DEF Checkpoint
    <2>2. QED
      BY <1>1, <1>2, <2>1, SoundMove
  <1>3. CASE row' # row
    <2>1. /\ row' = [row EXCEPT ![j] = [row[j] EXCEPT !.status = stage, !.progress = stage]]
          /\ seen' = [seen EXCEPT ![j] = stage]
          /\ worker' = [worker EXCEPT ![j] = AfterStage(stage)]
      BY <1>3 DEF Checkpoint, Goto
    <2>2. /\ row'[j].status = stage /\ row'[j].progress = stage
          /\ row'[j].published = row[j].published
          /\ seen'[j] = stage /\ worker'[j] = AfterStage(stage)
          /\ \A k \in Jobs : k # j =>
               row'[k] = row[k] /\ worker'[k] = worker[k] /\ seen'[k] = seen[k]
      BY <2>1 DEF TypeOK, Row
    <2>3. Reached(AfterStage(stage)) = stage /\ AfterStage(stage) \in Trying
      BY AfterStageType DEF Reached, AfterStage, Stages
    <2>4. row[j].published = FALSE
      BY <1>1, Points DEF JobOK, Earned, TypeOK, Row
    <2>5. /\ AfterStage(stage) \in Running
          /\ AfterStage(stage) \notin {"stopped", "failing", "none", "done", "lost"} \cup Waiting
      BY <2>3 DEF Trying, Stages, Waiting, Running
    <2>6. stage \notin Terminal \cup {"absent", "queued"}
      BY DEF Stages, Terminal
    <2>7. Trusting(j)'
      BY <2>2, <2>3, <2>5 DEF Trusting
    <2>8. Untouched(j)' /\ Ended(j)' /\ Earned(j)'
      BY <2>2, <2>4, <2>5, <2>6 DEF Untouched, Ended, Earned, Terminal
    <2>9. QED
      BY <1>1, <2>2, <2>5, <2>7, <2>8, SoundFrame DEF JobOK
  <1>4. QED
    BY <1>2, <1>3

LEMMA SoundQuiet ==
  ASSUME TypeOK, Sound, NEW j \in Jobs,
         RunAction(j) \/ LockRow(j) \/ Raise(j) \/ CloseFails(j)
  PROVE  Sound'
  <1>1. CASE RunAction(j)
    <2>1. /\ worker[j] = "action" /\ up /\ worker[j] \in Trying /\ worker[j] \in Running
          /\ row' = row /\ pool' = pool /\ seen' = seen /\ HandlersUnchanged
      BY <1>1 DEF RunAction, At, Trying, Running
    <2>2. Goto(j, "evaluating")
      BY <1>1, <2>1, NeverSeen DEF RunAction
    <2>3. "evaluating" \in Trying /\ Reached("evaluating") = Reached("action")
      BY DEF Trying, Stages, Reached
    <2>4. QED
      BY <2>1, <2>2, <2>3, SoundMove
  <1>2. CASE LockRow(j)
    <2>1. /\ worker[j] = "lock" /\ up /\ worker[j] \in Trying /\ worker[j] \in Running
          /\ row' = row /\ pool' = pool /\ seen' = seen /\ HandlersUnchanged
      BY <1>2 DEF LockRow, At, Trying, Running
    <2>2. seen[j] = "persisting-artifacts" /\ ~CancelSeen(j)
      BY <2>1, NeverSeen DEF Reached
    <2>3. Goto(j, "publish")
      BY <1>2, <2>2 DEF LockRow
    <2>4. "publish" \in Trying /\ Reached("publish") = Reached("lock")
      BY DEF Trying, Reached
    <2>5. QED
      BY <2>1, <2>3, <2>4, SoundMove
  <1>3. CASE Raise(j)
    <2>1. /\ up /\ worker[j] \in Trying /\ worker[j] \in Running /\ Goto(j, "failing")
          /\ row' = row /\ pool' = pool /\ seen' = seen /\ HandlersUnchanged
      BY <1>3 DEF Raise, Running
    <2>2. QED
      BY <2>1, SoundMove
  <1>4. CASE CloseFails(j)
    <2>1. /\ up /\ worker[j] \in Running /\ Goto(j, "dead")
          /\ row' = row /\ pool' = pool /\ seen' = seen /\ HandlersUnchanged
      BY <1>4 DEF CloseFails, Running
    <2>2. QED
      BY <2>1, SoundMove
  <1>5. QED
    BY <1>1, <1>2, <1>3, <1>4

LEMMA SoundPublish ==
  ASSUME TypeOK, Sound, NEW j \in Jobs, Publish(j)
  PROVE  Sound'
  <1>1. /\ worker[j] = "publish" /\ worker[j] \in Trying /\ worker[j] \in Running
        /\ up /\ pool' = pool /\ HandlersUnchanged
    BY DEF Publish, At, Trying, Running
  <1>2. /\ row' = [row EXCEPT ![j] = [row[j] EXCEPT !.status = "completed", !.published = TRUE]]
        /\ seen' = [seen EXCEPT ![j] = "completed"]
        /\ worker' = [worker EXCEPT ![j] = "done"]
    BY <1>1, NeverSeen DEF Publish, Goto
  <1>3. row[j].progress = "persisting-artifacts"
    BY <1>1 DEF Sound, JobOK, Trusting, Reached
  <1>4. /\ row'[j].status = "completed" /\ row'[j].published
        /\ row'[j].progress = "persisting-artifacts" /\ worker'[j] = "done"
        /\ \A k \in Jobs : k # j =>
             row'[k] = row[k] /\ worker'[k] = worker[k] /\ seen'[k] = seen[k]
    BY <1>2, <1>3 DEF TypeOK, Row
  <1>5. JobOK(j)'
    BY <1>4 DEF JobOK, Trusting, Untouched, Ended, Earned, Trying, Stages, Waiting, Terminal
  <1>6. QED
    BY <1>1, <1>4, <1>5, SoundFrame

LEMMA SoundClose ==
  ASSUME TypeOK, Sound, NEW j \in Jobs, Close(j)
  PROVE  Sound'
  <1>1. /\ worker[j] \in Running /\ up /\ pool' = pool /\ HandlersUnchanged
    BY DEF Close, Running
  <1>2. PICK status \in {"cancelled", "failed"} :
          /\ row' = [row EXCEPT ![j] = [row[j] EXCEPT !.status = status, !.published = FALSE]]
          /\ seen' = [seen EXCEPT ![j] = status]
    BY DEF Close
  <1>3. /\ row'[j].status = status /\ row'[j].published = FALSE /\ worker'[j] = "done"
        /\ \A k \in Jobs : k # j =>
             row'[k] = row[k] /\ worker'[k] = worker[k] /\ seen'[k] = seen[k]
    BY <1>2 DEF TypeOK, Row, Close, Goto
  <1>4. JobOK(j)'
    BY <1>2, <1>3 DEF JobOK, Trusting, Untouched, Ended, Earned, Trying, Stages, Waiting, Terminal
  <1>5. QED
    BY <1>1, <1>3, <1>4, SoundFrame

LEMMA SoundCrash == TypeOK /\ Sound /\ Crash => Sound'
  <1> SUFFICES ASSUME TypeOK, Sound, Crash PROVE Sound'
    OBVIOUS
  <1>1. \A j \in Jobs :
          /\ worker'[j] = IF worker[j] \in Running \cup Waiting THEN "lost" ELSE worker[j]
          /\ row'[j] = row[j] /\ (j \in contested' <=> j \in contested)
    BY DEF Crash
  <1>2. up /\ ~up' /\ Len(pool') = 0
    BY DEF Crash
  <1>3. ASSUME NEW j \in Jobs PROVE JobOK(j)'
    <2>1. JobOK(j) /\ worker'[j] \notin Running \cup Waiting
      BY <1>1, Points DEF Sound
    <2>2. Trusting(j)'
      BY <2>1 DEF Trusting, Running
    <2>3. Untouched(j)' /\ Ended(j)' /\ Earned(j)'
      BY <1>1, <1>2, <2>1, Points DEF JobOK, Untouched, Ended, Earned
    <2>4. QED
      BY <2>2, <2>3 DEF JobOK
  <1>4. \A q \in Requests : request'[q] = Idle
    BY DEF Crash
  <1>5. \A q \in Requests : RequestOK(q)'
    BY <1>4 DEF RequestOK
  <1>6. DownOK'
    BY <1>1, <1>4, Points DEF DownOK
  <1>7. QED
    BY <1>2, <1>3, <1>5, <1>6 DEF Sound, PoolOK

LEMMA SoundRecover == TypeOK /\ Sound /\ Recover => Sound'
  <1> SUFFICES ASSUME TypeOK, Sound, Recover PROVE Sound'
    OBVIOUS
  <1> USE DEF Recover
  <1>1. \A j \in Jobs : worker[j] \notin Running \cup Waiting
    BY DEF Sound, DownOK
  <1>2. \A q \in Requests : request[q] = Idle
    BY DEF Sound, DownOK
  <1>3. ASSUME NEW j \in Jobs PROVE JobOK(j)'
    <2>1. /\ JobOK(j)
          /\ row'[j].published = row[j].published
          /\ row'[j].progress = row[j].progress
          /\ row'[j].status = IF Orphaned(row[j].status) THEN "failed" ELSE row[j].status
      BY DEF Sound, TypeOK, Row
    <2>2. Trusting(j)'
      BY <1>1 DEF Trusting, Running
    <2>3. Untouched(j)'
      BY <1>1, <2>1 DEF JobOK, Untouched, Orphaned, Stages
    <2>4. Ended(j)'
      BY <2>1, <1>1 DEF JobOK, Ended, Untouched, Orphaned, Terminal, TypeOK, Row, Status
    <2>5. Earned(j)'
      BY <2>1 DEF JobOK, Earned, Orphaned, Stages
    <2>6. QED
      BY <2>2, <2>3, <2>4, <2>5 DEF JobOK
  <1>4. QED
    BY <1>2, <1>3 DEF Sound, RequestOK, DownOK, PoolOK

LEMMA SoundStep == TypeOK /\ Sound /\ [Next]_vars => Sound'
  <1> SUFFICES ASSUME TypeOK, Sound, [Next]_vars PROVE Sound'
    OBVIOUS
  <1>1. CASE HandlerStep
    BY <1>1, SoundCreate, SoundDispatch, SoundDispatchFails, SoundRead, SoundWrite
       DEF HandlerStep
  <1>2. ASSUME NEW j \in Jobs, TakeJob(j) \/ LoadFails(j) \/ ThreadStep(j) PROVE Sound'
    BY <1>2, SoundTake, SoundCheckpoint, SoundQuiet, SoundPublish, SoundClose
       DEF ThreadStep
  <1>3. CASE Crash \/ Recover
    BY <1>3, SoundCrash, SoundRecover
  <1>4. CASE UNCHANGED vars
    BY <1>4 DEF vars, Sound, JobOK, Trusting, Untouched, Ended, Earned, RequestOK,
                DownOK, PoolOK
  <1>5. QED
    BY <1>1, <1>2, <1>3, <1>4 DEF Next

LEMMA AlwaysSound == Spec => [](TypeOK /\ Sound)
  <1>1. Init => TypeOK /\ Sound
    BY TypeInitially, SoundInitially
  <1>2. TypeOK /\ Sound /\ [Next]_vars => TypeOK' /\ Sound'
    BY TypeStep, SoundStep
  <1>3. QED
    BY <1>1, <1>2, PTL DEF Spec

(***************************************************************************)
(* Metrics and artifacts are there exactly when a thread has published     *)
(* them: no crash, failure or stale cancel leaves a completed job without  *)
(* outputs, or outputs behind a job that has not earned them.              *)
(***************************************************************************)
THEOREM OutputsEarned == Spec => []OutputsAreEarned
  <1>1. Sound => OutputsAreEarned
    BY DEF Sound, JobOK, Earned, OutputsAreEarned
  <1>2. QED
    BY <1>1, AlwaysSound, PTL

(***************************************************************************)
(* While the service is up every job that has not ended has a place in the *)
(* pool or a thread, but for the exceptions NoOrphanedJob names.           *)
(***************************************************************************)
THEOREM NoJobOrphaned == Spec => []NoOrphanedJob
  <1>1. TypeOK /\ Sound => NoOrphanedJob
    <2> SUFFICES ASSUME TypeOK, Sound, up, NEW j \in Jobs,
                        row[j].status \in Stages \cup {"queued", "cancelling"}
                 PROVE  \/ worker[j] \in Waiting \cup Running
                        \/ row[j].status = "queued" /\ worker[j] = "lost"
                        \/ row[j].status = "cancelling" /\ worker[j] = "done"
                        \/ worker[j] = "dead"
      BY DEF NoOrphanedJob
    <2>1. worker[j] \in PC /\ Untouched(j) /\ Ended(j)
      BY DEF TypeOK, Sound, JobOK
    <2>2. row[j].status \notin Terminal \cup {"absent"}
      BY DEF Stages, Terminal
    <2>3. QED
      BY <2>1, <2>2 DEF PC, Untouched, Ended
  <1>2. QED
    BY <1>1, AlwaysSound, PTL

-----------------------------------------------------------------------------
(* Steps.                                                                  *)

TableStep(j) ==
    row[j].status \notin {"absent", row'[j].status} /\ j \notin contested'
      => row'[j].status \in AllowedFrom(row[j].status)

LEMMA TableHandler ==
  ASSUME TypeOK, Sound, NEW j \in Jobs, HandlerStep
  PROVE  TableStep(j)
  <1>1. ASSUME NEW k \in Jobs, CreateJob(k) PROVE TableStep(j)
    BY <1>1 DEF CreateJob, TableStep, TypeOK
  <1>2. ASSUME NEW k \in Jobs, Dispatch(k) PROVE TableStep(j)
    BY <1>2 DEF Dispatch, TableStep
  <1>6. ASSUME NEW k \in Jobs, DispatchFails(k) PROVE TableStep(j)
    BY <1>6 DEF DispatchFails, TableStep
  <1>3. ASSUME NEW q \in Requests, NEW k \in Jobs, ReadForCancel(q, k) PROVE TableStep(j)
    BY <1>3 DEF ReadForCancel, TableStep
  <1>4. ASSUME NEW q \in Requests, WriteCancel(q) PROVE TableStep(j)
    <2>1. CASE j = request[q].job
      BY <1>4, <2>1 DEF WriteCancel, TableStep
    <2>2. CASE j # request[q].job
      BY <1>4, <2>2 DEF WriteCancel, TableStep, TypeOK
    <2>3. QED
      BY <2>1, <2>2
  <1>5. QED
    BY <1>1, <1>2, <1>3, <1>4, <1>6 DEF HandlerStep

LEMMA TableThread ==
  ASSUME TypeOK, Sound, NEW j \in Jobs, NEW k \in Jobs,
         TakeJob(k) \/ LoadFails(k) \/ ThreadStep(k)
  PROVE  TableStep(j)
  <1>1. CASE row'[j] = row[j]
    BY <1>1 DEF TableStep
  <1>2. CASE row'[j] # row[j] /\ j # k
    BY <1>2 DEF TypeOK, ThreadStep, TakeJob, LoadFails, Checkpoint, RunAction, LockRow, Publish,
                Raise, Close, CloseFails
  <1>3. CASE row'[j] # row[j] /\ j = k
    <2>1. Checkpoint(j) \/ Publish(j) \/ Close(j)
      BY <1>3 DEF ThreadStep, TakeJob, LoadFails, RunAction, LockRow, Raise, CloseFails
    <2>2. contested' = contested /\ Trusting(j)
      BY <2>1 DEF Checkpoint, Publish, Close, HandlersUnchanged, Sound, JobOK
    <2>3. SUFFICES ASSUME j \notin contested
                   PROVE  row'[j].status \in AllowedFrom(row[j].status)
      BY <2>2 DEF TableStep
    <2>4. CASE Checkpoint(j)
      <3>1. worker[j] \in Stages /\ row'[j].status = worker[j]
        BY <1>3, <2>4 DEF Checkpoint, TypeOK, Row
      <3>2. row[j].status = Reached(worker[j])
        BY <2>2, <2>3, <3>1 DEF Trusting, Trying
      <3>3. QED
        BY <3>1, <3>2 DEF Stages, Reached, AllowedFrom
    <2>5. CASE Publish(j)
      <3>1. worker[j] = "publish" /\ row'[j].status = "completed"
        BY <1>3, <2>5 DEF Publish, At, TypeOK, Row
      <3>2. row[j].status = "persisting-artifacts"
        BY <2>2, <2>3, <3>1 DEF Trusting, Trying, Reached
      <3>3. QED
        BY <3>1, <3>2 DEF AllowedFrom
    <2>6. CASE Close(j)
      <3>1. worker[j] = "failing" /\ row'[j].status = "failed"
        BY <2>2, <2>6 DEF Close, Trusting, TypeOK, Row
      <3>2. row[j].status \in Stages \cup {"queued"}
        BY <2>2, <2>3, <3>1 DEF Trusting
      <3>3. QED
        BY <3>1, <3>2 DEF AllowedFrom, Stages
    <2>7. QED
      BY <2>1, <2>4, <2>5, <2>6
  <1>4. QED
    BY <1>1, <1>2, <1>3

LEMMA TableProcess ==
  ASSUME TypeOK, NEW j \in Jobs, Crash \/ Recover
  PROVE  TableStep(j)
  <1>1. CASE Crash
    BY <1>1 DEF Crash, TableStep
  <1>2. CASE Recover
    <2>1. row'[j].status = IF Orphaned(row[j].status) THEN "failed" ELSE row[j].status
      BY <1>2 DEF Recover, TypeOK, Row
    <2>2. QED
      BY <2>1 DEF TableStep, Orphaned, AllowedFrom, Stages
  <1>3. QED
    BY <1>1, <1>2

(***************************************************************************)
(* The thread, the except clauses and recovery, which write statuses       *)
(* without consulting the transition table, follow it for every job no     *)
(* cancel handler has written to.                                          *)
(***************************************************************************)
THEOREM FollowTable == Spec => UncontestedFollowTable
  <1>1. TypeOK /\ Sound /\ [Next]_vars => \A j \in Jobs : TableStep(j)
    <2> SUFFICES ASSUME TypeOK, Sound, [Next]_vars, NEW j \in Jobs PROVE TableStep(j)
      OBVIOUS
    <2>1. CASE UNCHANGED vars
      BY <2>1 DEF vars, TableStep
    <2>2. QED
      BY <2>1, TableHandler, TableThread, TableProcess DEF Next
  <1>2. TypeOK /\ Sound /\ [Next]_vars =>
          [\A j \in Jobs :
             row[j].status \notin {"absent", row'[j].status} /\ j \notin contested'
               => row'[j].status \in AllowedFrom(row[j].status)]_vars
    BY <1>1 DEF TableStep
  <1>3. QED
    BY <1>2, AlwaysSound, PTL DEF Spec, UncontestedFollowTable

\* A cancelled job whose thread has not begun and never will, and the
\* requests that may still write to it: all of them have read "queued".
Held(j) ==
    /\ row[j].status = "cancelled"
    /\ worker[j] \notin Running \cup {"none"}
    /\ \A q \in Requests : request[q] # Idle /\ request[q].job = j => request[q].saw = "queued"

LEMMA HeldBegins ==
  ASSUME TypeOK, Sound, NEW j \in Jobs,
         row[j].status = "cancelled", worker[j] \in Waiting \cup {"lost"}
  PROVE  Held(j)
  BY Points DEF Held, Sound, RequestOK

LEMMA HeldByHandler ==
  ASSUME TypeOK, Sound, NEW j \in Jobs, Held(j), HandlerStep
  PROVE  Held(j)'
  <1> USE Points DEF Held
  <1>1. ASSUME NEW k \in Jobs, CreateJob(k) PROVE Held(j)'
    BY <1>1 DEF CreateJob, Goto, TypeOK
  <1>2. ASSUME NEW k \in Jobs, Dispatch(k) \/ DispatchFails(k) PROVE Held(j)'
    <2>1. row' = row /\ request' = request /\ worker'[j] \in {worker[j], "pooled", "dead"}
      BY <1>2 DEF Dispatch, DispatchFails, Goto, TypeOK
    <2>2. {"pooled", "dead"} \cap (Running \cup {"none"}) = {}
      BY DEF Running, Trying, Stages
    <2>3. QED
      BY <2>1, <2>2
  <1>3. ASSUME NEW q \in Requests, NEW k \in Jobs, ReadForCancel(q, k) PROVE Held(j)'
    <2>1. row' = row /\ worker' = worker /\ k # j
      BY <1>3 DEF ReadForCancel, Stages
    <2>2. \A p \in Requests : request'[p] = request[p] \/ request'[p].job = k
      BY <1>3 DEF ReadForCancel, TypeOK
    <2>3. QED
      BY <2>1, <2>2
  <1>4. ASSUME NEW q \in Requests, WriteCancel(q) PROVE Held(j)'
    <2>1. worker' = worker /\ \A p \in Requests : request'[p] \in {request[p], Idle}
      BY <1>4 DEF WriteCancel, TypeOK
    <2>2. row'[j].status = "cancelled"
      <3>1. CASE j = request[q].job
        BY <1>4, <3>1 DEF WriteCancel, CancelStatus, TypeOK, Row
      <3>2. CASE j # request[q].job
        BY <1>4, <3>2 DEF WriteCancel, TypeOK
      <3>3. QED
        BY <3>1, <3>2
    <2>3. QED
      BY <2>1, <2>2
  <1>5. QED
    BY <1>1, <1>2, <1>3, <1>4 DEF HandlerStep

LEMMA HeldByThread ==
  ASSUME TypeOK, Sound, NEW j \in Jobs, Held(j), NEW k \in Jobs,
         TakeJob(k) \/ LoadFails(k) \/ ThreadStep(k)
  PROVE  Held(j)'
  <1> USE Points
  <1>1. request' = request
    BY DEF ThreadStep, TakeJob, LoadFails, Checkpoint, RunAction, LockRow, Publish, Raise, Close,
           CloseFails, HandlersUnchanged
  <1>2. CASE j # k
    <2>1. row'[j] = row[j] /\ worker'[j] = worker[j]
      BY <1>2 DEF TypeOK, ThreadStep, TakeJob, LoadFails, Checkpoint, RunAction, LockRow, Publish,
                  Raise, Close, CloseFails, Goto
    <2>2. QED
      BY <1>1, <2>1 DEF Held
  <1>3. CASE j = k /\ (TakeJob(k) \/ LoadFails(k))
    <2>1. row' = row /\ worker'[j] \in {"done", "dead"}
      BY <1>3 DEF TakeJob, LoadFails, MayStart, Goto, TypeOK, Held
    <2>2. {"done", "dead"} \cap (Running \cup {"none"}) = {}
      BY DEF Running, Trying, Stages
    <2>3. QED
      BY <1>1, <2>1, <2>2 DEF Held
  <1>4. CASE j = k /\ ThreadStep(k)
    <2>1. worker[j] \in Running
      BY <1>4 DEF ThreadStep, Checkpoint, RunAction, LockRow, Publish, Raise, Close,
                  CloseFails, At, Running, Trying
    <2>2. QED
      BY <2>1 DEF Held
  <1>5. QED
    BY <1>2, <1>3, <1>4

LEMMA HeldByProcess ==
  ASSUME TypeOK, NEW j \in Jobs, Held(j), Crash \/ Recover
  PROVE  Held(j)'
  <1>1. CASE Crash
    <2>1. row' = row /\ worker'[j] \in {worker[j], "lost"} /\ \A q \in Requests : request'[q] = Idle
      BY <1>1 DEF Crash, TypeOK
    <2>2. "lost" \notin Running \cup {"none"}
      BY DEF Running, Trying, Stages
    <2>3. QED
      BY <2>1, <2>2 DEF Held
  <1>2. CASE Recover
    <2>1. ~Orphaned("cancelled")
      BY DEF Orphaned, Stages
    <2>2. row'[j] = row[j]
      BY <1>2, <2>1 DEF Recover, Held
    <2>3. QED
      BY <1>2, <2>2 DEF Recover, Held
  <1>3. QED
    BY <1>1, <1>2

(***************************************************************************)
(* A cancel that finds a job without a thread holds for good, whatever     *)
(* stale requests, the pool, crashes and recoveries do to the job later.   *)
(***************************************************************************)
THEOREM CancelledWithoutThreadStays == Spec => CancelWithoutThreadHolds
  <1>1. ASSUME NEW j \in Jobs
        PROVE  Spec => [](row[j].status = "cancelled" /\ worker[j] \in Waiting \cup {"lost"}
                            => [](row[j].status = "cancelled" /\ worker[j] \notin Running))
    <2> DEFINE found == row[j].status = "cancelled" /\ worker[j] \in Waiting \cup {"lost"}
               stays == row[j].status = "cancelled" /\ worker[j] \notin Running
    <2>1. TypeOK /\ Sound /\ found => Held(j)
      BY HeldBegins
    <2>2. TypeOK /\ Sound /\ Held(j) /\ [Next]_vars => Held(j)'
      <3> SUFFICES ASSUME TypeOK, Sound, Held(j), [Next]_vars PROVE Held(j)'
        OBVIOUS
      <3>1. CASE UNCHANGED vars
        BY <3>1 DEF vars, Held
      <3>2. QED
        BY <3>1, HeldByHandler, HeldByThread, HeldByProcess DEF Next
    <2>3. Held(j) => stays
      BY DEF Held
    <2> HIDE DEF found, stays
    <2>4. Spec => [](found => []stays)
      BY <2>1, <2>2, <2>3, AlwaysSound, PTL DEF Spec
    <2>5. QED
      BY <2>4 DEF found, stays
  <1>2. QED
    BY <1>1 DEF CancelWithoutThreadHolds
=============================================================================
