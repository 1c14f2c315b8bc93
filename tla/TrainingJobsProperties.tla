----------------------- MODULE TrainingJobsProperties -----------------------
(***************************************************************************)
(* What TrainingJobs is meant to guarantee.                                *)
(***************************************************************************)
EXTENDS TrainingJobs

(***************************************************************************)
(* Outputs are published with the completed status, by a thread that has   *)
(* passed the last checkpoint; only a stale cancel hides the completion    *)
(* afterwards, and then the outputs stay.                                  *)
(***************************************************************************)
OutputsAreEarned ==
    \A j \in Jobs :
        /\ row[j].status = "completed" => row[j].published
        /\ row[j].published => /\ row[j].progress = "persisting-artifacts"
                               /\ row[j].status = "completed" \/ j \in contested

(***************************************************************************)
(* While the service is up, a job that has not ended is in the pool or has *)
(* a thread.  The exceptions are a queued job whose place in the pool a    *)
(* crash has emptied, which recovery does not select; a cancel written     *)
(* over an ended job; and a handler or thread the database failed.         *)
(***************************************************************************)
NoOrphanedJob ==
    up => \A j \in Jobs :
            row[j].status \in Stages \cup {"queued", "cancelling"} =>
                \/ worker[j] \in Waiting \cup Running
                \/ row[j].status = "queued" /\ worker[j] = "lost"
                \/ row[j].status = "cancelling" /\ worker[j] = "done"
                \/ worker[j] = "dead"

(***************************************************************************)
(* As long as no cancel handler has written to a job, its status follows   *)
(* the transition table of core/training/contracts.py, although the thread *)
(* and recovery write it without consulting the table.                     *)
(***************************************************************************)
UncontestedFollowTable ==
    [][\A j \in Jobs :
         row[j].status \notin {"absent", row'[j].status} /\ j \notin contested'
           => row'[j].status \in AllowedFrom(row[j].status)]_vars

(***************************************************************************)
(* A cancel that finds a job without a thread, in the queue or left over   *)
(* from a crash, holds for good: whatever stale requests, the pool, a      *)
(* further crash and recovery do later, the job stays cancelled and no     *)
(* thread executes it.                                                     *)
(***************************************************************************)
CancelWithoutThreadHolds ==
    \A j \in Jobs :
        [](row[j].status = "cancelled" /\ worker[j] \in Waiting \cup {"lost"}
             => [](row[j].status = "cancelled" /\ worker[j] \notin Running))

(***************************************************************************)
(* A job that nobody cancels ends, unless a crash meets it in the queue or *)
(* its handler or thread dies of a database error.                         *)
(***************************************************************************)
JobSettles ==
    \A j \in Jobs :
        row[j].status = "queued" ~>
            \/ row[j].status \in Terminal
            \/ j \in contested
            \/ row[j].status = "queued" /\ worker[j] = "lost"
            \/ worker[j] = "dead"

-----------------------------------------------------------------------------
(* What the tests say and the code does not do.                            *)

(***************************************************************************)
(* A job whose action succeeds and that nobody cancels completes.          *)
(***************************************************************************)
SoundJobCompletes ==
    \A j \in Jobs : row[j].status = "queued" ~> row[j].status = "completed"
=============================================================================
