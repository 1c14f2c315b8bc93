---------------------- MODULE InspectionRunsProperties ----------------------
(***************************************************************************)
(* What InspectionRuns is meant to guarantee.                              *)
(***************************************************************************)
EXTENDS InspectionRuns

Working(r) == worker[r] \in Live

(***************************************************************************)
(* Two threads work at the same time only if one of their runs has been    *)
(* cancelled.  This is what the advisory lock and the active-run check of  *)
(* create_run give: a cancel closes the row while the thread still works,  *)
(* and from then on the row no longer keeps the next run out.              *)
(***************************************************************************)
OverlapOnlyAfterCancel ==
    \A r, s \in Runs :
        r # s /\ Working(r) /\ Working(s) => row[r].cancel \/ row[s].cancel

(***************************************************************************)
(* While the service is up, an active row has a thread that will close it. *)
(* Otherwise create_run would refuse every new run until the next restart. *)
(* Only a thread that died of a database error leaves such a row.          *)
(***************************************************************************)
NoOrphanedRun ==
    up => \A r \in Runs :
            row[r].status \in Active =>
                Working(r) \/ (DatabaseMayFail /\ worker[r] = "lost")

(***************************************************************************)
(* The completing commit of execute_run is all or nothing: a verdict, a    *)
(* result, the captured artifact, node rows that all completed and exactly *)
(* the outbox events of the enabled channels exist together or not at all. *)
(***************************************************************************)
PublicationIsWhole ==
    \A r \in Runs :
        /\ row[r].result <=> row[r].decision \in Verdicts
        /\ row[r].status = "completed" => row[r].result
        /\ row[r].result => /\ row[r].artifact
                            /\ row[r].nodes \subseteq {"completed"}
        /\ {c \in Channels : <<r, c>> \in outbox}
             = IF row[r].result THEN row[r].channels ELSE {}

(***************************************************************************)
(* Once a cancellation is persisted, the run sends at most one more        *)
(* command to a device: the one its thread had already passed the          *)
(* checkpoint of.  Homing and capture are never both sent after it.        *)
(***************************************************************************)
AtMostOneCommandAfterCancel == \A r \in Runs : late[r] <= 1

(***************************************************************************)
(* A frame is captured only after the motion state read last confirmed a   *)
(* homed stage in position, also when the thread homed the stage in        *)
(* between; that state is fresh and its interlocks are closed unless the   *)
(* thread has homed the stage, after which neither is checked again; and   *)
(* only a simulated stage of an uncommissioned run is homed without an     *)
(* operator.                                                               *)
(***************************************************************************)
CommandsAreJustified ==
    \A r \in Runs :
        /\ "capture" \in commands[r] => view[r].homed /\ view[r].placed
        /\ "capture" \in commands[r] =>
             \/ view[r].fresh /\ view[r].safe
             \/ "home" \in commands[r]
        /\ "home" \in commands[r] => Simulated(r) /\ StageIsSimulated

(***************************************************************************)
(* A terminal status changes only for a run somebody asked to cancel:      *)
(* neither recovery nor a thread nor a create reopens any other run.       *)
(***************************************************************************)
FinalUnlessCancelled ==
    [][\A r \in Runs :
         row[r].status \in Terminal /\ row'[r].status # row[r].status
           => row'[r].cancel]_vars

(***************************************************************************)
(* A cancellation that is persisted before the last look of the thread at  *)
(* it decides the outcome: from any earlier point of the thread on, no     *)
(* result is ever published; and a run that is cancelled before its device *)
(* error is handled ends faulted only if its thread dies, by recovery.     *)
(* A later cancellation is too late: the run may still be completed, or    *)
(* faulted after the except clause has read the intent.                    *)
(***************************************************************************)
Stoppable ==
    Checkpoints \cup {"spawned", "precheck", "pose", "autoHome", "repose", "capturing",
                      "capture", "keep", "executing", "poll"}

TimelyCancelHolds ==
    \A r \in Runs :
        /\ [](row[r].cancel /\ worker[r] \in Stoppable \cup {"deviceError"} => [](~row[r].result))
        /\ [](row[r].cancel /\ worker[r] = "deviceError"
                => [](row[r].status = "faulted" => worker[r] \in {"lost", "killed"}))

(***************************************************************************)
(* Every run that is admitted ends, with a terminal row and no thread, so  *)
(* the station is free again; only a thread that died of a database error  *)
(* may leave its row open.                                                 *)
(***************************************************************************)
RunSettles ==
    \A r \in Runs :
        row[r].status \in Active ~>
            ~Working(r) /\ (row[r].status \in Terminal \/ worker[r] = "lost")

(***************************************************************************)
(* A cancelled run ends for good: from some point on its status is         *)
(* terminal and stays so, whatever its thread wrote in between, unless the *)
(* thread died of a database error.                                        *)
(***************************************************************************)
CancelSettles ==
    \A r \in Runs :
        row[r].cancel ~> [](row[r].status \in Terminal \/ worker[r] = "lost")

(***************************************************************************)
(* The runtime keeps the ledger of RunLedger: a run is open while its      *)
(* thread works, published once its result is committed.                   *)
(***************************************************************************)
standing ==
    [r \in Runs |->
        IF row[r].status = "absent" THEN "absent"
        ELSE IF row[r].result THEN "published"
        ELSE IF Working(r) THEN "open"
        ELSE "closed"]

Ledger == INSTANCE RunLedger
            WITH ledger <- standing,
                 cancelled <- {r \in Runs : row[r].cancel},
                 announced <- outbox

KeepsLedger == Ledger!LedgerSpec

=============================================================================
