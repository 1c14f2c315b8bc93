--------------------- MODULE WorkflowRepositoryProperties --------------------
(***************************************************************************)
(* What WorkflowRepository is meant to guarantee.                          *)
(***************************************************************************)
EXTENDS WorkflowRepository

Handler ==
    [pc : {"idle", "opening", "locking", "backing up", "copying", "persisting", "comparing",
           "replacing", "synchronizing"},
     saving : BOOLEAN, payload : Documents \cup {None}, base : Documents \cup {None}, content : Nat]

\* The type invariant of the files and of the requests.
TypeOK ==
    /\ original \in Originals
    /\ file \in Documents \cup {None} /\ disk \in Documents \cup {None} /\ backup \in Documents \cup {None}
    /\ spare \in Documents \cup {None}
    /\ lock \in Editors \cup {None}
    /\ viewed \in [Editors -> Documents \cup {None}]
    /\ handlers \in [Editors -> Handler]
    /\ saves \in Nat /\ synced \in Nat /\ crashes \in Nat

Content(document) == IF document = None THEN 0 ELSE document.content

(***************************************************************************)
(* What has happened so far.  The copy was left incomplete: the disk was   *)
(* full while it was made, and a later migration takes what there is for   *)
(* the original; or the machine went down while the copy was empty on the  *)
(* disk, or, after the migration, not there at all.  A save was lost: a reader that had read the *)
(* file of the old schema has written it back, migrated, over saves of the *)
(* meantime, or the machine went down before a save was on the disk.  The  *)
(* revision that was lost is then given a second time, and an editor that  *)
(* shows the lost one may overwrite the other.                             *)
(***************************************************************************)
VARIABLES torn, lost

FillsDisk == crashes' = crashes /\ \E e \in Editors : At(e, "copying") /\ handlers'[e].pc = "idle"

LosesCopy == crashes' # crashes /\ (backup' = Torn \/ (backup' # backup /\ ~ IsOld(file')))

MigratesLate == \E e \in Editors : At(e, "persisting") /\ ~ handlers[e].saving /\ handlers'[e].pc = "idle"

LosesSave == Content(file') # Content(file) /\ (MigratesLate \/ crashes' # crashes)

HistoryInit == Init /\ torn = FALSE /\ lost = FALSE

HistoryNext == Next /\ torn' = (torn \/ FillsDisk \/ LosesCopy) /\ lost' = (lost \/ LosesSave)

HistorySpec == HistoryInit /\ [][HistoryNext]_<<vars, torn, lost>>

(***************************************************************************)
(* "A stale save returns HTTP 409 without overwriting the newer file."     *)
(* (README.md:294): content gives way only to a save that was made from    *)
(* it, whatever other editors do meanwhile, until a save was lost.         *)
(***************************************************************************)
EditsAreNotOverwritten ==
    [][\/ Content(file') = Content(file)
       \/ \E e \in Editors : At(e, "replacing") /\ handlers[e].base.content = Content(file)
       \/ lost']_<<vars, lost>>

(***************************************************************************)
(* A save whose directory was synchronized before its answer survives the  *)
(* machine going down (workflow_repository.py:215-226), unless a late      *)
(* migration has put the old content back.  One for which that failed is   *)
(* answered as well (227-228), and may be lost.                            *)
(***************************************************************************)
SynchronizedSavesSurvive ==
    synced > 0 /\ ~ IsOld(original) => disk # None /\ disk.revision >= synced

(***************************************************************************)
(* Once a workflow of the old schema has been migrated, the copy is what   *)
(* it was ("writes_backup", tests/backend/test_workflow_v2_migration.py:8),*)
(* unless the disk was full while the copy was made, or the machine went   *)
(* down before the copy, which nobody synchronizes, was on the disk.       *)
(***************************************************************************)
OriginalIsKept == IsOld(original) /\ ~ IsOld(file) /\ ~ torn => backup = original
=============================================================================
