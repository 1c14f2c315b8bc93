-------------------------- MODULE WorkflowRepository -------------------------
(***************************************************************************)
(* The file of one recipe's workflow (backend/app/services/                *)
(* workflow_repository.py) and the editors of it.  Readers take no lock,   *)
(* unless the file is of the old schema: then the reader migrates what it  *)
(* has read, and keeps a copy of the file if there is none yet.  A save    *)
(* takes the lock, compares the revision it was made for with the stored   *)
(* one, replaces the file and synchronizes its directory.  Both write a    *)
(* temporary file first, which only the holder of the lock sees.           *)
(*                                                                         *)
(* When the machine goes down, the directory is what was last on the disk: *)
(* a file that was replaced is on the disk once the directory is           *)
(* synchronized, or earlier.  If that fails, the save is answered all the  *)
(* same.  The copy that a migration keeps is never synchronized: it is on  *)
(* the disk when the system has written it back, and may be empty until    *)
(* then.  The directory of the recipe is there, and what is submitted is a *)
(* valid workflow.  Each save has a number, which stands for the content   *)
(* it submits; 0 is the content at the start.                              *)
(***************************************************************************)
EXTENDS Naturals

CONSTANTS
    Editors,    \* the open editors; each has one request at a time
    MaxSaves,   \* bound on the saves
    MaxCrashes, \* bound on the crashes
    None

\* The workflows that are stored: schema version, revision and content.
Documents == [version : 0..2, revision : Nat, content : Nat]

ASSUME BoundsAssumption == MaxSaves \in Nat /\ MaxCrashes \in Nat
ASSUME NoneAssumption == None \notin Editors /\ None \notin Documents

VARIABLES
    original,   \* what is stored at the start: nothing, or a workflow of the old or the new schema
    file,       \* workflow.json
    disk,       \* what it is after a loss of power
    backup,     \* workflow.pre-control-flow-v2.json
    spare,      \* what it is after a loss of power
    lock,       \* _write_lock: the request that holds it, or None
    viewed,     \* the workflow that each editor shows, and edits
    handlers,   \* what the request of each editor is doing
    saves,      \* the number of saves so far
    synced,     \* the last revision that was answered with its directory synchronized
    crashes

vars == <<original, file, disk, backup, spare, lock, viewed, handlers, saves, synced, crashes>>

Document(version, revision, content) == [version |-> version, revision |-> revision, content |-> content]

Torn == Document(0, 0, 0)          \* a copy that is not complete
Default == Document(2, 0, 0)
Originals == {None, Document(1, 0, 0), Default}

Migrated(document) == [document EXCEPT !.version = 2]

IsOld(document) == document # None /\ document.version = 1

Idle == [pc |-> "idle", saving |-> FALSE, payload |-> None, base |-> None, content |-> 0]

Init ==
    /\ original \in Originals
    /\ file = original
    /\ disk = original
    /\ backup = None
    /\ spare = None
    /\ lock = None
    /\ viewed = [e \in Editors |-> None]
    /\ handlers = [e \in Editors |-> Idle]
    /\ saves = 0
    /\ synced = 0
    /\ crashes = 0

At(e, pc) == handlers[e].pc = pc

Goto(e, pc) == handlers' = [handlers EXCEPT ![e].pc = pc]

\* The request ends; it leaves the lock if it has it.
End(e) ==
    /\ handlers' = [handlers EXCEPT ![e] = Idle]
    /\ lock' = IF lock = e THEN None ELSE lock

-----------------------------------------------------------------------------
AskRead(e) ==
    /\ At(e, "idle")
    /\ Goto(e, "opening")
    /\ UNCHANGED <<original, file, disk, backup, spare, lock, viewed, saves, synced, crashes>>

\* The editor submits its draft, made from the workflow it shows.
AskSave(e) ==
    /\ At(e, "idle") /\ viewed[e] # None /\ saves < MaxSaves
    /\ saves' = saves + 1
    /\ handlers' = [handlers EXCEPT ![e] = [Idle EXCEPT !.pc = "locking", !.saving = TRUE,
                                                        !.base = viewed[e], !.content = saves + 1]]
    /\ UNCHANGED <<original, file, disk, backup, spare, lock, viewed, synced, crashes>>

\* read: a recipe without a file has the default workflow.
Open(e) ==
    /\ At(e, "opening")
    /\ IF IsOld(file)
       THEN /\ handlers' = [handlers EXCEPT ![e].pc = "locking", ![e].payload = file]
            /\ UNCHANGED <<lock, viewed>>
       ELSE /\ viewed' = [viewed EXCEPT ![e] = IF file = None THEN Default ELSE file]
            /\ End(e)
    /\ UNCHANGED <<original, file, disk, backup, spare, saves, synced, crashes>>

\* Variant: every request has a lock of its own.
LockOfEach(e) ==
    LET payload == IF handlers[e].saving THEN file ELSE handlers[e].payload IN
    /\ At(e, "locking")
    /\ lock' = e
    /\ handlers' = [handlers EXCEPT ![e].payload = payload,
                                    ![e].pc = IF IsOld(payload) THEN "backing up" ELSE "comparing"]
    /\ UNCHANGED <<original, file, disk, backup, spare, viewed, saves, synced, crashes>>

\* A save reads the file under the lock; a reader goes on with what it has read before.
Lock(e) ==
    LET payload == IF handlers[e].saving THEN file ELSE handlers[e].payload IN
    /\ At(e, "locking") /\ lock = None
    /\ lock' = e
    /\ handlers' = [handlers EXCEPT ![e].payload = payload,
                                    ![e].pc = IF IsOld(payload) THEN "backing up" ELSE "comparing"]
    /\ UNCHANGED <<original, file, disk, backup, spare, viewed, saves, synced, crashes>>

-----------------------------------------------------------------------------
HasBackup(e) ==
    /\ At(e, "backing up") /\ backup # None
    /\ Goto(e, "persisting")
    /\ UNCHANGED <<original, file, disk, backup, spare, lock, viewed, saves, synced, crashes>>

\* Variant: a copy that is there is made again.
OpenBackupAgain(e) ==
    /\ At(e, "backing up")
    /\ backup' = Torn
    /\ Goto(e, "copying")
    /\ UNCHANGED <<original, file, disk, spare, lock, viewed, saves, synced, crashes>>

\* copy2 opens the copy, then fills it.
OpenBackup(e) ==
    /\ At(e, "backing up") /\ backup = None
    /\ backup' = Torn
    /\ Goto(e, "copying")
    /\ UNCHANGED <<original, file, disk, spare, lock, viewed, saves, synced, crashes>>

CopyBackup(e) ==
    /\ At(e, "copying")
    /\ backup' = file
    /\ Goto(e, "persisting")
    /\ UNCHANGED <<original, file, disk, spare, lock, viewed, saves, synced, crashes>>

\* _persist_payload; then a read is answered, and a save compares the revisions.
Persist(e) ==
    LET migrated == Migrated(handlers[e].payload) IN
    /\ At(e, "persisting")
    /\ file' = migrated
    /\ IF handlers[e].saving
       THEN /\ handlers' = [handlers EXCEPT ![e].pc = "comparing", ![e].payload = migrated]
            /\ UNCHANGED <<lock, viewed>>
       ELSE /\ viewed' = [viewed EXCEPT ![e] = migrated]
            /\ End(e)
    /\ UNCHANGED <<original, disk, backup, spare, saves, synced, crashes>>

-----------------------------------------------------------------------------
StoredRevision(e) == IF handlers[e].payload = None THEN 0 ELSE handlers[e].payload.revision

\* StaleWorkflowRevision, a 409.
RefuseStale(e) ==
    /\ At(e, "comparing") /\ handlers[e].base.revision # StoredRevision(e)
    /\ End(e)
    /\ UNCHANGED <<original, file, disk, backup, spare, viewed, saves, synced, crashes>>

Accept(e) ==
    /\ At(e, "comparing") /\ handlers[e].base.revision = StoredRevision(e)
    /\ Goto(e, "replacing")
    /\ UNCHANGED <<original, file, disk, backup, spare, lock, viewed, saves, synced, crashes>>

Replace(e) ==
    /\ At(e, "replacing")
    /\ file' = Document(2, StoredRevision(e) + 1, handlers[e].content)
    /\ Goto(e, "synchronizing")
    /\ UNCHANGED <<original, disk, backup, spare, lock, viewed, saves, synced, crashes>>

\* Variant: the directory is taken for synchronized.
SynchronizeNothing(e) ==
    /\ At(e, "synchronizing")
    /\ synced' = StoredRevision(e) + 1
    /\ viewed' = [viewed EXCEPT ![e] = Document(2, StoredRevision(e) + 1, handlers[e].content)]
    /\ End(e)
    /\ UNCHANGED <<original, file, disk, backup, spare, saves, crashes>>

\* fsync of the directory, and the answer.
Synchronize(e) ==
    /\ At(e, "synchronizing")
    /\ disk' = file
    /\ synced' = StoredRevision(e) + 1
    /\ viewed' = [viewed EXCEPT ![e] = Document(2, StoredRevision(e) + 1, handlers[e].content)]
    /\ End(e)
    /\ UNCHANGED <<original, file, backup, spare, saves, crashes>>

\* The directory cannot be opened or synchronized: the save is answered all the same.
PassOver(e) ==
    /\ At(e, "synchronizing")
    /\ viewed' = [viewed EXCEPT ![e] = Document(2, StoredRevision(e) + 1, handlers[e].content)]
    /\ End(e)
    /\ UNCHANGED <<original, file, disk, backup, spare, saves, synced, crashes>>

\* The disk is full: the temporary file is removed, the copy is not.
Fail(e) ==
    /\ handlers[e].pc \in {"copying", "persisting", "replacing"}
    /\ End(e)
    /\ UNCHANGED <<original, file, disk, backup, spare, viewed, saves, synced, crashes>>

-----------------------------------------------------------------------------
\* The system writes the directory back on its own, and the copy, which
\* nobody synchronizes.
WriteBack ==
    /\ disk # file
    /\ disk' = file
    /\ UNCHANGED <<original, file, backup, spare, lock, viewed, handlers, saves, synced, crashes>>

WriteBackCopy ==
    /\ spare # backup
    /\ spare' = backup
    /\ UNCHANGED <<original, file, disk, backup, lock, viewed, handlers, saves, synced, crashes>>

\* The machine goes down and comes up; the editors are elsewhere.
Crash ==
    /\ crashes < MaxCrashes
    /\ crashes' = crashes + 1
    /\ file' = disk
    /\ backup' = spare
    /\ lock' = None
    /\ handlers' = [e \in Editors |-> Idle]
    /\ UNCHANGED <<original, disk, spare, viewed, saves, synced>>

Handle(e) ==
    \/ Open(e) \/ Lock(e) \/ HasBackup(e) \/ OpenBackup(e) \/ CopyBackup(e) \/ Persist(e)
    \/ RefuseStale(e) \/ Accept(e) \/ Replace(e) \/ Synchronize(e) \/ PassOver(e)
    \/ Fail(e)

Next == WriteBack \/ WriteBackCopy \/ Crash \/ \E e \in Editors : AskRead(e) \/ AskSave(e) \/ Handle(e)

Spec == Init /\ [][Next]_vars
=============================================================================
