---------------------------- MODULE DatasetFiles -----------------------------
(***************************************************************************)
(* The files of one dataset (backend/app/services/dataset_service.py): the *)
(* directories of its categories, the snapshots of prepared tables, and    *)
(* metadata.json, which counts the images.  A request checks the names it  *)
(* was given, changes the tree by system calls, then scans it and writes   *)
(* the counts.  Nothing is locked: most requests run in a pool of threads, *)
(* and between two system calls of one another may run.  Uploads of images *)
(* and of tables run on the event loop, and give way to one another only   *)
(* while they await the bytes of a file.                                   *)
(*                                                                         *)
(* The name of an image is a stem and the number of its suffix, 0 if it    *)
(* has none.  System calls have their POSIX meaning: a directory can be    *)
(* renamed onto an empty one, a file onto any file.  The scan is one step. *)
(***************************************************************************)
EXTENDS Naturals, Sequences, FiniteSets, Functions

CONSTANTS
    Handlers,       \* the threads and tasks that serve requests
    Categories,     \* names of categories other than "preparations"
    Stems,          \* stems of the names of images
    Contents,       \* contents of images
    Snapshots,      \* ids of snapshots
    Kinds,          \* the kinds of request that are made
    MaxImages,      \* no image is added to a dataset that has as many (bound)
    None

ASSUME KindsAssumption ==
    Kinds \subseteq {"create", "rename", "delete", "upload", "import", "deleteImage", "renameImage",
                     "moveImage", "snapshot"}

VARIABLES
    folders,        \* the directories of the dataset
    metadata,       \* metadata.json: the number of images of each category
    loop,           \* the task that has the event loop, or None
    handlers        \* what each handler is doing

vars == <<folders, metadata, loop, handlers>>

Preparations == "preparations"      \* accepted as the name of a category too
Refused == "refused"                \* a file that is empty or no image; a capture that is gone
Torn == "torn"                      \* a file that is still being copied

ASSUME NoneAssumption == None \notin Handlers \cup {"ok"} /\ Torn \notin Contents

Directories == Categories \cup {Preparations}
NoImages == [f \in {} |-> None]
NoFolders == [c \in {} |-> None]

Empty(folder) == DOMAIN folder.images = {} /\ folder.snapshots = {} /\ folder.temporaries = {}

Images == UNION {{c} \X DOMAIN folders[c].images : c \in DOMAIN folders}

Has(c, f) == <<c, f>> \in Images

Scan == [c \in DOMAIN folders \ {Preparations} |-> Cardinality(DOMAIN folders[c].images)]

WithImage(folder, f, x) ==
    [folder EXCEPT !.images = [g \in DOMAIN folder.images \cup {f} |->
                                  IF g = f THEN x ELSE folder.images[g]]]

WithoutImage(folder, f) == [folder EXCEPT !.images = Restrict(folder.images, DOMAIN folder.images \ {f})]

WithTemporary(folder, h) == [folder EXCEPT !.temporaries = @ \cup {h}]
WithoutTemporary(folder, h) == [folder EXCEPT !.temporaries = @ \ {h}]
WithSnapshot(folder, s) == [folder EXCEPT !.snapshots = @ \cup {s}]

WithFolder(c, folder) ==
    [d \in DOMAIN folders \cup {c} |-> IF d = c THEN folder ELSE folders[d]]

WithoutFolder(c) == Restrict(folders, DOMAIN folders \ {c})

FreeNameFirst(folder, stem) == <<stem, 0>>

\* The name itself, or its first suffix that is free.
FreeName(folder, stem) ==
    <<stem, CHOOSE k \in 0 .. Cardinality(DOMAIN folder.images) :
        /\ <<stem, k>> \notin DOMAIN folder.images
        /\ \A j \in 0 .. k - 1 : <<stem, j>> \in DOMAIN folder.images>>

Items == Stems \X (Contents \cup {Refused})

\* What follows a refused file is never read.
Batches ==
    {<<>>} \cup {<<item>> : item \in Items} \cup (Stems \X Contents) \X Items

Named(kinds) == kinds \cap Kinds
Plain == Stems \X {0}
Numbered == Stems \X {1}

Requests ==
    [kind : Named({"create", "delete", "upload", "import"}), category : Directories]
    \cup {r \in [kind : Named({"rename"}), category : Directories, to : Directories] : r.to # r.category}
    \cup [kind : Named({"deleteImage"}), category : Directories, file : Plain]
    \cup [kind : Named({"renameImage"}), category : Directories, file : Plain, to : Numbered]
    \cup {r \in [kind : Named({"moveImage"}), category : Directories, file : Plain, to : Directories] :
              r.to # r.category}
    \cup [kind : Named({"snapshot"}), category : {Preparations}, snapshot : Snapshots]

Idle == [pc |-> "idle", request |-> None, left |-> <<>>, file |-> None, listed |-> {}, counts |-> None,
         answer |-> None]

Init ==
    /\ folders = NoFolders
    /\ metadata = NoFolders
    /\ loop = None
    /\ handlers = [h \in Handlers |-> Idle]

-----------------------------------------------------------------------------
\* Whether several requests are being served.
Contested == Cardinality({h \in Handlers : handlers[h].pc # "idle"}) > 1

At(h, pc) == handlers[h].pc = pc

Request(h) == handlers[h].request

OnLoop(h) == Request(h).kind \in {"upload", "snapshot"}

\* A task on the event loop runs only when no other has it.
Runs(h) == OnLoop(h) => loop \in {None, h}

Keep(h) == loop' = IF OnLoop(h) THEN h ELSE loop
GiveWay(h) == loop' = IF OnLoop(h) THEN None ELSE loop

Goto(h, pc) == handlers' = [handlers EXCEPT ![h].pc = pc]

\* A request that ends with an error leaves everything as it is by then.
Raise(h) ==
    /\ handlers' = [handlers EXCEPT ![h] = Idle]
    /\ GiveWay(h)
    /\ UNCHANGED <<folders, metadata>>

\* The files that are still to be added.
Pending == UNION {{h} \X DOMAIN handlers[h].left : h \in Handlers}

\* (A handler that left a temporary file behind takes no further request.)
Ask(h) ==
    /\ At(h, "idle")
    /\ \A c \in DOMAIN folders : h \notin folders[c].temporaries
    /\ \E r \in Requests :
        \E batch \in (IF r.kind \in {"upload", "import"} THEN Batches ELSE {<<>>}) :
            /\ batch # <<>> => Cardinality(Images) + Cardinality(Pending) + Len(batch) <= MaxImages
            /\ handlers' = [handlers EXCEPT ![h] =
                               [Idle EXCEPT !.pc = "checking", !.request = r, !.left = batch]]
    /\ UNCHANGED <<folders, metadata, loop>>

\* The names that a request needs are there, and those it gives are not.
Valid(r) ==
    CASE r.kind = "create" -> r.category \notin DOMAIN folders
      [] r.kind = "rename" -> r.category \in DOMAIN folders /\ r.to \notin DOMAIN folders
      [] r.kind \in {"delete", "upload", "import"} -> r.category \in DOMAIN folders
      [] r.kind = "deleteImage" -> Has(r.category, r.file)
      [] r.kind = "renameImage" -> Has(r.category, r.file) /\ ~ Has(r.category, r.to)
      [] r.kind = "moveImage" -> Has(r.category, r.file) /\ r.to \in DOMAIN folders /\ ~ Has(r.to, r.file)
      [] r.kind = "snapshot" -> TRUE

AfterCheck(r) ==
    CASE r.kind \in {"upload", "import"} -> "choosing"
      [] r.kind = "delete" -> "listing"
      [] r.kind = "snapshot" -> "preparing"
      [] OTHER -> "changing"

Check(h) ==
    LET r == Request(h) IN
    /\ At(h, "checking") /\ Runs(h)
    /\ IF Valid(r)
       THEN /\ Goto(h, AfterCheck(r))
            /\ UNCHANGED <<folders, metadata, loop>>
       ELSE Raise(h)

\* mkdir, rename, unlink: one system call, which fails if the tree has changed since the check.
Create(h) ==
    LET c == Request(h).category IN
    /\ At(h, "changing") /\ Request(h).kind = "create"
    /\ IF c \in DOMAIN folders
       THEN Raise(h)
       ELSE /\ folders' = WithFolder(c, [images |-> NoImages, snapshots |-> {}, temporaries |-> {}])
            /\ Goto(h, "scanning")
            /\ UNCHANGED <<metadata, loop>>

RenameFolder(h) ==
    LET r == Request(h) IN
    /\ At(h, "changing") /\ r.kind = "rename"
    /\ IF r.category \in DOMAIN folders /\ (r.to \in DOMAIN folders => Empty(folders[r.to]))
       THEN /\ folders' = [d \in (DOMAIN folders \ {r.category}) \cup {r.to} |->
                              IF d = r.to THEN folders[r.category] ELSE folders[d]]
            /\ Goto(h, "scanning")
            /\ UNCHANGED <<metadata, loop>>
       ELSE Raise(h)

DeleteImageUnscanned(h) ==
    LET r == Request(h) IN
    /\ At(h, "changing") /\ r.kind = "deleteImage"
    /\ IF Has(r.category, r.file)
       THEN /\ folders' = [folders EXCEPT ![r.category] = WithoutImage(@, r.file)]
            /\ handlers' = [handlers EXCEPT ![h] = [Idle EXCEPT !.answer = "ok"]]
            /\ UNCHANGED <<metadata, loop>>
       ELSE Raise(h)

DeleteImage(h) ==
    LET r == Request(h) IN
    /\ At(h, "changing") /\ r.kind = "deleteImage"
    /\ IF Has(r.category, r.file)
       THEN /\ folders' = [folders EXCEPT ![r.category] = WithoutImage(@, r.file)]
            /\ Goto(h, "scanning")
            /\ UNCHANGED <<metadata, loop>>
       ELSE Raise(h)

RenameImage(h) ==
    LET r == Request(h) IN
    /\ At(h, "changing") /\ r.kind = "renameImage"
    /\ IF Has(r.category, r.file)
       THEN /\ folders' = [folders EXCEPT ![r.category] =
                              WithImage(WithoutImage(@, r.file), r.to, @.images[r.file])]
            /\ Goto(h, "scanning")
            /\ UNCHANGED <<metadata, loop>>
       ELSE Raise(h)

MoveImage(h) ==
    LET r == Request(h)
        x == folders[r.category].images[r.file]
    IN
    /\ At(h, "changing") /\ r.kind = "moveImage"
    /\ IF Has(r.category, r.file) /\ r.to \in DOMAIN folders
       THEN /\ folders' = [folders EXCEPT ![r.category] = WithoutImage(@, r.file),
                                          ![r.to] = WithImage(@, r.file, x)]
            /\ Goto(h, "scanning")
            /\ UNCHANGED <<metadata, loop>>
       ELSE Raise(h)

\* rmtree lists the directory, unlinks what it listed, and removes the directory if it is empty.
List(h) ==
    LET c == Request(h).category IN
    /\ At(h, "listing")
    /\ IF c \in DOMAIN folders
       THEN /\ handlers' = [handlers EXCEPT ![h].pc = "unlinking",
                                            ![h].listed = DOMAIN folders[c].images]
            /\ UNCHANGED <<folders, metadata, loop>>
       ELSE Raise(h)

Unlink(h) ==
    LET c == Request(h).category IN
    /\ At(h, "unlinking")
    /\ \E f \in handlers[h].listed :
        IF Has(c, f)
        THEN /\ folders' = [folders EXCEPT ![c] = WithoutImage(@, f)]
             /\ handlers' = [handlers EXCEPT ![h].listed = @ \ {f}]
             /\ UNCHANGED <<metadata, loop>>
        ELSE Raise(h)

\* (Snapshots and temporary files go with the directory if they were listed too.)
RemoveFolder(h) ==
    LET c == Request(h).category IN
    /\ At(h, "unlinking") /\ handlers[h].listed = {}
    /\ \/ /\ c \in DOMAIN folders /\ DOMAIN folders[c].images = {}
          /\ folders' = WithoutFolder(c)
          /\ Goto(h, "scanning")
          /\ UNCHANGED <<metadata, loop>>
       \/ /\ c \in DOMAIN folders => ~ Empty(folders[c]) /\ Contested
          /\ Raise(h)

-----------------------------------------------------------------------------
\* The next file of a batch: refused files end the request; the name is the first that is free.
\* An upload writes a temporary file.
Choose(h) ==
    LET c == Request(h).category
        item == Head(handlers[h].left)
        name == FreeName(folders[c], item[1])
    IN
    /\ At(h, "choosing") /\ Runs(h) /\ handlers[h].left # <<>>
    /\ IF item[2] = Refused \/ c \notin DOMAIN folders
       THEN Raise(h)
       ELSE /\ folders' = IF OnLoop(h) THEN [folders EXCEPT ![c] = WithTemporary(@, h)] ELSE folders
            /\ handlers' = [handlers EXCEPT ![h].pc = IF OnLoop(h) THEN "replacing" ELSE "opening",
                                            ![h].file = name]
            /\ Keep(h)
            /\ UNCHANGED metadata

\* os.replace; the next file is awaited.
Replace(h) ==
    LET c == Request(h).category
        item == Head(handlers[h].left)
    IN
    /\ At(h, "replacing") /\ Runs(h)
    /\ IF c \in DOMAIN folders /\ h \in folders[c].temporaries
       THEN /\ folders' = [folders EXCEPT ![c] =
                              WithImage(WithoutTemporary(@, h), handlers[h].file, item[2])]
            /\ handlers' = [handlers EXCEPT ![h].pc = "choosing", ![h].left = Tail(@), ![h].file = None]
            /\ GiveWay(h)
            /\ UNCHANGED metadata
       ELSE Raise(h)

\* copy2 opens the file of that name, which may be there by now, and empties it.
OpenCopy(h) ==
    LET c == Request(h).category IN
    /\ At(h, "opening")
    /\ IF c \in DOMAIN folders
       THEN /\ folders' = [folders EXCEPT ![c] = WithImage(@, handlers[h].file, Torn)]
            /\ Goto(h, "copying")
            /\ UNCHANGED <<metadata, loop>>
       ELSE Raise(h)

\* The copy of a capture is complete.  (One whose file has been renamed meanwhile is not followed.)
Copied(h) ==
    LET c == Request(h).category
        item == Head(handlers[h].left)
    IN
    /\ At(h, "copying")
    /\ IF Has(c, handlers[h].file)
       THEN /\ folders' = [folders EXCEPT ![c] = WithImage(@, handlers[h].file, item[2])]
            /\ handlers' = [handlers EXCEPT ![h].pc = "choosing", ![h].left = Tail(@), ![h].file = None]
            /\ UNCHANGED <<metadata, loop>>
       ELSE Raise(h)

BatchDone(h) ==
    /\ At(h, "choosing") /\ Runs(h) /\ handlers[h].left = <<>>
    /\ Goto(h, "scanning")
    /\ Keep(h)
    /\ UNCHANGED <<folders, metadata>>

\* A snapshot makes its directory if there is none, and is written aside.
Prepare(h) ==
    /\ At(h, "preparing") /\ Runs(h)
    /\ folders' = IF Preparations \in DOMAIN folders
                  THEN [folders EXCEPT ![Preparations] = WithTemporary(@, h)]
                  ELSE WithFolder(Preparations, [images |-> NoImages, snapshots |-> {}, temporaries |-> {h}])
    /\ Goto(h, "publishing")
    /\ Keep(h)
    /\ UNCHANGED metadata

Publish(h) ==
    /\ At(h, "publishing") /\ Runs(h)
    /\ IF Preparations \in DOMAIN folders /\ h \in folders[Preparations].temporaries
       THEN /\ folders' = [folders EXCEPT ![Preparations] =
                              WithSnapshot(WithoutTemporary(@, h), Request(h).snapshot)]
            /\ handlers' = [handlers EXCEPT ![h] = [Idle EXCEPT !.answer = "ok"]]
            /\ GiveWay(h)
            /\ UNCHANGED metadata
       ELSE Raise(h)

-----------------------------------------------------------------------------
\* _regenerate_metadata: the directories are counted, then the file is replaced.
ScanFolders(h) ==
    /\ At(h, "scanning") /\ Runs(h)
    /\ handlers' = [handlers EXCEPT ![h].pc = "writing", ![h].counts = Scan]
    /\ UNCHANGED <<folders, metadata, loop>>

WriteMetadata(h) ==
    /\ At(h, "writing") /\ Runs(h)
    /\ metadata' = handlers[h].counts
    /\ handlers' = [handlers EXCEPT ![h] = [Idle EXCEPT !.answer = "ok"]]
    /\ GiveWay(h)
    /\ UNCHANGED folders

\* The disk is full: a copy stays as far as it came, and the counts are not written.
Fail(h) == handlers[h].pc \in {"copying", "writing"} /\ Runs(h) /\ Raise(h)

\* The disk is full: what was written aside is removed.
Abandon(h) ==
    LET c == Request(h).category IN
    /\ handlers[h].pc \in {"replacing", "publishing"} /\ Runs(h)
    /\ c \in DOMAIN folders /\ h \in folders[c].temporaries
    /\ folders' = [folders EXCEPT ![c] = WithoutTemporary(@, h)]
    /\ handlers' = [handlers EXCEPT ![h] = Idle]
    /\ GiveWay(h)
    /\ UNCHANGED metadata

Handle(h) ==
    \/ Check(h) \/ Create(h) \/ RenameFolder(h) \/ List(h) \/ Unlink(h) \/ RemoveFolder(h)
    \/ DeleteImage(h) \/ RenameImage(h) \/ MoveImage(h)
    \/ Choose(h) \/ Replace(h) \/ OpenCopy(h) \/ Copied(h) \/ BatchDone(h)
    \/ Prepare(h) \/ Publish(h)
    \/ ScanFolders(h) \/ WriteMetadata(h)
    \/ Fail(h) \/ Abandon(h)

Next == \E h \in Handlers : Ask(h) \/ Handle(h)

Spec == Init /\ [][Next]_vars
=============================================================================
