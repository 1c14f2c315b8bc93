------------------------- MODULE DatasetFilesProofs --------------------------
(***************************************************************************)
(* Proofs about DatasetFiles, for any number of handlers, categories and   *)
(* images.                                                                 *)
(*                                                                         *)
(* What a request may count on is little, as others change the tree        *)
(* between any two of its steps.  That it has met no other is known from   *)
(* the history (MetInv): then what it checked, the file it opened and what *)
(* it counted still hold (AloneInv).  An upload meets others and keeps its *)
(* name all the same: its tasks on the event loop exclude one another, and *)
(* of the rest only those add images that are of the class "replacing"     *)
(* (FreshInv).  The counts are right while no two requests overlap and     *)
(* none ends without counting what it has stored (CountsInv).              *)
(***************************************************************************)
EXTENDS DatasetFilesProperties, FiniteSetTheorems, TLAPS


Finite ==
    /\ IsFiniteSet(DOMAIN folders)
    /\ \A c \in DOMAIN folders : IsFiniteSet(DOMAIN folders[c].images)

GoodFolders ==
    /\ DOMAIN folders \subseteq Directories
    /\ folders \in [DOMAIN folders -> Folder]
    /\ Finite

\* What a handler does fits its request.
Fits(t) ==
    /\ t.pc # "idle" => t.request \in Requests /\ t.answer = None
    /\ t.pc = "changing" => t.request.kind \notin {"upload", "import", "snapshot", "delete"}
    /\ t.pc \in {"listing", "unlinking"} => t.request.kind = "delete"
    /\ t.pc = "choosing" => t.request.kind \in {"upload", "import"}
    /\ t.pc = "replacing" => t.request.kind = "upload"
    /\ t.pc \in {"opening", "copying"} => t.request.kind = "import"
    /\ t.pc \in {"preparing", "publishing"} => t.request.kind = "snapshot"
    /\ t.pc = "writing" => t.counts \in Counts
    /\ t.pc \in {"replacing", "opening", "copying"} =>
           t.left # <<>> /\ Head(t.left) \in Stems \X Contents /\ t.file \in ImageNames

\* A task between two system calls has the event loop.
HasLoop(h) == handlers[h].pc \in {"replacing", "publishing"} => loop = h

Sound ==
    /\ TypeOK
    /\ Finite
    /\ \A h \in Handlers : Fits(handlers[h]) /\ HasLoop(h)

-----------------------------------------------------------------------------
(***************************************************************************)
(* Requests and folders.                                                   *)
(***************************************************************************)
LEMMA RequestFields ==
  ASSUME NEW r \in Requests
  PROVE  /\ r.kind \in {"create", "rename", "delete", "upload", "import", "deleteImage", "renameImage",
                        "moveImage", "snapshot"}
         /\ r.category \in Directories
         /\ r.kind = "snapshot" => r.category = Preparations /\ r.snapshot \in Snapshots
         /\ r.kind \in {"rename", "moveImage"} => r.to \in Directories /\ r.to # r.category
         /\ r.kind \in {"deleteImage", "renameImage", "moveImage"} => r.file \in ImageNames
         /\ r.kind = "renameImage" => r.to \in ImageNames /\ r.to # r.file
  <1>1. Plain \subseteq ImageNames /\ Numbered \subseteq ImageNames /\ \A f \in Plain : f \notin Numbered
    BY DEF Plain, Numbered, ImageNames
  <1>2. Preparations \in Directories
    BY DEF Directories
  <1> QED
    BY <1>1, <1>2 DEF Requests, Named

LEMMA FolderFields ==
  ASSUME NEW F \in Folder
  PROVE  /\ DOMAIN F.images \subseteq ImageNames
         /\ F.images \in [DOMAIN F.images -> Contents \cup {Torn}]
         /\ F.snapshots \subseteq Snapshots
         /\ F.temporaries \subseteq Handlers
  BY DEF Folder

LEMMA FolderMade ==
  ASSUME NEW D \in SUBSET ImageNames, NEW m \in [D -> Contents \cup {Torn}],
         NEW S \in SUBSET Snapshots, NEW T \in SUBSET Handlers
  PROVE  [images |-> m, snapshots |-> S, temporaries |-> T] \in Folder
  BY DEF Folder

LEMMA WithImageFields ==
  ASSUME NEW F \in Folder, NEW f \in ImageNames, NEW x \in Contents \cup {Torn}
  PROVE  LET G == WithImage(F, f, x) IN
         /\ G \in Folder
         /\ DOMAIN G.images = DOMAIN F.images \cup {f}
         /\ G.images[f] = x
         /\ \A g \in DOMAIN F.images \ {f} : G.images[g] = F.images[g]
         /\ G.snapshots = F.snapshots
         /\ G.temporaries = F.temporaries
  <1> DEFINE m == [g \in DOMAIN F.images \cup {f} |-> IF g = f THEN x ELSE F.images[g]]
  <1>1. DOMAIN F.images \cup {f} \in SUBSET ImageNames
    BY FolderFields
  <1>2. m \in [DOMAIN F.images \cup {f} -> Contents \cup {Torn}]
    BY FolderFields
  <1>3. WithImage(F, f, x) = [images |-> m, snapshots |-> F.snapshots, temporaries |-> F.temporaries]
    BY DEF WithImage, Folder
  <1> QED
    BY <1>1, <1>2, <1>3, FolderFields, FolderMade

LEMMA WithoutImageFields ==
  ASSUME NEW F \in Folder, NEW f
  PROVE  LET G == WithoutImage(F, f) IN
         /\ G \in Folder
         /\ DOMAIN G.images = DOMAIN F.images \ {f}
         /\ \A g \in DOMAIN F.images \ {f} : G.images[g] = F.images[g]
         /\ G.snapshots = F.snapshots
         /\ G.temporaries = F.temporaries
  <1> DEFINE m == Restrict(F.images, DOMAIN F.images \ {f})
  <1>1. DOMAIN F.images \ {f} \in SUBSET ImageNames
    BY FolderFields
  <1>2. m \in [DOMAIN F.images \ {f} -> Contents \cup {Torn}]
    BY FolderFields DEF Restrict
  <1>3. WithoutImage(F, f) = [images |-> m, snapshots |-> F.snapshots, temporaries |-> F.temporaries]
    BY DEF WithoutImage, Folder
  <1>4. DOMAIN m = DOMAIN F.images \ {f} /\ \A g \in DOMAIN F.images \ {f} : m[g] = F.images[g]
    BY DEF Restrict
  <1>5. F.snapshots \subseteq Snapshots /\ F.temporaries \subseteq Handlers
    BY FolderFields
  <1> HIDE DEF m
  <1>6. WithoutImage(F, f) \in Folder
    BY <1>1, <1>2, <1>3, <1>5, FolderMade
  <1> QED
    BY <1>3, <1>4, <1>6

LEMMA ImagesFinite ==
  ASSUME Finite
  PROVE  IsFiniteSet(Images)
  <1> DEFINE D == DOMAIN folders
             S == {{c} \X DOMAIN folders[c].images : c \in D}
             f == [c \in D |-> {c} \X DOMAIN folders[c].images]
  <1>1. f \in Surjection(D, S)
    BY DEF Surjection
  <1>2. IsFiniteSet(S)
    BY <1>1, FS_Surjection DEF Finite
  <1>3. \A T \in S : IsFiniteSet(T)
    <2> SUFFICES ASSUME NEW c \in D PROVE IsFiniteSet({c} \X DOMAIN folders[c].images)
      OBVIOUS
    <2>1. IsFiniteSet({c}) /\ IsFiniteSet(DOMAIN folders[c].images)
      BY FS_Singleton DEF Finite
    <2> QED
      BY <2>1, FS_Product
  <1> QED
    BY <1>2, <1>3, FS_UNION DEF Images

LEMMA ImagesAre == \A place : place \in Images <=>
                      /\ place = <<place[1], place[2]>>
                      /\ place[1] \in DOMAIN folders
                      /\ place[2] \in DOMAIN folders[place[1]].images
  BY DEF Images

LEMMA HasMeans ==
  ASSUME NEW c, NEW f
  PROVE  Has(c, f) <=> c \in DOMAIN folders /\ f \in DOMAIN folders[c].images
  BY DEF Has, Images

(***************************************************************************)
(* Some suffix is free, and the first one is taken.                        *)
(***************************************************************************)
LEMMA FreeNameIsFree ==
  ASSUME NEW F \in Folder, IsFiniteSet(DOMAIN F.images), NEW s \in Stems
  PROVE  FreeName(F, s) \in ImageNames \ DOMAIN F.images
  <1> DEFINE D == DOMAIN F.images
             n == Cardinality(D)
             K == {k \in 0 .. n : <<s, k>> \notin D}
             First(k) == <<s, k>> \notin D /\ \A j \in 0 .. k - 1 : <<s, j>> \in D
  <1>1. n \in Nat
    BY FS_CardinalityType
  <1>2. K # {}
    <2> SUFFICES ASSUME K = {} PROVE FALSE
      OBVIOUS
    <2> DEFINE f == [k \in 0 .. n |-> <<s, k>>]
    <2>1. f \in Injection(0 .. n, D)
      BY DEF Injection, IsInjective
    <2>2. Cardinality(0 .. n) = n + 1
      BY <1>1, FS_Interval
    <2>3. Cardinality(0 .. n) <= n
      <3> HIDE DEF f
      <3> QED
        BY <2>1, FS_Injection
    <2> QED
      BY <1>1, <2>2, <2>3
  <1>3. \E k \in 0 .. n : First(k)
    <2> DEFINE T == {0 .. k : k \in K}
               R == StrictSubsetOrdering(Nat)
    <2>1. IsWellFoundedOn(R, FiniteSubsetsOf(Nat))
      BY FS_StrictSubsetOrderingWellFounded
    <2>2. T \subseteq FiniteSubsetsOf(Nat)
      <3> SUFFICES ASSUME NEW k \in K PROVE 0 .. k \in FiniteSubsetsOf(Nat)
        OBVIOUS
      <3>1. k \in Nat /\ 0 .. k \in SUBSET Nat
        BY <1>1
      <3> QED
        BY <3>1, FS_Interval DEF FiniteSubsetsOf
    <2>3. T # {}
      BY <1>2
    <2>4. PICK X \in T : \A Y \in T : ~ (<<Y, X>> \in R)
      <3> HIDE DEF T, R
      <3> QED
        BY <2>1, <2>2, <2>3, WFMin
    <2>5. PICK k \in K : X = 0 .. k
      OBVIOUS
    <2>6. ASSUME NEW j \in 0 .. k - 1 PROVE <<s, j>> \in D
      <3> SUFFICES ASSUME j \in K PROVE FALSE
        BY <1>1
      <3>1. 0 .. j \subseteq 0 .. k /\ 0 .. j # 0 .. k
        <4>1. k \in 0 .. k /\ k \notin 0 .. j
          BY <1>1
        <4> QED
          BY <4>1, <1>1
      <3>2. <<0 .. j, X>> \in R
        BY <2>5, <3>1, <1>1 DEF StrictSubsetOrdering
      <3> QED
        BY <3>2, <2>4
    <2> QED
      BY <2>6
  <1>4. FreeName(F, s) = <<s, CHOOSE k \in 0 .. n : First(k)>>
    BY DEF FreeName
  <1>5. PICK k \in 0 .. n : First(k) /\ FreeName(F, s) = <<s, k>>
    <2> HIDE DEF First
    <2> QED
      BY <1>3, <1>4
  <1> QED
    BY <1>1, <1>5 DEF ImageNames

-----------------------------------------------------------------------------
(***************************************************************************)
(* Each change of the tree makes good folders of good folders.             *)
(***************************************************************************)
LEMMA FolderChanged ==
  ASSUME GoodFolders, NEW c \in DOMAIN folders, NEW F \in Folder, IsFiniteSet(DOMAIN F.images),
         folders' = [folders EXCEPT ![c] = F]
  PROVE  GoodFolders'
  BY DEF GoodFolders, Finite

LEMMA TwoChanged ==
  ASSUME GoodFolders, NEW c \in DOMAIN folders, NEW d \in DOMAIN folders, c # d,
         NEW F \in Folder, IsFiniteSet(DOMAIN F.images), NEW G \in Folder, IsFiniteSet(DOMAIN G.images),
         folders' = [folders EXCEPT ![c] = F, ![d] = G]
  PROVE  GoodFolders'
  BY DEF GoodFolders, Finite

LEMMA FolderAdded ==
  ASSUME GoodFolders, NEW c \in Directories, NEW T \in SUBSET Handlers,
         folders' = WithFolder(c, [images |-> NoImages, snapshots |-> {}, temporaries |-> T])
  PROVE  GoodFolders'
  <1> DEFINE F == [images |-> NoImages, snapshots |-> {}, temporaries |-> T]
  <1>1. F \in Folder /\ DOMAIN F.images = {}
    <2>1. NoImages \in [{} -> Contents \cup {Torn}] /\ DOMAIN NoImages = {}
      BY DEF NoImages
    <2> QED
      BY <2>1 DEF Folder
  <1>2. IsFiniteSet(DOMAIN folders \cup {c}) /\ IsFiniteSet({})
    BY FS_AddElement, FS_EmptySet DEF GoodFolders, Finite
  <1> HIDE DEF F
  <1>3. folders' = [d \in DOMAIN folders \cup {c} |-> IF d = c THEN F ELSE folders[d]]
    BY DEF F, WithFolder
  <1> QED
    BY <1>1, <1>2, <1>3 DEF GoodFolders, Finite

LEMMA FolderRenamed ==
  ASSUME GoodFolders, NEW c \in DOMAIN folders, NEW d \in Directories,
         folders' = [e \in (DOMAIN folders \ {c}) \cup {d} |-> IF e = d THEN folders[c] ELSE folders[e]]
  PROVE  GoodFolders'
  <1>1. IsFiniteSet(DOMAIN folders \ {c})
    BY FS_RemoveElement DEF GoodFolders, Finite
  <1>2. IsFiniteSet((DOMAIN folders \ {c}) \cup {d})
    BY <1>1, FS_AddElement
  <1> QED
    BY <1>2 DEF GoodFolders, Finite

LEMMA FolderRemoved ==
  ASSUME GoodFolders, NEW c, folders' = WithoutFolder(c)
  PROVE  GoodFolders'
  <1>1. IsFiniteSet(DOMAIN folders \ {c})
    BY FS_RemoveElement DEF GoodFolders, Finite
  <1>2. folders' = [d \in DOMAIN folders \ {c} |-> folders[d]]
    BY DEF WithoutFolder, Restrict
  <1> QED
    BY <1>1, <1>2 DEF GoodFolders, Finite

LEMMA WithImageFinite ==
  ASSUME NEW F \in Folder, IsFiniteSet(DOMAIN F.images), NEW f \in ImageNames, NEW x \in Contents \cup {Torn}
  PROVE  IsFiniteSet(DOMAIN WithImage(F, f, x).images)
  <1>1. DOMAIN WithImage(F, f, x).images = DOMAIN F.images \cup {f}
    BY WithImageFields
  <1> QED
    BY <1>1, FS_AddElement

LEMMA WithoutImageFinite ==
  ASSUME NEW F \in Folder, IsFiniteSet(DOMAIN F.images), NEW f
  PROVE  IsFiniteSet(DOMAIN WithoutImage(F, f).images)
  <1>1. DOMAIN WithoutImage(F, f).images = DOMAIN F.images \ {f}
    BY WithoutImageFields
  <1> QED
    BY <1>1, FS_RemoveElement

LEMMA TemporaryFields ==
  ASSUME NEW F \in Folder, NEW h \in Handlers
  PROVE  /\ LET G == WithTemporary(F, h) IN
               G \in Folder /\ G.images = F.images /\ G.snapshots = F.snapshots
               /\ G.temporaries = F.temporaries \cup {h}
         /\ LET G == WithoutTemporary(F, h) IN
               G \in Folder /\ G.images = F.images /\ G.snapshots = F.snapshots
               /\ G.temporaries = F.temporaries \ {h}
  BY DEF Folder, WithTemporary, WithoutTemporary

(***************************************************************************)
(* Each step of a handler makes a task of its task, and takes the loop     *)
(* from nobody.                                                            *)
(***************************************************************************)
LoopMoves(h) == loop' = loop \/ (loop \in {None, h} /\ loop' \in {None, h})

Moves(h) ==
    /\ handlers' \in [Handlers -> Task]
    /\ Fits(handlers'[h])
    /\ HasLoop(h)'
    /\ \A g \in Handlers \ {h} : handlers'[g] = handlers[g]
    /\ LoopMoves(h)

LEMMA TaskMoves ==
  ASSUME TypeOK, NEW h \in Handlers, NEW t \in Task, handlers' = [handlers EXCEPT ![h] = t], Fits(t),
         LoopMoves(h), t.pc \in {"replacing", "publishing"} => loop' = h
  PROVE  Moves(h)
  BY DEF TypeOK, Moves, HasLoop

LEMMA SoundMoves ==
  ASSUME Sound, NEW h \in Handlers, Moves(h), GoodFolders', metadata' \in Counts
  PROVE  Sound'
  <1>1. loop' \in Handlers \cup {None}
    BY DEF Sound, TypeOK, Moves, LoopMoves
  <1>2. ASSUME NEW g \in Handlers PROVE Fits(handlers'[g]) /\ HasLoop(g)'
    <2>1. CASE g = h
      BY <2>1 DEF Moves
    <2>2. CASE g # h
      BY <2>2, NoneAssumption DEF Sound, Moves, LoopMoves, HasLoop
    <2> QED
      BY <2>1, <2>2
  <1> QED
    BY <1>1, <1>2 DEF Sound, TypeOK, GoodFolders, Moves

LEMMA IdleTask ==
  /\ Idle \in Task /\ Fits(Idle) /\ Idle.pc = "idle" /\ Idle.answer = None
  /\ [Idle EXCEPT !.answer = "ok"] \in Task /\ Fits([Idle EXCEPT !.answer = "ok"])
  /\ [Idle EXCEPT !.answer = "ok"].pc = "idle"
  <1> DEFINE t == [Idle EXCEPT !.answer = "ok"]
  <1>1. Idle \in Task /\ Idle.pc = "idle" /\ Idle.answer = None
    BY DEF Idle, Task
  <1>2. t \in Task /\ t.pc = "idle"
    <2>1. Idle \in Task /\ Idle.pc = "idle"
      BY <1>1
    <2> QED
      BY <2>1 DEF Task
  <1> HIDE DEF t
  <1>3. Fits(Idle) /\ Fits(t)
    BY <1>1, <1>2 DEF Fits
  <1> QED
    BY <1>1, <1>2, <1>3 DEF t

LEMMA RaiseMoves ==
  ASSUME Sound, NEW h \in Handlers, Raise(h), OnLoop(h) => loop \in {None, h}
  PROVE  Moves(h) /\ GoodFolders' /\ metadata' \in Counts
  <1>1. LoopMoves(h)
    BY DEF Raise, GiveWay, LoopMoves
  <1>2. Moves(h)
    BY <1>1, TaskMoves, IdleTask DEF Sound, Raise
  <1> QED
    BY <1>2 DEF Raise, Sound, TypeOK, GoodFolders, Finite

LEMMA GotoMoves ==
  ASSUME Sound, NEW h \in Handlers,
         NEW pc \in {"idle", "checking", "changing", "listing", "unlinking", "choosing", "replacing", "opening",
                     "copying", "preparing", "publishing", "scanning", "writing"},
         Goto(h, pc), LoopMoves(h), Fits([handlers[h] EXCEPT !.pc = pc]),
         pc \in {"replacing", "publishing"} => loop' = h
  PROVE  Moves(h)
  <1> DEFINE t == [handlers[h] EXCEPT !.pc = pc]
  <1>1. handlers[h] \in Task /\ handlers \in [Handlers -> Task]
    BY DEF Sound, TypeOK
  <1>2. t \in Task /\ t.pc = pc
    BY <1>1 DEF Task
  <1>3. handlers' = [handlers EXCEPT ![h] = t]
    BY <1>1 DEF Goto
  <1> HIDE DEF t
  <1>4. Fits(t)
    BY DEF t
  <1> QED
    BY <1>2, <1>3, <1>4, TaskMoves DEF Sound

-----------------------------------------------------------------------------
(***************************************************************************)
(* Every step keeps folders, tasks and the loop sound.                     *)
(***************************************************************************)
LEMMA Parts ==
  ASSUME Sound
  PROVE  /\ GoodFolders /\ metadata \in Counts /\ handlers \in [Handlers -> Task]
         /\ \A h \in Handlers : handlers[h] \in Task /\ Fits(handlers[h]) /\ HasLoop(h)
  BY DEF Sound, TypeOK, GoodFolders

LEMMA TaskFields ==
  ASSUME NEW t \in Task
  PROVE  /\ t.pc \in {"idle", "checking", "changing", "listing", "unlinking", "choosing", "replacing", "opening",
                      "copying", "preparing", "publishing", "scanning", "writing"}
         /\ t.request \in Requests \cup {None} /\ t.left \in Seq(Items) /\ t.file \in ImageNames \cup {None}
         /\ t.listed \in SUBSET ImageNames /\ t.counts \in Counts \cup {None} /\ t.answer \in {None, "ok"}
  BY DEF Task

LEMMA GoodUnchanged ==
  ASSUME Sound, UNCHANGED folders
  PROVE  GoodFolders'
  BY DEF Sound, TypeOK, GoodFolders, Finite

LEMMA RaiseSound ==
  ASSUME Sound, NEW h \in Handlers, Raise(h), OnLoop(h) => loop \in {None, h}
  PROVE  Sound'
  BY RaiseMoves, SoundMoves

\* A request that is not on the loop leaves it alone.
LEMMA OffLoop ==
  ASSUME Sound, NEW h \in Handlers,
         handlers[h].pc \in {"changing", "listing", "unlinking", "opening", "copying"}
  PROVE  ~ OnLoop(h)
  BY Parts DEF Fits, OnLoop, Request

LEMMA AskSound ==
  ASSUME Sound, NEW h \in Handlers, Ask(h)
  PROVE  Sound'
  <1>1. PICK r \in Requests, batch \in Batches \cup {<<>>} :
            handlers' = [handlers EXCEPT ![h] = [Idle EXCEPT !.pc = "checking", !.request = r, !.left = batch]]
    BY DEF Ask
  <1> DEFINE t == [Idle EXCEPT !.pc = "checking", !.request = r, !.left = batch]
  <1>2. batch \in Seq(Items)
    <2>1. ASSUME NEW p \in (Stems \X Contents) \X Items PROVE p \in Seq(Items)
      <3>1. p = <<p[1], p[2]>> /\ p[1] \in Items /\ p[2] \in Items
        BY DEF Items
      <3>2. \A a, b \in Items : <<a, b>> \in Seq(Items)
        OBVIOUS
      <3> QED
        BY <3>1, <3>2, Zenon
    <2>2. ASSUME NEW item \in Items PROVE <<item>> \in Seq(Items)
      OBVIOUS
    <2>3. <<>> \in Seq(Items)
      OBVIOUS
    <2> QED
      BY <2>1, <2>2, <2>3 DEF Batches
  <1>3. Idle \in Task /\ Idle.answer = None
    BY IdleTask
  <1>4. t \in Task /\ t.pc = "checking" /\ t.request = r /\ t.answer = None
    BY <1>2, <1>3 DEF Task
  <1> HIDE DEF t
  <1>5. Fits(t)
    BY <1>4 DEF Fits
  <1>6. Moves(h)
    BY <1>1, <1>4, <1>5, TaskMoves DEF Sound, t, Ask, LoopMoves
  <1> QED
    BY <1>6, GoodUnchanged, SoundMoves DEF Ask, Sound, TypeOK

LEMMA CheckSound ==
  ASSUME Sound, NEW h \in Handlers, Check(h)
  PROVE  Sound'
  <1>1. CASE ~ Valid(Request(h))
    BY <1>1, RaiseSound DEF Check, Runs
  <1>2. CASE Valid(Request(h))
    <2> DEFINE pc == AfterCheck(Request(h))
               t == [handlers[h] EXCEPT !.pc = pc]
    <2>1. Goto(h, pc) /\ UNCHANGED <<folders, metadata, loop>> /\ handlers[h].pc = "checking"
      BY <1>2 DEF Check, At
    <2>2. Request(h) \in Requests /\ handlers[h].answer = None
      BY <2>1, Parts DEF Fits, Request
    <2>3. /\ pc \in {"choosing", "listing", "preparing", "changing"}
          /\ pc = "changing" => Request(h).kind \notin {"upload", "import", "snapshot", "delete"}
          /\ pc = "listing" => Request(h).kind = "delete"
          /\ pc = "choosing" => Request(h).kind \in {"upload", "import"}
          /\ pc = "preparing" => Request(h).kind = "snapshot"
      BY <2>2, RequestFields DEF AfterCheck
    <2>4. t.pc = pc /\ t.request = Request(h) /\ t.answer = None
      BY <2>2, Parts DEF Task, Request
    <2>5. Fits(t)
      <3> HIDE DEF t, pc
      <3> QED
        BY <2>2, <2>3, <2>4 DEF Fits
    <2>6. Moves(h)
      <3> HIDE DEF pc
      <3> QED
        BY <2>1, <2>3, <2>5, GotoMoves DEF LoopMoves
    <2> QED
      BY <2>1, <2>6, GoodUnchanged, SoundMoves, Parts
  <1> QED
    BY <1>1, <1>2

\* A change of the tree by one system call is followed by the scan.
LEMMA ScanningMoves ==
  ASSUME Sound, NEW h \in Handlers, Goto(h, "scanning"), handlers[h].pc # "idle", LoopMoves(h)
  PROVE  Moves(h)
  <1> DEFINE t == [handlers[h] EXCEPT !.pc = "scanning"]
  <1>1. t.pc = "scanning" /\ t.request \in Requests /\ t.answer = None
    BY Parts DEF Task, Fits
  <1> HIDE DEF t
  <1>2. Fits(t)
    BY <1>1 DEF Fits
  <1> QED
    BY <1>2, GotoMoves DEF t

LEMMA CreateSound ==
  ASSUME Sound, NEW h \in Handlers, Create(h)
  PROVE  Sound'
  <1> DEFINE c == Request(h).category
  <1>1. ~ OnLoop(h) /\ Request(h) \in Requests /\ handlers[h].pc # "idle"
    BY OffLoop, Parts DEF Create, At, Fits, Request
  <1>2. CASE c \in DOMAIN folders
    BY <1>1, <1>2, RaiseSound DEF Create
  <1>3. CASE c \notin DOMAIN folders
    <2>1. /\ folders' = WithFolder(c, [images |-> NoImages, snapshots |-> {}, temporaries |-> {}])
          /\ Goto(h, "scanning") /\ UNCHANGED <<metadata, loop>>
      BY <1>3 DEF Create
    <2>2. c \in Directories
      BY <1>1, RequestFields
    <2>3. GoodFolders'
      <3> HIDE DEF c
      <3> QED
        BY <2>1, <2>2, FolderAdded, Parts
    <2>4. Moves(h)
      BY <1>1, <2>1, ScanningMoves DEF LoopMoves
    <2> QED
      BY <2>1, <2>3, <2>4, SoundMoves, Parts
  <1> QED
    BY <1>2, <1>3

LEMMA RenameFolderSound ==
  ASSUME Sound, NEW h \in Handlers, RenameFolder(h)
  PROVE  Sound'
  <1> DEFINE r == Request(h)
  <1>1. ~ OnLoop(h) /\ r \in Requests /\ r.kind = "rename" /\ handlers[h].pc # "idle"
    BY OffLoop, Parts DEF RenameFolder, At, Fits, Request
  <1>2. CASE Raise(h)
    BY <1>1, <1>2, RaiseSound
  <1>3. CASE ~ Raise(h)
    <2>1. /\ r.category \in DOMAIN folders
          /\ folders' = [d \in (DOMAIN folders \ {r.category}) \cup {r.to} |->
                            IF d = r.to THEN folders[r.category] ELSE folders[d]]
          /\ Goto(h, "scanning") /\ UNCHANGED <<metadata, loop>>
      BY <1>3 DEF RenameFolder
    <2>2. r.to \in Directories
      BY <1>1, RequestFields
    <2>3. GoodFolders'
      BY <2>1, <2>2, FolderRenamed, Parts
    <2>4. Moves(h)
      BY <1>1, <2>1, ScanningMoves DEF LoopMoves
    <2> QED
      BY <2>1, <2>3, <2>4, SoundMoves, Parts
  <1> QED
    BY <1>2, <1>3

LEMMA DeleteImageSound ==
  ASSUME Sound, NEW h \in Handlers, DeleteImage(h)
  PROVE  Sound'
  <1> DEFINE r == Request(h)
             F == WithoutImage(folders[r.category], r.file)
  <1>1. ~ OnLoop(h) /\ r \in Requests /\ handlers[h].pc # "idle"
    BY OffLoop, Parts DEF DeleteImage, At, Fits, Request
  <1>2. CASE Raise(h)
    BY <1>1, <1>2, RaiseSound
  <1>3. CASE ~ Raise(h)
    <2>1. /\ Has(r.category, r.file)
          /\ folders' = [folders EXCEPT ![r.category] = F]
          /\ Goto(h, "scanning") /\ UNCHANGED <<metadata, loop>>
      BY <1>3 DEF DeleteImage
    <2>2. r.category \in DOMAIN folders
      BY <2>1, HasMeans
    <2>3. F \in Folder /\ IsFiniteSet(DOMAIN F.images)
      BY <2>2, WithoutImageFields, WithoutImageFinite, Parts DEF GoodFolders, Finite
    <2>4. GoodFolders'
      <3> HIDE DEF F, r
      <3> QED
        BY <2>1, <2>2, <2>3, FolderChanged, Parts
    <2>5. Moves(h)
      BY <1>1, <2>1, ScanningMoves DEF LoopMoves
    <2> QED
      BY <2>1, <2>4, <2>5, SoundMoves, Parts
  <1> QED
    BY <1>2, <1>3

LEMMA RenameImageSound ==
  ASSUME Sound, NEW h \in Handlers, RenameImage(h)
  PROVE  Sound'
  <1> DEFINE r == Request(h)
             F == WithoutImage(folders[r.category], r.file)
             G == WithImage(F, r.to, folders[r.category].images[r.file])
  <1>1. ~ OnLoop(h) /\ r \in Requests /\ r.kind = "renameImage" /\ handlers[h].pc # "idle"
    BY OffLoop, Parts DEF RenameImage, At, Fits, Request
  <1>2. CASE Raise(h)
    BY <1>1, <1>2, RaiseSound
  <1>3. CASE ~ Raise(h)
    <2>1. Has(r.category, r.file) /\ Goto(h, "scanning") /\ UNCHANGED <<metadata, loop>>
      BY <1>3 DEF RenameImage
    <2>2. r.category \in DOMAIN folders /\ r.file \in DOMAIN folders[r.category].images
      BY <2>1, HasMeans
    <2>3. folders' = [folders EXCEPT ![r.category] = G]
      BY <1>3, <2>2 DEF RenameImage
    <2>4. folders[r.category] \in Folder /\ IsFiniteSet(DOMAIN folders[r.category].images)
      BY <2>2, Parts DEF GoodFolders, Finite
    <2>5. F \in Folder /\ IsFiniteSet(DOMAIN F.images)
      BY <2>4, WithoutImageFields, WithoutImageFinite
    <2>6. r.to \in ImageNames /\ folders[r.category].images[r.file] \in Contents \cup {Torn}
      BY <1>1, <2>2, <2>4, RequestFields, FolderFields
    <2>7. G \in Folder /\ IsFiniteSet(DOMAIN G.images)
      <3> HIDE DEF F, r
      <3> QED
        BY <2>5, <2>6, WithImageFields, WithImageFinite
    <2>8. GoodFolders'
      <3> HIDE DEF G, r
      <3> QED
        BY <2>2, <2>3, <2>7, FolderChanged, Parts
    <2>9. Moves(h)
      BY <1>1, <2>1, ScanningMoves DEF LoopMoves
    <2> QED
      BY <2>1, <2>8, <2>9, SoundMoves, Parts
  <1> QED
    BY <1>2, <1>3

LEMMA MoveImageSound ==
  ASSUME Sound, NEW h \in Handlers, MoveImage(h)
  PROVE  Sound'
  <1> DEFINE r == Request(h)
             F == WithoutImage(folders[r.category], r.file)
             G == WithImage(folders[r.to], r.file, folders[r.category].images[r.file])
  <1>1. ~ OnLoop(h) /\ r \in Requests /\ r.kind = "moveImage" /\ handlers[h].pc # "idle"
    BY OffLoop, Parts DEF MoveImage, At, Fits, Request
  <1>2. CASE Raise(h)
    BY <1>1, <1>2, RaiseSound
  <1>3. CASE ~ Raise(h)
    <2>1. Has(r.category, r.file) /\ r.to \in DOMAIN folders /\ Goto(h, "scanning") /\ UNCHANGED <<metadata, loop>>
      BY <1>3 DEF MoveImage
    <2>2. r.category \in DOMAIN folders /\ r.file \in DOMAIN folders[r.category].images
      BY <2>1, HasMeans
    <2>3. r.to # r.category /\ r.file \in ImageNames
      BY <1>1, RequestFields
    <2>4. folders' = [folders EXCEPT ![r.category] = F, ![r.to] = G]
      BY <1>3, <2>1, <2>2, <2>3 DEF MoveImage
    <2>5. /\ folders[r.category] \in Folder /\ IsFiniteSet(DOMAIN folders[r.category].images)
          /\ folders[r.to] \in Folder /\ IsFiniteSet(DOMAIN folders[r.to].images)
      BY <2>1, <2>2, Parts DEF GoodFolders, Finite
    <2>6. F \in Folder /\ IsFiniteSet(DOMAIN F.images)
      BY <2>5, WithoutImageFields, WithoutImageFinite
    <2>7. folders[r.category].images[r.file] \in Contents \cup {Torn}
      BY <2>2, <2>5, FolderFields
    <2>8. G \in Folder /\ IsFiniteSet(DOMAIN G.images)
      <3> HIDE DEF r
      <3> QED
        BY <2>3, <2>5, <2>7, WithImageFields, WithImageFinite
    <2>9. GoodFolders'
      <3> HIDE DEF F, G, r
      <3> QED
        BY <2>1, <2>2, <2>3, <2>4, <2>6, <2>8, TwoChanged, Parts
    <2>10. Moves(h)
      BY <1>1, <2>1, ScanningMoves DEF LoopMoves
    <2> QED
      BY <2>1, <2>9, <2>10, SoundMoves, Parts
  <1> QED
    BY <1>2, <1>3

LEMMA ListedTask ==
  ASSUME NEW u \in Task, NEW S \in SUBSET ImageNames
  PROVE  LET t == [u EXCEPT !.pc = "unlinking", !.listed = S] IN
         t \in Task /\ t.pc = "unlinking" /\ t.request = u.request /\ t.answer = u.answer
  BY DEF Task

LEMMA ListSound ==
  ASSUME Sound, NEW h \in Handlers, List(h)
  PROVE  Sound'
  <1> DEFINE c == Request(h).category
             t == [handlers[h] EXCEPT !.pc = "unlinking", !.listed = DOMAIN folders[c].images]
  <1>1. ~ OnLoop(h) /\ Request(h) \in Requests /\ Request(h).kind = "delete" /\ handlers[h].answer = None
    BY OffLoop, Parts DEF List, At, Fits, Request
  <1>2. CASE Raise(h)
    BY <1>1, <1>2, RaiseSound
  <1>3. CASE ~ Raise(h)
    <2>1. c \in DOMAIN folders /\ UNCHANGED <<folders, metadata, loop>>
      BY <1>3 DEF List
    <2>2. handlers' = [handlers EXCEPT ![h] = t]
      BY <1>3, Parts DEF List
    <2>3. DOMAIN folders[c].images \in SUBSET ImageNames
      BY <2>1, FolderFields, Parts DEF GoodFolders
    <2>4. t \in Task /\ t.pc = "unlinking" /\ t.request = Request(h) /\ t.answer = None
      <3> DEFINE S == DOMAIN folders[c].images
      <3> HIDE DEF S
      <3>1. S \in SUBSET ImageNames
        BY <2>3 DEF S
      <3> QED
        BY <1>1, <3>1, ListedTask, Parts DEF Request, S
    <2> HIDE DEF t
    <2>5. Fits(t)
      BY <1>1, <2>4 DEF Fits
    <2>6. Moves(h)
      BY <2>1, <2>2, <2>4, <2>5, TaskMoves DEF LoopMoves, Sound
    <2> QED
      BY <2>1, <2>6, GoodUnchanged, SoundMoves, Parts
  <1> QED
    BY <1>2, <1>3

LEMMA UnlinkSound ==
  ASSUME Sound, NEW h \in Handlers, Unlink(h)
  PROVE  Sound'
  <1> DEFINE c == Request(h).category
  <1>1. ~ OnLoop(h) /\ Request(h) \in Requests /\ Request(h).kind = "delete" /\ handlers[h].answer = None
        /\ handlers[h].pc = "unlinking"
    BY OffLoop, Parts DEF Unlink, At, Fits, Request
  <1>2. CASE Raise(h)
    BY <1>1, <1>2, RaiseSound
  <1>3. CASE ~ Raise(h)
    <2>1. PICK f \in handlers[h].listed :
             /\ Has(c, f)
             /\ folders' = [folders EXCEPT ![c] = WithoutImage(folders[c], f)]
             /\ handlers' = [handlers EXCEPT ![h].listed = handlers[h].listed \ {f}]
             /\ UNCHANGED <<metadata, loop>>
      BY <1>3, Parts DEF Unlink
    <2> DEFINE F == WithoutImage(folders[c], f)
               t == [handlers[h] EXCEPT !.pc = "unlinking", !.listed = handlers[h].listed \ {f}]
    <2>2. handlers' = [handlers EXCEPT ![h] = t]
      <3>1. t = [handlers[h] EXCEPT !.listed = handlers[h].listed \ {f}]
        BY <1>1, Parts DEF Task
      <3> HIDE DEF t
      <3> QED
        BY <2>1, <3>1, Parts
    <2>3. t \in Task /\ t.pc = "unlinking" /\ t.request = Request(h) /\ t.answer = None
      <3> DEFINE S == handlers[h].listed \ {f}
      <3>1. S \in SUBSET ImageNames
        BY TaskFields, Parts
      <3> HIDE DEF S
      <3> QED
        BY <1>1, <3>1, ListedTask, Parts DEF Request, S
    <2>4. c \in DOMAIN folders
      BY <2>1, HasMeans
    <2>5. F \in Folder /\ IsFiniteSet(DOMAIN F.images)
      BY <2>4, WithoutImageFields, WithoutImageFinite, Parts DEF GoodFolders, Finite
    <2> HIDE DEF t
    <2>6. Fits(t)
      BY <1>1, <2>3 DEF Fits
    <2>7. Moves(h)
      BY <2>1, <2>2, <2>3, <2>6, TaskMoves DEF LoopMoves, Sound
    <2>8. GoodFolders'
      <3> HIDE DEF F, c
      <3> QED
        BY <2>1, <2>4, <2>5, FolderChanged, Parts DEF F
    <2> QED
      BY <2>1, <2>7, <2>8, SoundMoves, Parts
  <1> QED
    BY <1>2, <1>3

LEMMA RemoveFolderSound ==
  ASSUME Sound, NEW h \in Handlers, RemoveFolder(h)
  PROVE  Sound'
  <1> DEFINE c == Request(h).category
  <1>1. ~ OnLoop(h) /\ handlers[h].pc = "unlinking"
    BY OffLoop DEF RemoveFolder, At
  <1>2. CASE Raise(h)
    BY <1>1, <1>2, RaiseSound
  <1>3. CASE ~ Raise(h)
    <2>1. folders' = WithoutFolder(c) /\ Goto(h, "scanning") /\ UNCHANGED <<metadata, loop>>
      BY <1>3 DEF RemoveFolder
    <2>2. GoodFolders'
      BY <2>1, FolderRemoved, Parts
    <2>3. Moves(h)
      BY <1>1, <2>1, ScanningMoves DEF LoopMoves
    <2> QED
      BY <2>1, <2>2, <2>3, SoundMoves, Parts
  <1> QED
    BY <1>2, <1>3

LEMMA LeftTask ==
  ASSUME NEW u \in Task, NEW s \in Seq(Items)
  PROVE  LET t == [u EXCEPT !.pc = "choosing", !.left = s, !.file = None] IN
         t \in Task /\ t.pc = "choosing" /\ t.request = u.request /\ t.answer = u.answer
  BY DEF Task

LEMMA CountsTask ==
  ASSUME NEW u \in Task, NEW n \in Counts
  PROVE  LET t == [u EXCEPT !.pc = "writing", !.counts = n] IN
         t \in Task /\ t.pc = "writing" /\ t.counts = n /\ t.request = u.request /\ t.answer = u.answer
  BY DEF Task

LEMMA ItemsOf ==
  ASSUME NEW s \in Seq(Items), s # <<>>
  PROVE  /\ Head(s) \in Items /\ Tail(s) \in Seq(Items)
         /\ Head(s)[1] \in Stems
         /\ Head(s)[2] # Refused => Head(s) \in Stems \X Contents
  <1>1. Head(s) \in Items /\ Tail(s) \in Seq(Items)
    OBVIOUS
  <1> QED
    BY <1>1 DEF Items

\* What a handler that is not on the loop, or takes it, may do with it.
LEMMA LoopKept ==
  ASSUME NEW h \in Handlers, Runs(h), Keep(h) \/ GiveWay(h)
  PROVE  LoopMoves(h)
  BY DEF Runs, Keep, GiveWay, LoopMoves

LEMMA ChooseSound ==
  ASSUME Sound, NEW h \in Handlers, Choose(h)
  PROVE  Sound'
  <1> DEFINE c == Request(h).category
             item == Head(handlers[h].left)
             name == FreeName(folders[c], item[1])
             pc == IF OnLoop(h) THEN "replacing" ELSE "opening"
             t == [handlers[h] EXCEPT !.pc = pc, !.file = name]
             F == IF OnLoop(h) THEN WithTemporary(folders[c], h) ELSE folders[c]
  <1>1. /\ Request(h) \in Requests /\ Request(h).kind \in {"upload", "import"} /\ handlers[h].answer = None
        /\ handlers[h].left # <<>> /\ handlers[h].left \in Seq(Items) /\ Runs(h)
    BY Parts, TaskFields DEF Choose, At, Fits, Request
  <1>2. CASE Raise(h)
    BY <1>1, <1>2, RaiseSound DEF Runs
  <1>3. CASE ~ Raise(h)
    <2>1. item[2] # Refused /\ c \in DOMAIN folders /\ Keep(h) /\ metadata' = metadata
      BY <1>3 DEF Choose
    <2>2. folders' = [folders EXCEPT ![c] = F]
      BY <1>3, <2>1, Parts DEF Choose, GoodFolders
    <2>3. handlers' = [handlers EXCEPT ![h] = t]
      <3>1. handlers' = [handlers EXCEPT ![h].pc = pc, ![h].file = name]
        BY <1>3 DEF Choose
      <3> HIDE DEF pc, name
      <3> QED
        BY <3>1, Parts
    <2>4. item[1] \in Stems /\ item \in Stems \X Contents
      BY <1>1, <2>1, ItemsOf
    <2>5. folders[c] \in Folder /\ IsFiniteSet(DOMAIN folders[c].images)
      BY <2>1, Parts DEF GoodFolders, Finite
    <2>6. name \in ImageNames
      <3> HIDE DEF c, item
      <3> QED
        BY <2>4, <2>5, FreeNameIsFree
    <2>7. F \in Folder /\ IsFiniteSet(DOMAIN F.images)
      <3> HIDE DEF c, name
      <3>1. CASE OnLoop(h)
        BY <3>1, <2>5, TemporaryFields
      <3>2. CASE ~ OnLoop(h)
        BY <3>2, <2>5
      <3> QED
        BY <3>1, <3>2
    <2>8. GoodFolders'
      <3> HIDE DEF F, c
      <3> QED
        BY <2>1, <2>2, <2>7, FolderChanged, Parts
    <2>9. /\ pc \in {"replacing", "opening"} /\ (pc = "replacing" <=> Request(h).kind = "upload")
          /\ pc = "replacing" => loop' = h
      BY <1>1, <2>1 DEF OnLoop, Keep
    <2>10. /\ t \in Task /\ t.pc = pc /\ t.file = name /\ t.left = handlers[h].left /\ t.request = Request(h)
           /\ t.answer = None
      <3>1. handlers[h] \in Task
        BY Parts
      <3>2. pc \in {"replacing", "opening"}
        BY <2>9
      <3> HIDE DEF pc, name
      <3>3. t \in Task /\ t.pc = pc /\ t.file = name /\ t.left = handlers[h].left
            /\ t.request = handlers[h].request /\ t.answer = handlers[h].answer
        BY <2>6, <3>1, <3>2 DEF Task
      <3> QED
        BY <1>1, <3>3 DEF Request
    <2>11. Fits(t)
      <3> HIDE DEF t, pc, name
      <3> QED
        BY <1>1, <2>4, <2>6, <2>9, <2>10 DEF Fits
    <2>12. Moves(h)
      <3> HIDE DEF t, pc
      <3> QED
        BY <1>1, <2>1, <2>3, <2>9, <2>10, <2>11, TaskMoves, LoopKept DEF Sound
    <2> QED
      BY <2>1, <2>8, <2>12, SoundMoves, Parts
  <1> QED
    BY <1>2, <1>3

\* The file that was being written is there; the next one is chosen.
LEMMA NextItemMoves ==
  ASSUME Sound, NEW h \in Handlers, handlers[h].pc \in {"replacing", "copying"}, LoopMoves(h),
         handlers' = [handlers EXCEPT ![h].pc = "choosing", ![h].left = Tail(handlers[h].left), ![h].file = None]
  PROVE  Moves(h)
  <1> DEFINE s == Tail(handlers[h].left)
             t == [handlers[h] EXCEPT !.pc = "choosing", !.left = s, !.file = None]
  <1>1. /\ Request(h) \in Requests /\ Request(h).kind \in {"upload", "import"} /\ handlers[h].answer = None
        /\ handlers[h].left # <<>> /\ handlers[h].left \in Seq(Items)
    BY Parts, TaskFields DEF Fits, Request
  <1>2. s \in Seq(Items)
    BY <1>1, ItemsOf
  <1> HIDE DEF s
  <1>3. t \in Task /\ t.pc = "choosing" /\ t.request = Request(h) /\ t.answer = None
    BY <1>1, <1>2, LeftTask, Parts DEF Request
  <1>4. handlers' = [handlers EXCEPT ![h] = t]
    BY Parts DEF s
  <1> HIDE DEF t
  <1>5. Fits(t)
    BY <1>1, <1>3 DEF Fits
  <1> QED
    BY <1>3, <1>4, <1>5, TaskMoves DEF Sound

LEMMA ReplaceSound ==
  ASSUME Sound, NEW h \in Handlers, Replace(h)
  PROVE  Sound'
  <1> DEFINE c == Request(h).category
             x == Head(handlers[h].left)[2]
             f == handlers[h].file
             E == WithoutTemporary(folders[c], h)
             F == WithImage(E, f, x)
  <1>1. x \in Contents /\ f \in ImageNames /\ handlers[h].pc = "replacing" /\ Runs(h)
    BY Parts DEF Replace, At, Fits
  <1>2. CASE Raise(h)
    BY <1>1, <1>2, RaiseSound DEF Runs
  <1>3. CASE ~ Raise(h)
    <2>1. /\ c \in DOMAIN folders /\ GiveWay(h) /\ metadata' = metadata
          /\ handlers' = [handlers EXCEPT ![h].pc = "choosing", ![h].left = Tail(handlers[h].left), ![h].file = None]
      BY <1>3, Parts DEF Replace
    <2>2. folders' = [folders EXCEPT ![c] = F]
      BY <1>3, <2>1 DEF Replace
    <2>3. folders[c] \in Folder /\ IsFiniteSet(DOMAIN folders[c].images)
      BY <2>1, Parts DEF GoodFolders, Finite
    <2>4. E \in Folder /\ IsFiniteSet(DOMAIN E.images)
      BY <2>3, TemporaryFields
    <2>5. F \in Folder /\ IsFiniteSet(DOMAIN F.images)
      <3> HIDE DEF E, f, x
      <3> QED
        BY <1>1, <2>4, WithImageFields, WithImageFinite
    <2>6. GoodFolders'
      <3> HIDE DEF F, c
      <3> QED
        BY <2>1, <2>2, <2>5, FolderChanged, Parts
    <2>7. Moves(h)
      BY <1>1, <2>1, LoopKept, NextItemMoves
    <2> QED
      BY <2>1, <2>6, <2>7, SoundMoves, Parts
  <1> QED
    BY <1>2, <1>3

LEMMA OpenCopySound ==
  ASSUME Sound, NEW h \in Handlers, OpenCopy(h)
  PROVE  Sound'
  <1> DEFINE c == Request(h).category
             f == handlers[h].file
             F == WithImage(folders[c], f, Torn)
             t == [handlers[h] EXCEPT !.pc = "copying"]
  <1>1. f \in ImageNames /\ handlers[h].pc = "opening" /\ ~ OnLoop(h)
    BY OffLoop, Parts DEF OpenCopy, At, Fits
  <1>2. CASE Raise(h)
    BY <1>1, <1>2, RaiseSound
  <1>3. CASE ~ Raise(h)
    <2>1. /\ c \in DOMAIN folders /\ UNCHANGED <<metadata, loop>> /\ Goto(h, "copying")
          /\ folders' = [folders EXCEPT ![c] = F]
      BY <1>3 DEF OpenCopy
    <2>2. folders[c] \in Folder /\ IsFiniteSet(DOMAIN folders[c].images)
      BY <2>1, Parts DEF GoodFolders, Finite
    <2>3. F \in Folder /\ IsFiniteSet(DOMAIN F.images)
      <3> HIDE DEF c, f
      <3> QED
        BY <1>1, <2>2, WithImageFields, WithImageFinite
    <2>4. GoodFolders'
      <3> HIDE DEF F, c
      <3> QED
        BY <2>1, <2>3, FolderChanged, Parts
    <2>5. /\ t.pc = "copying" /\ t.request = handlers[h].request /\ t.answer = handlers[h].answer
          /\ t.left = handlers[h].left /\ t.file = f
      BY Parts DEF Task
    <2>6. Fits(t)
      <3> HIDE DEF t, f
      <3> QED
        BY <1>1, <2>5, Parts DEF Fits, f
    <2>7. Moves(h)
      BY <2>1, <2>6, GotoMoves DEF LoopMoves
    <2> QED
      BY <2>1, <2>4, <2>7, SoundMoves, Parts
  <1> QED
    BY <1>2, <1>3

LEMMA CopiedSound ==
  ASSUME Sound, NEW h \in Handlers, Copied(h)
  PROVE  Sound'
  <1> DEFINE c == Request(h).category
             x == Head(handlers[h].left)[2]
             f == handlers[h].file
             F == WithImage(folders[c], f, x)
  <1>1. x \in Contents /\ f \in ImageNames /\ handlers[h].pc = "copying" /\ ~ OnLoop(h)
    BY OffLoop, Parts DEF Copied, At, Fits
  <1>2. CASE Raise(h)
    BY <1>1, <1>2, RaiseSound
  <1>3. CASE ~ Raise(h)
    <2>1. /\ Has(c, f) /\ UNCHANGED <<metadata, loop>>
          /\ handlers' = [handlers EXCEPT ![h].pc = "choosing", ![h].left = Tail(handlers[h].left), ![h].file = None]
      BY <1>3, Parts DEF Copied
    <2>2. c \in DOMAIN folders
      BY <2>1, HasMeans
    <2>3. folders' = [folders EXCEPT ![c] = F]
      BY <1>3, <2>2 DEF Copied
    <2>4. folders[c] \in Folder /\ IsFiniteSet(DOMAIN folders[c].images)
      BY <2>2, Parts DEF GoodFolders, Finite
    <2>5. F \in Folder /\ IsFiniteSet(DOMAIN F.images)
      <3> HIDE DEF c, f, x
      <3> QED
        BY <1>1, <2>4, WithImageFields, WithImageFinite
    <2>6. GoodFolders'
      <3> HIDE DEF F, c
      <3> QED
        BY <2>2, <2>3, <2>5, FolderChanged, Parts
    <2>7. Moves(h)
      BY <1>1, <2>1, NextItemMoves DEF LoopMoves
    <2> QED
      BY <2>1, <2>6, <2>7, SoundMoves, Parts
  <1> QED
    BY <1>2, <1>3

LEMMA FailSound ==
  ASSUME Sound, NEW h \in Handlers, Fail(h)
  PROVE  Sound'
  BY RaiseSound DEF Fail, Runs

LEMMA AbandonSound ==
  ASSUME Sound, NEW h \in Handlers, Abandon(h)
  PROVE  Sound'
  <1> DEFINE c == Request(h).category
             F == WithoutTemporary(folders[c], h)
  <1>1. /\ Runs(h) /\ GiveWay(h) /\ c \in DOMAIN folders /\ metadata' = metadata
        /\ handlers' = [handlers EXCEPT ![h] = Idle] /\ folders' = [folders EXCEPT ![c] = F]
    BY DEF Abandon
  <1>2. folders[c] \in Folder /\ IsFiniteSet(DOMAIN folders[c].images)
    BY <1>1, Parts DEF GoodFolders, Finite
  <1>3. F \in Folder /\ IsFiniteSet(DOMAIN F.images)
    BY <1>2, TemporaryFields
  <1>4. GoodFolders'
    <2> HIDE DEF F, c
    <2> QED
      BY <1>1, <1>3, FolderChanged, Parts
  <1>5. Moves(h)
    BY <1>1, IdleTask, TaskMoves, LoopKept DEF Sound
  <1> QED
    BY <1>1, <1>4, <1>5, SoundMoves, Parts

LEMMA BatchDoneSound ==
  ASSUME Sound, NEW h \in Handlers, BatchDone(h)
  PROVE  Sound'
  <1>1. Moves(h)
    BY ScanningMoves, LoopKept DEF BatchDone, At
  <1> QED
    BY <1>1, GoodUnchanged, SoundMoves, Parts DEF BatchDone

LEMMA PrepareSound ==
  ASSUME Sound, NEW h \in Handlers, Prepare(h)
  PROVE  Sound'
  <1> DEFINE F == WithTemporary(folders[Preparations], h)
             t == [handlers[h] EXCEPT !.pc = "publishing"]
  <1>1. /\ Request(h) \in Requests /\ Request(h).kind = "snapshot" /\ handlers[h].answer = None /\ Runs(h)
        /\ Goto(h, "publishing") /\ Keep(h) /\ metadata' = metadata
    BY Parts DEF Prepare, At, Fits, Request
  <1>2. loop' = h
    BY <1>1 DEF Keep, OnLoop
  <1>3. t.pc = "publishing" /\ t.request = Request(h) /\ t.answer = None
    BY <1>1, Parts DEF Task, Request
  <1>4. Moves(h)
    <2> HIDE DEF t
    <2>1. Fits(t)
      BY <1>1, <1>3 DEF Fits
    <2> QED
      BY <1>1, <1>2, <2>1, LoopKept, GotoMoves DEF t
  <1>5. GoodFolders'
    <2>1. CASE Preparations \in DOMAIN folders
      <3>1. folders' = [folders EXCEPT ![Preparations] = F]
        BY <2>1 DEF Prepare
      <3>2. folders[Preparations] \in Folder /\ IsFiniteSet(DOMAIN folders[Preparations].images)
        BY <2>1, Parts DEF GoodFolders, Finite
      <3>3. F \in Folder /\ IsFiniteSet(DOMAIN F.images)
        BY <3>2, TemporaryFields
      <3> HIDE DEF F
      <3> QED
        BY <2>1, <3>1, <3>3, FolderChanged, Parts
    <2>2. CASE Preparations \notin DOMAIN folders
      <3>1. folders' = WithFolder(Preparations, [images |-> NoImages, snapshots |-> {}, temporaries |-> {h}])
        BY <2>2 DEF Prepare
      <3>2. Preparations \in Directories
        BY DEF Directories
      <3> QED
        BY <3>1, <3>2, FolderAdded, Parts
    <2> QED
      BY <2>1, <2>2
  <1> QED
    BY <1>1, <1>4, <1>5, SoundMoves, Parts

LEMMA PublishSound ==
  ASSUME Sound, NEW h \in Handlers, Publish(h)
  PROVE  Sound'
  <1> DEFINE P == folders[Preparations]
             E == WithoutTemporary(P, h)
             F == WithSnapshot(E, Request(h).snapshot)
  <1>1. Request(h) \in Requests /\ Request(h).kind = "snapshot" /\ Runs(h)
    BY Parts DEF Publish, At, Fits, Request
  <1>2. CASE Raise(h)
    BY <1>1, <1>2, RaiseSound DEF Runs
  <1>3. CASE ~ Raise(h)
    <2>1. /\ Preparations \in DOMAIN folders /\ GiveWay(h) /\ metadata' = metadata
          /\ handlers' = [handlers EXCEPT ![h] = [Idle EXCEPT !.answer = "ok"]]
          /\ folders' = [folders EXCEPT ![Preparations] = F]
      BY <1>3 DEF Publish
    <2>2. P \in Folder /\ IsFiniteSet(DOMAIN P.images) /\ Request(h).snapshot \in Snapshots
      BY <1>1, <2>1, RequestFields, Parts DEF GoodFolders, Finite
    <2>3. E \in Folder /\ E.images = P.images
      BY <2>2, TemporaryFields
    <2>4. F \in Folder /\ F.images = P.images
      <3> HIDE DEF E
      <3> QED
        BY <2>2, <2>3 DEF Folder, WithSnapshot
    <2>5. GoodFolders'
      <3> HIDE DEF F
      <3> QED
        BY <2>1, <2>2, <2>4, FolderChanged, Parts
    <2>6. Moves(h)
      BY <1>1, <2>1, IdleTask, TaskMoves, LoopKept DEF Sound
    <2> QED
      BY <2>1, <2>5, <2>6, SoundMoves, Parts
  <1> QED
    BY <1>2, <1>3

LEMMA ScanCounts ==
  ASSUME GoodFolders
  PROVE  Scan \in Counts
  <1>1. \A c \in DOMAIN folders : Cardinality(DOMAIN folders[c].images) \in Nat
    BY FS_CardinalityType DEF GoodFolders, Finite
  <1>2. DOMAIN folders \ {Preparations} \in SUBSET Categories
    BY DEF GoodFolders, Directories
  <1> DEFINE C == DOMAIN folders \ {Preparations}
  <1>3. Scan \in [C -> Nat]
    BY <1>1 DEF Scan
  <1> QED
    BY <1>2, <1>3 DEF Counts

LEMMA ScanFoldersSound ==
  ASSUME Sound, NEW h \in Handlers, ScanFolders(h)
  PROVE  Sound'
  <1> DEFINE t == [handlers[h] EXCEPT !.pc = "writing", !.counts = Scan]
  <1>1. Request(h) \in Requests /\ handlers[h].answer = None
    BY Parts DEF ScanFolders, At, Fits, Request
  <1>2. handlers' = [handlers EXCEPT ![h] = t]
    BY Parts DEF ScanFolders
  <1>3. t \in Task /\ t.pc = "writing" /\ t.request = Request(h) /\ t.answer = None /\ t.counts \in Counts
    BY <1>1, ScanCounts, CountsTask, Parts DEF Request
  <1> HIDE DEF t
  <1>4. Fits(t)
    BY <1>1, <1>3 DEF Fits
  <1>5. Moves(h)
    BY <1>2, <1>3, <1>4, TaskMoves DEF ScanFolders, LoopMoves, Sound
  <1> QED
    BY <1>5, GoodUnchanged, SoundMoves, Parts DEF ScanFolders

LEMMA WriteMetadataSound ==
  ASSUME Sound, NEW h \in Handlers, WriteMetadata(h)
  PROVE  Sound'
  <1>1. metadata' \in Counts
    BY Parts DEF WriteMetadata, At, Fits
  <1>2. Moves(h)
    BY IdleTask, TaskMoves, LoopKept DEF WriteMetadata, Sound
  <1> QED
    BY <1>1, <1>2, GoodUnchanged, SoundMoves DEF WriteMetadata

LEMMA SoundInitially == Init => Sound
  <1> SUFFICES ASSUME Init PROVE Sound
    OBVIOUS
  <1>1. DOMAIN NoFolders = {} /\ NoFolders \in Counts
    <2>1. NoFolders \in [{} -> Nat]
      BY DEF NoFolders
    <2> QED
      BY <2>1 DEF Counts, NoFolders
  <1>2. IsFiniteSet(DOMAIN folders)
    BY <1>1, FS_EmptySet DEF Init
  <1>3. folders \in [DOMAIN folders -> Folder]
    BY DEF Init, NoFolders
  <1> QED
    BY <1>1, <1>2, <1>3, IdleTask DEF Init, Sound, TypeOK, Finite, HasLoop

LEMMA SoundStep == Sound /\ [Next]_vars => Sound'
  <1> SUFFICES ASSUME Sound, [Next]_vars PROVE Sound'
    OBVIOUS
  <1>1. CASE UNCHANGED vars
    BY <1>1 DEF vars, Sound, TypeOK, Finite, HasLoop
  <1> QED
    BY <1>1, AskSound, CheckSound, CreateSound, RenameFolderSound, ListSound, UnlinkSound, RemoveFolderSound,
       DeleteImageSound, RenameImageSound, MoveImageSound, ChooseSound, ReplaceSound, OpenCopySound,
       CopiedSound, BatchDoneSound, PrepareSound, PublishSound, ScanFoldersSound, WriteMetadataSound,
       FailSound, AbandonSound
       DEF Next, Handle

(***************************************************************************)
(* The directories, the counts and the requests keep their types, for any  *)
(* number of handlers and categories.                                      *)
(***************************************************************************)
THEOREM TypeCorrect == Spec => []TypeOK
  <1>1. Sound => TypeOK
    BY DEF Sound
  <1> QED
    BY <1>1, SoundInitially, SoundStep, PTL DEF Spec

-----------------------------------------------------------------------------
(***************************************************************************)
(* What a request can count on that meets no other, or none that gives an  *)
(* image a name it has checked before.                                     *)
(***************************************************************************)
\* A handler has one temporary file, and leaves it behind only when it ends.
TemporaryInv(h) ==
    \A c \in DOMAIN folders : h \in folders[c].temporaries =>
        /\ handlers[h].pc \in {"idle", "replacing", "publishing"}
        /\ \A d \in DOMAIN folders : h \in folders[d].temporaries => d = c

\* The name an upload has chosen is free where its temporary file is.
FreshInv(h) ==
    At(h, "replacing") /\ "replacing" \notin met[h] =>
        \A c \in DOMAIN folders :
            h \in folders[c].temporaries => handlers[h].file \notin DOMAIN folders[c].images

\* What was checked, begun or counted still holds.
AloneInv(h) ==
    h \in Busy /\ met[h] = {} =>
        /\ At(h, "changing") /\ Request(h).kind = "renameImage" => ~ Has(Request(h).category, Request(h).to)
        /\ At(h, "changing") /\ Request(h).kind = "moveImage" => ~ Has(Request(h).to, Request(h).file)
        /\ At(h, "opening") => ~ Has(Request(h).category, handlers[h].file)
        /\ At(h, "copying") /\ Has(Request(h).category, handlers[h].file) =>
               folders[Request(h).category].images[handlers[h].file] = Torn
        /\ At(h, "writing") => handlers[h].counts = Scan

MetInv == \A h, g \in Busy : g # h => Class(g) \in met[h]

\* A request that has met no other finds the counts of the images there are until it changes one.
Counted(h) ==
    /\ handlers[h].pc \in {"checking", "changing", "listing", "preparing", "publishing"} => metadata = Scan
    /\ At(h, "unlinking") =>
           /\ Request(h).category \in DOMAIN folders
           /\ handlers[h].listed = DOMAIN folders[Request(h).category].images

CountsInv ==
    /\ \A h \in Handlers \ Busy : met[h] = {}
    /\ ~ stale => /\ \A h \in Busy : met[h] = {} /\ Counted(h)
                  /\ Busy = {} => metadata = Scan

HistoryInv ==
    /\ MetInv /\ CountsInv
    /\ \A h \in Handlers : TemporaryInv(h) /\ FreshInv(h) /\ AloneInv(h)

\* A step that leaves directories, snapshots and temporary files alone.
ImagesOnly ==
    /\ DOMAIN folders' = DOMAIN folders
    /\ \A c \in DOMAIN folders : /\ folders'[c].temporaries = folders[c].temporaries
                                 /\ folders'[c].snapshots = folders[c].snapshots

Shrinks == \A c \in DOMAIN folders : DOMAIN folders'[c].images \subseteq DOMAIN folders[c].images

LEMMA OthersKept ==
  ASSUME TypeOK, NEW h \in Handlers, Ask(h) \/ Handle(h), NEW g \in Handlers, g # h
  PROVE  handlers'[g] = handlers[g]
  <1>1. CASE Raise(h)
    BY <1>1 DEF Raise, TypeOK
  <1>2. CASE ~ Raise(h)
    BY <1>2 DEF Handle, TypeOK, Ask, Goto, Check, Create, RenameFolder, List, Unlink, RemoveFolder, DeleteImage,
       RenameImage, MoveImage, Choose, Replace, OpenCopy, Copied, BatchDone, Prepare, Publish, ScanFolders,
       WriteMetadata, Fail, Abandon
  <1> QED
    BY <1>1, <1>2

LEMMA OneImage ==
  ASSUME GoodFolders, NEW c \in DOMAIN folders, NEW F, F.temporaries = folders[c].temporaries,
         F.snapshots = folders[c].snapshots, folders' = [folders EXCEPT ![c] = F]
  PROVE  ImagesOnly
  BY DEF GoodFolders, ImagesOnly

LEMMA ImagesLost ==
  ASSUME Sound, NEW h \in Handlers, DeleteImage(h) \/ Unlink(h)
  PROVE  ImagesOnly /\ Shrinks
  <1>1. CASE Raise(h)
    BY <1>1 DEF Raise, ImagesOnly, Shrinks
  <1>2. CASE ~ Raise(h)
    <2>1. PICK c, f : Has(c, f) /\ folders' = [folders EXCEPT ![c] = WithoutImage(folders[c], f)]
      BY <1>2 DEF DeleteImage, Unlink
    <2> DEFINE F == WithoutImage(folders[c], f)
    <2>2. c \in DOMAIN folders
      BY <2>1, HasMeans
    <2>3. /\ F.temporaries = folders[c].temporaries /\ F.snapshots = folders[c].snapshots
          /\ DOMAIN F.images \subseteq DOMAIN folders[c].images
      BY <2>2, WithoutImageFields, Parts DEF GoodFolders
    <2> HIDE DEF F
    <2>4. folders' = [folders EXCEPT ![c] = F]
      BY <2>1 DEF F
    <2>5. Shrinks
      BY <2>2, <2>3, <2>4, Parts DEF Shrinks, GoodFolders
    <2> QED
      BY <2>2, <2>3, <2>4, <2>5, OneImage, Parts
  <1> QED
    BY <1>1, <1>2

\* The image f of c has the content x now, and all others are as they were.
Puts(c, f, x) ==
    /\ c \in DOMAIN folders
    /\ DOMAIN folders' = DOMAIN folders
    /\ DOMAIN folders'[c].images = DOMAIN folders[c].images \cup {f}
    /\ folders'[c].images[f] = x
    /\ \A g \in DOMAIN folders[c].images \ {f} : folders'[c].images[g] = folders[c].images[g]
    /\ \A d \in DOMAIN folders \ {c} : folders'[d] = folders[d]

\* The image f of c is the image g of d now, and all others are as they were.
Renames(c, f, d, g) ==
    /\ c \in DOMAIN folders /\ d \in DOMAIN folders /\ f \in DOMAIN folders[c].images /\ <<c, f>> # <<d, g>>
    /\ DOMAIN folders' = DOMAIN folders
    /\ \A e \in DOMAIN folders : DOMAIN folders'[e].images =
           {k \in DOMAIN folders[e].images : <<e, k>> # <<c, f>>} \cup (IF e = d THEN {g} ELSE {})
    /\ folders'[d].images[g] = folders[c].images[f]
    /\ \A e \in DOMAIN folders : \A k \in DOMAIN folders[e].images :
           <<e, k>> \notin {<<c, f>>, <<d, g>>} => folders'[e].images[k] = folders[e].images[k]

LEMMA RenameImageEffect ==
  ASSUME Sound, NEW h \in Handlers, RenameImage(h)
  PROVE  /\ ImagesOnly
         /\ Raise(h) \/ Renames(Request(h).category, Request(h).file, Request(h).category, Request(h).to)
  <1> DEFINE r == Request(h)
             c == r.category
             F == WithoutImage(folders[c], r.file)
             G == WithImage(F, r.to, folders[c].images[r.file])
  <1>1. CASE Raise(h)
    BY <1>1 DEF Raise, ImagesOnly
  <1>2. CASE ~ Raise(h)
    <2>1. r \in Requests /\ r.kind = "renameImage" /\ Has(c, r.file)
      BY <1>2, Parts DEF RenameImage, At, Fits, Request
    <2>2. c \in DOMAIN folders /\ r.file \in DOMAIN folders[c].images
      BY <2>1, HasMeans
    <2>3. folders[c] \in Folder
      BY <2>2, Parts DEF GoodFolders
    <2>4. /\ r.to \in ImageNames /\ r.to # r.file
          /\ folders[c].images[r.file] \in Contents \cup {Torn}
      BY <2>1, <2>2, <2>3, RequestFields, FolderFields
    <2>5. /\ F \in Folder /\ F.temporaries = folders[c].temporaries /\ F.snapshots = folders[c].snapshots
          /\ DOMAIN F.images = DOMAIN folders[c].images \ {r.file}
          /\ \A k \in DOMAIN folders[c].images \ {r.file} : F.images[k] = folders[c].images[k]
      BY <2>3, WithoutImageFields
    <2>6. /\ G.temporaries = F.temporaries /\ G.snapshots = F.snapshots
          /\ DOMAIN G.images = DOMAIN F.images \cup {r.to}
          /\ G.images[r.to] = folders[c].images[r.file]
          /\ \A k \in DOMAIN F.images \ {r.to} : G.images[k] = F.images[k]
      <3> HIDE DEF F, r
      <3> QED
        BY <2>4, <2>5, WithImageFields
    <2>7. folders' = [folders EXCEPT ![c] = G]
      BY <1>2, <2>2 DEF RenameImage
    <2> HIDE DEF F, G, r
    <2>8. Renames(c, r.file, c, r.to)
      BY <2>2, <2>4, <2>5, <2>6, <2>7, Parts DEF Renames, GoodFolders
    <2> QED
      BY <2>2, <2>5, <2>6, <2>7, <2>8, OneImage, Parts DEF r
  <1> QED
    BY <1>1, <1>2

LEMMA MoveImageEffect ==
  ASSUME Sound, NEW h \in Handlers, MoveImage(h)
  PROVE  /\ ImagesOnly
         /\ Raise(h) \/ Renames(Request(h).category, Request(h).file, Request(h).to, Request(h).file)
  <1> DEFINE r == Request(h)
             c == r.category
             d == r.to
             F == WithoutImage(folders[c], r.file)
             G == WithImage(folders[d], r.file, folders[c].images[r.file])
  <1>1. CASE Raise(h)
    BY <1>1 DEF Raise, ImagesOnly
  <1>2. CASE ~ Raise(h)
    <2>1. r \in Requests /\ r.kind = "moveImage" /\ Has(c, r.file) /\ d \in DOMAIN folders
      BY <1>2, Parts DEF MoveImage, At, Fits, Request
    <2>2. c \in DOMAIN folders /\ r.file \in DOMAIN folders[c].images
      BY <2>1, HasMeans
    <2>3. folders[c] \in Folder /\ folders[d] \in Folder
      BY <2>1, <2>2, Parts DEF GoodFolders
    <2>4. r.file \in ImageNames /\ c # d /\ folders[c].images[r.file] \in Contents \cup {Torn}
      BY <2>1, <2>2, <2>3, RequestFields, FolderFields
    <2>5. /\ F.temporaries = folders[c].temporaries /\ F.snapshots = folders[c].snapshots
          /\ DOMAIN F.images = DOMAIN folders[c].images \ {r.file}
          /\ \A k \in DOMAIN folders[c].images \ {r.file} : F.images[k] = folders[c].images[k]
      BY <2>3, WithoutImageFields
    <2>6. /\ G.temporaries = folders[d].temporaries /\ G.snapshots = folders[d].snapshots
          /\ DOMAIN G.images = DOMAIN folders[d].images \cup {r.file}
          /\ G.images[r.file] = folders[c].images[r.file]
          /\ \A k \in DOMAIN folders[d].images \ {r.file} : G.images[k] = folders[d].images[k]
      <3> HIDE DEF r
      <3> QED
        BY <2>3, <2>4, WithImageFields
    <2>7. folders' = [folders EXCEPT ![c] = F, ![d] = G]
      BY <1>2, <2>1, <2>2, <2>4 DEF MoveImage
    <2> HIDE DEF F, G, c, d
    <2>8. Renames(c, r.file, d, r.file)
      BY <2>1, <2>2, <2>4, <2>5, <2>6, <2>7, Parts DEF Renames, GoodFolders
    <2>9. ImagesOnly
      BY <2>1, <2>2, <2>4, <2>5, <2>6, <2>7, Parts DEF ImagesOnly, GoodFolders
    <2> QED
      BY <2>8, <2>9 DEF c, d
  <1> QED
    BY <1>1, <1>2

LEMMA ChooseEffect ==
  ASSUME Sound, NEW h \in Handlers, Choose(h), ~ Raise(h)
  PROVE  LET c == Request(h).category IN
         /\ c \in DOMAIN folders /\ handlers'[h].file \notin DOMAIN folders[c].images
         /\ handlers'[h].pc = IF OnLoop(h) THEN "replacing" ELSE "opening"
         /\ handlers'[h].request = Request(h)
         /\ OnLoop(h) => folders' = [folders EXCEPT ![c] = WithTemporary(folders[c], h)]
         /\ ~ OnLoop(h) => UNCHANGED folders
  <1> DEFINE c == Request(h).category
             item == Head(handlers[h].left)
             name == FreeName(folders[c], item[1])
  <1>1. handlers[h].left # <<>> /\ handlers[h].left \in Seq(Items)
    BY Parts, TaskFields DEF Choose
  <1>2. c \in DOMAIN folders
    BY DEF Choose
  <1>3. item[1] \in Stems
    BY <1>1, ItemsOf
  <1>4. folders[c] \in Folder /\ IsFiniteSet(DOMAIN folders[c].images)
    BY <1>2, Parts DEF GoodFolders, Finite
  <1>5. name \in ImageNames /\ name \notin DOMAIN folders[c].images
    <2> HIDE DEF c, item
    <2> QED
      BY <1>3, <1>4, FreeNameIsFree
  <1>6. /\ handlers'[h].file = name /\ handlers'[h].request = Request(h)
        /\ handlers'[h].pc = IF OnLoop(h) THEN "replacing" ELSE "opening"
    <2>1. handlers' = [handlers EXCEPT ![h].pc = IF OnLoop(h) THEN "replacing" ELSE "opening", ![h].file = name]
      BY DEF Choose
    <2> HIDE DEF name
    <2> QED
      BY <2>1, Parts DEF Task, Request
  <1>7. ASSUME OnLoop(h) PROVE folders' = [folders EXCEPT ![c] = WithTemporary(folders[c], h)]
    BY <1>2, <1>7 DEF Choose
  <1>8. ASSUME ~ OnLoop(h) PROVE UNCHANGED folders
    BY <1>8 DEF Choose
  <1> QED
    BY <1>2, <1>5, <1>6, <1>7, <1>8

LEMMA OpenCopyEffect ==
  ASSUME Sound, NEW h \in Handlers, OpenCopy(h)
  PROVE  /\ ImagesOnly
         /\ \/ Raise(h)
            \/ /\ Puts(Request(h).category, handlers[h].file, Torn)
               /\ handlers'[h].pc = "copying" /\ handlers'[h].file = handlers[h].file
               /\ handlers'[h].request = Request(h)
  <1> DEFINE c == Request(h).category
             f == handlers[h].file
             F == WithImage(folders[c], f, Torn)
  <1>1. CASE Raise(h)
    BY <1>1 DEF Raise, ImagesOnly
  <1>2. CASE ~ Raise(h)
    <2>1. c \in DOMAIN folders /\ Goto(h, "copying") /\ folders' = [folders EXCEPT ![c] = F]
      BY <1>2 DEF OpenCopy
    <2>2. f \in ImageNames
      BY Parts DEF OpenCopy, At, Fits
    <2>3. handlers'[h].pc = "copying" /\ handlers'[h].file = f /\ handlers'[h].request = Request(h)
      BY <2>1, Parts DEF Goto, Task, Request
    <2> HIDE DEF c, f
    <2>4. /\ F.temporaries = folders[c].temporaries /\ F.snapshots = folders[c].snapshots
          /\ DOMAIN F.images = DOMAIN folders[c].images \cup {f} /\ F.images[f] = Torn
          /\ \A g \in DOMAIN folders[c].images \ {f} : F.images[g] = folders[c].images[g]
      BY <2>1, <2>2, WithImageFields, Parts DEF GoodFolders
    <2> HIDE DEF F
    <2>5. ImagesOnly /\ Puts(c, f, Torn)
      BY <2>1, <2>4, OneImage, Parts DEF Puts, GoodFolders
    <2> QED
      BY <2>3, <2>5 DEF c, f
  <1> QED
    BY <1>1, <1>2

LEMMA CopiedEffect ==
  ASSUME Sound, NEW h \in Handlers, Copied(h)
  PROVE  /\ ImagesOnly
         /\ \/ Raise(h)
            \/ /\ Puts(Request(h).category, handlers[h].file, Head(handlers[h].left)[2])
               /\ handlers[h].file \in DOMAIN folders[Request(h).category].images
  <1> DEFINE c == Request(h).category
             f == handlers[h].file
             x == Head(handlers[h].left)[2]
             F == WithImage(folders[c], f, x)
  <1>1. CASE Raise(h)
    BY <1>1 DEF Raise, ImagesOnly
  <1>2. CASE ~ Raise(h)
    <2>1. Has(c, f) /\ x \in Contents /\ f \in ImageNames
      BY <1>2, Parts DEF Copied, At, Fits
    <2>2. c \in DOMAIN folders /\ f \in DOMAIN folders[c].images
      BY <2>1, HasMeans
    <2>3. folders' = [folders EXCEPT ![c] = F]
      BY <1>2, <2>2 DEF Copied
    <2> HIDE DEF c, f, x
    <2>4. /\ F.temporaries = folders[c].temporaries /\ F.snapshots = folders[c].snapshots
          /\ DOMAIN F.images = DOMAIN folders[c].images \cup {f} /\ F.images[f] = x
          /\ \A g \in DOMAIN folders[c].images \ {f} : F.images[g] = folders[c].images[g]
      BY <2>1, <2>2, WithImageFields, Parts DEF GoodFolders
    <2> HIDE DEF F
    <2>5. ImagesOnly /\ Puts(c, f, x)
      BY <2>2, <2>3, <2>4, OneImage, Parts DEF Puts, GoodFolders
    <2> QED
      BY <2>2, <2>5 DEF c, f, x
  <1> QED
    BY <1>1, <1>2

LEMMA ReplaceEffect ==
  ASSUME Sound, NEW h \in Handlers, Replace(h), ~ Raise(h)
  PROVE  LET c == Request(h).category IN
         /\ Puts(c, handlers[h].file, Head(handlers[h].left)[2])
         /\ h \in folders[c].temporaries
         /\ folders'[c].temporaries = folders[c].temporaries \ {h}
         /\ folders'[c].snapshots = folders[c].snapshots
         /\ handlers'[h].pc = "choosing"
  <1> DEFINE c == Request(h).category
             f == handlers[h].file
             x == Head(handlers[h].left)[2]
             E == WithoutTemporary(folders[c], h)
             F == WithImage(E, f, x)
  <1>1. x \in Contents /\ f \in ImageNames
    BY Parts DEF Replace, At, Fits
  <1>2. c \in DOMAIN folders /\ h \in folders[c].temporaries /\ folders' = [folders EXCEPT ![c] = F]
    BY DEF Replace
  <1>3. handlers'[h].pc = "choosing"
    BY Parts DEF Replace, Task
  <1> HIDE DEF c, f, x
  <1>4. /\ E \in Folder /\ E.images = folders[c].images /\ E.snapshots = folders[c].snapshots
        /\ E.temporaries = folders[c].temporaries \ {h}
    BY <1>2, TemporaryFields, Parts DEF GoodFolders
  <1> HIDE DEF E
  <1>5. /\ F.temporaries = E.temporaries /\ F.snapshots = E.snapshots
        /\ DOMAIN F.images = DOMAIN E.images \cup {f} /\ F.images[f] = x
        /\ \A g \in DOMAIN E.images \ {f} : F.images[g] = E.images[g]
    BY <1>1, <1>4, WithImageFields
  <1> HIDE DEF F
  <1>6. /\ Puts(c, f, x) /\ folders'[c].temporaries = folders[c].temporaries \ {h}
        /\ folders'[c].snapshots = folders[c].snapshots
    BY <1>2, <1>4, <1>5, Parts DEF Puts, GoodFolders
  <1> QED
    BY <1>2, <1>3, <1>6 DEF c, f, x

-----------------------------------------------------------------------------
(***************************************************************************)
(* Temporary files.                                                        *)
(***************************************************************************)
Temporaries == \A h \in Handlers : TemporaryInv(h)

\* A step of h to a point where it has no temporary file, from one where it has none.
LEMMA TemporariesKept ==
  ASSUME Temporaries, NEW h \in Handlers, \A g \in Handlers \ {h} : handlers'[g] = handlers[g], ImagesOnly,
         \/ handlers'[h].pc = "idle"
         \/ handlers[h].pc \notin {"idle", "replacing", "publishing"}
         \/ \A c \in DOMAIN folders : h \notin folders[c].temporaries
  PROVE  Temporaries'
  BY DEF Temporaries, TemporaryInv, ImagesOnly

LEMMA FoldersUnchanged == UNCHANGED folders => ImagesOnly /\ Shrinks
  BY DEF ImagesOnly, Shrinks

LEMMA RaiseIsIdle ==
  ASSUME TypeOK, NEW h \in Handlers, Raise(h)
  PROVE  handlers'[h].pc = "idle" /\ handlers'[h].answer = None /\ UNCHANGED <<folders, metadata>>
  BY DEF Raise, TypeOK, Idle

LEMMA CreateTemporaries ==
  ASSUME Sound, Temporaries, NEW h \in Handlers, Create(h), ~ Raise(h),
         \A g \in Handlers \ {h} : handlers'[g] = handlers[g]
  PROVE  Temporaries'
  <1> DEFINE c == Request(h).category
  <1>1. /\ handlers[h].pc = "changing" /\ c \notin DOMAIN folders
        /\ folders' = WithFolder(c, [images |-> NoImages, snapshots |-> {}, temporaries |-> {}])
    BY DEF Create, At
  <1>2. /\ DOMAIN folders' = DOMAIN folders \cup {c} /\ folders'[c].temporaries = {}
        /\ \A d \in DOMAIN folders : folders'[d] = folders[d]
    BY <1>1 DEF WithFolder
  <1> QED
    BY ZenonT(60), <1>1, <1>2 DEF Temporaries, TemporaryInv

LEMMA RenameFolderTemporaries ==
  ASSUME Sound, Temporaries, NEW h \in Handlers, RenameFolder(h), ~ Raise(h),
         \A g \in Handlers \ {h} : handlers'[g] = handlers[g]
  PROVE  Temporaries'
  <1> DEFINE r == Request(h)
  <1>1. /\ handlers[h].pc = "changing" /\ r.category \in DOMAIN folders
        /\ folders' = [d \in (DOMAIN folders \ {r.category}) \cup {r.to} |->
                          IF d = r.to THEN folders[r.category] ELSE folders[d]]
    BY DEF RenameFolder, At
  <1>2. /\ DOMAIN folders' = (DOMAIN folders \ {r.category}) \cup {r.to}
        /\ folders'[r.to] = folders[r.category]
        /\ \A d \in DOMAIN folders \ {r.category, r.to} : folders'[d] = folders[d]
    BY <1>1
  <1> QED
    BY <1>1, <1>2 DEF Temporaries, TemporaryInv

LEMMA RemoveFolderTemporaries ==
  ASSUME Sound, Temporaries, NEW h \in Handlers, RemoveFolder(h), ~ Raise(h),
         \A g \in Handlers \ {h} : handlers'[g] = handlers[g]
  PROVE  Temporaries'
  <1> DEFINE c == Request(h).category
  <1>1. handlers[h].pc = "unlinking" /\ folders' = WithoutFolder(c)
    BY DEF RemoveFolder, At
  <1>2. DOMAIN folders' = DOMAIN folders \ {c} /\ \A d \in DOMAIN folders \ {c} : folders'[d] = folders[d]
    BY <1>1 DEF WithoutFolder, Restrict
  <1> QED
    BY <1>1, <1>2 DEF Temporaries, TemporaryInv

\* A step of h that gives it its only temporary file, in c.
LEMMA TemporaryAdded ==
  ASSUME Temporaries, NEW h \in Handlers, \A g \in Handlers \ {h} : handlers'[g] = handlers[g],
         \A c \in DOMAIN folders : h \notin folders[c].temporaries,
         handlers'[h].pc \in {"replacing", "publishing"},
         NEW c \in DOMAIN folders', DOMAIN folders' = DOMAIN folders \cup {c},
         c \in DOMAIN folders => folders'[c].temporaries = folders[c].temporaries \cup {h},
         c \notin DOMAIN folders => folders'[c].temporaries = {h},
         \A d \in DOMAIN folders \ {c} : folders'[d] = folders[d]
  PROVE  Temporaries'
  BY DEF Temporaries, TemporaryInv

LEMMA ChooseTemporaries ==
  ASSUME Sound, Temporaries, NEW h \in Handlers, Choose(h), ~ Raise(h), OnLoop(h),
         \A g \in Handlers \ {h} : handlers'[g] = handlers[g]
  PROVE  Temporaries'
  <1> DEFINE c == Request(h).category
  <1>1. /\ c \in DOMAIN folders /\ handlers'[h].pc = "replacing"
        /\ folders' = [folders EXCEPT ![c] = WithTemporary(folders[c], h)]
    BY ChooseEffect
  <1>2. \A d \in DOMAIN folders : h \notin folders[d].temporaries
    BY DEF Choose, At, Temporaries, TemporaryInv
  <1> HIDE DEF c
  <1>3. /\ DOMAIN folders' = DOMAIN folders \cup {c} /\ c \in DOMAIN folders'
        /\ folders'[c].temporaries = folders[c].temporaries \cup {h}
        /\ \A d \in DOMAIN folders \ {c} : folders'[d] = folders[d]
    BY <1>1, TemporaryFields, Parts DEF GoodFolders
  <1> QED
    BY <1>1, <1>2, <1>3, TemporaryAdded

LEMMA PrepareTemporaries ==
  ASSUME Sound, Temporaries, NEW h \in Handlers, Prepare(h), \A g \in Handlers \ {h} : handlers'[g] = handlers[g]
  PROVE  Temporaries'
  <1>1. handlers[h].pc = "preparing" /\ handlers'[h].pc = "publishing"
    BY Parts DEF Prepare, At, Goto, Task
  <1>2. \A d \in DOMAIN folders : h \notin folders[d].temporaries
    BY <1>1 DEF Temporaries, TemporaryInv
  <1>3. /\ DOMAIN folders' = DOMAIN folders \cup {Preparations} /\ Preparations \in DOMAIN folders'
        /\ Preparations \in DOMAIN folders =>
               folders'[Preparations].temporaries = folders[Preparations].temporaries \cup {h}
        /\ Preparations \notin DOMAIN folders => folders'[Preparations].temporaries = {h}
        /\ \A d \in DOMAIN folders \ {Preparations} : folders'[d] = folders[d]
    <2>1. CASE Preparations \in DOMAIN folders
      <3>1. folders' = [folders EXCEPT ![Preparations] = WithTemporary(folders[Preparations], h)]
        BY <2>1 DEF Prepare
      <3> QED
        BY <2>1, <3>1, TemporaryFields, Parts DEF GoodFolders
    <2>2. CASE Preparations \notin DOMAIN folders
      <3>1. folders' = WithFolder(Preparations, [images |-> NoImages, snapshots |-> {}, temporaries |-> {h}])
        BY <2>2 DEF Prepare
      <3> QED
        BY <2>2, <3>1 DEF WithFolder
    <2> QED
      BY <2>1, <2>2
  <1> QED
    BY <1>1, <1>2, <1>3, TemporaryAdded

\* A step of h that takes its temporary file from c.
LEMMA TemporaryTaken ==
  ASSUME Temporaries, NEW h \in Handlers, \A g \in Handlers \ {h} : handlers'[g] = handlers[g],
         NEW c \in DOMAIN folders, h \in folders[c].temporaries, DOMAIN folders' = DOMAIN folders,
         folders'[c].temporaries = folders[c].temporaries \ {h},
         \A d \in DOMAIN folders \ {c} : folders'[d] = folders[d]
  PROVE  Temporaries'
  BY DEF Temporaries, TemporaryInv

LEMMA ReplaceTemporaries ==
  ASSUME Sound, Temporaries, NEW h \in Handlers, Replace(h), ~ Raise(h),
         \A g \in Handlers \ {h} : handlers'[g] = handlers[g]
  PROVE  Temporaries'
  BY ReplaceEffect, TemporaryTaken DEF Puts

LEMMA PublishEffect ==
  ASSUME Sound, NEW h \in Handlers, Publish(h), ~ Raise(h)
  PROVE  LET P == folders[Preparations] IN
         /\ Preparations \in DOMAIN folders /\ h \in P.temporaries
         /\ DOMAIN folders' = DOMAIN folders
         /\ folders'[Preparations].images = P.images
         /\ folders'[Preparations].temporaries = P.temporaries \ {h}
         /\ P.snapshots \subseteq folders'[Preparations].snapshots
         /\ \A d \in DOMAIN folders \ {Preparations} : folders'[d] = folders[d]
  <1> DEFINE P == folders[Preparations]
             E == WithoutTemporary(P, h)
             F == WithSnapshot(E, Request(h).snapshot)
  <1>1. Preparations \in DOMAIN folders /\ h \in P.temporaries /\ folders' = [folders EXCEPT ![Preparations] = F]
    BY DEF Publish
  <1>2. /\ E \in Folder /\ E.images = P.images /\ E.snapshots = P.snapshots /\ E.temporaries = P.temporaries \ {h}
    BY <1>1, TemporaryFields, Parts DEF GoodFolders
  <1> HIDE DEF E
  <1>3. F.images = E.images /\ F.temporaries = E.temporaries /\ E.snapshots \subseteq F.snapshots
    BY <1>2 DEF Folder, WithSnapshot
  <1> HIDE DEF F
  <1> QED
    BY <1>1, <1>2, <1>3, Parts DEF GoodFolders

LEMMA PublishTemporaries ==
  ASSUME Sound, Temporaries, NEW h \in Handlers, Publish(h), ~ Raise(h),
         \A g \in Handlers \ {h} : handlers'[g] = handlers[g]
  PROVE  Temporaries'
  BY PublishEffect, TemporaryTaken

\* The temporary file is removed, and with it no image and no snapshot.
LEMMA AbandonEffect ==
  ASSUME Sound, NEW h \in Handlers, Abandon(h)
  PROVE  LET c == Request(h).category IN
         /\ c \in DOMAIN folders /\ h \in folders[c].temporaries
         /\ DOMAIN folders' = DOMAIN folders
         /\ folders'[c].images = folders[c].images
         /\ folders'[c].temporaries = folders[c].temporaries \ {h}
         /\ folders'[c].snapshots = folders[c].snapshots
         /\ \A d \in DOMAIN folders \ {c} : folders'[d] = folders[d]
  <1> DEFINE c == Request(h).category
             F == WithoutTemporary(folders[c], h)
  <1>1. c \in DOMAIN folders /\ h \in folders[c].temporaries /\ folders' = [folders EXCEPT ![c] = F]
    BY DEF Abandon
  <1> HIDE DEF c
  <1>2. /\ F.images = folders[c].images /\ F.snapshots = folders[c].snapshots
        /\ F.temporaries = folders[c].temporaries \ {h}
    BY <1>1, TemporaryFields, Parts DEF GoodFolders
  <1> HIDE DEF F
  <1> QED
    BY <1>1, <1>2, Parts DEF GoodFolders, c

LEMMA AbandonTemporaries ==
  ASSUME Sound, Temporaries, NEW h \in Handlers, Abandon(h), \A g \in Handlers \ {h} : handlers'[g] = handlers[g]
  PROVE  Temporaries'
  BY AbandonEffect, TemporaryTaken

LEMMA TemporariesStep ==
  ASSUME Sound, Temporaries, NEW h \in Handlers, Ask(h) \/ Handle(h)
  PROVE  Temporaries'
  <1>1. \A g \in Handlers \ {h} : handlers'[g] = handlers[g]
    BY OthersKept DEF Sound
  <1>2. CASE Raise(h)
    BY <1>1, <1>2, RaiseIsIdle, FoldersUnchanged, TemporariesKept DEF Sound
  <1>3. CASE ~ Raise(h)
    <2>1. CASE Ask(h)
      BY <1>1, <2>1, FoldersUnchanged, TemporariesKept DEF Ask
    <2>2. CASE Check(h) \/ List(h) \/ BatchDone(h) \/ ScanFolders(h) \/ WriteMetadata(h)
      BY <1>1, <1>3, <2>2, FoldersUnchanged, TemporariesKept
         DEF Check, List, BatchDone, ScanFolders, WriteMetadata, At
    <2>3. CASE DeleteImage(h) \/ Unlink(h)
      BY <1>1, <2>3, ImagesLost, TemporariesKept DEF DeleteImage, Unlink, At
    <2>4. CASE RenameImage(h)
      BY <1>1, <2>4, RenameImageEffect, TemporariesKept DEF RenameImage, At
    <2>5. CASE MoveImage(h)
      BY <1>1, <2>5, MoveImageEffect, TemporariesKept DEF MoveImage, At
    <2>6. CASE Copied(h)
      BY <1>1, <2>6, CopiedEffect, TemporariesKept DEF Copied, At
    <2>7. CASE Choose(h) /\ ~ OnLoop(h)
      BY <1>1, <1>3, <2>7, ChooseEffect, FoldersUnchanged, TemporariesKept DEF Choose, At
    <2>8. CASE OpenCopy(h)
      BY <1>1, <2>8, OpenCopyEffect, TemporariesKept DEF OpenCopy, At
    <2> QED
      BY <1>1, <1>3, <2>1, <2>2, <2>3, <2>4, <2>5, <2>6, <2>7, <2>8, CreateTemporaries, RenameFolderTemporaries,
         RemoveFolderTemporaries, ChooseTemporaries, PrepareTemporaries, ReplaceTemporaries, PublishTemporaries,
         AbandonTemporaries
         DEF Handle, Fail
  <1> QED
    BY <1>2, <1>3

-----------------------------------------------------------------------------
(***************************************************************************)
(* Where a step of a handler leaves it, and what it has met.               *)
(***************************************************************************)
LEMMA HandlesWhenBusy ==
  ASSUME NEW h \in Handlers, Handle(h)
  PROVE  h \in Busy
  BY DEF Handle, At, Busy, Check, Create, RenameFolder, List, Unlink, RemoveFolder, DeleteImage, RenameImage,
         MoveImage, Choose, Replace, OpenCopy, Copied, BatchDone, Prepare, Publish, ScanFolders, WriteMetadata,
         Fail, Abandon

LEMMA GotoLeaves ==
  ASSUME TypeOK, NEW h \in Handlers, NEW pc, Goto(h, pc)
  PROVE  handlers'[h].pc = pc /\ handlers'[h].request = Request(h) /\ handlers'[h].answer = handlers[h].answer
  BY DEF Goto, TypeOK, Task, Request

Arrives(h) ==
    /\ handlers'[h].pc = "changing" =>
           Valid(Request(h)) /\ handlers'[h].request = Request(h) /\ UNCHANGED folders
    /\ handlers'[h].pc \in {"replacing", "opening"} => Choose(h) /\ ~ Raise(h)
    /\ handlers'[h].pc = "copying" => OpenCopy(h) /\ ~ Raise(h)
    /\ handlers'[h].pc = "writing" => handlers'[h].counts = Scan /\ UNCHANGED folders
    /\ handlers'[h].answer = "ok" =>
           /\ handlers'[h].pc = "idle"
           /\ \/ Request(h).kind = "snapshot"
              \/ At(h, "writing") /\ metadata' = handlers[h].counts /\ UNCHANGED folders

LEMMA ArrivesOne ==
  ASSUME Sound, NEW h \in Handlers, Ask(h) \/ Handle(h)
  PROVE  Arrives(h)
  <1>1. TypeOK /\ handlers[h] \in Task /\ handlers \in [Handlers -> Task] /\ Fits(handlers[h])
    BY DEF Sound, TypeOK
  <1>2. CASE Raise(h)
    BY <1>1, <1>2, RaiseIsIdle, NoneAssumption DEF Arrives
  <1>3. CASE Ask(h)
    <2>1. PICK r \in Requests : \E batch :
            handlers' = [handlers EXCEPT ![h] = [Idle EXCEPT !.pc = "checking", !.request = r, !.left = batch]]
      BY <1>3 DEF Ask
    <2>2. handlers'[h].pc = "checking" /\ handlers'[h].answer = None
      BY <1>1, <2>1 DEF Idle
    <2> QED
      BY <2>2, NoneAssumption DEF Arrives
  <1>4. CASE Handle(h) /\ ~ Raise(h)
    <2>1. handlers[h].answer = None
      BY <1>1, <1>4, HandlesWhenBusy DEF Fits, Busy, At
    <2>2. CASE Check(h)
      <3>1. Valid(Request(h)) /\ Goto(h, AfterCheck(Request(h))) /\ UNCHANGED folders
        BY <1>4, <2>2 DEF Check
      <3>2. AfterCheck(Request(h)) \in {"choosing", "listing", "preparing", "changing"}
        BY DEF AfterCheck
      <3> QED
        BY <1>1, <2>1, <3>1, <3>2, GotoLeaves, NoneAssumption DEF Arrives
    <2>3. CASE Create(h) \/ RenameFolder(h) \/ RemoveFolder(h) \/ DeleteImage(h) \/ RenameImage(h) \/ MoveImage(h)
               \/ BatchDone(h) \/ Prepare(h)
      <3>1. Goto(h, "scanning") \/ Goto(h, "publishing")
        BY <1>4, <2>3 DEF Create, RenameFolder, RemoveFolder, DeleteImage, RenameImage, MoveImage, BatchDone, Prepare
      <3> QED
        BY <1>1, <2>1, <3>1, GotoLeaves, NoneAssumption DEF Arrives
    <2>4. CASE List(h) \/ Unlink(h)
      <3>1. /\ handlers'[h].pc = "unlinking"
            /\ handlers'[h].answer = None
        BY <1>1, <1>4, <2>1, <2>4 DEF List, Unlink, Task, At
      <3> QED
        BY <3>1, NoneAssumption DEF Arrives
    <2>5. CASE Choose(h)
      <3>1. handlers'[h].pc \in {"replacing", "opening"} /\ handlers'[h].answer = None
        <4> DEFINE pc == IF OnLoop(h) THEN "replacing" ELSE "opening"
                   name == FreeName(folders[Request(h).category], Head(handlers[h].left)[1])
        <4>1. handlers' = [handlers EXCEPT ![h].pc = pc, ![h].file = name]
          BY <1>4, <2>5 DEF Choose
        <4>2. pc \in {"replacing", "opening"}
          OBVIOUS
        <4> HIDE DEF pc, name
        <4> QED
          BY <1>1, <2>1, <4>1, <4>2 DEF Task
      <3> QED
        BY <1>4, <2>5, <3>1, NoneAssumption DEF Arrives
    <2>6. CASE Replace(h) \/ Copied(h)
      <3>1. handlers' = [handlers EXCEPT ![h].pc = "choosing", ![h].left = Tail(@), ![h].file = None]
        BY <1>4, <2>6 DEF Replace, Copied
      <3>2. handlers'[h].pc = "choosing" /\ handlers'[h].answer = None
        BY <1>1, <2>1, <3>1 DEF Task
      <3> QED
        BY <3>2, NoneAssumption DEF Arrives
    <2>7. CASE Publish(h) \/ Abandon(h)
      <3>1. handlers'[h].pc = "idle"
        BY <1>1, <1>4, <2>7, IdleTask DEF Publish, Abandon
      <3>2. Abandon(h) => handlers'[h].answer = None
        BY <1>1, IdleTask DEF Abandon
      <3>3. Publish(h) => Request(h).kind = "snapshot"
        BY <1>1 DEF Publish, At, Fits, Request
      <3> QED
        BY <2>7, <3>1, <3>2, <3>3, NoneAssumption DEF Arrives
    <2>8. CASE ScanFolders(h)
      <3>1. /\ handlers'[h].pc = "writing" /\ handlers'[h].counts = Scan /\ UNCHANGED folders
            /\ handlers'[h].answer = None
        BY <1>1, <2>1, <2>8 DEF ScanFolders, Task
      <3> QED
        BY <3>1, NoneAssumption DEF Arrives
    <2>9. CASE WriteMetadata(h)
      <3>1. handlers'[h].pc = "idle"
        BY <1>1, <2>9, IdleTask DEF WriteMetadata
      <3> QED
        BY <2>9, <3>1 DEF WriteMetadata, Arrives
    <2>10. CASE OpenCopy(h)
      <3>1. Goto(h, "copying")
        BY <1>4, <2>10 DEF OpenCopy
      <3> QED
        BY <1>1, <1>4, <2>1, <2>10, <3>1, GotoLeaves, NoneAssumption DEF Arrives
    <2> QED
      BY <1>4, <2>2, <2>3, <2>4, <2>5, <2>6, <2>7, <2>8, <2>9, <2>10 DEF Handle, Fail
  <1> QED
    BY <1>2, <1>3, <1>4

LEMMA MetGrows ==
  ASSUME HistoryNext, NEW h \in Busy'
  PROVE  /\ h \in Handlers /\ met[h] \subseteq met'[h]
         /\ \A g \in Busy' \ {h} : Class(g)' \in met'[h]
  BY DEF HistoryNext, Busy

LEMMA AsksBusy ==
  ASSUME TypeOK, NEW h \in Handlers, Ask(h)
  PROVE  h \in Busy' /\ UNCHANGED folders
  <1>1. PICK r \in Requests : \E batch :
          handlers' = [handlers EXCEPT ![h] = [Idle EXCEPT !.pc = "checking", !.request = r, !.left = batch]]
    BY DEF Ask
  <1>2. handlers'[h].pc = "checking"
    BY <1>1 DEF Idle, TypeOK
  <1> QED
    BY <1>2 DEF Ask, Busy, At

\* A handler that has met no other is the one that takes the step.
LEMMA OnlyActor ==
  ASSUME Sound, MetInv, HistoryNext, NEW a \in Handlers, Ask(a) \/ Handle(a), NEW h \in Busy', met'[h] = {}
  PROVE  a = h
  <1> SUFFICES ASSUME a # h PROVE FALSE
    OBVIOUS
  <1>1. h \in Handlers /\ met[h] = {} /\ a \notin Busy'
    BY MetGrows
  <1>2. handlers'[h] = handlers[h]
    BY <1>1, OthersKept DEF Sound
  <1>3. h \in Busy
    BY <1>1, <1>2 DEF Busy, At
  <1>4. a \in Busy
    BY <1>1, AsksBusy, HandlesWhenBusy DEF Sound
  <1> QED
    BY <1>1, <1>3, <1>4 DEF MetInv

\* A handler has met the one that takes the step.
LEMMA ActorMet ==
  ASSUME Sound, MetInv, HistoryNext, NEW a \in Handlers, Handle(a), NEW h \in Busy', a # h,
         "replacing" \notin met'[h]
  PROVE  Request(a).kind \notin Replacing
  <1>1. h \in Handlers /\ "replacing" \notin met[h]
    BY MetGrows
  <1>2. handlers'[h] = handlers[h]
    BY <1>1, OthersKept DEF Sound
  <1>3. h \in Busy /\ a \in Busy
    BY <1>1, <1>2, HandlesWhenBusy DEF Busy, At
  <1> QED
    BY <1>1, <1>3 DEF MetInv, Class
-----------------------------------------------------------------------------
(***************************************************************************)
(* Names an upload has chosen.                                             *)
(***************************************************************************)
\* No temporary file of h comes into a directory that has other images.
Follows(h) ==
    \A c \in DOMAIN folders' : h \in folders'[c].temporaries =>
        \E d \in DOMAIN folders : /\ h \in folders[d].temporaries
                                  /\ DOMAIN folders'[c].images \subseteq DOMAIN folders[d].images

LEMMA FollowsSmaller ==
  ASSUME NEW h \in Handlers, ImagesOnly, Shrinks
  PROVE  Follows(h)
  BY DEF ImagesOnly, Shrinks, Follows

\* Of what another does that adds no image.
LEMMA OthersFollow ==
  ASSUME Sound, NEW a \in Handlers, Handle(a), Request(a).kind \notin Replacing, NEW h \in Handlers, a # h, loop = h
  PROVE  Follows(h)
  <1>1. ~ Runs(a) \/ ~ OnLoop(a)
    BY NoneAssumption DEF Runs
  <1>2. CASE UNCHANGED folders
    BY <1>2, FoldersUnchanged, FollowsSmaller
  <1>3. CASE Raise(a)
    BY <1>2, <1>3 DEF Raise
  <1>4. CASE Create(a) /\ ~ Raise(a)
    <2> DEFINE c == Request(a).category
    <2>1. c \notin DOMAIN folders /\ folders' = WithFolder(c, [images |-> NoImages, snapshots |-> {}, temporaries |-> {}])
      BY <1>4 DEF Create
    <2>2. /\ DOMAIN folders' = DOMAIN folders \cup {c} /\ folders'[c].temporaries = {}
          /\ \A d \in DOMAIN folders : folders'[d] = folders[d]
      BY <2>1 DEF WithFolder
    <2> QED
      BY <2>2 DEF Follows
  <1>5. CASE RenameFolder(a) /\ ~ Raise(a)
    <2> DEFINE r == Request(a)
    <2>1. /\ r.category \in DOMAIN folders
          /\ folders' = [d \in (DOMAIN folders \ {r.category}) \cup {r.to} |->
                            IF d = r.to THEN folders[r.category] ELSE folders[d]]
      BY <1>5 DEF RenameFolder
    <2>2. /\ DOMAIN folders' = (DOMAIN folders \ {r.category}) \cup {r.to}
          /\ folders'[r.to] = folders[r.category]
          /\ \A d \in DOMAIN folders \ {r.category, r.to} : folders'[d] = folders[d]
      BY <2>1
    <2> QED
      BY <2>1, <2>2 DEF Follows
  <1>6. CASE RemoveFolder(a) /\ ~ Raise(a)
    <2> DEFINE c == Request(a).category
    <2>1. folders' = WithoutFolder(c)
      BY <1>6 DEF RemoveFolder
    <2>2. DOMAIN folders' = DOMAIN folders \ {c} /\ \A d \in DOMAIN folders \ {c} : folders'[d] = folders[d]
      BY <2>1 DEF WithoutFolder, Restrict
    <2> QED
      BY <2>2 DEF Follows
  <1>7. CASE DeleteImage(a) \/ Unlink(a)
    BY <1>7, ImagesLost, FollowsSmaller
  <1>8. ~ RenameImage(a) /\ ~ MoveImage(a) /\ ~ OpenCopy(a) /\ ~ Copied(a)
    <2>1. At(a, "opening") \/ At(a, "copying") => Request(a).kind = "import"
      BY Parts DEF Fits, At, Request
    <2> QED
      BY <2>1 DEF RenameImage, MoveImage, OpenCopy, Copied, Replacing
  <1>9. ~ Choose(a) /\ ~ Replace(a)
    <2>1. At(a, "choosing") \/ At(a, "replacing") => Request(a).kind \in {"upload", "import"}
      BY Parts DEF Fits, At, Request
    <2> QED
      BY <1>1, <2>1 DEF Choose, Replace, OnLoop, Replacing
  <1>10. ~ Prepare(a) /\ ~ Publish(a) /\ ~ Abandon(a)
    <2>1. /\ At(a, "preparing") \/ At(a, "publishing") => Request(a).kind = "snapshot"
          /\ At(a, "replacing") => Request(a).kind = "upload"
      BY Parts DEF Fits, At, Request
    <2> QED
      BY <1>1, <2>1 DEF Prepare, Publish, Abandon, At, OnLoop
  <1> QED
    BY <1>2, <1>3, <1>4, <1>5, <1>6, <1>7, <1>8, <1>9, <1>10
       DEF Handle, Fail, Check, List, BatchDone, ScanFolders, WriteMetadata

LEMMA FreshStep ==
  ASSUME Sound, MetInv, HistoryNext, Temporaries', NEW a \in Handlers, Ask(a) \/ Handle(a),
         NEW h \in Handlers, FreshInv(h)
  PROVE  FreshInv(h)'
  <1> SUFFICES ASSUME At(h, "replacing")', "replacing" \notin met'[h],
                      NEW c \in DOMAIN folders', h \in folders'[c].temporaries
               PROVE  handlers'[h].file \notin DOMAIN folders'[c].images
    BY DEF FreshInv
  <1>1. h \in Busy' /\ "replacing" \notin met[h]
    <2>1. h \in Busy'
      BY DEF At, Busy
    <2> QED
      BY <2>1, MetGrows
  <1>2. CASE a = h
    <2> DEFINE d == Request(h).category
    <2>1. Choose(h) /\ ~ Raise(h) /\ handlers'[h].pc = "replacing"
      BY <1>2, ArrivesOne DEF Arrives, At
    <2>2. /\ d \in DOMAIN folders /\ handlers'[h].file \notin DOMAIN folders[d].images
          /\ folders' = [folders EXCEPT ![d] = WithTemporary(folders[d], h)]
      BY <2>1, ChooseEffect
    <2> HIDE DEF d
    <2>3. /\ folders'[d].images = folders[d].images /\ d \in DOMAIN folders'
          /\ h \in folders'[d].temporaries
      <3>1. folders[d] \in Folder /\ DOMAIN folders' = DOMAIN folders /\ folders'[d] = WithTemporary(folders[d], h)
        BY <2>2, Parts DEF GoodFolders
      <3> QED
        BY SMTT(30), <2>2, <3>1, TemporaryFields
    <2>4. c = d
      BY <2>3 DEF Temporaries, TemporaryInv
    <2> QED
      BY <2>2, <2>3, <2>4
  <1>3. CASE a # h
    <2>1. handlers'[h] = handlers[h]
      BY <1>3, OthersKept DEF Sound
    <2>2. At(h, "replacing") /\ loop = h
      BY <2>1 DEF At, Sound, HasLoop
    <2>3. \A d \in DOMAIN folders : h \in folders[d].temporaries => handlers[h].file \notin DOMAIN folders[d].images
      BY <1>1, <2>2 DEF FreshInv
    <2>4. Follows(h)
      <3>1. CASE Ask(a)
        BY <3>1, AsksBusy, FoldersUnchanged, FollowsSmaller DEF Sound
      <3>2. CASE Handle(a)
        BY <1>1, <1>3, <2>2, <3>2, ActorMet, OthersFollow
      <3> QED
        BY <3>1, <3>2
    <2> QED
      BY <2>1, <2>3, <2>4 DEF Follows
  <1> QED
    BY <1>2, <1>3

LEMMA AloneStep ==
  ASSUME Sound, MetInv, HistoryNext, NEW a \in Handlers, Ask(a) \/ Handle(a), NEW h \in Handlers
  PROVE  AloneInv(h)'
  <1> SUFFICES ASSUME h \in Busy', met'[h] = {} PROVE AloneInv(h)'
    BY DEF AloneInv
  <1>1. a = h /\ Arrives(h)
    BY OnlyActor, ArrivesOne
  <1>2. ASSUME At(h, "changing")', Request(h).kind' = "renameImage"
        PROVE  ~ Has(Request(h).category, Request(h).to)'
    <2>1. Valid(Request(h)) /\ handlers'[h].request = Request(h) /\ folders' = folders
      BY <1>1, <1>2 DEF Arrives, At
    <2> QED
      BY <1>2, <2>1 DEF Valid, Request, Has, Images
  <1>3. ASSUME At(h, "changing")', Request(h).kind' = "moveImage"
        PROVE  ~ Has(Request(h).to, Request(h).file)'
    <2>1. Valid(Request(h)) /\ handlers'[h].request = Request(h) /\ folders' = folders
      BY <1>1, <1>3 DEF Arrives, At
    <2> QED
      BY <1>3, <2>1 DEF Valid, Request, Has, Images
  <1>4. ASSUME At(h, "copying")'
        PROVE  folders'[Request(h)'.category].images[handlers'[h].file] = Torn
    <2>1. OpenCopy(h) /\ ~ Raise(h)
      BY <1>1, <1>4 DEF Arrives, At
    <2>2. Request(h)' = Request(h) /\ Puts(Request(h).category, handlers'[h].file, Torn)
      BY <2>1, OpenCopyEffect DEF Request
    <2> QED
      BY <2>2 DEF Puts
  <1>5. ASSUME At(h, "writing")' PROVE handlers'[h].counts = Scan'
    BY <1>1, <1>5 DEF Arrives, At, Scan
  <1>6. ASSUME At(h, "opening")' PROVE ~ Has(Request(h).category, handlers[h].file)'
    <2>1. Choose(h) /\ ~ Raise(h) /\ handlers'[h].pc = "opening"
      BY <1>1, <1>6 DEF Arrives, At
    <2>2. ~ OnLoop(h)
      BY <2>1, ChooseEffect
    <2>3. /\ Request(h)' = Request(h) /\ folders' = folders
          /\ handlers'[h].file \notin DOMAIN folders[Request(h).category].images
      BY <2>1, <2>2, ChooseEffect DEF Request
    <2> QED
      BY <2>3 DEF Has, Images
  <1> QED
    BY <1>2, <1>3, <1>4, <1>5, <1>6 DEF AloneInv

-----------------------------------------------------------------------------
(***************************************************************************)
(* The counts, while no two requests overlap.                              *)
(***************************************************************************)
LEMMA SameScan ==
  ASSUME DOMAIN folders' \ {Preparations} = DOMAIN folders \ {Preparations},
         \A c \in DOMAIN folders \ {Preparations} : folders'[c].images = folders[c].images
  PROVE  Scan' = Scan
  BY DEF Scan

\* A request that is served alone leaves the counts to be those of the images there are.
LEMMA CountsAlone ==
  ASSUME Sound, NEW a \in Handlers, Handle(a), AloneInv(a), Counted(a), met[a] = {}, ~ Contested, ~ Spoils(a)
  PROVE  Counted(a)' /\ (At(a, "idle")' => metadata' = Scan')
  <1>1. /\ handlers[a] \in Task /\ handlers \in [Handlers -> Task] /\ Fits(handlers[a]) /\ TypeOK
        /\ a \in Busy /\ Arrives(a)
    BY Parts, HandlesWhenBusy, ArrivesOne DEF Sound
  <1>2. CASE metadata = Scan /\ metadata' = metadata /\ Scan' = Scan /\ ~ At(a, "unlinking")'
    BY <1>2 DEF Counted
  <1>3. CASE handlers'[a].pc \in {"scanning", "writing", "choosing", "replacing", "opening", "copying"}
    BY <1>3 DEF Counted, At
  <1>4. CASE UNCHANGED <<folders, metadata>> /\ ~ At(a, "unlinking")'
             /\ handlers[a].pc \in {"checking", "changing", "listing", "preparing", "publishing"}
    <2>1. metadata = Scan /\ Scan' = Scan
      BY <1>4 DEF Counted, Scan
    <2> QED
      BY <1>2, <1>4, <2>1
  <1>5. CASE Raise(a) /\ handlers[a].pc \in {"checking", "changing", "listing", "preparing", "publishing"}
    BY <1>1, <1>4, <1>5, RaiseIsIdle DEF At
  <1>6. ~ (Raise(a) /\ handlers[a].pc \in {"choosing", "replacing", "opening", "copying", "writing"})
    BY <1>1, RaiseIsIdle DEF Spoils
  <1>7. CASE Check(a)
    <2>1. CASE ~ Raise(a)
      <3>1. Goto(a, AfterCheck(Request(a))) /\ UNCHANGED <<folders, metadata>> /\ handlers[a].pc = "checking"
        BY <1>7, <2>1 DEF Check, At
      <3>2. AfterCheck(Request(a)) \in {"choosing", "listing", "preparing", "changing"}
        BY DEF AfterCheck
      <3>3. ~ At(a, "unlinking")'
        BY <1>1, <3>1, <3>2, GotoLeaves DEF At
      <3> QED
        BY <1>4, <3>1, <3>3
    <2> QED
      BY <1>5, <1>7, <2>1 DEF Check, At
  <1>8. CASE Create(a) \/ RenameFolder(a) \/ DeleteImage(a) \/ RenameImage(a) \/ MoveImage(a)
    <2>1. CASE ~ Raise(a)
      <3>1. Goto(a, "scanning")
        BY <1>8, <2>1 DEF Create, RenameFolder, DeleteImage, RenameImage, MoveImage
      <3> QED
        BY <1>1, <1>3, <3>1, GotoLeaves
    <2> QED
      BY <1>5, <1>8, <2>1 DEF Create, RenameFolder, DeleteImage, RenameImage, MoveImage, At
  <1>9. CASE List(a)
    <2> DEFINE c == Request(a).category
    <2>1. CASE ~ Raise(a)
      <3>1. /\ c \in DOMAIN folders /\ folders' = folders
            /\ handlers' = [handlers EXCEPT ![a].pc = "unlinking", ![a].listed = DOMAIN folders[c].images]
        BY <1>9, <2>1 DEF List
      <3>2. /\ handlers'[a].pc = "unlinking" /\ handlers'[a].listed = DOMAIN folders[c].images
            /\ handlers'[a].request = Request(a)
        BY <1>1, <3>1 DEF Task, Request
      <3> QED
        BY <3>1, <3>2 DEF Counted, At, Request
    <2> QED
      BY <1>5, <1>9, <2>1 DEF List, At
  <1>10. CASE Unlink(a)
    <2> DEFINE c == Request(a).category
    <2>1. c \in DOMAIN folders /\ handlers[a].listed = DOMAIN folders[c].images /\ folders[c] \in Folder
      BY <1>10, Parts DEF Unlink, Counted, GoodFolders
    <2>2. PICK f \in DOMAIN folders[c].images :
             /\ folders' = [folders EXCEPT ![c] = WithoutImage(folders[c], f)]
             /\ handlers' = [handlers EXCEPT ![a].listed = handlers[a].listed \ {f}]
      BY <1>1, <1>10, <2>1, HasMeans DEF Unlink
    <2>3. /\ handlers'[a].pc = "unlinking" /\ handlers'[a].listed = DOMAIN folders[c].images \ {f}
          /\ handlers'[a].request = Request(a)
      BY <1>1, <1>10, <2>1, <2>2 DEF Task, Request, Unlink, At
    <2>4. c \in DOMAIN folders' /\ DOMAIN folders'[c].images = DOMAIN folders[c].images \ {f}
      <3>1. DOMAIN WithoutImage(folders[c], f).images = DOMAIN folders[c].images \ {f}
        BY <2>1, WithoutImageFields
      <3> HIDE DEF c
      <3> QED
        BY <2>1, <2>2, <3>1, Parts DEF GoodFolders
    <2> QED
      BY <2>3, <2>4 DEF Counted, At, Request
  <1>11. CASE RemoveFolder(a)
    <2>1. ~ (Request(a).category \in DOMAIN folders => ~ Empty(folders[Request(a).category]) /\ Contested)
      BY <1>11 DEF RemoveFolder, Counted
    <2>2. Goto(a, "scanning")
      BY <1>11, <2>1 DEF RemoveFolder
    <2> QED
      BY <1>1, <1>3, <2>2, GotoLeaves
  <1>12. CASE Choose(a) \/ Replace(a) \/ OpenCopy(a) \/ Copied(a) \/ BatchDone(a)
    <2>1. handlers[a].pc \in {"choosing", "replacing", "opening", "copying"}
      BY <1>12 DEF Choose, Replace, OpenCopy, Copied, BatchDone, At
    <2>2. ~ Raise(a)
      BY <1>6, <2>1
    <2>3. CASE Choose(a)
      BY <1>3, <2>2, <2>3, ChooseEffect
    <2>4. CASE Replace(a)
      BY <1>3, <2>2, <2>4, ReplaceEffect
    <2>5. CASE OpenCopy(a)
      BY <1>3, <2>2, <2>5, OpenCopyEffect
    <2>6. CASE Copied(a)
      <3>1. handlers' = [handlers EXCEPT ![a].pc = "choosing", ![a].left = Tail(@), ![a].file = None]
        BY <2>2, <2>6 DEF Copied
      <3>2. handlers'[a].pc = "choosing"
        BY <1>1, <3>1 DEF Task
      <3> QED
        BY <1>3, <3>2
    <2>7. CASE BatchDone(a)
      BY <1>1, <1>3, <2>7, GotoLeaves DEF BatchDone
    <2> QED
      BY <1>12, <2>3, <2>4, <2>5, <2>6, <2>7
  <1>13. CASE Prepare(a)
    <2>1. /\ handlers[a].pc = "preparing" /\ Goto(a, "publishing") /\ metadata' = metadata
      BY <1>13 DEF Prepare, At
    <2>2. Scan' = Scan
      <3>1. CASE Preparations \in DOMAIN folders
        <4>1. folders' = [folders EXCEPT ![Preparations] = WithTemporary(folders[Preparations], a)]
          BY <1>13, <3>1 DEF Prepare
        <4> QED
          BY <4>1, SameScan, Parts DEF GoodFolders
      <3>2. CASE Preparations \notin DOMAIN folders
        <4>1. folders' = WithFolder(Preparations, [images |-> NoImages, snapshots |-> {}, temporaries |-> {a}])
          BY <1>13, <3>2 DEF Prepare
        <4> QED
          BY <4>1, SameScan DEF WithFolder
      <3> QED
        BY <3>1, <3>2
    <2>3. metadata = Scan /\ ~ At(a, "unlinking")'
      BY <1>1, <2>1, GotoLeaves DEF Counted, At
    <2> QED
      BY <1>2, <2>1, <2>2, <2>3
  <1>14. CASE Publish(a) /\ ~ Raise(a)
    <2>1. handlers[a].pc = "publishing" /\ metadata' = metadata /\ handlers'[a].pc = "idle"
      BY <1>1, <1>14, IdleTask DEF Publish, At
    <2>2. Scan' = Scan
      BY <1>14, PublishEffect, SameScan
    <2> QED
      BY <1>2, <2>1, <2>2 DEF Counted, At
  <1>15. CASE Abandon(a)
    <2>1. metadata' = metadata /\ handlers'[a] = Idle /\ handlers[a].pc \in {"replacing", "publishing"}
      BY <1>1, <1>15 DEF Abandon
    <2>2. handlers[a].pc = "publishing" /\ handlers'[a].pc = "idle"
      BY <2>1, IdleTask DEF Spoils
    <2>3. Scan' = Scan
      BY <1>15, AbandonEffect, SameScan
    <2> QED
      BY <1>2, <2>1, <2>2, <2>3 DEF Counted, At
  <1>16. CASE ScanFolders(a)
    <2>1. handlers'[a].pc = "writing"
      BY <1>1, <1>16 DEF ScanFolders, Task
    <2> QED
      BY <1>3, <2>1
  <1>17. CASE WriteMetadata(a)
    <2>1. /\ metadata' = handlers[a].counts /\ folders' = folders /\ At(a, "writing") /\ handlers'[a].pc = "idle"
      BY <1>1, <1>17, IdleTask DEF WriteMetadata
    <2>2. handlers[a].counts = Scan /\ Scan' = Scan
      BY <1>1, <2>1 DEF AloneInv, Scan
    <2> QED
      BY <2>1, <2>2 DEF Counted, At
  <1>18. ~ Fail(a)
    BY <1>6 DEF Fail
  <1> QED
    BY <1>5, <1>7, <1>8, <1>9, <1>10, <1>11, <1>12, <1>13, <1>14, <1>15, <1>16, <1>17, <1>18
       DEF Handle, Publish, At

\* An answer to one that has met no other, and that counts.
LEMMA CountsMended ==
  ASSUME Sound, MetInv, NEW a \in Handlers, Ask(a) \/ Handle(a), NEW h \in Busy, AloneInv(h), Recounts(h)
  PROVE  metadata' = Scan' /\ Busy' = {}
  <1>1. h \in Handlers /\ handlers[h].answer # "ok" /\ handlers'[h].answer = "ok" /\ met[h] = {}
        /\ Request(h).kind # "snapshot"
    BY NoneAssumption DEF Sound, Fits, Busy, At, Recounts
  <1>2. a = h
    BY <1>1, OthersKept DEF Sound
  <1>3. At(h, "writing") /\ metadata' = handlers[h].counts /\ UNCHANGED folders /\ handlers'[h].pc = "idle"
    BY <1>1, <1>2, ArrivesOne DEF Arrives
  <1>4. handlers[h].counts = Scan /\ Scan' = Scan
    BY <1>1, <1>3 DEF AloneInv, Scan
  <1>5. \A g \in Handlers \ {h} : g \notin Busy /\ handlers'[g] = handlers[g]
    BY <1>1, <1>2, OthersKept DEF MetInv, Sound
  <1>6. Busy' = {}
    BY <1>3, <1>5 DEF Busy, At
  <1> QED
    BY <1>3, <1>4, <1>6

LEMMA CountsStep ==
  ASSUME Sound, MetInv, CountsInv, \A h \in Handlers : AloneInv(h), HistoryNext
  PROVE  CountsInv'
  <1>1. \A h \in Handlers \ Busy' : met'[h] = {}
    BY DEF HistoryNext
  <1>2. ASSUME ~ stale'
        PROVE  (\A h \in Busy' : met'[h] = {} /\ Counted(h)') /\ (Busy' = {} => metadata' = Scan')
    <2>1. PICK a \in Handlers : Ask(a) \/ Handle(a)
      BY DEF HistoryNext, Next
    <2>2. /\ \A g, h \in Busy' : g = h
          /\ \A h \in Busy : ~ Spoils(h)
          /\ stale => \E h \in Busy : Recounts(h)
      BY <1>2 DEF HistoryNext
    <2>3. CASE stale
      <3>1. metadata' = Scan' /\ Busy' = {}
        BY <2>1, <2>2, <2>3, CountsMended DEF Busy
      <3> QED
        BY <3>1
    <2>4. CASE ~ stale /\ Ask(a)
      <3>1. a \in Busy' /\ folders' = folders /\ metadata' = metadata /\ At(a, "idle")
        BY <2>4, AsksBusy DEF Sound, Ask
      <3>2. ASSUME NEW g \in Busy PROVE FALSE
        <4>1. g \in Handlers /\ g # a
          BY <3>1 DEF Busy
        <4>2. g \in Busy'
          BY <2>1, <4>1, OthersKept DEF Busy, At, Sound
        <4> QED
          BY <2>2, <3>1, <4>1, <4>2
      <3>3. metadata' = Scan'
        <4>1. Busy = {} /\ Scan' = Scan
          BY <3>1, <3>2 DEF Scan
        <4> QED
          BY <2>4, <3>1, <4>1 DEF CountsInv
      <3>4. met[a] = {} /\ Busy' = {a}
        BY <2>2, <3>1, <3>2 DEF CountsInv
      <3>5. met'[a] = {}
        BY <3>4 DEF HistoryNext
      <3>6. ~ At(a, "unlinking")'
        <4>1. PICK r \in Requests : \E batch :
                handlers' = [handlers EXCEPT ![a] = [Idle EXCEPT !.pc = "checking", !.request = r, !.left = batch]]
          BY <2>4 DEF Ask
        <4>2. handlers'[a].pc = "checking"
          BY <4>1, Parts DEF Idle
        <4> QED
          BY <4>2 DEF At
      <3> QED
        BY <3>3, <3>4, <3>5, <3>6 DEF Counted
    <2>5. CASE ~ stale /\ Handle(a)
      <3>1. a \in Busy /\ met[a] = {} /\ Counted(a)
        BY <2>5, HandlesWhenBusy DEF CountsInv
      <3>2. Busy = {a}
        BY <3>1 DEF MetInv
      <3>3. ~ Contested
        <4>1. Cardinality({a}) = 1
          BY FS_Singleton
        <4> QED
          BY <3>2, <4>1 DEF Contested, Busy, At
      <3>4. Counted(a)' /\ (At(a, "idle")' => metadata' = Scan')
        BY <2>2, <2>5, <3>1, <3>3, CountsAlone
      <3>5. Busy' \subseteq {a}
        BY <2>1, <3>2, OthersKept DEF Sound, Busy, At
      <3>6. a \in Busy' => met'[a] = {}
        BY <3>1, <3>5 DEF HistoryNext
      <3>7. Busy' = {} => At(a, "idle")'
        BY DEF Busy
      <3> QED
        BY <3>4, <3>5, <3>6, <3>7
    <2> QED
      BY <2>1, <2>3, <2>4, <2>5
  <1> QED
    BY <1>1, <1>2 DEF CountsInv

LEMMA MetStep ==
  ASSUME HistoryNext
  PROVE  MetInv'
  BY MetGrows DEF MetInv

\* What holds of every state of a run with its history.
Inductive == Sound /\ HistoryInv

LEMMA InductiveInitially == HistoryInit => Inductive
  <1> SUFFICES ASSUME HistoryInit PROVE Inductive
    OBVIOUS
  <1>1. Sound
    BY SoundInitially DEF HistoryInit
  <1>2. Busy = {} /\ DOMAIN folders = {} /\ \A h \in Handlers : ~ At(h, "replacing")
    BY DEF HistoryInit, Init, Busy, At, Idle, NoFolders
  <1>3. metadata = Scan
    BY <1>2 DEF HistoryInit, Init, Scan, NoFolders
  <1> QED
    BY <1>1, <1>2, <1>3 DEF Inductive, HistoryInv, MetInv, CountsInv, TemporaryInv, FreshInv, AloneInv, HistoryInit

LEMMA InductiveStep == Inductive /\ [HistoryNext]_<<vars, met, stale>> => Inductive'
  <1> SUFFICES ASSUME Inductive, [HistoryNext]_<<vars, met, stale>> PROVE Inductive'
    OBVIOUS
  <1>1. CASE UNCHANGED <<vars, met, stale>>
    <2>1. Sound'
      BY <1>1, SoundStep DEF Inductive, vars
    <2>2. MetInv'
      BY <1>1 DEF vars, Inductive, HistoryInv, MetInv, Busy, At, Request, Class
    <2>3. \A h \in Handlers : TemporaryInv(h)' /\ FreshInv(h)'
      BY <1>1 DEF vars, Inductive, HistoryInv, TemporaryInv, FreshInv, At
    <2>4. \A h \in Handlers : AloneInv(h)'
      <3>1. /\ folders' = folders /\ handlers' = handlers /\ met' = met /\ Busy' = Busy
            /\ Scan' = Scan /\ Images' = Images
        BY <1>1 DEF vars, Busy, At, Scan, Images
      <3> QED
        BY <3>1 DEF Inductive, HistoryInv, AloneInv, At, Request, Has
    <2>5. CountsInv'
      <3>1. /\ folders' = folders /\ handlers' = handlers /\ metadata' = metadata /\ met' = met /\ stale' = stale
            /\ Busy' = Busy /\ Scan' = Scan
        BY <1>1 DEF vars, Busy, At, Scan
      <3> QED
        BY <3>1 DEF Inductive, HistoryInv, CountsInv, Counted, At, Request
    <2> QED
      BY <2>1, <2>2, <2>3, <2>4, <2>5 DEF Inductive, HistoryInv
  <1>2. CASE HistoryNext
    <2>1. PICK a \in Handlers : Ask(a) \/ Handle(a)
      BY <1>2 DEF HistoryNext, Next
    <2>2. Sound'
      BY <1>2, SoundStep DEF Inductive, HistoryNext
    <2>3. Temporaries'
      BY <2>1, TemporariesStep DEF Inductive, HistoryInv, Temporaries
    <2>4. \A h \in Handlers : FreshInv(h)' /\ AloneInv(h)'
      BY <1>2, <2>1, <2>3, FreshStep, AloneStep DEF Inductive, HistoryInv
    <2>5. MetInv' /\ CountsInv'
      BY <1>2, MetStep, CountsStep DEF Inductive, HistoryInv
    <2> QED
      BY <2>2, <2>3, <2>4, <2>5 DEF Inductive, HistoryInv, Temporaries
  <1> QED
    BY <1>1, <1>2

(***************************************************************************)
(* When no request is being served, metadata.json counts the images there  *)
(* are, unless it has been left stale in one of the three ways that are    *)
(* named in the history; the next request that counts, and meets no other, *)
(* mends it.                                                               *)
(***************************************************************************)
THEOREM CountsDescribe == HistorySpec => []CountsDescribeFiles
  <1>1. Inductive => CountsDescribeFiles
    BY DEF Inductive, HistoryInv, CountsInv, CountsDescribeFiles
  <1> QED
    BY <1>1, InductiveInitially, InductiveStep, PTL DEF HistorySpec

-----------------------------------------------------------------------------
(***************************************************************************)
(* Images are not lost.                                                    *)
(***************************************************************************)
LEMMA HoldingIs ==
  \A x, place : place \in Holding(x) <=>
      /\ place = <<place[1], place[2]>>
      /\ place[1] \in DOMAIN folders
      /\ place[2] \in DOMAIN folders[place[1]].images
      /\ folders[place[1]].images[place[2]] = x
  BY ImagesAre DEF Holding

LEMMA HoldingIsNow ==
  \A x, place : place \in Holding(x)' <=>
      /\ place = <<place[1], place[2]>>
      /\ place[1] \in DOMAIN folders'
      /\ place[2] \in DOMAIN folders'[place[1]].images
      /\ folders'[place[1]].images[place[2]] = x
  BY DEF Holding, Images
LEMMA HoldingFinite == Finite => \A x : IsFiniteSet(Holding(x))
  <1> SUFFICES ASSUME Finite, NEW x PROVE IsFiniteSet(Holding(x))
    OBVIOUS
  <1>1. Holding(x) \subseteq Images
    BY DEF Holding
  <1> QED
    BY <1>1, ImagesFinite, FS_Subset

LEMMA HoldingFiniteNow == (Finite => \A x : IsFiniteSet(Holding(x)))'
  BY HoldingFinite, PTL

LEMMA MoreHeld ==
  ASSUME Finite', NEW x, Holding(x) \subseteq Holding(x)'
  PROVE  Copies(x) <= Copies(x)'
  BY HoldingFiniteNow, FS_Subset DEF Copies

\* Another image may be held in the place of each.
LEMMA HeldElsewhere ==
  ASSUME Finite', NEW x, NEW f \in Injection(Holding(x), Holding(x)')
  PROVE  Copies(x) <= Copies(x)'
  BY HoldingFiniteNow, FS_Injection DEF Copies

\* A place that is given a new content had none, or the part of one.
LEMMA PutsKeeps ==
  ASSUME NEW c, NEW f, NEW y, Puts(c, f, y), NEW x \in Contents,
         f \in DOMAIN folders[c].images => folders[c].images[f] = Torn
  PROVE  Holding(x) \subseteq Holding(x)'
  <1> SUFFICES ASSUME NEW place \in Holding(x) PROVE place \in Holding(x)'
    OBVIOUS
  <1> DEFINE d == place[1]
             g == place[2]
  <1>1. place = <<d, g>> /\ d \in DOMAIN folders /\ g \in DOMAIN folders[d].images /\ folders[d].images[g] = x
    BY HoldingIs
  <1>2. d = c => g # f
    BY <1>1, NoneAssumption
  <1>3. d \in DOMAIN folders' /\ g \in DOMAIN folders'[d].images /\ folders'[d].images[g] = x
    BY <1>1, <1>2 DEF Puts
  <1> QED
    BY <1>1, <1>3, HoldingIsNow

LEMMA RenamesKeeps ==
  ASSUME Finite', NEW c, NEW f, NEW d, NEW g, Renames(c, f, d, g), g \notin DOMAIN folders[d].images, NEW x
  PROVE  Copies(x) <= Copies(x)'
  <1> DEFINE move == [place \in Holding(x) |-> IF place = <<c, f>> THEN <<d, g>> ELSE place]
  <1>1. ASSUME NEW place \in Holding(x) PROVE move[place] \in Holding(x)'
    <2> DEFINE e == place[1]
               k == place[2]
    <2>1. place = <<e, k>> /\ e \in DOMAIN folders /\ k \in DOMAIN folders[e].images /\ folders[e].images[k] = x
      BY HoldingIs
    <2>2. CASE place = <<c, f>>
      <3>1. folders'[d].images[g] = x /\ d \in DOMAIN folders' /\ g \in DOMAIN folders'[d].images
        BY <2>1, <2>2 DEF Renames
      <3>2. <<d, g>> \in Holding(x)'
        BY <3>1, HoldingIsNow
      <3> QED
        BY <2>2, <3>2
    <2>3. CASE place # <<c, f>>
      <3>1. <<e, k>> # <<d, g>> /\ <<e, k>> # <<c, f>>
        BY <2>1, <2>3
      <3>2. e \in DOMAIN folders' /\ k \in DOMAIN folders'[e].images /\ folders'[e].images[k] = x
        BY <2>1, <3>1 DEF Renames
      <3>3. place \in Holding(x)'
        BY <2>1, <3>2, HoldingIsNow
      <3> QED
        BY <2>3, <3>3
    <2> QED
      BY <2>2, <2>3
  <1>2. ASSUME NEW p \in Holding(x), NEW q \in Holding(x), move[p] = move[q] PROVE p = q
    <2>1. p # <<d, g>> /\ q # <<d, g>>
      BY HoldingIs
    <2> QED
      BY <1>2, <2>1
  <1>3. move \in Injection(Holding(x), Holding(x)')
    BY <1>1, <1>2 DEF Injection, IsInjective
  <1> HIDE DEF move
  <1> QED
    BY <1>3, HeldElsewhere
LEMMA CreateKeeps ==
  ASSUME Sound, NEW h \in Handlers, Create(h), ~ Raise(h), NEW x
  PROVE  Holding(x) \subseteq Holding(x)' /\ Prepared \subseteq Prepared'
  <1> DEFINE c == Request(h).category
  <1>1. c \notin DOMAIN folders /\ folders' = WithFolder(c, [images |-> NoImages, snapshots |-> {}, temporaries |-> {}])
    BY DEF Create
  <1>2. DOMAIN folders' = DOMAIN folders \cup {c} /\ \A d \in DOMAIN folders : folders'[d] = folders[d]
    BY <1>1 DEF WithFolder
  <1>3. Holding(x) \subseteq Holding(x)'
    BY <1>2, HoldingIs, HoldingIsNow
  <1> QED
    BY <1>2, <1>3 DEF Prepared

\* A directory is renamed onto none, or onto an empty one.
LEMMA RenameFolderKeeps ==
  ASSUME Sound, Finite', NEW h \in Handlers, RenameFolder(h), ~ Raise(h), NEW x
  PROVE  /\ Copies(x) <= Copies(x)'
         /\ Request(h).category # Preparations => Prepared \subseteq Prepared'
  <1> DEFINE c == Request(h).category
             d == Request(h).to
             move == [place \in Holding(x) |-> IF place[1] = c THEN <<d, place[2]>> ELSE place]
  <1>1. /\ c \in DOMAIN folders /\ (d \in DOMAIN folders => Empty(folders[d]))
        /\ folders' = [e \in (DOMAIN folders \ {c}) \cup {d} |-> IF e = d THEN folders[c] ELSE folders[e]]
    BY DEF RenameFolder
  <1>2. c # d
    BY RequestFields, Parts DEF RenameFolder, At, Fits, Request
  <1>3. /\ DOMAIN folders' = (DOMAIN folders \ {c}) \cup {d} /\ folders'[d] = folders[c]
        /\ \A e \in DOMAIN folders \ {c, d} : folders'[e] = folders[e]
    BY <1>1
  <1>4. \A place \in Holding(x) : place[1] # d
    BY <1>1, HoldingIs DEF Empty
  <1> HIDE DEF c, d
  <1>5. ASSUME NEW place \in Holding(x) PROVE move[place] \in Holding(x)'
    <2> DEFINE e == place[1]
               k == place[2]
    <2>1. /\ place = <<e, k>> /\ e \in DOMAIN folders /\ k \in DOMAIN folders[e].images
          /\ folders[e].images[k] = x /\ e # d
      BY <1>4, HoldingIs
    <2>2. CASE e = c
      <3>1. <<d, k>> \in Holding(x)'
        BY <1>3, <2>1, <2>2, HoldingIsNow
      <3> QED
        BY <2>2, <3>1
    <2>3. CASE e # c
      <3>1. e \in DOMAIN folders' /\ folders'[e] = folders[e]
        BY <1>3, <2>1, <2>3
      <3>2. place \in Holding(x)'
        BY <2>1, <3>1, HoldingIsNow
      <3> QED
        BY <2>3, <3>2
    <2> QED
      BY <2>2, <2>3
  <1>6. ASSUME NEW p \in Holding(x), NEW q \in Holding(x), move[p] = move[q] PROVE p = q
    <2>1. p = <<p[1], p[2]>> /\ q = <<q[1], q[2]>> /\ p[1] # d /\ q[1] # d
      BY <1>4, HoldingIs
    <2>2. /\ move[p][1] = (IF p[1] = c THEN d ELSE p[1]) /\ move[p][2] = p[2]
          /\ move[q][1] = (IF q[1] = c THEN d ELSE q[1]) /\ move[q][2] = q[2]
      OBVIOUS
    <2> HIDE DEF move
    <2>3. p[1] = q[1] /\ p[2] = q[2]
      BY <1>6, <2>1, <2>2
    <2> QED
      BY <2>1, <2>3
  <1>7. move \in Injection(Holding(x), Holding(x)')
    BY <1>5, <1>6 DEF Injection, IsInjective
  <1>8. Copies(x) <= Copies(x)'
    <2> HIDE DEF move
    <2> QED
      BY <1>7, HeldElsewhere
  <1>9. c # Preparations => Prepared \subseteq Prepared'
    BY <1>1, <1>3 DEF Prepared, Empty
  <1> QED
    BY <1>8, <1>9 DEF c

\* A temporary file more or less loses nothing.
LEMMA TemporaryKeeps ==
  ASSUME Sound, NEW c \in DOMAIN folders, NEW F, folders' = [folders EXCEPT ![c] = F],
         F.images = folders[c].images, folders[c].snapshots \subseteq F.snapshots, NEW x
  PROVE  Holding(x) \subseteq Holding(x)' /\ Prepared \subseteq Prepared'
  <1>1. /\ DOMAIN folders' = DOMAIN folders
        /\ \A d \in DOMAIN folders : /\ folders'[d].images = folders[d].images
                                     /\ folders[d].snapshots \subseteq folders'[d].snapshots
    BY Parts DEF GoodFolders
  <1>2. Holding(x) \subseteq Holding(x)'
    BY <1>1, HoldingIs, HoldingIsNow
  <1> QED
    BY <1>1, <1>2 DEF Prepared

LEMMA UploadChosenKeeps ==
  ASSUME Sound, NEW h \in Handlers, Choose(h), ~ Raise(h), OnLoop(h), NEW x
  PROVE  Holding(x) \subseteq Holding(x)' /\ Prepared \subseteq Prepared'
  <1> DEFINE c == Request(h).category
             F == WithTemporary(folders[c], h)
  <1>1. c \in DOMAIN folders /\ folders' = [folders EXCEPT ![c] = F]
    BY ChooseEffect
  <1>2. F.images = folders[c].images /\ F.snapshots = folders[c].snapshots
    BY <1>1, TemporaryFields, Parts DEF GoodFolders
  <1> HIDE DEF c, F
  <1> QED
    BY <1>1, <1>2, TemporaryKeeps

LEMMA PrepareKeeps ==
  ASSUME Sound, NEW h \in Handlers, Prepare(h), NEW x
  PROVE  Holding(x) \subseteq Holding(x)' /\ Prepared \subseteq Prepared'
  <1>1. CASE Preparations \in DOMAIN folders
    <2> DEFINE F == WithTemporary(folders[Preparations], h)
    <2>1. folders' = [folders EXCEPT ![Preparations] = F]
      BY <1>1 DEF Prepare
    <2>2. F.images = folders[Preparations].images /\ F.snapshots = folders[Preparations].snapshots
      BY <1>1, TemporaryFields, Parts DEF GoodFolders
    <2> HIDE DEF F
    <2> QED
      BY <1>1, <2>1, <2>2, TemporaryKeeps
  <1>2. CASE Preparations \notin DOMAIN folders
    <2>1. folders' = WithFolder(Preparations, [images |-> NoImages, snapshots |-> {}, temporaries |-> {h}])
      BY <1>2 DEF Prepare
    <2>2. /\ DOMAIN folders' = DOMAIN folders \cup {Preparations}
          /\ \A d \in DOMAIN folders : folders'[d] = folders[d]
      BY <1>2, <2>1 DEF WithFolder
    <2>3. Holding(x) \subseteq Holding(x)'
      BY <2>2, HoldingIs, HoldingIsNow
    <2> QED
      BY <1>2, <2>3 DEF Prepared
  <1> QED
    BY <1>1, <1>2

LEMMA PublishKeeps ==
  ASSUME Sound, NEW h \in Handlers, Publish(h), ~ Raise(h), NEW x
  PROVE  Holding(x) \subseteq Holding(x)' /\ Prepared \subseteq Prepared'
  <1>1. /\ DOMAIN folders' = DOMAIN folders
        /\ \A d \in DOMAIN folders : /\ folders'[d].images = folders[d].images
                                     /\ folders[d].snapshots \subseteq folders'[d].snapshots
    BY PublishEffect
  <1>2. Holding(x) \subseteq Holding(x)'
    BY <1>1, HoldingIs, HoldingIsNow
  <1> QED
    BY <1>1, <1>2 DEF Prepared

LEMMA AbandonKeeps ==
  ASSUME Sound, NEW h \in Handlers, Abandon(h), NEW x
  PROVE  Holding(x) \subseteq Holding(x)' /\ Prepared \subseteq Prepared'
  <1>1. /\ DOMAIN folders' = DOMAIN folders
        /\ \A d \in DOMAIN folders : /\ folders'[d].images = folders[d].images
                                     /\ folders[d].snapshots \subseteq folders'[d].snapshots
    BY AbandonEffect
  <1>2. Holding(x) \subseteq Holding(x)'
    BY <1>1, HoldingIs, HoldingIsNow
  <1> QED
    BY <1>1, <1>2 DEF Prepared

LEMMA SnapshotsLeft ==
  ASSUME ImagesOnly
  PROVE  Prepared \subseteq Prepared'
  BY DEF ImagesOnly, Prepared

LEMMA RemoveFolderKeeps ==
  ASSUME NEW h \in Handlers, RemoveFolder(h), ~ Raise(h), Request(h).category # Preparations
  PROVE  Prepared \subseteq Prepared'
  <1> DEFINE c == Request(h).category
  <1>1. folders' = WithoutFolder(c)
    BY DEF RemoveFolder
  <1>2. DOMAIN folders' = DOMAIN folders \ {c} /\ \A d \in DOMAIN folders \ {c} : folders'[d] = folders[d]
    BY <1>1 DEF WithoutFolder, Restrict
  <1> QED
    BY <1>2 DEF Prepared

LEMMA NothingLost ==
  ASSUME UNCHANGED folders, NEW x
  PROVE  Holding(x) \subseteq Holding(x)' /\ Prepared \subseteq Prepared'
  BY HoldingIs, HoldingIsNow DEF Prepared

LEMMA ImagesKept ==
  ASSUME Inductive, Finite', NEW h \in Handlers, Handle(h), NEW x \in Contents,
         Request(h).kind \notin {"delete", "deleteImage"}, ~ Raced(h)
  PROVE  Copies(x) <= Copies(x)'
  <1>1. Sound /\ FreshInv(h) /\ AloneInv(h) /\ h \in Busy
    BY HandlesWhenBusy DEF Inductive, HistoryInv
  <1>2. Request(h).kind \in Replacing => met[h] = {}
    BY DEF Raced
  <1>3. ~ List(h) /\ ~ Unlink(h) /\ ~ RemoveFolder(h) /\ ~ DeleteImage(h)
    <2>1. At(h, "listing") \/ At(h, "unlinking") => Request(h).kind = "delete"
      BY <1>1, Parts DEF Fits, At, Request
    <2> QED
      BY <2>1 DEF List, Unlink, RemoveFolder, DeleteImage
  <1>4. CASE UNCHANGED folders
    BY <1>4, NothingLost, MoreHeld
  <1>5. CASE Raise(h)
    BY <1>4, <1>5 DEF Raise
  <1>6. CASE RenameImage(h) /\ ~ Raise(h)
    <2>1. At(h, "changing") /\ Request(h).kind = "renameImage" /\ Request(h).kind \in Replacing
      BY <1>6 DEF RenameImage, Replacing
    <2>2. ~ Has(Request(h).category, Request(h).to)
      BY <1>1, <1>2, <2>1 DEF AloneInv
    <2>3. Renames(Request(h).category, Request(h).file, Request(h).category, Request(h).to)
      BY <1>1, <1>6, RenameImageEffect
    <2>4. Request(h).to \notin DOMAIN folders[Request(h).category].images
      BY <2>2, <2>3, HasMeans DEF Renames
    <2> QED
      BY <2>3, <2>4, RenamesKeeps
  <1>7. CASE MoveImage(h) /\ ~ Raise(h)
    <2>1. At(h, "changing") /\ Request(h).kind = "moveImage" /\ Request(h).kind \in Replacing
      BY <1>7 DEF MoveImage, Replacing
    <2>2. ~ Has(Request(h).to, Request(h).file)
      BY <1>1, <1>2, <2>1 DEF AloneInv
    <2>3. Renames(Request(h).category, Request(h).file, Request(h).to, Request(h).file)
      BY <1>1, <1>7, MoveImageEffect
    <2>4. Request(h).file \notin DOMAIN folders[Request(h).to].images
      BY <2>2, <2>3, HasMeans DEF Renames
    <2> QED
      BY <2>3, <2>4, RenamesKeeps
  <1>8. CASE OpenCopy(h) /\ ~ Raise(h)
    <2>1. Puts(Request(h).category, handlers[h].file, Torn)
      BY <1>1, <1>8, OpenCopyEffect
    <2>2. At(h, "opening") /\ Request(h).kind = "import" /\ Request(h).kind \in Replacing
      BY <1>1, <1>8, Parts DEF OpenCopy, Fits, At, Request, Replacing
    <2>3. ~ Has(Request(h).category, handlers[h].file)
      BY <1>1, <1>2, <2>2 DEF AloneInv
    <2>4. handlers[h].file \notin DOMAIN folders[Request(h).category].images
      BY <2>1, <2>3, HasMeans DEF Puts
    <2> QED
      BY <2>1, <2>4, PutsKeeps, MoreHeld
  <1>9. CASE Replace(h) /\ ~ Raise(h)
    <2>1. /\ Puts(Request(h).category, handlers[h].file, Head(handlers[h].left)[2])
          /\ h \in folders[Request(h).category].temporaries
      BY <1>1, <1>9, ReplaceEffect
    <2>2. handlers[h].file \notin DOMAIN folders[Request(h).category].images
      BY <1>1, <1>9, <2>1 DEF FreshInv, Replace, Raced, Puts
    <2> QED
      BY <2>1, <2>2, PutsKeeps, MoreHeld
  <1>10. CASE Copied(h) /\ ~ Raise(h)
    <2>1. /\ Puts(Request(h).category, handlers[h].file, Head(handlers[h].left)[2])
          /\ handlers[h].file \in DOMAIN folders[Request(h).category].images
      BY <1>1, <1>10, CopiedEffect
    <2>2. At(h, "copying") /\ Request(h).kind = "import" /\ Request(h).kind \in Replacing
      BY <1>1, <1>10, Parts DEF Copied, Fits, At, Request, Replacing
    <2>3. Has(Request(h).category, handlers[h].file)
      BY <2>1, HasMeans DEF Puts
    <2>4. folders[Request(h).category].images[handlers[h].file] = Torn
      BY <1>1, <1>2, <2>2, <2>3 DEF AloneInv
    <2> QED
      BY <2>1, <2>4, PutsKeeps, MoreHeld
  <1>11. CASE Choose(h) /\ ~ Raise(h)
    BY <1>1, <1>4, <1>11, ChooseEffect, UploadChosenKeeps, MoreHeld
  <1> QED
    BY <1>1, <1>3, <1>4, <1>5, <1>6, <1>7, <1>8, <1>9, <1>10, <1>11, CreateKeeps, RenameFolderKeeps,
       PrepareKeeps, PublishKeeps, AbandonKeeps, MoreHeld
       DEF Handle, Fail, Check, BatchDone, ScanFolders, WriteMetadata

LEMMA SnapshotsKept ==
  ASSUME Sound, Finite', NEW h \in Handlers, Handle(h),
         ~ (Request(h).category = Preparations /\ Request(h).kind \in {"delete", "rename"})
  PROVE  Prepared \subseteq Prepared'
  <1>1. CASE UNCHANGED folders
    BY <1>1, NothingLost
  <1>2. CASE Raise(h)
    BY <1>1, <1>2 DEF Raise
  <1>3. CASE DeleteImage(h) \/ Unlink(h) \/ RenameImage(h) \/ MoveImage(h) \/ OpenCopy(h) \/ Copied(h)
    BY <1>3, ImagesLost, RenameImageEffect, MoveImageEffect, OpenCopyEffect, CopiedEffect, SnapshotsLeft
  <1>4. CASE Choose(h) /\ ~ Raise(h)
    BY <1>1, <1>4, ChooseEffect, UploadChosenKeeps
  <1>5. CASE Replace(h) /\ ~ Raise(h)
    BY <1>5, ReplaceEffect DEF Prepared, Puts
  <1>6. CASE RenameFolder(h) /\ ~ Raise(h)
    <2>1. Request(h).category # Preparations
      BY <1>6 DEF RenameFolder
    <2> QED
      BY <1>6, <2>1, RenameFolderKeeps
  <1>7. CASE RemoveFolder(h) /\ ~ Raise(h)
    <2>1. Request(h).kind = "delete"
      BY <1>7, Parts DEF RemoveFolder, Fits, At, Request
    <2> QED
      BY <1>7, <2>1, RemoveFolderKeeps
  <1> QED
    BY <1>1, <1>2, <1>3, <1>4, <1>5, <1>6, <1>7, CreateKeeps, PrepareKeeps, PublishKeeps,
       AbandonKeeps
       DEF Handle, Fail, Check, List, BatchDone, ScanFolders, WriteMetadata

LEMMA FilesStep ==
  Inductive /\ Inductive' /\ [HistoryNext]_<<vars, met, stale>> =>
      [/\ \A x \in Contents :
            \/ Copies(x) <= Copies(x)'
            \/ \E h \in Busy : Request(h).kind \in {"delete", "deleteImage"} \/ Raced(h)
       /\ \/ Prepared \subseteq Prepared'
          \/ \E h \in Busy : Request(h).category = Preparations /\ Request(h).kind \in {"delete", "rename"}]_vars
  <1> SUFFICES ASSUME Inductive, Inductive', HistoryNext
               PROVE  /\ \A x \in Contents :
                           \/ Copies(x) <= Copies(x)'
                           \/ \E h \in Busy : Request(h).kind \in {"delete", "deleteImage"} \/ Raced(h)
                      /\ \/ Prepared \subseteq Prepared'
                         \/ \E h \in Busy : /\ Request(h).category = Preparations
                                            /\ Request(h).kind \in {"delete", "rename"}
    OBVIOUS
  <1>1. PICK a \in Handlers : Ask(a) \/ Handle(a)
    BY DEF HistoryNext, Next
  <1>2. Sound /\ Finite'
    BY DEF Inductive, Sound
  <1>3. CASE Ask(a)
    BY <1>2, <1>3, AsksBusy, NothingLost, MoreHeld DEF Sound
  <1>4. CASE Handle(a)
    <2>1. a \in Busy
      BY <1>4, HandlesWhenBusy
    <2> QED
      BY <1>2, <1>4, <2>1, ImagesKept, SnapshotsKept
  <1> QED
    BY <1>1, <1>3, <1>4

(***************************************************************************)
(* No image and no snapshot is lost but to a request that deletes it, or   *)
(* that gives a name it had checked before another request took it.        *)
(***************************************************************************)
THEOREM FilesKept == HistorySpec => FilesAreKept
  BY InductiveInitially, InductiveStep, FilesStep, PTL DEF HistorySpec, FilesAreKept
=============================================================================
