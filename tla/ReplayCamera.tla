---------------------------- MODULE ReplayCamera -----------------------------
(***************************************************************************)
(* The replay camera (simulator/camera) and the backend's proxy of it      *)
(* (CameraClient).  The proxy asks for a capture, downloads the artifact   *)
(* and confirms it if the bytes have the checksum of the answer.  The      *)
(* camera's handlers run in a pool of threads: each looks its request id   *)
(* up, waits for the frame, reads the source that is selected by then, and *)
(* writes it to a temporary file that is then renamed; the temporary name  *)
(* is that of the artifact, so two captures with one id share it.  Uploads *)
(* of source images are written the same way.                              *)
(*                                                                         *)
(* A handler that has opened the temporary file keeps that file, whatever  *)
(* its name becomes: "temporary", then "artifact" when it is renamed, and  *)
(* "gone" when another takes its place.  A checksum is the content it is   *)
(* of.                                                                     *)
(***************************************************************************)
EXTENDS Naturals, FiniteSets

CONSTANTS
    Threads,        \* the threads of the camera's pool
    Ids,            \* request ids, each the name of an artifact
    Images,         \* the names of source images
    Contents,       \* what is uploaded
    Pattern,        \* the test pattern
    Nothing

\* What a file may hold: a whole image, nothing yet, or parts of two images.
Data == Contents \cup {Pattern, "empty", "mixed"}

\* Artifacts and source images are in two directories.
ASSUME NamesAssumption == Ids \cap Images = {}
ASSUME NothingAssumption == Nothing \notin Threads \cup Ids \cup Images \cup Data

VARIABLES
    configuration,  \* the selected source (Nothing: the test pattern) and the injected fault
    artifacts,      \* the content of each artifact and source image, or Nothing
    temporaries,    \* that of its temporary sibling
    results,        \* _results
    task,           \* what each handler is doing
    proxy           \* for each id the request the backend waits for

cameraVars == <<configuration, artifacts, temporaries, results, task, proxy>>

Names == Ids \cup Images

Whole == Contents \cup {Pattern}
Mismatch == "000000"    \* the checksum of the fault 'checksum-mismatch'

Free == [at |-> "idle", name |-> Nothing, bytes |-> Nothing, file |-> "gone"]

CameraInit ==
    /\ configuration = [source |-> Nothing, fault |-> "none"]
    /\ artifacts = [n \in Names |-> Nothing]
    /\ temporaries = [n \in Names |-> Nothing]
    /\ results = [id \in Ids |-> Nothing]
    /\ task = [h \in Threads |-> Free]
    /\ proxy = [id \in Ids |-> [at |-> "idle", handler |-> Nothing, result |-> Nothing, confirmed |-> Nothing]]

Goto(h, at) == task' = [task EXCEPT ![h].at = at]

-----------------------------------------------------------------------------
(* The backend.                                                            *)

Ask(id, h) ==
    /\ proxy[id].at = "idle"
    /\ task[h] = Free
    /\ proxy' = [proxy EXCEPT ![id].at = "waiting", ![id].handler = h]
    /\ task' = [task EXCEPT ![h].at = "looking", ![h].name = id]
    /\ UNCHANGED <<configuration, artifacts, temporaries, results>>

\* The read timeout of the client is the longest delay of a frame.
GiveUp(id) ==
    /\ proxy[id].at = "waiting"
    /\ proxy' = [proxy EXCEPT ![id].at = "idle", ![id].handler = Nothing]
    /\ UNCHANGED <<configuration, artifacts, temporaries, results, task>>

\* The artifact is downloaded and compared with the answer.
Fetch(id) ==
    /\ proxy[id].at = "fetching"
    /\ proxy' = [proxy EXCEPT ![id] =
          [at |-> "idle", handler |-> Nothing, result |-> Nothing,
           confirmed |-> IF artifacts[id] = @.result.checksum THEN artifacts[id] ELSE @.confirmed]]
    /\ UNCHANGED <<configuration, artifacts, temporaries, results, task>>

\* What the files of the other handlers are called after one is renamed,
\* or removed.
Renamed(n) ==
    [g \in Threads |->
        IF task[g].name # n THEN task[g]
        ELSE [task[g] EXCEPT !.file = IF @ = "temporary" THEN "artifact" ELSE "gone"]]

Removed(n) ==
    [g \in Threads |->
        IF task[g].name = n /\ task[g].file = "temporary" THEN [task[g] EXCEPT !.file = "gone"] ELSE task[g]]

\* The handler ends; the proxy gets its answer if it still waits for it.
AnswerFrom(jobs, h, result) ==
    /\ task' = [jobs EXCEPT ![h] = Free]
    /\ proxy' = [id \in Ids |->
          IF proxy[id].handler # h THEN proxy[id]
          ELSE [proxy[id] EXCEPT !.handler = Nothing, !.result = result,
                                 !.at = IF result = Nothing THEN "idle" ELSE "fetching"]]

Answer(h, result) == AnswerFrom(task, h, result)

-----------------------------------------------------------------------------
(* The camera.                                                             *)

Configure(source, fault) ==
    /\ source # Nothing => artifacts[source] \notin {Nothing, "empty"}
    /\ configuration' = [source |-> source, fault |-> fault]
    /\ UNCHANGED <<artifacts, temporaries, results, task, proxy>>

Upload(h, image, content) ==
    /\ task[h] = Free
    /\ task' = [task EXCEPT ![h].at = "opening", ![h].name = image, ![h].bytes = content]
    /\ UNCHANGED <<configuration, artifacts, temporaries, results, proxy>>

LookUpNowhere(h) ==
    /\ task[h].at = "looking"
    /\ IF configuration.fault = "failed-frame"
       THEN Answer(h, Nothing)
       ELSE Goto(h, "reading") /\ UNCHANGED proxy
    /\ UNCHANGED <<configuration, artifacts, temporaries, results>>

\* The lookup, the injected fault, and then the delay of the frame.
LookUp(h) ==
    /\ task[h].at = "looking"
    /\ IF results[task[h].name] # Nothing
       THEN Answer(h, results[task[h].name])
       ELSE IF configuration.fault = "failed-frame"
            THEN Answer(h, Nothing)
            ELSE Goto(h, "reading") /\ UNCHANGED proxy
    /\ UNCHANGED <<configuration, artifacts, temporaries, results>>

\* _source_bytes; a source that is no PNG is a ValueError.
ReadSource(h) ==
    /\ task[h].at = "reading"
    /\ IF configuration.source = Nothing
       THEN task' = [task EXCEPT ![h].at = "opening", ![h].bytes = Pattern] /\ UNCHANGED proxy
       ELSE IF artifacts[configuration.source] = "empty"
            THEN Answer(h, Nothing)
            ELSE task' = [task EXCEPT ![h].at = "rereading", ![h].bytes = configuration.source] /\ UNCHANGED proxy
    /\ UNCHANGED <<configuration, artifacts, temporaries, results>>

\* The bytes are read again, by the name of the image.
Reread(h) ==
    /\ task[h].at = "rereading"
    /\ task' = [task EXCEPT ![h].at = "opening", ![h].bytes = artifacts[task[h].bytes]]
    /\ UNCHANGED <<configuration, artifacts, temporaries, results, proxy>>

\* The temporary file is created, or truncated where there is one.
Open(h) ==
    /\ task[h].at = "opening"
    /\ temporaries' = [temporaries EXCEPT ![task[h].name] = "empty"]
    /\ task' = [task EXCEPT ![h].at = "putting", ![h].file = "temporary"]
    /\ UNCHANGED <<configuration, artifacts, results, proxy>>

\* Bytes put over others leave the end of the longer ones.
Over(old, new) ==
    IF new = "empty" THEN {old} ELSE IF old \in {"empty", new} THEN {new} ELSE {new, "mixed"}

Put(h) ==
    /\ task[h].at = "putting"
    /\ LET n == task[h].name IN
       CASE task[h].file = "temporary" ->
              /\ \E d \in Over(temporaries[n], task[h].bytes) : temporaries' = [temporaries EXCEPT ![n] = d]
              /\ UNCHANGED artifacts
         [] task[h].file = "artifact" ->
              /\ \E d \in Over(artifacts[n], task[h].bytes) : artifacts' = [artifacts EXCEPT ![n] = d]
              /\ UNCHANGED temporaries
         [] OTHER -> UNCHANGED <<artifacts, temporaries>>
    /\ Goto(h, "renaming")
    /\ UNCHANGED <<configuration, results, proxy>>

\* No space left: a capture removes its temporary file, an upload leaves it.
Fail(h) ==
    /\ task[h].at = "putting"
    /\ IF task[h].name \in Ids
       THEN Goto(h, "unlinking") /\ UNCHANGED proxy
       ELSE Answer(h, Nothing)
    /\ UNCHANGED <<configuration, artifacts, temporaries, results>>

\* What the temporary name refers to by now takes the name of the artifact.
Rename(h) ==
    /\ task[h].at = "renaming"
    /\ LET n == task[h].name IN
       /\ temporaries[n] # Nothing
       /\ artifacts' = [artifacts EXCEPT ![n] = temporaries[n]]
       /\ temporaries' = [temporaries EXCEPT ![n] = Nothing]
       /\ IF n \in Ids
          THEN task' = [Renamed(n) EXCEPT ![h].at = "finishing"] /\ UNCHANGED proxy
          ELSE AnswerFrom(Renamed(n), h, Nothing)
    /\ UNCHANGED <<configuration, results>>

\* Another handler has renamed or removed it.
MissRename(h) ==
    /\ task[h].at = "renaming"
    /\ temporaries[task[h].name] = Nothing
    /\ IF task[h].name \in Ids
       THEN Goto(h, "unlinking") /\ UNCHANGED proxy
       ELSE Answer(h, Nothing)
    /\ UNCHANGED <<configuration, artifacts, temporaries, results>>

UnlinkArtifact(h) ==
    /\ task[h].at = "unlinking"
    /\ temporaries' = [temporaries EXCEPT ![task[h].name] = Nothing]
    /\ artifacts' = [artifacts EXCEPT ![task[h].name] = Nothing]
    /\ Answer(h, Nothing)
    /\ UNCHANGED <<configuration, results>>

Unlink(h) ==
    /\ task[h].at = "unlinking"
    /\ temporaries' = [temporaries EXCEPT ![task[h].name] = Nothing]
    /\ AnswerFrom(Removed(task[h].name), h, Nothing)
    /\ UNCHANGED <<configuration, artifacts, results>>

ChecksumOf(bytes) == IF configuration.fault = "checksum-mismatch" THEN Mismatch ELSE bytes

FinishFromSource(h) ==
    /\ task[h].at = "finishing"
    /\ LET source == configuration.source
           result == [checksum |-> ChecksumOf(IF source = Nothing THEN Pattern ELSE artifacts[source])]
       IN results' = [results EXCEPT ![task[h].name] = result] /\ Answer(h, result)
    /\ UNCHANGED <<configuration, artifacts, temporaries>>

\* The result is made and remembered; its byte length must not be 0.
Finish(h) ==
    /\ task[h].at = "finishing"
    /\ IF task[h].bytes = "empty"
       THEN Answer(h, Nothing) /\ UNCHANGED results
       ELSE LET result == [checksum |-> ChecksumOf(task[h].bytes)]
            IN results' = [results EXCEPT ![task[h].name] = result] /\ Answer(h, result)
    /\ UNCHANGED <<configuration, artifacts, temporaries>>

-----------------------------------------------------------------------------
Handle(h) ==
    \/ LookUp(h) \/ ReadSource(h) \/ Reread(h) \/ Open(h) \/ Put(h) \/ Fail(h)
    \/ Rename(h) \/ MissRename(h) \/ Unlink(h) \/ Finish(h)

CameraNext ==
    \/ \E id \in Ids : GiveUp(id) \/ Fetch(id) \/ \E h \in Threads : Ask(id, h)
    \/ \E h \in Threads : Handle(h) \/ \E image \in Images, content \in Contents : Upload(h, image, content)
    \/ \E source \in Images \cup {Nothing}, fault \in {"none", "failed-frame", "checksum-mismatch"} :
          Configure(source, fault)

CameraSpec == CameraInit /\ [][CameraNext]_cameraVars
=============================================================================
