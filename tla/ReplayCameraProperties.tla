------------------------ MODULE ReplayCameraProperties -----------------------
(***************************************************************************)
(* What ReplayCamera is meant to guarantee.                                *)
(***************************************************************************)
EXTENDS ReplayCamera

Result == [checksum : Data \cup {Mismatch}]

Task ==
    [at : {"idle", "looking", "reading", "rereading", "opening", "putting", "renaming", "unlinking", "finishing"},
     name : Names \cup {Nothing}, bytes : Data \cup Images \cup {Nothing},
     file : {"temporary", "artifact", "gone"}]

\* The type invariant of the camera and its proxy.
CameraTypeOK ==
    /\ configuration \in [source : Images \cup {Nothing}, fault : {"none", "failed-frame", "checksum-mismatch"}]
    /\ artifacts \in [Names -> Data \cup {Nothing}]
    /\ temporaries \in [Names -> Data \cup {Nothing}]
    /\ results \in [Ids -> Result \cup {Nothing}]
    /\ task \in [Threads -> Task]
    /\ proxy \in [Ids -> [at : {"idle", "waiting", "fetching"}, handler : Threads \cup {Nothing},
                         result : Result \cup {Nothing}, confirmed : Data \cup {Nothing}]]

(***************************************************************************)
(* History: the names two handlers have been writing at the same time, as  *)
(* two uploads do, or the retry of a capture whose client gave up.         *)
(***************************************************************************)
VARIABLE met

Contested ==
    {n \in Names : \E g, h \in Threads : g # h /\ task[g].name = n /\ task[h].name = n}

CameraHistoryInit == CameraInit /\ met = {}

CameraHistoryNext == CameraNext /\ met' = met \cup Contested'

CameraHistorySpec == CameraHistoryInit /\ [][CameraHistoryNext]_<<cameraVars, met>>

(***************************************************************************)
(* "Repeating a request ID returns the same completed transaction instead  *)
(* of capturing again." (device adapter design of 2026-08-06, line 64): a  *)
(* result is replaced only by a request that met another one with its id.  *)
(***************************************************************************)
RepeatsReturnTheSame ==
    [][\A id \in Ids \ met : results[id] # Nothing => results'[id] = results[id]]_cameraVars

(***************************************************************************)
(* A result is of its artifact, whatever was configured or uploaded while  *)
(* the frame was awaited, and whether or not the client still waits; only  *)
(* the injected fault makes it differ.                                     *)
(***************************************************************************)
ResultsDescribeArtifacts ==
    \A id \in Ids \ met :
        results[id] # Nothing => results[id].checksum \in {Mismatch, artifacts[id]}

(***************************************************************************)
(* An artifact that is announced can be downloaded, even when captures     *)
(* with its id overlap and fail.                                           *)
(***************************************************************************)
AnnouncedArtifactsExist ==
    \A id \in Ids : results[id] # Nothing \/ proxy[id].at = "fetching" => artifacts[id] # Nothing
=============================================================================
