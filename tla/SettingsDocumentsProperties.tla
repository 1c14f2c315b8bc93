--------------------- MODULE SettingsDocumentsProperties ---------------------
(***************************************************************************)
(* What SettingsDocuments is meant to guarantee.                           *)
(***************************************************************************)
EXTENDS SettingsDocuments, Sequences

(***************************************************************************)
(* Each revision up to the current one has exactly one version, and that   *)
(* was written for the revision before it.                                 *)
(***************************************************************************)
HistoryIsLinear ==
    /\ \A v, w \in versions : v.revision = w.revision => v = w
    /\ \A v \in versions : v.revision \in 1..document.current /\ v.expected = v.revision - 1
    /\ \A r \in 1..document.current : \E v \in versions : v.revision = r

(***************************************************************************)
(* The audit trail is a chain: the record of a version names the one it    *)
(* replaced, though that was read before the document was locked.          *)
(***************************************************************************)
AuditsFormAChain ==
    audits = {[before |-> r - 1, after |-> r] : r \in 1..document.current}

(***************************************************************************)
(* The active pointer moves only with a key used for the first time, to    *)
(* the revision of its request; a replay or a reused key never moves it.   *)
(***************************************************************************)
KeysActivateOnce ==
    [][/\ \A key \in Keys : activations[key] # 0 => activations'[key] = activations[key]
       /\ document'.active # document.active =>
            \E key \in Keys : activations[key] = 0 /\ activations'[key] = document'.active]_vars

(***************************************************************************)
(* A handler that waits for the document is served: its client gets the    *)
(* version, or an answer that says why not.  One kind of request is not,   *)
(* and this is where the code departs from its test and its plan: of two   *)
(* first writes at once the one that loses the INSERT should be answered   *)
(* with a conflict ("assert results == ['conflict', 'created']",           *)
(* test_settings_service.py:120; "recover a missing-document unique race   *)
(* through a nested transaction and winner reload", plan of the settings   *)
(* platform, line 178), but _create_document (settings_service.py:72-86)   *)
(* lets the IntegrityError pass, and the client learns nothing.  That      *)
(* happens to no other request.                                            *)
(***************************************************************************)
Waits(c) == request[c].at \in {"previous", "locking", "inserting"}

Served(c) == request[c].at = "answered" \/ (request[c].at = "idle" /\ request[c].reply # "unhandled")

Unhandled(c) == request[c].at = "idle" /\ request[c].reply = "unhandled"

\* It found no document, and there is one now.
LosesFirstWrite(c) == request[c].at = "inserting" /\ request[c].expected = 0 /\ document.exists

RequestsAreServed ==
    /\ \A c \in Clients : Waits(c) ~> Served(c) \/ Unhandled(c)
    /\ [][\A c \in Clients : Unhandled(c)' => Unhandled(c) \/ LosesFirstWrite(c)]_vars

(***************************************************************************)
(* The database implements a document with revisions.                      *)
(***************************************************************************)
Abstract ==
    INSTANCE VersionedDocument WITH
        log <- [r \in 1..document.current |-> (CHOOSE v \in versions : v.revision = r).expected],
        active <- document.active,
        used <- activations

AbstractSpec == Abstract!Spec
=============================================================================
