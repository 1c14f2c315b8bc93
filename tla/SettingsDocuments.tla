-------------------------- MODULE SettingsDocuments --------------------------
(***************************************************************************)
(* One settings document in PostgreSQL and the clients that edit it: the   *)
(* settings API (backend/app/api/settings.py), its service                 *)
(* (backend/app/services/settings_service.py) and the editor of the        *)
(* frontend (use-settings-document.ts).  Several processes serve the API;  *)
(* what they share is the database, at READ COMMITTED: a SELECT sees what  *)
(* is committed, SELECT ... FOR UPDATE waits for the holder of the row and *)
(* an INSERT of an identity that another transaction has inserted waits    *)
(* for its end.                                                            *)
(*                                                                         *)
(* A request is handled in these steps, each one statement or commit:      *)
(*   "reading"     GET: the current version was read, the row comes next   *)
(*   "previous"    the current version is read for the audit record        *)
(*   "locking"     SELECT ... FOR UPDATE of the document                   *)
(*   "inserting"   INSERT of the document, which did not exist             *)
(*   "writing"     the transaction holds the document, not yet committed   *)
(*   "answered"    committed, the answer is on its way                     *)
(*                                                                         *)
(* MaxRevision bounds the versions and exists only for TLC.                *)
(***************************************************************************)
EXTENDS Naturals, FiniteSets

CONSTANTS
    Clients,        \* editors and other clients, one request at a time each
    Keys,           \* Idempotency-Key headers
    MaxRevision,    \* bound on the revisions of the document
    None            \* no client

ASSUME ClientsAssumption == None \notin Clients
ASSUME KeysAssumption == Keys # {}
ASSUME MaxRevisionAssumption == MaxRevision \in Nat

VARIABLES
    document,       \* the committed row of settings_documents
    versions,       \* the committed rows of settings_versions
    activations,    \* settings_activations: the revision of each key, or 0
    audits,         \* the success records of audit_events about versions
    holder,         \* who has locked or inserted the row, or None
    view,           \* what each client shows: revision, and the one whose
                    \* payload it edits
    request         \* the request of each client

vars == <<document, versions, activations, audits, holder, view, request>>

Revisions == 0..MaxRevision

Kinds == {"edit", "import", "rollback", "activate"}

\* The handler's local variables; "target" is the revision to roll back to
\* or to activate.
Request == [at : {"idle", "reading", "previous", "locking", "inserting", "writing", "answered"},
            kind : Kinds, expected : Revisions, base : Revisions, target : Revisions,
            key : Keys, previous : Revisions,
            reply : {"none", "conflict", "reused", "not found", "failed", "unhandled"}]

Version == [revision : Revisions, expected : Revisions, kind : Kinds, base : Revisions]

\* No request, and what the last one was answered.
Idle(reply) ==
    [at |-> "idle", kind |-> "edit", expected |-> 0, base |-> 0, target |-> 0,
     key |-> CHOOSE key \in Keys : TRUE, previous |-> 0, reply |-> reply]

-----------------------------------------------------------------------------
TypeOK ==
    /\ document \in [exists : BOOLEAN, current : Revisions, active : Revisions]
    /\ versions \subseteq Version
    /\ activations \in [Keys -> Revisions]
    /\ audits \subseteq [before : Revisions, after : Revisions]
    /\ holder \in Clients \cup {None}
    /\ view \in [Clients -> [revision : Revisions, base : Revisions]]
    /\ request \in [Clients -> Request]

Init ==
    /\ document = [exists |-> FALSE, current |-> 0, active |-> 0]
    /\ versions = {}
    /\ activations = [key \in Keys |-> 0]
    /\ audits = {}
    /\ holder = None
    /\ view = [c \in Clients |-> [revision |-> 0, base |-> 0]]
    /\ request = [c \in Clients |-> Idle("none")]

Goto(c, place) == request' = [request EXCEPT ![c].at = place]

Answer(c, reply) == request' = [request EXCEPT ![c] = Idle(reply)]

\* Tables and lock that a step leaves alone.
TablesUnchanged == UNCHANGED <<document, versions, activations, audits>>

-----------------------------------------------------------------------------
\* GET: get_current_settings; 404 leaves the editor as it is.
ReadVersion(c) ==
    /\ request[c].at = "idle"
    /\ document.exists
    /\ request' = [request EXCEPT ![c].at = "reading", ![c].base = document.current]
    /\ TablesUnchanged /\ UNCHANGED <<holder, view>>

\* GET: the row is selected once more, for currentRevision of the answer.
ReadDocument(c) ==
    /\ request[c].at = "reading"
    /\ view' = [view EXCEPT ![c] = [revision |-> document.current, base |-> request[c].base]]
    /\ Answer(c, "none")
    /\ TablesUnchanged /\ UNCHANGED holder

\* A POST to versions, import or rollback.  An imported payload stands for
\* itself, whatever the client has read.
Submit(c) ==
    /\ request[c].at = "idle"
    /\ \E kind \in {"edit", "import", "rollback"}, target \in Revisions \ {0} :
         /\ kind # "rollback" => target = 1
         /\ view[c].revision < MaxRevision
         /\ request' = [request EXCEPT ![c] =
              [@ EXCEPT !.at = "previous", !.kind = kind, !.target = target, !.reply = "none",
                        !.expected = view[c].revision,
                        !.base = IF kind = "edit" THEN view[c].base ELSE view[c].revision]]
    /\ TablesUnchanged /\ UNCHANGED <<holder, view>>

ReadPrevious(c) ==
    /\ request[c].at = "previous"
    /\ request' = [request EXCEPT ![c].at = "locking", ![c].previous = document.current]
    /\ TablesUnchanged /\ UNCHANGED <<holder, view>>

\* Variant: the revision is not compared.
LockUnchecked(c) ==
    /\ request[c].at = "locking"
    /\ request[c].kind # "activate"
    /\ \/ /\ ~document.exists
          /\ Goto(c, "inserting")
          /\ UNCHANGED holder
       \/ /\ document.exists
          /\ holder = None
          /\ document.current < MaxRevision
          /\ holder' = c
          /\ Goto(c, "writing")
    /\ TablesUnchanged /\ UNCHANGED view

\* _locked_document and the checks of rollback_settings and
\* create_settings_version; an error rolls back, which frees the row.
Lock(c) ==
    /\ request[c].at = "locking"
    /\ request[c].kind # "activate"
    /\ \/ /\ ~document.exists
          /\ IF request[c].kind = "rollback" \/ request[c].expected # 0
             THEN Answer(c, "conflict")
             ELSE Goto(c, "inserting")
          /\ UNCHANGED holder
       \/ /\ document.exists
          /\ holder = None
          /\ \/ /\ request[c].expected # document.current
                /\ Answer(c, "conflict")
                /\ UNCHANGED holder
             \/ /\ request[c].expected = document.current
                /\ request[c].kind = "rollback" /\ request[c].target > document.current
                /\ Answer(c, "not found")
                /\ UNCHANGED holder
             \/ /\ request[c].expected = document.current
                /\ request[c].kind = "rollback" => request[c].target <= document.current
                /\ holder' = c
                /\ Goto(c, "writing")
    /\ TablesUnchanged /\ UNCHANGED view

\* Variant: the INSERT is tried again until the identity is free.
InsertRetrying(c) ==
    /\ request[c].at = "inserting"
    /\ ~document.exists
    /\ holder = None
    /\ holder' = c
    /\ Goto(c, "writing")
    /\ TablesUnchanged /\ UNCHANGED view

\* _create_document: waits for another insertion of the same identity.  Once
\* that is committed the INSERT violates uq_settings_documents_identity, and
\* no handler catches IntegrityError.
Insert(c) ==
    /\ request[c].at = "inserting"
    /\ \/ /\ document.exists
          /\ Answer(c, "unhandled")
          /\ UNCHANGED holder
       \/ /\ ~document.exists
          /\ holder = None
          /\ holder' = c
          /\ Goto(c, "writing")
    /\ TablesUnchanged /\ UNCHANGED view

\* The version, the pointers of the document and the audit record.
CommitVersion(c) ==
    /\ request[c].at = "writing"
    /\ request[c].kind # "activate"
    /\ versions' = versions \cup {[revision |-> document.current + 1, expected |-> request[c].expected,
                                   kind |-> request[c].kind, base |-> request[c].base]}
    /\ document' = [document EXCEPT !.exists = TRUE, !.current = @ + 1]
    /\ audits' = audits \cup {[before |-> request[c].previous, after |-> document.current + 1]}
    /\ holder' = None
    /\ request' = [request EXCEPT ![c].at = "answered", ![c].target = document.current + 1]
    /\ UNCHANGED <<activations, view>>

\* The transaction fails or the process dies: nothing was written.
Abort(c) ==
    /\ request[c].at = "writing"
    /\ holder' = None
    /\ Answer(c, "failed")
    /\ TablesUnchanged /\ UNCHANGED view

\* setRevision, setSaved and setDraft of the editor.
Receive(c) ==
    /\ request[c].at = "answered"
    /\ view' = [view EXCEPT ![c] = [revision |-> request[c].target, base |-> request[c].target]]
    /\ Answer(c, "none")
    /\ TablesUnchanged /\ UNCHANGED holder

\* The client gives up before the answer arrives.
LoseAnswer(c) ==
    /\ request[c].at = "answered"
    /\ Answer(c, "failed")
    /\ TablesUnchanged /\ UNCHANGED <<holder, view>>

-----------------------------------------------------------------------------
\* A POST to activations, first or repeated; the editor takes a new key for
\* each.
SubmitActivation(c) ==
    /\ request[c].at = "idle"
    /\ \E key \in Keys, revision \in Revisions \ {0} :
         request' = [request EXCEPT ![c] =
              [@ EXCEPT !.at = "locking", !.kind = "activate", !.key = key, !.target = revision,
                        !.reply = "none"]]
    /\ TablesUnchanged /\ UNCHANGED <<holder, view>>

\* Variant: the key is not looked up.
LockForActivationUnkeyed(c) ==
    /\ request[c].at = "locking"
    /\ request[c].kind = "activate"
    /\ document.exists => holder = None
    /\ IF ~document.exists \/ request[c].target > document.current
       THEN Answer(c, "not found") /\ UNCHANGED holder
       ELSE holder' = c /\ Goto(c, "writing")
    /\ TablesUnchanged /\ UNCHANGED view

\* activate_settings under the lock: the replay of a request changes
\* nothing, another request with its key is refused.
LockForActivation(c) ==
    /\ request[c].at = "locking"
    /\ request[c].kind = "activate"
    /\ document.exists => holder = None
    /\ LET key == request[c].key
           revision == request[c].target
       IN  \/ /\ ~document.exists \/ revision > document.current
              /\ Answer(c, "not found")
              /\ UNCHANGED holder
           \/ /\ document.exists /\ revision <= document.current
              /\ activations[key] \notin {0, revision}
              /\ Answer(c, "reused")
              /\ UNCHANGED holder
           \/ /\ document.exists /\ revision <= document.current
              /\ activations[key] = revision
              /\ Answer(c, "none")
              /\ UNCHANGED holder
           \/ /\ document.exists /\ revision <= document.current
              /\ activations[key] = 0
              /\ holder' = c
              /\ Goto(c, "writing")
    /\ TablesUnchanged /\ UNCHANGED view

CommitActivation(c) ==
    /\ request[c].at = "writing"
    /\ request[c].kind = "activate"
    /\ activations' = [activations EXCEPT ![request[c].key] = request[c].target]
    /\ document' = [document EXCEPT !.active = request[c].target]
    /\ holder' = None
    /\ Answer(c, "none")
    /\ UNCHANGED <<versions, audits, view>>

-----------------------------------------------------------------------------
\* Steps of the server; the rest is up to the clients.
Handle(c) ==
    \/ ReadDocument(c)
    \/ ReadPrevious(c)
    \/ Lock(c)
    \/ Insert(c)
    \/ CommitVersion(c)
    \/ LockForActivation(c)
    \/ CommitActivation(c)

Next ==
    \E c \in Clients :
        \/ Handle(c)
        \/ ReadVersion(c)
        \/ Submit(c)
        \/ Abort(c)
        \/ Receive(c)
        \/ LoseAnswer(c)
        \/ SubmitActivation(c)

Spec == Init /\ [][Next]_vars

\* Handlers run on; PostgreSQL serves the waiters of a row in turn.
Fairness == \A c \in Clients : SF_vars(Handle(c))

FairSpec == Spec /\ Fairness
=============================================================================
