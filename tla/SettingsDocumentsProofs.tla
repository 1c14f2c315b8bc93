----------------------- MODULE SettingsDocumentsProofs -----------------------
(***************************************************************************)
(* Machine-checked proofs about SettingsDocuments, for every set of        *)
(* clients and of keys and every bound on the revisions.                   *)
(***************************************************************************)
EXTENDS SettingsDocumentsProperties, TLAPS

\* What holds of each client: who has the document writes to it, for the
\* revision it has, and what a client knows of it is never ahead.
ClientInv(c) ==
    /\ view[c].revision <= document.current
    /\ request[c].at = "writing" <=> holder = c
    /\ request[c].at \in {"previous", "locking", "inserting", "writing"} /\ request[c].kind # "activate" =>
         request[c].expected <= document.current /\ request[c].expected < MaxRevision
    /\ request[c].at \in {"locking", "inserting", "writing"} /\ request[c].kind # "activate" =>
         request[c].expected <= request[c].previous /\ request[c].previous <= document.current
    /\ request[c].at = "inserting" => request[c].expected = 0 /\ request[c].kind # "activate"
    /\ request[c].at = "writing" /\ request[c].kind # "activate" => request[c].expected = document.current
    /\ request[c].at = "writing" /\ request[c].kind = "activate" =>
         request[c].target \in 1..document.current /\ activations[request[c].key] = 0
    /\ request[c].at = "previous" => request[c].kind # "activate"
    /\ request[c].at = "locking" /\ request[c].kind = "activate" => request[c].target # 0
    /\ request[c].at = "answered" => request[c].target <= document.current

IInv ==
    /\ TypeOK
    /\ \A c \in Clients : ClientInv(c)
    /\ ~document.exists => document.current = 0
    /\ HistoryIsLinear
    /\ AuditsFormAChain

LEMMA IdleType == \A reply \in {"none", "conflict", "reused", "not found", "failed", "unhandled"} :
                    Idle(reply) \in Request
  <1>1. (CHOOSE key \in Keys : TRUE) \in Keys
    BY KeysAssumption
  <1>2. 0 \in Revisions
    BY MaxRevisionAssumption DEF Revisions
  <1> QED
    BY <1>1, <1>2 DEF Idle, Request, Kinds

LEMMA InitIInv == Init => IInv
  <1> SUFFICES ASSUME Init PROVE IInv
    OBVIOUS
  <1>1. TypeOK
    <2>1. 0 \in Revisions
      BY MaxRevisionAssumption DEF Revisions
    <2>2. request \in [Clients -> Request]
      BY IdleType DEF Init
    <2> QED
      BY <2>1, <2>2 DEF Init, TypeOK
  <1>2. ASSUME NEW c \in Clients PROVE ClientInv(c)
    BY ClientsAssumption DEF Init, ClientInv, Idle
  <1>3. HistoryIsLinear /\ AuditsFormAChain
    BY DEF Init, HistoryIsLinear, AuditsFormAChain
  <1> QED
    BY <1>1, <1>2, <1>3 DEF Init, IInv

-----------------------------------------------------------------------------
\* A step of one client that leaves the tables alone.
LEMMA Local ==
  ASSUME IInv, TablesUnchanged, NEW c \in Clients,
         NEW r \in Request, request' = [request EXCEPT ![c] = r],
         NEW v \in [revision : Revisions, base : Revisions], view' = [view EXCEPT ![c] = v],
         holder' \in Clients \cup {None},
         \A d \in Clients \ {c} : holder' = d <=> holder = d,
         ClientInv(c)'
  PROVE  IInv'
  <1>1. TypeOK'
    BY DEF IInv, TypeOK, TablesUnchanged
  <1>2. ASSUME NEW d \in Clients \ {c} PROVE ClientInv(d)'
    <2>1. request'[d] = request[d] /\ view'[d] = view[d]
      BY DEF IInv, TypeOK
    <2>2. ClientInv(d)
      BY DEF IInv
    <2> QED
      BY <2>1, <2>2 DEF ClientInv, TablesUnchanged
  <1>3. HistoryIsLinear' /\ AuditsFormAChain' /\ (~document.exists => document.current = 0)'
    BY DEF IInv, HistoryIsLinear, AuditsFormAChain, TablesUnchanged
  <1> QED
    BY <1>1, <1>2, <1>3 DEF IInv

LEMMA Ended ==
  ASSUME IInv, TablesUnchanged, NEW c \in Clients,
         NEW reply \in {"none", "conflict", "reused", "not found", "failed", "unhandled"},
         Answer(c, reply),
         NEW v \in [revision : Revisions, base : Revisions], view' = [view EXCEPT ![c] = v],
         v.revision <= document.current,
         holder' = IF holder = c THEN None ELSE holder
  PROVE  IInv'
  <1>1. Idle(reply) \in Request
    BY IdleType
  <1>2. request' = [request EXCEPT ![c] = Idle(reply)]
    BY DEF Answer
  <1>3. holder' \in Clients \cup {None} /\ holder' # c
    BY ClientsAssumption DEF IInv, TypeOK
  <1>4. request'[c] = Idle(reply) /\ view'[c] = v
    BY <1>2 DEF IInv, TypeOK
  <1>5. ClientInv(c)'
    <2>1. Idle(reply).at = "idle"
      BY DEF Idle
    <2>2. request'[c].at = "idle" /\ view'[c].revision <= document'.current
      BY <1>4, <2>1 DEF TablesUnchanged
    <2> QED
      BY <1>3, <2>2 DEF ClientInv
  <1>6. \A d \in Clients \ {c} : holder' = d <=> holder = d
    BY ClientsAssumption
  <1> QED
    BY <1>1, <1>2, <1>3, <1>5, <1>6, Local

\* The view of a client is a record of it.
LEMMA ViewKept ==
  ASSUME IInv, NEW c \in Clients
  PROVE  /\ view[c] \in [revision : Revisions, base : Revisions]
         /\ view = [view EXCEPT ![c] = view[c]]
         /\ view[c].revision <= document.current
         /\ document.current \in Revisions
         /\ request[c] \in Request
  <1>1. ClientInv(c) /\ TypeOK
    BY DEF IInv
  <1> QED
    BY <1>1 DEF TypeOK, ClientInv

LEMMA RequestNumbers ==
  ASSUME IInv, NEW c \in Clients
  PROVE  /\ request[c].expected \in Nat /\ request[c].previous \in Nat /\ request[c].target \in Nat
         /\ document.current \in Nat
  <1>1. /\ request[c].expected \in Revisions /\ request[c].previous \in Revisions
        /\ request[c].target \in Revisions /\ document.current \in Revisions
    BY ViewKept DEF Request
  <1>2. Revisions \subseteq Nat
    BY MaxRevisionAssumption DEF Revisions
  <1> QED
    BY <1>1, <1>2

LEMMA Refused ==
  ASSUME IInv, TablesUnchanged, UNCHANGED <<holder, view>>, NEW c \in Clients, request[c].at # "writing",
         NEW reply \in {"none", "conflict", "reused", "not found", "failed", "unhandled"}, Answer(c, reply)
  PROVE  IInv'
  <1>1. holder # c
    BY DEF IInv, ClientInv
  <1> QED
    BY <1>1, ViewKept, Ended

-----------------------------------------------------------------------------
LEMMA ReadVersionIInv == ASSUME IInv, NEW c \in Clients, ReadVersion(c) PROVE IInv'
  <1> DEFINE r == [request[c] EXCEPT !.at = "reading", !.base = document.current]
  <1>1. r \in Request
    BY ViewKept DEF Request
  <1>2. request' = [request EXCEPT ![c] = r]
    BY DEF ReadVersion, IInv, TypeOK
  <1>3. request'[c] = r /\ view'[c] = view[c] /\ request[c].at = "idle"
    BY <1>2 DEF ReadVersion, IInv, TypeOK
  <1>4. r.at = "reading"
    BY ViewKept DEF Request
  <1>5. ClientInv(c)'
    BY <1>3, <1>4 DEF ClientInv, ReadVersion, TablesUnchanged, IInv
  <1> QED
    BY <1>1, <1>2, <1>5, ViewKept, Local DEF ReadVersion, IInv, TypeOK

LEMMA SubmitIInv == ASSUME IInv, NEW c \in Clients, Submit(c) PROVE IInv'
  <1>1. PICK kind \in {"edit", "import", "rollback"}, target \in Revisions \ {0} :
          /\ view[c].revision < MaxRevision
          /\ request' = [request EXCEPT ![c] =
               [@ EXCEPT !.at = "previous", !.kind = kind, !.target = target, !.reply = "none",
                         !.expected = view[c].revision,
                         !.base = IF kind = "edit" THEN view[c].base ELSE view[c].revision]]
    BY DEF Submit
  <1> DEFINE r == [request[c] EXCEPT !.at = "previous", !.kind = kind, !.target = target, !.reply = "none",
                         !.expected = view[c].revision,
                         !.base = IF kind = "edit" THEN view[c].base ELSE view[c].revision]
  <1>2. r \in Request
    BY ZenonT(60), ViewKept DEF Request, Kinds
  <1>3. request' = [request EXCEPT ![c] = r]
    BY <1>1 DEF IInv, TypeOK
  <1>4. /\ request'[c] = r /\ view' = view /\ request[c].at = "idle" /\ holder' = holder
        /\ TablesUnchanged
    BY <1>3 DEF Submit, IInv, TypeOK
  <1>5. r.at = "previous" /\ r.expected = view[c].revision
    BY ViewKept DEF Request
  <1>6. ClientInv(c)'
    BY <1>1, <1>4, <1>5, ViewKept DEF ClientInv, TablesUnchanged, IInv
  <1> QED
    BY ZenonT(60), <1>2, <1>3, <1>4, <1>6, ViewKept, Local DEF IInv, TypeOK

LEMMA ReadPreviousIInv == ASSUME IInv, NEW c \in Clients, ReadPrevious(c) PROVE IInv'
  <1> DEFINE r == [request[c] EXCEPT !.at = "locking", !.previous = document.current]
  <1>1. r \in Request
    BY ViewKept DEF Request
  <1>2. request' = [request EXCEPT ![c] = r]
    BY DEF ReadPrevious, IInv, TypeOK
  <1>3. /\ request'[c] = r /\ view' = view /\ request[c].at = "previous" /\ holder' = holder
        /\ TablesUnchanged
    BY <1>2 DEF ReadPrevious, IInv, TypeOK
  <1>4. r.at = "locking" /\ r.expected = request[c].expected /\ r.kind = request[c].kind
        /\ r.previous = document.current
    BY ViewKept DEF Request
  <1>5. ClientInv(c)'
    <2>1. /\ request[c].expected <= document.current /\ request[c].expected < MaxRevision
          /\ view[c].revision <= document.current /\ holder # c
          /\ request[c].kind # "activate"
      BY <1>3 DEF IInv, ClientInv
    <2> QED
      BY <1>3, <1>4, <2>1, ViewKept, MaxRevisionAssumption DEF ClientInv, TablesUnchanged, IInv, Revisions
  <1> QED
    BY <1>1, <1>2, <1>3, <1>5, ViewKept, Local DEF IInv, TypeOK

\* A handler goes on to another place, with the document if it writes.
LEMMA Went ==
  ASSUME IInv, TablesUnchanged, UNCHANGED view, NEW c \in Clients,
         NEW place \in {"inserting", "writing"}, Goto(c, place),
         holder' \in Clients \cup {None},
         \A d \in Clients \ {c} : holder' = d <=> holder = d,
         place = "writing" <=> holder' = c,
         request[c].at \in {"locking", "inserting"},
         place = "inserting" => request[c].kind # "activate" /\ request[c].expected = 0,
         place = "writing" /\ request[c].kind # "activate" => request[c].expected = document.current,
         place = "writing" /\ request[c].kind = "activate" =>
           request[c].target \in 1..document.current /\ activations[request[c].key] = 0
  PROVE  IInv'
  <1> DEFINE r == [request[c] EXCEPT !.at = place]
  <1>1. r \in Request
    BY ViewKept DEF Request
  <1>2. request' = [request EXCEPT ![c] = r]
    BY DEF Goto, IInv, TypeOK
  <1>3. request'[c] = r
    BY <1>2 DEF IInv, TypeOK
  <1>4. r.at = place /\ r.expected = request[c].expected /\ r.kind = request[c].kind
        /\ r.previous = request[c].previous /\ r.target = request[c].target /\ r.key = request[c].key
    BY ViewKept DEF Request
  <1>5. ClientInv(c)
    BY DEF IInv
  <1>6. ClientInv(c)'
    BY <1>3, <1>4, <1>5 DEF ClientInv, TablesUnchanged
  <1> QED
    BY <1>1, <1>2, <1>6, ViewKept, Local

LEMMA LockIInv == ASSUME IInv, NEW c \in Clients, Lock(c) PROVE IInv'
  <1>1. /\ request[c].at = "locking" /\ request[c].kind # "activate"
        /\ TablesUnchanged /\ view' = view
        /\ holder # c
    BY DEF Lock, IInv, ClientInv
  <1>2. CASE UNCHANGED holder /\ (Answer(c, "conflict") \/ Answer(c, "not found"))
    BY <1>1, <1>2, Refused
  <1>3. CASE UNCHANGED holder /\ request[c].expected = 0 /\ Goto(c, "inserting")
    BY <1>1, <1>3, Went DEF IInv, TypeOK
  <1>4. CASE holder = None /\ request[c].expected = document.current /\ holder' = c /\ Goto(c, "writing")
    BY <1>1, <1>4, Went, ClientsAssumption DEF IInv, TypeOK
  <1> QED
    BY <1>2, <1>3, <1>4 DEF Lock

LEMMA InsertIInv == ASSUME IInv, NEW c \in Clients, Insert(c) PROVE IInv'
  <1>1. /\ request[c].at = "inserting" /\ request[c].kind # "activate" /\ request[c].expected = 0
        /\ TablesUnchanged /\ view' = view
    BY DEF Insert, IInv, ClientInv
  <1>2. CASE UNCHANGED holder /\ Answer(c, "unhandled")
    BY <1>1, <1>2, Refused
  <1>3. CASE ~document.exists /\ holder = None /\ holder' = c /\ Goto(c, "writing")
    <2>1. document.current = 0
      BY <1>3 DEF IInv
    <2> QED
      BY <1>1, <1>3, <2>1, Went, ClientsAssumption DEF IInv, TypeOK
  <1> QED
    BY <1>2, <1>3 DEF Insert

LEMMA LockForActivationIInv == ASSUME IInv, NEW c \in Clients, LockForActivation(c) PROVE IInv'
  <1>1. /\ request[c].at = "locking" /\ request[c].kind = "activate"
        /\ TablesUnchanged /\ view' = view
    BY DEF LockForActivation
  <1>2. CASE UNCHANGED holder /\ \E reply \in {"none", "reused", "not found"} : Answer(c, reply)
    BY <1>1, <1>2, Refused
  <1>3. CASE /\ holder = None /\ holder' = c /\ Goto(c, "writing")
             /\ request[c].target <= document.current /\ activations[request[c].key] = 0
    <2>1. request[c].target \in Revisions /\ document.current \in Revisions
      BY ViewKept DEF Request
    <2>2. request[c].target # 0
      BY <1>1 DEF IInv, ClientInv
    <2>3. request[c].target \in 1..document.current
      BY <1>3, <2>1, <2>2, MaxRevisionAssumption DEF Revisions
    <2> QED
      BY <1>1, <1>3, <2>3, Went, ClientsAssumption DEF IInv, TypeOK
  <1> QED
    BY <1>2, <1>3 DEF LockForActivation

-----------------------------------------------------------------------------
LEMMA AbortIInv == ASSUME IInv, NEW c \in Clients, Abort(c) PROVE IInv'
  <1>1. holder = c
    BY DEF Abort, IInv, ClientInv
  <1> QED
    BY <1>1, ViewKept, Ended DEF Abort

LEMMA ReadDocumentIInv == ASSUME IInv, NEW c \in Clients, ReadDocument(c) PROVE IInv'
  <1> DEFINE v == [revision |-> document.current, base |-> request[c].base]
  <1>1. v \in [revision : Revisions, base : Revisions]
    BY ViewKept DEF Request
  <1>2. holder # c
    BY DEF ReadDocument, IInv, ClientInv
  <1>3. v.revision <= document.current
    BY ViewKept DEF Revisions
  <1> QED
    BY <1>1, <1>2, <1>3, Ended DEF ReadDocument

LEMMA ReceiveIInv == ASSUME IInv, NEW c \in Clients, Receive(c) PROVE IInv'
  <1> DEFINE v == [revision |-> request[c].target, base |-> request[c].target]
  <1>1. v \in [revision : Revisions, base : Revisions]
    BY ViewKept DEF Request
  <1>2. holder # c /\ request[c].target <= document.current
    BY DEF Receive, IInv, ClientInv
  <1> QED
    BY <1>1, <1>2, Ended DEF Receive

LEMMA LoseAnswerIInv == ASSUME IInv, NEW c \in Clients, LoseAnswer(c) PROVE IInv'
  BY Refused DEF LoseAnswer

LEMMA SubmitActivationIInv == ASSUME IInv, NEW c \in Clients, SubmitActivation(c) PROVE IInv'
  <1>1. PICK key \in Keys, revision \in Revisions \ {0} :
          request' = [request EXCEPT ![c] =
            [@ EXCEPT !.at = "locking", !.kind = "activate", !.key = key, !.target = revision,
                      !.reply = "none"]]
    BY DEF SubmitActivation
  <1> DEFINE r == [request[c] EXCEPT !.at = "locking", !.kind = "activate", !.key = key,
                                     !.target = revision, !.reply = "none"]
  <1>2. r \in Request
    BY ViewKept DEF Request, Kinds
  <1>3. request' = [request EXCEPT ![c] = r]
    BY <1>1 DEF IInv, TypeOK
  <1>4. /\ request'[c] = r /\ view' = view /\ request[c].at = "idle" /\ holder' = holder
        /\ TablesUnchanged
    BY <1>3 DEF SubmitActivation, IInv, TypeOK
  <1>5. r.at = "locking" /\ r.kind = "activate" /\ r.target # 0
    BY ViewKept DEF Request
  <1>6. ClientInv(c)'
    BY <1>4, <1>5, ViewKept DEF ClientInv, TablesUnchanged, IInv
  <1> QED
    BY <1>2, <1>3, <1>4, <1>6, ViewKept, Local DEF IInv, TypeOK

-----------------------------------------------------------------------------
\* Who commits has the document, and nobody else writes.
LEMMA OnlyWriter ==
  ASSUME IInv, NEW c \in Clients, request[c].at = "writing"
  PROVE  holder = c /\ \A d \in Clients \ {c} : request[d].at # "writing"
  BY DEF IInv, ClientInv

LEMMA CommitVersionIInv == ASSUME IInv, NEW c \in Clients, CommitVersion(c) PROVE IInv'
  <1> DEFINE next == document.current + 1
             row == [revision |-> next, expected |-> request[c].expected,
                     kind |-> request[c].kind, base |-> request[c].base]
             r == [request[c] EXCEPT !.at = "answered", !.target = next]
  <1>1. /\ request[c].at = "writing" /\ request[c].kind # "activate"
        /\ versions' = versions \cup {row}
        /\ document' = [document EXCEPT !.exists = TRUE, !.current = next]
        /\ audits' = audits \cup {[before |-> request[c].previous, after |-> next]}
        /\ holder' = None
        /\ activations' = activations /\ view' = view
    BY DEF CommitVersion, IInv, TypeOK
  <1>2. request' = [request EXCEPT ![c] = r]
    BY DEF CommitVersion, IInv, TypeOK
  <1>3. /\ request[c].expected = document.current /\ request[c].expected < MaxRevision
        /\ request[c].expected <= request[c].previous /\ request[c].previous <= document.current
    BY <1>1 DEF IInv, ClientInv
  <1>4. request[c].expected \in Nat /\ request[c].previous \in Nat /\ document.current \in Nat
    BY RequestNumbers
  <1>5. request[c].previous = document.current
    BY <1>3, <1>4
  <1>6. next \in Revisions /\ document.current \in Revisions
    BY <1>3, <1>4, MaxRevisionAssumption DEF Revisions
  <1>7. /\ document'.current = next /\ document'.exists /\ document'.active = document.active
        /\ document' \in [exists : BOOLEAN, current : Revisions, active : Revisions]
    BY <1>1, <1>6 DEF IInv, TypeOK
  <1>8. r \in Request /\ row \in Version
    <2>1. request[c] \in Request
      BY ViewKept
    <2>2. r \in Request
      BY <1>6, <2>1 DEF Request
    <2>3. row \in Version
      BY <1>6, <2>1 DEF Request, Version
    <2> QED
      BY <2>2, <2>3
  <1>9. TypeOK'
    <2>1. audits' \subseteq [before : Revisions, after : Revisions]
      <3>1. [before |-> request[c].previous, after |-> next] \in [before : Revisions, after : Revisions]
        BY <1>5, <1>6
      <3> QED
        BY <1>1, <3>1 DEF IInv, TypeOK
    <2> QED
      BY <1>1, <1>2, <1>7, <1>8, <2>1 DEF IInv, TypeOK
  <1>10. ASSUME NEW d \in Clients PROVE ClientInv(d)'
    <2>1. view[d].revision \in Nat /\ view[d].revision <= document.current
      BY ViewKept, MaxRevisionAssumption DEF Revisions
    <2>2. view'[d].revision <= document'.current
      BY <1>1, <1>4, <1>7, <2>1
    <2>3. CASE d = c
      <3>0. request'[c] = r
        BY <1>2 DEF IInv, TypeOK
      <3>1. r.at = "answered" /\ r.target = next
        BY ViewKept DEF Request
      <3>2. request'[c].at = "answered" /\ request'[c].target <= document'.current /\ holder' # c
        BY <1>1, <1>4, <1>7, <3>0, <3>1, ClientsAssumption
      <3> QED
        BY <2>2, <2>3, <3>2 DEF ClientInv
    <2>4. CASE d # c
      <3>1. request'[d] = request[d] /\ request[d].at # "writing" /\ holder' # d
        BY <1>1, <1>2, <2>4, OnlyWriter, ClientsAssumption DEF IInv, TypeOK
      <3>2. ClientInv(d)
        BY DEF IInv
      <3>3. request[d].expected \in Nat /\ request[d].previous \in Nat /\ request[d].target \in Nat
        BY RequestNumbers
      <3>4. \A n \in Nat : n <= document.current => n <= document'.current
        BY <1>4, <1>7
      <3> QED
        BY <2>2, <3>1, <3>2, <3>3, <3>4 DEF ClientInv
    <2> QED
      BY <2>3, <2>4
  <1>11. HistoryIsLinear'
    <2>1. row.revision = next /\ row.expected = next - 1
      BY <1>3, <1>4
    <2>2. \A v \in versions : v.revision \in 1..document.current /\ v.expected = v.revision - 1
      BY DEF IInv, HistoryIsLinear
    <2>3. \A v \in versions : v.revision # next
      BY <1>4, <2>2
    <2>4. \A v, w \in versions' : v.revision = w.revision => v = w
      BY <1>1, <2>1, <2>3 DEF IInv, HistoryIsLinear
    <2>5. \A v \in versions' : v.revision \in 1..next /\ v.expected = v.revision - 1
      BY <1>1, <1>4, <2>1, <2>2
    <2>6. \A i \in 1..next : \E v \in versions' : v.revision = i
      <3>1. \A i \in 1..next : i \in 1..document.current \/ i = next
        BY <1>4
      <3> QED
        BY <1>1, <2>1, <3>1 DEF IInv, HistoryIsLinear
    <2> QED
      BY <1>7, <2>4, <2>5, <2>6 DEF HistoryIsLinear
  <1>12. AuditsFormAChain'
    <2>1. \A i : i \in 1..next <=> i \in 1..document.current \/ i = next
      BY <1>4
    <2>2. [before |-> request[c].previous, after |-> next] = [before |-> next - 1, after |-> next]
      BY <1>4, <1>5
    <2>3. audits = {[before |-> i - 1, after |-> i] : i \in 1..document.current}
      BY DEF IInv, AuditsFormAChain
    <2>4. audits' = {[before |-> i - 1, after |-> i] : i \in 1..next}
      BY <1>1, <2>1, <2>2, <2>3
    <2> QED
      BY <1>7, <2>4 DEF AuditsFormAChain
  <1> QED
    BY <1>7, <1>9, <1>10, <1>11, <1>12 DEF IInv

LEMMA CommitActivationIInv == ASSUME IInv, NEW c \in Clients, CommitActivation(c) PROVE IInv'
  <1>1. /\ request[c].at = "writing" /\ request[c].kind = "activate"
        /\ activations' = [activations EXCEPT ![request[c].key] = request[c].target]
        /\ document' = [document EXCEPT !.active = request[c].target]
        /\ holder' = None
        /\ request' = [request EXCEPT ![c] = Idle("none")]
        /\ versions' = versions /\ audits' = audits /\ view' = view
    BY DEF CommitActivation, Answer
  <1>2. request[c].target \in Revisions /\ request[c].key \in Keys /\ Idle("none") \in Request
    BY ViewKept, IdleType DEF Request
  <1>3. document'.current = document.current /\ document'.exists = document.exists
    BY <1>1 DEF IInv, TypeOK
  <1>4. TypeOK'
    BY <1>1, <1>2 DEF IInv, TypeOK
  <1>5. ASSUME NEW d \in Clients PROVE ClientInv(d)'
    <2>1. view'[d].revision <= document'.current /\ holder' # d
      BY <1>1, <1>3, ViewKept, ClientsAssumption
    <2>2. CASE d = c
      <3>1. request'[c].at = "idle"
        BY <1>1 DEF IInv, TypeOK, Idle
      <3> QED
        BY <2>1, <2>2, <3>1 DEF ClientInv
    <2>3. CASE d # c
      <3>1. request'[d] = request[d] /\ request[d].at # "writing"
        BY <1>1, <2>3, OnlyWriter DEF IInv, TypeOK
      <3>2. ClientInv(d)
        BY DEF IInv
      <3> QED
        BY <1>3, <2>1, <3>1, <3>2 DEF ClientInv
    <2> QED
      BY <2>2, <2>3
  <1>6. HistoryIsLinear' /\ AuditsFormAChain' /\ (~document.exists => document.current = 0)'
    BY <1>1, <1>3 DEF IInv, HistoryIsLinear, AuditsFormAChain
  <1> QED
    BY <1>4, <1>5, <1>6 DEF IInv

LEMMA NextIInv == IInv /\ [Next]_vars => IInv'
  <1> SUFFICES ASSUME IInv, [Next]_vars PROVE IInv'
    OBVIOUS
  <1>1. CASE UNCHANGED vars
    BY <1>1 DEF vars, IInv, TypeOK, ClientInv, HistoryIsLinear, AuditsFormAChain
  <1>2. CASE Next
    <2>1. PICK c \in Clients :
            \/ Handle(c) \/ ReadVersion(c) \/ Submit(c) \/ Abort(c) \/ Receive(c) \/ LoseAnswer(c)
            \/ SubmitActivation(c)
      BY <1>2 DEF Next
    <2>2. CASE Handle(c)
      BY <2>2, ReadDocumentIInv, ReadPreviousIInv, LockIInv, InsertIInv, CommitVersionIInv,
         LockForActivationIInv, CommitActivationIInv DEF Handle
    <2> QED
      BY <2>1, <2>2, ReadVersionIInv, SubmitIInv, AbortIInv, ReceiveIInv, LoseAnswerIInv,
         SubmitActivationIInv
  <1> QED
    BY <1>1, <1>2

LEMMA Inductive == Spec => []IInv
  BY InitIInv, NextIInv, PTL DEF Spec

(***************************************************************************)
(* Type correctness.                                                       *)
(***************************************************************************)
THEOREM TypeCorrect == Spec => []TypeOK
  BY Inductive, PTL DEF IInv

(***************************************************************************)
(* However many processes write, every revision has one version, written   *)
(* for the revision before it.                                             *)
(***************************************************************************)
THEOREM LinearHistory == Spec => []HistoryIsLinear
  BY Inductive, PTL DEF IInv

(***************************************************************************)
(* Every audit record names the version that its version replaced.         *)
(***************************************************************************)
THEOREM AuditChain == Spec => []AuditsFormAChain
  BY Inductive, PTL DEF IInv

\* What a step does to the active revision and the used keys.
LEMMA ActivationStep ==
  ASSUME IInv, [Next]_vars
  PROVE  \/ activations' = activations /\ document'.active = document.active
         \/ \E c \in Clients : CommitActivation(c)
  <1>1. CASE UNCHANGED vars
    BY <1>1 DEF vars
  <1>2. CASE Next
    <2>1. CASE \E c \in Clients : CommitVersion(c)
      BY <2>1 DEF CommitVersion, IInv, TypeOK
    <2> QED
      BY <1>2, <2>1 DEF Next, Handle, ReadDocument, ReadPrevious, Lock, Insert, LockForActivation,
         ReadVersion, Submit, Abort, Receive, LoseAnswer, SubmitActivation, TablesUnchanged
  <1> QED
    BY <1>1, <1>2

(***************************************************************************)
(* A key moves the active pointer at most once, and what it activated is   *)
(* never changed.                                                          *)
(***************************************************************************)
THEOREM KeysOnce == Spec => KeysActivateOnce
  <1> DEFINE Kept == /\ \A key \in Keys : activations[key] # 0 => activations'[key] = activations[key]
                     /\ document'.active # document.active =>
                          \E key \in Keys : activations[key] = 0 /\ activations'[key] = document'.active
  <1>1. ASSUME IInv, [Next]_vars PROVE Kept
    <2>1. CASE activations' = activations /\ document'.active = document.active
      BY <2>1
    <2>2. ASSUME NEW c \in Clients, CommitActivation(c) PROVE Kept
      <3>1. /\ request[c].at = "writing" /\ request[c].kind = "activate"
            /\ activations' = [activations EXCEPT ![request[c].key] = request[c].target]
            /\ document'.active = request[c].target
        BY <1>1, <2>2 DEF CommitActivation, IInv, TypeOK
      <3>2. activations[request[c].key] = 0
        BY <1>1, <3>1 DEF IInv, ClientInv
      <3>3. request[c].key \in Keys
        BY ViewKept, <1>1 DEF Request
      <3> QED
        BY <1>1, <3>1, <3>2, <3>3 DEF IInv, TypeOK
    <2> QED
      BY <1>1, <2>1, <2>2, ActivationStep
  <1>2. IInv /\ [Next]_vars => [Kept]_vars
    BY <1>1
  <1> QED
    BY <1>2, Inductive, PTL DEF Spec, KeysActivateOnce

-----------------------------------------------------------------------------
\* The log of the refinement mapping, for a linear history.
LEMMA LogOfHistory ==
  ASSUME IInv
  PROVE  [r \in 1..document.current |-> (CHOOSE v \in versions : v.revision = r).expected]
           = [r \in 1..document.current |-> r - 1]
  <1>1. ASSUME NEW r \in 1..document.current
        PROVE  (CHOOSE v \in versions : v.revision = r).expected = r - 1
    <2>1. \E v \in versions : v.revision = r
      BY DEF IInv, HistoryIsLinear
    <2>2. \A v \in versions : v.revision = r => v.expected = r - 1
      BY DEF IInv, HistoryIsLinear
    <2> QED
      BY <2>1, <2>2
  <1> QED
    BY <1>1

LEMMA Counting ==
  ASSUME NEW n \in Nat
  PROVE  /\ [r \in 1..n |-> r - 1] \in Seq(Nat)
         /\ Len([r \in 1..n |-> r - 1]) = n
         /\ Append([r \in 1..n |-> r - 1], n) = [r \in 1..(n + 1) |-> r - 1]
  <1> DEFINE s == [r \in 1..n |-> r - 1]
             t == [r \in 1..(n + 1) |-> r - 1]
  <1>1. s \in Seq(Nat) /\ Len(s) = n /\ t \in Seq(Nat) /\ Len(t) = n + 1
    OBVIOUS
  <1>2. Append(s, n) \in Seq(Nat) /\ Len(Append(s, n)) = n + 1
    BY <1>1
  <1>3. \A i \in 1..(n + 1) : Append(s, n)[i] = t[i]
    BY <1>1
  <1> QED
    BY <1>1, <1>2, <1>3

(***************************************************************************)
(* The transactions implement a document with revisions.                   *)
(***************************************************************************)
THEOREM Implements == Spec => AbstractSpec
  <1> DEFINE Log == [r \in 1..document.current |-> (CHOOSE v \in versions : v.revision = r).expected]
  <1>1. Init => Abstract!Init
    BY DEF Init, Abstract!Init
  <1>2. ASSUME IInv, IInv', [Next]_vars PROVE [Abstract!Next]_(Abstract!vars)
    <2>1. Log = [r \in 1..document.current |-> r - 1]
      BY <1>2, LogOfHistory
    <2>2. Log' = [r \in 1..document'.current |-> r - 1]
      <3>1. ASSUME NEW r \in 1..document'.current
            PROVE  (CHOOSE v \in versions' : v.revision = r).expected = r - 1
        <4>1. /\ \E v \in versions' : v.revision = r
              /\ \A v \in versions' : v.revision = r => v.expected = r - 1
          BY <1>2 DEF IInv, HistoryIsLinear
        <4> QED
          BY <4>1
      <3> QED
        BY <3>1
    <2>3. document.current \in Nat
      BY <1>2, MaxRevisionAssumption DEF IInv, TypeOK, Revisions
    <2>4. Len(Log) = document.current /\ Append(Log, document.current) = [r \in 1..(document.current + 1) |-> r - 1]
      BY <2>1, <2>3, Counting
    <2>5. CASE UNCHANGED <<document, activations>>
      BY <2>1, <2>2, <2>5 DEF Abstract!vars
    <2>6. ASSUME NEW c \in Clients, CommitVersion(c) PROVE Abstract!Next
      <3>1. /\ document'.current = document.current + 1 /\ document'.active = document.active
            /\ activations' = activations
        BY <1>2, <2>6 DEF CommitVersion, IInv, TypeOK
      <3>2. Log' = Append(Log, document.current)
        BY <2>2, <2>4, <3>1
      <3>3. Abstract!Write(Len(Log))
        BY <2>4, <3>1, <3>2 DEF Abstract!Write
      <3> QED
        BY <3>3 DEF Abstract!Next
    <2>7. ASSUME NEW c \in Clients, CommitActivation(c) PROVE Abstract!Next
      <3>1. /\ request[c].at = "writing" /\ request[c].kind = "activate"
            /\ activations' = [activations EXCEPT ![request[c].key] = request[c].target]
            /\ document'.active = request[c].target /\ document'.current = document.current
        BY <1>2, <2>7 DEF CommitActivation, IInv, TypeOK
      <3>2. request[c].target \in 1..document.current /\ activations[request[c].key] = 0
        BY <1>2, <3>1 DEF IInv, ClientInv
      <3>3. request[c].key \in Keys
        BY <1>2, ViewKept DEF Request
      <3>4. Log' = Log
        BY <2>1, <2>2, <3>1
      <3>5. Abstract!Activate(request[c].key, request[c].target)
        BY <3>1, <3>2, <3>4 DEF Abstract!Activate
      <3>6. request[c].target \in 1..Len(Log)
        BY <2>4, <3>2
      <3> QED
        BY <3>3, <3>5, <3>6 DEF Abstract!Next
    <2> QED
      BY <1>2, <2>5, <2>6, <2>7 DEF Next, vars, Handle, ReadDocument, ReadPrevious, Lock, Insert,
         LockForActivation, ReadVersion, Submit, Abort, Receive, LoseAnswer, SubmitActivation,
         TablesUnchanged
  <1> QED
    BY <1>1, <1>2, Inductive, PTL DEF Spec, AbstractSpec, Abstract!Spec
=============================================================================
