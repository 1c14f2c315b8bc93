---------------------------- MODULE ModelRegistry ----------------------------
(***************************************************************************)
(* The versions of one model and the aliases "candidate" and "champion"    *)
(* that are promoted to them and rolled back (backend/app/api/research.py, *)
(* lines 237 to 428).  Each request is a transaction that sees what is     *)
(* committed when each of its statements runs.  A promotion or a rollback  *)
(* locks the row of its alias; an alias that was never assigned has none,  *)
(* and its row is unique.  A rollback is confirmed with the event that its *)
(* preview named; the preview locks nothing.                               *)
(*                                                                         *)
(* The events of an alias are in the order of their ids, since they are    *)
(* inserted under the lock of its row; an event's id is its place there.   *)
(* A version is its number.  Whether a version's artifact is intact, and   *)
(* its evidence passed, may end a request with an error at any check.      *)
(***************************************************************************)
EXTENDS Naturals, Sequences, FiniteSets

CONSTANTS
    Users,          \* each has one request at a time
    Aliases,        \* SUPPORTED_MODEL_ALIASES
    MaxVersions,    \* bound on the versions
    MaxEvents,      \* bound on the events of an alias
    None

ASSUME BoundsAssumption == MaxVersions \in Nat /\ MaxEvents \in Nat
ASSUME NoneAssumption == None \notin Nat \cup Users \cup Aliases \cup {"version", "promote", "rollback", "preview"}

VARIABLES
    versions,       \* the numbers of the committed versions, in the order of their commits
    assigned,       \* the version of each alias, or None
    events,         \* the promotion events of each alias
    lock,           \* the transaction that has locked, or inserted, the row of each alias
    request,        \* what each user's request is doing
    shown           \* the preview that each user looks at

vars == <<versions, assigned, events, lock, request, shown>>

Idle == [at |-> "idle", action |-> None, alias |-> None, version |-> 0, current |-> None,
         seen |-> None]

Init ==
    /\ versions = <<>>
    /\ assigned = [a \in Aliases |-> None]
    /\ events = [a \in Aliases |-> <<>>]
    /\ lock = [a \in Aliases |-> None]
    /\ request = [u \in Users |-> Idle]
    /\ shown = [u \in Users |-> None]

At(u, at) == request[u].at = at

Range(s) == {s[i] : i \in DOMAIN s}

Largest == CHOOSE v \in {0} \cup Range(versions) : \A w \in Range(versions) : w <= v

Alias(u) == request[u].alias

\* The events that have a previous version; the last of them, or 0.
Sources(a) == {i \in DOMAIN events[a] : events[a][i].previous # None}

SourceFirst(a) == CHOOSE i \in {0} \cup Sources(a) : \A j \in Sources(a) : 0 < i /\ i <= j

Source(a) == CHOOSE i \in {0} \cup Sources(a) : \A j \in Sources(a) : j <= i

\* No more is asked of an alias than the bound on its events leaves room for.
HasRoom(a) == Len(events[a]) + Cardinality({u \in Users : Alias(u) = a}) < MaxEvents

Released(u) == [a \in Aliases |-> IF lock[a] = u THEN None ELSE lock[a]]

\* The transaction is rolled back, and the user gets an error.
Raise(u) ==
    /\ request' = [request EXCEPT ![u] = Idle]
    /\ lock' = Released(u)
    /\ UNCHANGED <<versions, assigned, events, shown>>

-----------------------------------------------------------------------------
\* create_model_version: the largest number is read, and the row of the next one is unique.
AskVersion(u) ==
    /\ At(u, "idle") /\ Len(versions) < MaxVersions
    /\ request' = [request EXCEPT ![u] = [Idle EXCEPT !.at = "inserting version", !.action = "version",
                                                      !.version = Largest + 1]]
    /\ UNCHANGED <<versions, assigned, events, lock, shown>>

InsertVersion(u) ==
    /\ At(u, "inserting version")
    /\ IF request[u].version \in Range(versions)
       THEN Raise(u)
       ELSE /\ versions' = Append(versions, request[u].version)
            /\ request' = [request EXCEPT ![u] = Idle]
            /\ UNCHANGED <<assigned, events, lock, shown>>

\* promote_model looks the version up before it locks the alias.
AskPromotion(u) ==
    /\ At(u, "idle")
    /\ \E a \in Aliases, v \in Range(versions) :
        /\ HasRoom(a)
        /\ request' = [request EXCEPT ![u] = [Idle EXCEPT !.at = "locking", !.action = "promote",
                                                       !.alias = a, !.version = v]]
    /\ UNCHANGED <<versions, assigned, events, lock, shown>>

\* rollback_model, the endpoint without a preview.
AskRollback(u) ==
    /\ At(u, "idle")
    /\ \E a \in Aliases :
        /\ HasRoom(a)
        /\ request' = [request EXCEPT ![u] = [Idle EXCEPT !.at = "locking", !.action = "rollback", !.alias = a]]
    /\ UNCHANGED <<versions, assigned, events, lock, shown>>

\* rollback_model_from_preview; an answer that is lost can be asked for again.
AskConfirmed(u) ==
    /\ At(u, "idle") /\ shown[u] # None /\ HasRoom(shown[u].alias)
    /\ request' = [request EXCEPT ![u] = [Idle EXCEPT !.at = "locking", !.action = "rollback",
                                                      !.alias = shown[u].alias, !.seen = shown[u]]]
    /\ UNCHANGED <<versions, assigned, events, lock, shown>>

-----------------------------------------------------------------------------
ReadRow(u) ==
    LET a == Alias(u) IN
    /\ At(u, "locking") /\ assigned[a] # None
    /\ request' = [request EXCEPT ![u].at = IF request[u].action = "promote" THEN "writing" ELSE "looking",
                                  ![u].current = assigned[a]]
    /\ UNCHANGED <<versions, assigned, events, lock, shown>>

\* select ... for update: waits for the row, and finds none if none is committed.
LockRow(u) ==
    LET a == Alias(u) IN
    /\ At(u, "locking") /\ assigned[a] # None /\ lock[a] = None
    /\ lock' = [lock EXCEPT ![a] = u]
    /\ request' = [request EXCEPT ![u].at = IF request[u].action = "promote" THEN "writing" ELSE "looking",
                                  ![u].current = assigned[a]]
    /\ UNCHANGED <<versions, assigned, events, shown>>

FindNoRow(u) ==
    /\ At(u, "locking") /\ assigned[Alias(u)] = None
    /\ IF request[u].action = "promote"
       THEN /\ request' = [request EXCEPT ![u].at = "inserting row"]
            /\ UNCHANGED <<versions, assigned, events, lock, shown>>
       ELSE Raise(u)

\* The second of two rows waits for the first, and fails if that is committed.
InsertRow(u) ==
    LET a == Alias(u) IN
    /\ At(u, "inserting row") /\ lock[a] = None
    /\ IF assigned[a] # None
       THEN Raise(u)
       ELSE /\ lock' = [lock EXCEPT ![a] = u]
            /\ request' = [request EXCEPT ![u].at = "writing"]
            /\ UNCHANGED <<versions, assigned, events, shown>>

LookUpSourceUnconfirmed(u) ==
    LET a == Alias(u)
        source == Source(a)
    IN
    /\ At(u, "looking")
    /\ IF source = 0
       THEN Raise(u)
       ELSE /\ request' = [request EXCEPT ![u].at = "writing", ![u].version = events[a][source].previous]
            /\ UNCHANGED <<versions, assigned, events, lock, shown>>

\* _rollback_source_event, and the check of the preview.
LookUpSource(u) ==
    LET a == Alias(u)
        source == Source(a)
    IN
    /\ At(u, "looking")
    /\ IF source = 0 \/ (request[u].seen # None /\ request[u].seen.event # source)
       THEN Raise(u)
       ELSE /\ request' = [request EXCEPT ![u].at = "writing", ![u].version = events[a][source].previous]
            /\ UNCHANGED <<versions, assigned, events, lock, shown>>

\* The target's artifact, or a promoted version's, fails its verification.
FailVerification(u) ==
    /\ \/ At(u, "locking") /\ request[u].action = "promote"
       \/ At(u, "looking") /\ request[u].seen # None
    /\ Raise(u)

\* The alias, its event and the commit.
Commit(u) ==
    LET a == Alias(u)
        r == request[u]
    IN
    /\ At(u, "writing")
    /\ assigned' = [assigned EXCEPT ![a] = r.version]
    /\ events' = [events EXCEPT ![a] = Append(@, [action |-> r.action, previous |-> r.current,
                                                  next |-> r.version, seen |-> r.seen])]
    /\ request' = [request EXCEPT ![u] = Idle]
    /\ lock' = Released(u)
    /\ UNCHANGED <<versions, shown>>

-----------------------------------------------------------------------------
\* rollback-preview: the assignment is read, and then the last event.
AskPreview(u) ==
    /\ At(u, "idle")
    /\ \E a \in Aliases :
        /\ assigned[a] # None
        /\ request' = [request EXCEPT ![u] = [Idle EXCEPT !.at = "previewing", !.action = "preview",
                                                          !.alias = a, !.current = assigned[a]]]
    /\ UNCHANGED <<versions, assigned, events, lock, shown>>

ShowPreview(u) ==
    LET a == Alias(u)
        source == Source(a)
    IN
    /\ At(u, "previewing")
    /\ request' = [request EXCEPT ![u] = Idle]
    /\ shown' = [shown EXCEPT ![u] =
                    IF source = 0 THEN None
                    ELSE [alias |-> a, event |-> source, current |-> request[u].current,
                          target |-> events[a][source].previous]]
    /\ UNCHANGED <<versions, assigned, events, lock>>

Handle(u) ==
    \/ InsertVersion(u) \/ LockRow(u) \/ FindNoRow(u) \/ InsertRow(u) \/ LookUpSource(u)
    \/ FailVerification(u) \/ Commit(u) \/ ShowPreview(u)

Ask(u) == AskVersion(u) \/ AskPromotion(u) \/ AskRollback(u) \/ AskConfirmed(u) \/ AskPreview(u)

Next == \E u \in Users : Ask(u) \/ Handle(u)

Spec == Init /\ [][Next]_vars
=============================================================================
