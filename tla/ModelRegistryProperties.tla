----------------------- MODULE ModelRegistryProperties -----------------------
(***************************************************************************)
(* What ModelRegistry is meant to guarantee.                               *)
(***************************************************************************)
EXTENDS ModelRegistry

Preview == [alias : Aliases, event : Nat, current : Nat, target : Nat]

Event == [action : {"promote", "rollback"}, previous : Nat \cup {None}, next : Nat,
          seen : Preview \cup {None}]

Request == [at : {"idle", "inserting version", "locking", "inserting row", "looking", "writing", "previewing"},
            action : {"version", "promote", "rollback", "preview", None}, alias : Aliases \cup {None},
            version : Nat, current : Nat \cup {None}, seen : Preview \cup {None}]

\* The type invariant of the tables, the locks, the requests and the previews.
TypeOK ==
    /\ versions \in Seq(Nat)
    /\ assigned \in [Aliases -> Nat \cup {None}]
    /\ events \in [Aliases -> Seq(Event)]
    /\ lock \in [Aliases -> Users \cup {None}]
    /\ request \in [Users -> Request]
    /\ shown \in [Users -> Preview \cup {None}]

(***************************************************************************)
(* The versions are numbered in the order of their commits, without a gap, *)
(* although two requests may read the same largest number (research.py:    *)
(* 258).                                                                   *)
(***************************************************************************)
VersionsAreNumbered == \A i \in DOMAIN versions : versions[i] = i

(***************************************************************************)
(* The history of an alias has no gap: each event starts from the version  *)
(* the one before it led to, and the last leads to the version that is     *)
(* assigned, whoever promotes and rolls back at the same time.             *)
(***************************************************************************)
EventsFormAChain ==
    \A a \in Aliases :
        /\ \A i \in DOMAIN events[a] :
            events[a][i].previous = IF i = 1 THEN None ELSE events[a][i - 1].next
        /\ assigned[a] = IF events[a] = <<>> THEN None ELSE events[a][Len(events[a])].next

(***************************************************************************)
(* A rollback undoes the last change of its alias, whatever that was: two  *)
(* in a row lead back to where they started (research.py:315-323).         *)
(***************************************************************************)
RollbacksUndoTheLastChange ==
    \A a \in Aliases : \A i \in DOMAIN events[a] :
        events[a][i].action = "rollback" => i > 1 /\ events[a][i].next = events[a][i - 1].previous

(***************************************************************************)
(* A confirmed rollback restores the version that its preview showed, and  *)
(* a preview is confirmed once: nothing happened to the alias in between.  *)
(***************************************************************************)
PreviewedTargetIsRestored ==
    \A a \in Aliases : \A i \in DOMAIN events[a] :
        LET seen == events[a][i].seen IN
        seen # None => seen.event = i - 1 /\ seen.target = events[a][i].next
=============================================================================
