------------------------- MODULE ModelRegistryProofs -------------------------
(***************************************************************************)
(* Proofs about ModelRegistry, for any number of users, aliases, versions  *)
(* and events.                                                             *)
(*                                                                         *)
(* Whoever is about to look for the last event, or to write, holds the     *)
(* alias (Holds), and so what it has read of the alias is still true when  *)
(* it commits (Informed).  With the chain of the events this makes the     *)
(* event that a rollback looks for the last one, unless that is the first. *)
(***************************************************************************)
EXTENDS ModelRegistryProperties, TLAPS

Last(a) == events[a][Len(events[a])]

Describes(p) == p.event \in DOMAIN events[p.alias] /\ p.target = events[p.alias][p.event].previous

\* A request about an alias names it; one that has not found the row knows no version, and
\* only a rollback has a preview.
Named(u) ==
    /\ At(u, "locking") \/ At(u, "inserting row") \/ At(u, "looking") \/ At(u, "writing") \/ At(u, "previewing")
       => Alias(u) \in Aliases
    /\ At(u, "inserting version") => request[u].version \in 1 .. Len(versions) + 1
    /\ At(u, "locking") \/ At(u, "inserting row") => request[u].current = None
    /\ At(u, "previewing") => request[u].current \in Nat
    /\ At(u, "locking") \/ At(u, "inserting row") \/ At(u, "writing") => request[u].action \in {"promote", "rollback"}
    /\ At(u, "inserting row") => request[u].action = "promote"
    /\ At(u, "looking") => request[u].action = "rollback"
    /\ request[u].action # "rollback" => request[u].seen = None
    /\ request[u].seen # None => request[u].seen.alias = Alias(u) /\ Describes(request[u].seen)

Holds(u) == At(u, "looking") \/ At(u, "writing") => lock[Alias(u)] = u

Informed(u) ==
    LET a == Alias(u)
        r == request[u]
    IN
    /\ At(u, "looking") \/ At(u, "writing") => r.current = assigned[a]
    /\ At(u, "writing") /\ r.action = "rollback" =>
        /\ Len(events[a]) > 1 /\ r.version = Last(a).previous
        /\ r.seen # None => r.seen.event = Len(events[a])

IInv ==
    /\ TypeOK
    /\ VersionsAreNumbered
    /\ EventsFormAChain
    /\ RollbacksUndoTheLastChange
    /\ PreviewedTargetIsRestored
    /\ \A u \in Users : Named(u) /\ Holds(u) /\ Informed(u)
    /\ \A u \in Users : shown[u] # None => Describes(shown[u])

-----------------------------------------------------------------------------
\* What _rollback_source_event finds in a chain.
LEMMA SourceIsLast ==
  ASSUME TypeOK, EventsFormAChain, NEW a \in Aliases
  PROVE  Source(a) = IF Len(events[a]) > 1 THEN Len(events[a]) ELSE 0
  <1> DEFINE n == Len(events[a])
  <1>1. events[a] \in Seq(Event) /\ n \in Nat /\ DOMAIN events[a] = 1 .. n
    BY DEF TypeOK
  <1>2. \A i \in 1 .. n : events[a][i].previous # None <=> i > 1
    <2> SUFFICES ASSUME NEW i \in 1 .. n
                 PROVE  events[a][i].previous # None <=> i > 1
      OBVIOUS
    <2>1. events[a][i].previous = IF i = 1 THEN None ELSE events[a][i - 1].next
      BY <1>1 DEF EventsFormAChain
    <2>2. CASE i > 1
      <3>1. i - 1 \in 1 .. n /\ i # 1
        BY <1>1, <2>2
      <3>2. events[a][i - 1] \in Event
        BY <1>1, <3>1
      <3>3. events[a][i - 1].next \in Nat
        BY <3>2 DEF Event
      <3> QED
        BY <2>1, <2>2, <3>1, <3>3, NoneAssumption
    <2> QED
      BY <1>1, <2>1, <2>2
  <1>3. Sources(a) = {i \in 1 .. n : i > 1}
    BY <1>1, <1>2 DEF Sources
  <1> DEFINE s == IF n > 1 THEN n ELSE 0
  <1>4. s \in {0} \cup Sources(a) /\ \A j \in Sources(a) : j <= s
    BY <1>1, <1>3
  <1>5. \A i \in {0} \cup Sources(a) : (\A j \in Sources(a) : j <= i) => i = s
    <2> SUFFICES ASSUME NEW i \in {0} \cup Sources(a), \A j \in Sources(a) : j <= i
                 PROVE  i = s
      OBVIOUS
    <2>1. CASE n > 1
      <3>1. n \in Sources(a)
        BY <1>1, <1>3, <2>1
      <3> QED
        BY <1>1, <1>3, <2>1, <3>1
    <2>2. CASE ~ n > 1
      <3>1. Sources(a) = {}
        BY <1>1, <1>3, <2>2
      <3> QED
        BY <2>2, <3>1
    <2> QED
      BY <2>1, <2>2
  <1> HIDE DEF s
  <1>6. Source(a) = s
    BY <1>4, <1>5 DEF Source
  <1> QED
    BY <1>6 DEF s

\* A chain of events is written to its end only.
LEMMA StillDescribes ==
  ASSUME TypeOK, NEW a \in Aliases, NEW e \in Event, NEW p \in Preview, Describes(p),
         events' = [events EXCEPT ![a] = Append(@, e)]
  PROVE  Describes(p)'
  <1>1. p.alias \in Aliases /\ events[p.alias] \in Seq(Event)
    BY DEF TypeOK, Preview
  <1>2. \/ events'[p.alias] = events[p.alias]
        \/ events'[p.alias] = Append(events[p.alias], e)
    BY <1>1 DEF TypeOK
  <1> QED
    BY <1>1, <1>2 DEF Describes

LEMMA InitIInv == Init => IInv
  <1> SUFFICES ASSUME Init
               PROVE  IInv
    OBVIOUS
  <1>1. Idle \in Request
    BY DEF Idle, Request
  <1>2. TypeOK
    BY <1>1 DEF Init, TypeOK
  <1>3. /\ VersionsAreNumbered /\ EventsFormAChain /\ RollbacksUndoTheLastChange
        /\ PreviewedTargetIsRestored
    BY DEF Init, VersionsAreNumbered, EventsFormAChain, RollbacksUndoTheLastChange, PreviewedTargetIsRestored
  <1>4. \A u \in Users : Named(u) /\ Holds(u) /\ Informed(u)
    BY NoneAssumption DEF Init, Idle, At, Named, Holds, Informed
  <1>5. \A u \in Users : shown[u] = None
    BY DEF Init
  <1> QED
    BY <1>2, <1>3, <1>4, <1>5 DEF IInv

-----------------------------------------------------------------------------
\* A step that writes no event changes what one request knows, and frees at most its own rows.
LEMMA RequestStep ==
  ASSUME IInv, NEW u \in Users, NEW r \in Request,
         request' = [request EXCEPT ![u] = r], UNCHANGED <<assigned, events>>,
         versions' \in Seq(Nat), VersionsAreNumbered', Len(versions) <= Len(versions'),
         lock' \in [Aliases -> Users \cup {None}],
         \A a \in Aliases : \A v \in Users \ {u} : lock[a] = v => lock'[a] = v,
         shown' \in [Users -> Preview \cup {None}],
         \A v \in Users : shown'[v] # None => Describes(shown'[v]),
         Named(u)', Holds(u)', Informed(u)'
  PROVE  IInv'
  <1>1. TypeOK'
    BY DEF IInv, TypeOK
  <1>2. EventsFormAChain' /\ RollbacksUndoTheLastChange' /\ PreviewedTargetIsRestored'
    BY DEF IInv, EventsFormAChain, RollbacksUndoTheLastChange, PreviewedTargetIsRestored
  <1>3. ASSUME NEW v \in Users, v # u
        PROVE  Named(v)' /\ Holds(v)' /\ Informed(v)'
    <2>1. request'[v] = request[v] /\ Named(v) /\ Holds(v) /\ Informed(v)
      BY <1>3 DEF IInv, TypeOK
    <2>2. 1 .. Len(versions) + 1 \subseteq 1 .. Len(versions') + 1
      BY DEF IInv, TypeOK
    <2>3. Named(v)'
      <3>1. Describes(request[v].seen)' <=> Describes(request[v].seen)
        BY <2>1 DEF Describes
      <3> QED
        BY <2>1, <2>2, <3>1 DEF Named, At, Alias
    <2>4. Holds(v)'
      <3>1. CASE request[v].at \in {"looking", "writing"}
        <4>1. request[v].alias \in Aliases
          BY <2>1, <3>1 DEF Named, At, Alias
        <4>2. lock[request[v].alias] = v
          BY <2>1, <3>1 DEF Holds, At, Alias
        <4>3. lock'[request[v].alias] = v
          BY <1>3, <4>1, <4>2
        <4> QED
          BY <2>1, <4>3 DEF Holds, At, Alias
      <3>2. CASE request[v].at \notin {"looking", "writing"}
        BY <2>1, <3>2 DEF Holds, At
      <3> QED
        BY <3>1, <3>2
    <2>5. Informed(v)'
      BY <2>1 DEF Informed, At, Alias, Last
    <2> QED
      BY <2>3, <2>4, <2>5
  <1>4. \A v \in Users : Named(v)' /\ Holds(v)' /\ Informed(v)'
    BY <1>3
  <1>5. \A v \in Users : (shown[v] # None => Describes(shown[v]))'
    BY DEF Describes
  <1> QED
    BY <1>1, <1>2, <1>4, <1>5 DEF IInv

\* An idle request knows nothing.
LEMMA IdleKnows ==
  ASSUME NEW u \in Users, request'[u] = Idle
  PROVE  Idle \in Request /\ Named(u)' /\ Holds(u)' /\ Informed(u)'
  BY NoneAssumption DEF Idle, Request, Named, Holds, Informed, At

\* A transaction that is rolled back.
LEMMA RaiseStep ==
  ASSUME IInv, NEW u \in Users, Raise(u)
  PROVE  IInv'
  <1>1. request'[u] = Idle /\ request' = [request EXCEPT ![u] = Idle]
    BY DEF Raise, IInv, TypeOK
  <1>2. Idle \in Request /\ Named(u)' /\ Holds(u)' /\ Informed(u)'
    BY <1>1, IdleKnows
  <1>3. /\ lock' \in [Aliases -> Users \cup {None}]
        /\ \A a \in Aliases : \A v \in Users \ {u} : lock[a] = v => lock'[a] = v
    BY DEF Raise, Released, IInv, TypeOK
  <1>4. /\ versions' \in Seq(Nat) /\ VersionsAreNumbered' /\ Len(versions) <= Len(versions')
        /\ shown' \in [Users -> Preview \cup {None}]
    BY DEF Raise, IInv, TypeOK, VersionsAreNumbered
  <1>5. \A v \in Users : shown'[v] # None => Describes(shown'[v])
    BY DEF Raise, IInv
  <1>6. UNCHANGED <<assigned, events>>
    BY DEF Raise
  <1> QED
    BY <1>1, <1>2, <1>3, <1>4, <1>5, <1>6, RequestStep

\* What create_model_version reads: the number of versions.
LEMMA LargestIsLength ==
  ASSUME TypeOK, VersionsAreNumbered
  PROVE  Largest = Len(versions)
  <1> DEFINE n == Len(versions)
  <1>1. n \in Nat /\ DOMAIN versions = 1 .. n
    BY DEF TypeOK
  <1>2. Range(versions) = 1 .. n
    BY <1>1 DEF Range, VersionsAreNumbered
  <1>3. n \in {0} \cup 1 .. n /\ \A w \in 1 .. n : w <= n
    BY <1>1
  <1> HIDE DEF n
  <1>4. \A v \in {0} \cup 1 .. n : (\A w \in 1 .. n : w <= v) => v = n
    <2> SUFFICES ASSUME NEW v \in {0} \cup 1 .. n, \A w \in 1 .. n : w <= v
                 PROVE  v = n
      OBVIOUS
    <2>1. n = 0 \/ n \in 1 .. n
      BY <1>1
    <2>2. n <= v
      BY <1>1, <2>1
    <2> QED
      BY <1>1, <2>2
  <1>5. Largest = n
    BY <1>2, <1>3, <1>4 DEF Largest
  <1> QED
    BY <1>5 DEF n

LEMMA AskStep ==
  ASSUME IInv, NEW u \in Users, Ask(u)
  PROVE  IInv'
  <1>1. Idle \in Request /\ request[u] \in Request
    BY DEF Idle, Request, IInv, TypeOK
  <1>2. /\ lock' = lock /\ assigned' = assigned /\ events' = events /\ versions' = versions
        /\ shown' = shown
    BY DEF Ask, AskVersion, AskPromotion, AskRollback, AskConfirmed, AskPreview
  <1>3. /\ lock' \in [Aliases -> Users \cup {None}] /\ versions' \in Seq(Nat)
        /\ shown' \in [Users -> Preview \cup {None}]
        /\ VersionsAreNumbered' /\ Len(versions) <= Len(versions')
        /\ \A v \in Users : shown'[v] # None => Describes(shown'[v])
    BY <1>2 DEF IInv, TypeOK, VersionsAreNumbered
  <1>4. ASSUME NEW r \in Request, request' = [request EXCEPT ![u] = r],
               r.at \in {"inserting version", "locking", "previewing"},
               r.at = "inserting version" => r.version \in 1 .. Len(versions) + 1,
               r.at # "inserting version" => r.alias \in Aliases,
               r.at = "previewing" => r.current \in Nat,
               r.at = "locking" => r.current = None /\ r.action \in {"promote", "rollback"},
               r.action # "rollback" => r.seen = None,
               r.seen # None => r.seen.alias = r.alias /\ Describes(r.seen)
        PROVE  IInv'
    <2>1. request'[u] = r
      BY <1>4 DEF IInv, TypeOK
    <2>2. Named(u)' /\ Holds(u)' /\ Informed(u)'
      BY <1>2, <1>4, <2>1 DEF Named, Holds, Informed, At, Alias, Describes
    <2> QED
      BY <1>2, <1>3, <1>4, <2>2, RequestStep
  <1>5. CASE AskVersion(u)
    <2> DEFINE r == [Idle EXCEPT !.at = "inserting version", !.action = "version", !.version = Largest + 1]
    <2>1. Largest + 1 \in 1 .. Len(versions) + 1 /\ Largest + 1 \in Nat
      BY LargestIsLength DEF IInv, TypeOK
    <2>2. r \in Request /\ r.at = "inserting version" /\ r.action = "version" /\ r.seen = None
          /\ r.version = Largest + 1
      BY <2>1, <1>1 DEF Request, Idle
    <2>3. request' = [request EXCEPT ![u] = r]
      BY <1>5 DEF AskVersion
    <2> HIDE DEF r
    <2> QED
      BY <1>4, <2>1, <2>2, <2>3
  <1>6. CASE AskPromotion(u)
    <2>1. PICK a \in Aliases, w \in Range(versions) :
            request' = [request EXCEPT ![u] = [Idle EXCEPT !.at = "locking", !.action = "promote",
                                                           !.alias = a, !.version = w]]
      BY <1>6 DEF AskPromotion
    <2> DEFINE r == [Idle EXCEPT !.at = "locking", !.action = "promote", !.alias = a, !.version = w]
    <2>2. w \in Nat
      BY DEF IInv, TypeOK, Range
    <2>3. /\ r \in Request /\ r.at = "locking" /\ r.action = "promote" /\ r.seen = None
          /\ r.alias = a /\ r.current = None
      BY <1>1, <2>2 DEF Request, Idle
    <2>4. request' = [request EXCEPT ![u] = r]
      BY <2>1
    <2> HIDE DEF r
    <2> QED
      BY <1>4, <2>3, <2>4
  <1>7. CASE AskRollback(u)
    <2>1. PICK a \in Aliases :
            request' = [request EXCEPT ![u] = [Idle EXCEPT !.at = "locking", !.action = "rollback", !.alias = a]]
      BY <1>7 DEF AskRollback
    <2> DEFINE r == [Idle EXCEPT !.at = "locking", !.action = "rollback", !.alias = a]
    <2>2. /\ r \in Request /\ r.at = "locking" /\ r.action = "rollback" /\ r.seen = None
          /\ r.alias = a /\ r.current = None
      BY <1>1 DEF Request, Idle
    <2>3. request' = [request EXCEPT ![u] = r]
      BY <2>1
    <2> HIDE DEF r
    <2> QED
      BY <1>4, <2>2, <2>3
  <1>8. CASE AskConfirmed(u)
    <2> DEFINE p == shown[u]
    <2> DEFINE r == [Idle EXCEPT !.at = "locking", !.action = "rollback", !.alias = p.alias, !.seen = p]
    <2>1. p \in Preview /\ p # None /\ Describes(p)
      BY <1>8 DEF AskConfirmed, IInv, TypeOK
    <2>2. p.alias \in Aliases
      BY <2>1 DEF Preview
    <2>3. /\ r \in Request /\ r.at = "locking" /\ r.action = "rollback" /\ r.seen = p
          /\ r.alias = p.alias /\ r.current = None
      BY <1>1, <2>1, <2>2 DEF Request, Idle
    <2>4. request' = [request EXCEPT ![u] = r]
      BY <1>8 DEF AskConfirmed
    <2> HIDE DEF r
    <2> QED
      BY <1>4, <2>1, <2>2, <2>3, <2>4
  <1>9. CASE AskPreview(u)
    <2>1. PICK a \in Aliases :
            /\ assigned[a] # None
            /\ request' = [request EXCEPT ![u] = [Idle EXCEPT !.at = "previewing", !.action = "preview",
                                                              !.alias = a, !.current = assigned[a]]]
      BY <1>9 DEF AskPreview
    <2> DEFINE r == [Idle EXCEPT !.at = "previewing", !.action = "preview", !.alias = a, !.current = assigned[a]]
    <2>2. assigned[a] \in Nat
      BY <2>1 DEF IInv, TypeOK
    <2>3. r \in Request /\ r.at = "previewing" /\ r.action = "preview" /\ r.seen = None /\ r.alias = a
          /\ r.current \in Nat
      BY <1>1, <2>2 DEF Request, Idle
    <2>4. request' = [request EXCEPT ![u] = r]
      BY <2>1
    <2> HIDE DEF r
    <2> QED
      BY <1>4, <2>3, <2>4
  <1> QED
    BY <1>5, <1>6, <1>7, <1>8, <1>9 DEF Ask

-----------------------------------------------------------------------------
LEMMA InsertVersionStep ==
  ASSUME IInv, NEW u \in Users, InsertVersion(u)
  PROVE  IInv'
  <1>1. CASE request[u].version \in Range(versions)
    BY <1>1, RaiseStep DEF InsertVersion
  <1>2. CASE request[u].version \notin Range(versions)
    <2> DEFINE n == Len(versions)
    <2> DEFINE v == request[u].version
    <2>1. /\ versions' = Append(versions, v) /\ request' = [request EXCEPT ![u] = Idle]
          /\ UNCHANGED <<assigned, events, lock, shown>>
      BY <1>2 DEF InsertVersion
    <2>2. n \in Nat /\ DOMAIN versions = 1 .. n /\ v \in 1 .. n + 1
      <3>1. Named(u) /\ At(u, "inserting version") /\ versions \in Seq(Nat)
        BY DEF IInv, TypeOK, InsertVersion
      <3>2. n \in Nat /\ DOMAIN versions = 1 .. n
        <4>1. versions \in Seq(Nat)
          BY <3>1
        <4> QED
          BY <4>1
      <3>3. v \in 1 .. Len(versions) + 1
        BY <3>1 DEF Named
      <3> QED
        BY <3>2, <3>3
    <2>3. v = n + 1
      BY <1>2, <2>2 DEF Range, IInv, VersionsAreNumbered
    <2>4. v \in Nat /\ versions' \in Seq(Nat) /\ Len(versions') = n + 1
      BY <2>1, <2>2 DEF IInv, TypeOK
    <2>5. VersionsAreNumbered'
      BY <2>1, <2>2, <2>3, <2>4 DEF IInv, TypeOK, VersionsAreNumbered
    <2>6. request'[u] = Idle
      BY <2>1 DEF IInv, TypeOK
    <2>7. Idle \in Request /\ Named(u)' /\ Holds(u)' /\ Informed(u)'
      BY <2>6, IdleKnows
    <2>8. /\ lock' \in [Aliases -> Users \cup {None}] /\ shown' \in [Users -> Preview \cup {None}]
          /\ \A a \in Aliases : \A w \in Users \ {u} : lock[a] = w => lock'[a] = w
          /\ \A w \in Users : shown'[w] # None => Describes(shown'[w])
      BY <2>1 DEF IInv, TypeOK
    <2>9. n <= Len(versions')
      BY <2>2, <2>4
    <2> QED
      BY <2>1, <2>4, <2>5, <2>7, <2>8, <2>9, RequestStep
  <1> QED
    BY <1>1, <1>2

\* The steps that find the row of the alias, or none, and lock or insert it.
LEMMA RowStep ==
  ASSUME IInv, NEW u \in Users, LockRow(u) \/ FindNoRow(u) \/ InsertRow(u)
  PROVE  IInv'
  <1> DEFINE a == Alias(u)
  <1>1. /\ request[u] \in Request /\ a \in Aliases
        /\ Named(u) /\ request[u].current = None
      BY DEF IInv, TypeOK, Named, LockRow, FindNoRow, InsertRow
  <1>2. ASSUME NEW r \in Request, request' = [request EXCEPT ![u] = r],
               UNCHANGED <<versions, assigned, events, shown>>,
               r.alias = a, r.action = request[u].action, r.seen = request[u].seen,
               r.at \in {"inserting row", "writing", "looking"},
               r.at # "looking" => r.action = "promote", r.at = "looking" => r.action = "rollback",
               r.current = assigned[a],
               IF r.at = "inserting row" THEN lock' = lock /\ assigned[a] = None
               ELSE lock[a] = None /\ lock' = [lock EXCEPT ![a] = u]
        PROVE  IInv'
    <2>1. request'[u] = r
      BY <1>2 DEF IInv, TypeOK
    <2>2. Named(u)'
      BY <1>1, <1>2, <2>1 DEF Named, At, Alias, Describes
    <2>3. /\ versions' = versions /\ shown' = shown /\ events' = events /\ assigned' = assigned
      BY <1>2
    <2>4. /\ lock' \in [Aliases -> Users \cup {None}]
          /\ r.at # "inserting row" => lock'[a] = u
          /\ \A b \in Aliases : \A v \in Users \ {u} : lock[b] = v => lock'[b] = v
      <3>1. None \notin Users /\ lock \in [Aliases -> Users \cup {None}]
        BY NoneAssumption DEF IInv, TypeOK
      <3> QED
        BY <1>1, <1>2, <3>1
    <2>5. Holds(u)'
      BY <1>2, <2>1, <2>4 DEF Holds, At, Alias
    <2>6. Informed(u)'
      BY <1>2, <2>1 DEF Informed, At, Alias
    <2>7. /\ versions' \in Seq(Nat) /\ VersionsAreNumbered' /\ Len(versions) <= Len(versions')
          /\ shown' \in [Users -> Preview \cup {None}]
          /\ \A v \in Users : shown'[v] # None => Describes(shown'[v])
      BY <2>3 DEF IInv, TypeOK, VersionsAreNumbered
    <2> QED
      BY <1>2, <2>2, <2>4, <2>5, <2>6, <2>7, RequestStep
  <1>3. CASE LockRow(u)
    <2> DEFINE r == [request[u] EXCEPT !.at = IF request[u].action = "promote" THEN "writing" ELSE "looking",
                                       !.current = assigned[a]]
    <2>1. /\ request' = [request EXCEPT ![u] = r] /\ UNCHANGED <<versions, assigned, events, shown>>
          /\ lock[a] = None /\ lock' = [lock EXCEPT ![a] = u]
      BY <1>3 DEF LockRow, IInv, TypeOK
    <2>2. assigned[a] \in Nat \cup {None} /\ request[u].action \in {"promote", "rollback"}
      BY <1>1, <1>3 DEF LockRow, IInv, TypeOK, Named
    <2>3. /\ r \in Request /\ r.alias = a /\ r.action = request[u].action /\ r.seen = request[u].seen
          /\ r.current = assigned[a]
          /\ r.at = IF request[u].action = "promote" THEN "writing" ELSE "looking"
      BY <1>1, <2>2 DEF Request, Alias
    <2> HIDE DEF r
    <2> QED
      BY <1>2, <2>1, <2>2, <2>3
  <1>4. CASE FindNoRow(u)
    <2>1. CASE request[u].action = "promote"
      <3> DEFINE r == [request[u] EXCEPT !.at = "inserting row"]
      <3>1. /\ request' = [request EXCEPT ![u] = r] /\ UNCHANGED <<versions, assigned, events, lock, shown>>
            /\ assigned[a] = None
        BY <1>4, <2>1 DEF FindNoRow, IInv, TypeOK
      <3>2. /\ r \in Request /\ r.alias = a /\ r.action = request[u].action /\ r.seen = request[u].seen
            /\ r.current = None /\ r.at = "inserting row"
        BY <1>1 DEF Request, Alias
      <3> HIDE DEF r
      <3> QED
        BY <1>2, <2>1, <3>1, <3>2
    <2>2. CASE request[u].action # "promote"
      BY <1>4, <2>2, RaiseStep DEF FindNoRow
    <2> QED
      BY <2>1, <2>2
  <1>5. CASE InsertRow(u)
    <2>1. CASE assigned[a] # None
      BY <1>5, <2>1, RaiseStep DEF InsertRow
    <2>2. CASE assigned[a] = None
      <3> DEFINE r == [request[u] EXCEPT !.at = "writing"]
      <3>1. /\ request' = [request EXCEPT ![u] = r] /\ UNCHANGED <<versions, assigned, events, shown>>
            /\ lock[a] = None /\ lock' = [lock EXCEPT ![a] = u]
        BY <1>5, <2>2 DEF InsertRow, IInv, TypeOK
      <3>2. request[u].action = "promote"
        BY <1>1, <1>5 DEF InsertRow, Named
      <3>3. /\ r \in Request /\ r.alias = a /\ r.action = request[u].action /\ r.seen = request[u].seen
            /\ r.current = None /\ r.at = "writing"
        BY <1>1 DEF Request, Alias
      <3> HIDE DEF r
      <3> QED
        BY <1>2, <2>2, <3>1, <3>2, <3>3
    <2> QED
      BY <2>1, <2>2
  <1> QED
    BY <1>3, <1>4, <1>5

\* The event a rollback finds is the last of its alias, and its preview, if it has one, named it.
LEMMA LookUpSourceStep ==
  ASSUME IInv, NEW u \in Users, LookUpSource(u)
  PROVE  IInv'
  <1> DEFINE a == Alias(u)
  <1> DEFINE n == Len(events[a])
  <1> DEFINE seen == request[u].seen
  <1>1. /\ request[u] \in Request /\ a \in Aliases /\ request[u].at = "looking"
        /\ request[u].action = "rollback" /\ Named(u) /\ Holds(u) /\ Informed(u)
        /\ events[a] \in Seq(Event) /\ n \in Nat /\ DOMAIN events[a] = 1 .. n
    <2>1. TypeOK /\ Named(u) /\ Holds(u) /\ Informed(u) /\ At(u, "looking")
      BY DEF IInv, LookUpSource
    <2>2. a \in Aliases /\ request[u].action = "rollback" /\ request[u].at = "looking"
      BY <2>1 DEF Named, At
    <2>3. request[u] \in Request /\ events[a] \in Seq(Event)
      BY <2>1, <2>2 DEF TypeOK
    <2> QED
      BY <2>1, <2>2, <2>3
  <1>2. Source(a) = IF n > 1 THEN n ELSE 0
    BY <1>1, SourceIsLast DEF IInv
  <1>3. CASE Source(a) = 0 \/ (seen # None /\ seen.event # Source(a))
    BY <1>3, RaiseStep DEF LookUpSource
  <1>4. CASE ~ (Source(a) = 0 \/ (seen # None /\ seen.event # Source(a)))
    <2> DEFINE r == [request[u] EXCEPT !.at = "writing", !.version = events[a][Source(a)].previous]
    <2>1. request' = [request EXCEPT ![u] = r] /\ UNCHANGED <<versions, assigned, events, lock, shown>>
      BY <1>4 DEF LookUpSource, IInv, TypeOK
    <2>2. n > 1 /\ Source(a) = n /\ (seen # None => seen.event = n)
      BY <1>1, <1>2, <1>4
    <2>3. events[a][n].previous \in Nat
      <3>0. n \in 1 .. n /\ n - 1 \in 1 .. n /\ n # 1
        <4>1. n \in Nat /\ n > 1
          BY <1>1, <2>2
        <4> HIDE DEF n
        <4> QED
          BY <4>1
      <3>1. n \in DOMAIN events[a] /\ n - 1 \in DOMAIN events[a] /\ n # 1
        BY <1>1, <3>0
      <3>2. events[a][n - 1] \in Event
        BY <1>1, <3>1
      <3>3. events[a][n].previous = events[a][n - 1].next
        BY <1>1, <3>1 DEF IInv, EventsFormAChain
      <3> QED
        BY <3>2, <3>3 DEF Event
    <2>4. /\ r \in Request /\ r.at = "writing" /\ r.version = events[a][n].previous /\ r.alias = a
          /\ r.action = "rollback" /\ r.seen = seen /\ r.current = request[u].current
      BY <1>1, <2>2, <2>3 DEF Request, Alias
    <2> HIDE DEF r
    <2>5. request'[u] = r
      BY <2>1 DEF IInv, TypeOK
    <2>7. Named(u)'
      BY <1>1, <2>1, <2>4, <2>5 DEF Named, At, Alias, Describes
    <2>8. Holds(u)'
      BY <1>1, <2>1, <2>4, <2>5 DEF Holds, At, Alias
    <2>9. Informed(u)'
      BY <1>1, <2>1, <2>2, <2>4, <2>5 DEF Informed, At, Alias, Last
    <2>10. /\ versions' \in Seq(Nat) /\ VersionsAreNumbered' /\ Len(versions) <= Len(versions')
           /\ lock' \in [Aliases -> Users \cup {None}] /\ shown' \in [Users -> Preview \cup {None}]
           /\ \A v \in Users : shown'[v] # None => Describes(shown'[v])
      BY <2>1 DEF IInv, TypeOK, VersionsAreNumbered
    <2> QED
      BY <2>1, <2>4, <2>7, <2>8, <2>9, <2>10, RequestStep
  <1> QED
    BY <1>3, <1>4

LEMMA ShowPreviewStep ==
  ASSUME IInv, NEW u \in Users, ShowPreview(u)
  PROVE  IInv'
  <1> DEFINE a == Alias(u)
  <1> DEFINE n == Len(events[a])
  <1>1. TypeOK /\ EventsFormAChain /\ Named(u) /\ At(u, "previewing")
    BY DEF IInv, ShowPreview
  <1>2. a \in Aliases
    BY <1>1 DEF Named
  <1>3. events[a] \in Seq(Event) /\ request[u] \in Request
    BY <1>1, <1>2 DEF TypeOK
  <1>4. n \in Nat /\ DOMAIN events[a] = 1 .. n
    BY <1>3
  <1>5. /\ request' = [request EXCEPT ![u] = Idle] /\ UNCHANGED <<versions, assigned, events, lock>>
        /\ request'[u] = Idle
    BY <1>1 DEF ShowPreview, TypeOK
  <1>6. shown' \in [Users -> Preview \cup {None}] /\ \A v \in Users : shown'[v] # None => Describes(shown'[v])
    <2> DEFINE p == [alias |-> a, event |-> Source(a), current |-> request[u].current,
                     target |-> events[a][Source(a)].previous]
    <2>1. CASE Source(a) = 0
      <3>1. shown' = [shown EXCEPT ![u] = None]
        BY <2>1 DEF ShowPreview
      <3> QED
        BY <3>1 DEF IInv, TypeOK
    <2>2. CASE Source(a) # 0
      <3>1. shown' = [shown EXCEPT ![u] = p]
        BY <2>2 DEF ShowPreview
      <3>2. Source(a) = n /\ n > 1
        BY <1>1, <1>2, <2>2, SourceIsLast
      <3>3. n \in DOMAIN events[a] /\ n - 1 \in DOMAIN events[a] /\ n # 1
        <4> HIDE DEF n
        <4> QED
          BY <1>4, <3>2
      <3>4. events[a][n - 1] \in Event
        BY <1>3, <3>3
      <3>5. events[a][n].previous = events[a][n - 1].next
        BY <1>1, <1>2, <3>3 DEF EventsFormAChain
      <3>6. request[u].current \in Nat
        BY <1>1 DEF Named
      <3>7. p \in Preview
        BY <1>2, <1>4, <3>2, <3>4, <3>5, <3>6 DEF Preview, Event
      <3>8. Describes(p)
        BY <3>2, <3>3 DEF Describes
      <3> HIDE DEF p
      <3> QED
        BY <3>1, <3>7, <3>8 DEF IInv, TypeOK
    <2> QED
      BY <2>1, <2>2
  <1>7. Idle \in Request /\ Named(u)' /\ Holds(u)' /\ Informed(u)'
    BY <1>5, IdleKnows
  <1>8. /\ versions' \in Seq(Nat) /\ VersionsAreNumbered' /\ Len(versions) <= Len(versions')
        /\ lock' \in [Aliases -> Users \cup {None}]
    BY <1>5 DEF IInv, TypeOK, VersionsAreNumbered
  <1> QED
    BY <1>5, <1>6, <1>7, <1>8, RequestStep

\* Whoever commits holds the alias: nobody else has read it, and the event continues the chain.
LEMMA CommitStep ==
  ASSUME IInv, NEW u \in Users, Commit(u)
  PROVE  IInv'
  <1> DEFINE a == Alias(u)
  <1> DEFINE r == request[u]
  <1> DEFINE n == Len(events[a])
  <1> DEFINE e == [action |-> r.action, previous |-> r.current, next |-> r.version, seen |-> r.seen]
  <1>1. TypeOK /\ EventsFormAChain /\ Named(u) /\ Holds(u) /\ Informed(u) /\ At(u, "writing")
    BY DEF IInv, Commit
  <1>2. /\ a \in Aliases /\ r.action \in {"promote", "rollback"} /\ lock[a] = u /\ r.current = assigned[a]
        /\ (r.action # "rollback" => r.seen = None) /\ (r.seen # None => Describes(r.seen) /\ r.seen.alias = a)
        /\ (r.action = "rollback" => n > 1 /\ r.version = events[a][n].previous
                                     /\ (r.seen # None => r.seen.event = n))
    BY <1>1 DEF Named, Holds, Informed, Last
  <1>3. r \in Request /\ events[a] \in Seq(Event)
    BY <1>1, <1>2 DEF TypeOK
  <1>4. n \in Nat /\ DOMAIN events[a] = 1 .. n
    BY <1>3
  <1>5. e \in Event
    BY <1>2, <1>3 DEF Request, Event
  <1>6. /\ e.previous = assigned[a] /\ e.next = r.version /\ e.action = r.action /\ e.seen = r.seen
    BY <1>2
  <1>7. /\ assigned' = [assigned EXCEPT ![a] = r.version]
        /\ events' = [events EXCEPT ![a] = Append(@, e)]
        /\ request' = [request EXCEPT ![u] = Idle]
        /\ lock' = Released(u) /\ versions' = versions /\ shown' = shown
    BY DEF Commit
  <1> HIDE DEF e
  <1>8. /\ events'[a] \in Seq(Event) /\ DOMAIN events'[a] = 1 .. n + 1 /\ Len(events'[a]) = n + 1
        /\ events'[a][n + 1] = e /\ \A i \in 1 .. n : events'[a][i] = events[a][i]
        /\ assigned'[a] = r.version
    <2>1. events'[a] = Append(events[a], e) /\ assigned'[a] = r.version
      BY <1>1, <1>2, <1>7 DEF TypeOK
    <2> QED
      BY <1>3, <1>4, <1>5, <2>1
  <1>9. \A b \in Aliases \ {a} : events'[b] = events[b] /\ assigned'[b] = assigned[b]
    BY <1>1, <1>7 DEF TypeOK
  <1>10. \A i \in 1 .. n + 1 : i \in 1 .. n \/ i = n + 1
    BY <1>4
  <1>11. TypeOK'
    <2>1. Idle \in Request
      BY DEF Idle, Request
    <2>2. events' \in [Aliases -> Seq(Event)]
      BY <1>1, <1>2, <1>7, <1>8, <1>9 DEF TypeOK
    <2>3. r.version \in Nat
      BY <1>3 DEF Request
    <2>4. assigned' \in [Aliases -> Nat \cup {None}]
      BY <1>1, <1>2, <1>7, <2>3 DEF TypeOK
    <2>5. lock' \in [Aliases -> Users \cup {None}]
      BY <1>1, <1>7 DEF TypeOK, Released
    <2> QED
      BY <1>1, <1>7, <2>1, <2>2, <2>4, <2>5 DEF TypeOK
  <1>12. VersionsAreNumbered'
    BY <1>7 DEF IInv, VersionsAreNumbered
  <1>13. EventsFormAChain'
    <2> SUFFICES ASSUME NEW b \in Aliases
                 PROVE  /\ \A i \in DOMAIN events'[b] :
                             events'[b][i].previous = IF i = 1 THEN None ELSE events'[b][i - 1].next
                        /\ assigned'[b] = IF events'[b] = <<>> THEN None ELSE events'[b][Len(events'[b])].next
      BY DEF EventsFormAChain
    <2>1. CASE b # a
      BY <1>1, <1>9, <2>1 DEF EventsFormAChain
    <2>2. CASE b = a
      <3>1. ASSUME NEW i \in 1 .. n
            PROVE  events'[a][i].previous = IF i = 1 THEN None ELSE events'[a][i - 1].next
        <4>1. i # 1 => i - 1 \in 1 .. n
          BY <1>4
        <4>2. events[a][i].previous = IF i = 1 THEN None ELSE events[a][i - 1].next
          BY <1>1, <1>2, <1>4 DEF EventsFormAChain
        <4>3. events'[a][i] = events[a][i] /\ (i # 1 => events'[a][i - 1] = events[a][i - 1])
          BY <1>8, <4>1
        <4> QED
          BY <4>2, <4>3
      <3>2. e.previous = IF n = 0 THEN None ELSE events[a][n].next
        <4>1. n = 0 <=> events[a] = <<>>
          BY <1>3
        <4> QED
          BY <1>1, <1>2, <1>6, <4>1 DEF EventsFormAChain
      <3>3. events'[a][n + 1].previous = IF n + 1 = 1 THEN None ELSE events'[a][n].next
        <4>1. n # 0 => n \in 1 .. n
          BY <1>4
        <4> QED
          BY <1>4, <1>8, <3>2, <4>1
      <3>4. n + 1 - 1 = n /\ n + 1 # 0
        BY <1>4
      <3>5. \A i \in DOMAIN events'[a] :
               events'[a][i].previous = IF i = 1 THEN None ELSE events'[a][i - 1].next
        BY <1>8, <1>10, <3>1, <3>3, <3>4
      <3>6. events'[a] # <<>>
        BY <1>8, <3>4
      <3>7. assigned'[a] = events'[a][Len(events'[a])].next
        BY <1>6, <1>8
      <3> QED
        BY <2>2, <3>5, <3>6, <3>7
    <2> QED
      BY <2>1, <2>2
  <1>14. RollbacksUndoTheLastChange'
    <2> SUFFICES ASSUME NEW b \in Aliases, NEW i \in DOMAIN events'[b], events'[b][i].action = "rollback"
                 PROVE  i > 1 /\ events'[b][i].next = events'[b][i - 1].previous
      BY DEF RollbacksUndoTheLastChange
    <2>1. CASE b # a
      BY <1>9, <2>1 DEF IInv, RollbacksUndoTheLastChange
    <2>2. CASE b = a /\ i \in 1 .. n
      <3>1. i > 1 /\ events[a][i].next = events[a][i - 1].previous
        BY <1>2, <1>4, <1>8, <2>2 DEF IInv, RollbacksUndoTheLastChange
      <3>2. i - 1 \in 1 .. n
        BY <1>4, <2>2, <3>1
      <3> QED
        BY <1>8, <2>2, <3>1, <3>2
    <2>3. CASE b = a /\ i = n + 1
      <3>1. n > 1 /\ r.version = events[a][n].previous
        BY <1>2, <1>6, <1>8, <2>3
      <3>2. n \in 1 .. n /\ n + 1 > 1 /\ n + 1 - 1 = n
        BY <1>4, <3>1
      <3> QED
        BY <1>6, <1>8, <2>3, <3>1, <3>2
    <2> QED
      BY <1>8, <1>10, <2>1, <2>2, <2>3
  <1>15. PreviewedTargetIsRestored'
    <2> SUFFICES ASSUME NEW b \in Aliases, NEW i \in DOMAIN events'[b], events'[b][i].seen # None
                 PROVE  events'[b][i].seen.event = i - 1 /\ events'[b][i].seen.target = events'[b][i].next
      BY DEF PreviewedTargetIsRestored
    <2>1. CASE b # a
      BY <1>9, <2>1 DEF IInv, PreviewedTargetIsRestored
    <2>2. CASE b = a /\ i \in 1 .. n
      BY <1>2, <1>4, <1>8, <2>2 DEF IInv, PreviewedTargetIsRestored
    <2>3. CASE b = a /\ i = n + 1
      <3>1. r.seen # None /\ r.action = "rollback"
        BY <1>2, <1>6, <1>8, <2>3
      <3>2. r.seen.event = n /\ r.version = events[a][n].previous /\ r.seen.target = events[a][n].previous
        BY <1>2, <3>1 DEF Describes
      <3>3. n + 1 - 1 = n
        BY <1>4
      <3> QED
        BY <1>6, <1>8, <2>3, <3>2, <3>3
    <2> QED
      BY <1>8, <1>10, <2>1, <2>2, <2>3
  <1>16. \A v \in Users : Named(v)' /\ Holds(v)' /\ Informed(v)'
    <2>1. request'[u] = Idle
      BY <1>1, <1>7 DEF TypeOK
    <2>2. Named(u)' /\ Holds(u)' /\ Informed(u)'
      BY <2>1, IdleKnows
    <2>3. ASSUME NEW v \in Users \ {u}
          PROVE  Named(v)' /\ Holds(v)' /\ Informed(v)'
      <3>1. request'[v] = request[v] /\ request[v] \in Request /\ Named(v) /\ Holds(v) /\ Informed(v)
        BY <1>1, <1>7 DEF IInv, TypeOK
      <3>2. request[v].seen # None => request[v].seen \in Preview /\ Describes(request[v].seen)'
        <4> SUFFICES ASSUME request[v].seen # None
                     PROVE  request[v].seen \in Preview /\ Describes(request[v].seen)'
          OBVIOUS
        <4>1. request[v].seen \in Preview /\ Describes(request[v].seen)
          BY <3>1 DEF Request, Named
        <4> DEFINE p == request[v].seen
        <4>2. request'[v].seen = p
          BY <3>1
        <4> QED
          BY <1>1, <1>2, <1>5, <1>7, <4>1, <4>2, StillDescribes
      <3>3. Named(v)'
        BY <1>7, <3>1, <3>2 DEF Named, At, Alias
      <3>4. CASE request[v].at \in {"looking", "writing"}
        <4>1. lock[Alias(v)] = v /\ Alias(v) \in Aliases
          BY <3>1, <3>4 DEF Holds, Named, At
        <4>2. Alias(v) # a
          BY <1>2, <4>1
        <4>3. /\ lock'[Alias(v)] = v /\ assigned'[Alias(v)] = assigned[Alias(v)]
              /\ events'[Alias(v)] = events[Alias(v)]
          BY <1>7, <1>9, <4>1, <4>2 DEF Released
        <4> QED
          BY <3>1, <3>3, <4>3 DEF Holds, Informed, At, Alias, Last
      <3>5. CASE request[v].at \notin {"looking", "writing"}
        BY <3>1, <3>3, <3>5 DEF Holds, Informed, At
      <3> QED
        BY <3>4, <3>5
    <2> QED
      BY <2>2, <2>3
  <1>17. \A v \in Users : (shown[v] # None => Describes(shown[v]))'
    <2> SUFFICES ASSUME NEW v \in Users, shown[v] # None
                 PROVE  Describes(shown[v])'
      BY <1>7
    <2>1. shown[v] \in Preview /\ Describes(shown[v])
      BY <1>1 DEF IInv, TypeOK
    <2> QED
      BY <1>1, <1>2, <1>5, <1>7, <2>1, StillDescribes
  <1> QED
    BY <1>11, <1>12, <1>13, <1>14, <1>15, <1>16, <1>17 DEF IInv

LEMMA NextIInv == IInv /\ [Next]_vars => IInv'
  <1> SUFFICES ASSUME IInv, [Next]_vars
               PROVE  IInv'
    OBVIOUS
  <1>1. ASSUME NEW u \in Users, Ask(u) \/ Handle(u)
        PROVE  IInv'
    <2>1. CASE Ask(u)
      BY <2>1, AskStep
    <2>2. CASE FailVerification(u)
      BY <2>2, RaiseStep DEF FailVerification
    <2>3. CASE Handle(u) /\ ~ FailVerification(u)
      BY <2>3, InsertVersionStep, RowStep, LookUpSourceStep, CommitStep, ShowPreviewStep DEF Handle
    <2> QED
      BY <1>1, <2>1, <2>2, <2>3
  <1>2. CASE UNCHANGED vars
    <2>1. /\ TypeOK' /\ VersionsAreNumbered' /\ EventsFormAChain' /\ RollbacksUndoTheLastChange'
          /\ PreviewedTargetIsRestored'
      BY <1>2 DEF vars, IInv, TypeOK, VersionsAreNumbered, EventsFormAChain, RollbacksUndoTheLastChange,
                  PreviewedTargetIsRestored
    <2>2. \A u \in Users : Named(u)' /\ Holds(u)' /\ Informed(u)'
      BY ZenonT(60), <1>2 DEF vars, IInv, Named, Holds, Informed, At, Alias, Describes, Last
    <2>3. \A u \in Users : (shown[u] # None => Describes(shown[u]))'
      BY <1>2 DEF vars, IInv, Describes
    <2> QED
      BY <2>1, <2>2, <2>3 DEF IInv
  <1> QED
    BY <1>1, <1>2 DEF Next

LEMMA AlwaysIInv == Spec => []IInv
  BY InitIInv, NextIInv, PTL DEF Spec

-----------------------------------------------------------------------------
(***************************************************************************)
(* The tables, the locks and the requests have their types.                *)
(***************************************************************************)
THEOREM TypeCorrect == Spec => []TypeOK
  <1>1. IInv => TypeOK
    BY DEF IInv
  <1> QED
    BY <1>1, AlwaysIInv, PTL

(***************************************************************************)
(* Versions are numbered without a gap, however many users create them at  *)
(* once (create_model_version).                                            *)
(***************************************************************************)
THEOREM NumbersHaveNoGap == Spec => []VersionsAreNumbered
  <1>1. IInv => VersionsAreNumbered
    BY DEF IInv
  <1> QED
    BY <1>1, AlwaysIInv, PTL

(***************************************************************************)
(* Each event of an alias starts where the one before it led to, and the   *)
(* alias is where the last one led to, for any number of users.            *)
(***************************************************************************)
THEOREM ChainOfEvents == Spec => []EventsFormAChain
  <1>1. IInv => EventsFormAChain
    BY DEF IInv
  <1> QED
    BY <1>1, AlwaysIInv, PTL

(***************************************************************************)
(* A rollback undoes the change before it (_rollback_source_event).        *)
(***************************************************************************)
THEOREM RollbackUndoes == Spec => []RollbacksUndoTheLastChange
  <1>1. IInv => RollbacksUndoTheLastChange
    BY DEF IInv
  <1> QED
    BY <1>1, AlwaysIInv, PTL

(***************************************************************************)
(* A confirmed rollback restores what its preview showed, with nothing in  *)
(* between (rollback_model_from_preview).                                  *)
(***************************************************************************)
THEOREM PreviewIsRestored == Spec => []PreviewedTargetIsRestored
  <1>1. IInv => PreviewedTargetIsRestored
    BY DEF IInv
  <1> QED
    BY <1>1, AlwaysIInv, PTL

=============================================================================
