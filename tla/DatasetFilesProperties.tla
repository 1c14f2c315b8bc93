----------------------- MODULE DatasetFilesProperties ------------------------
(***************************************************************************)
(* What DatasetFiles is meant to guarantee.                                *)
(***************************************************************************)
EXTENDS DatasetFiles

ImageNames == Stems \X Nat

Folder ==
    [images : UNION {[F -> Contents \cup {Torn}] : F \in SUBSET ImageNames},
     snapshots : SUBSET Snapshots, temporaries : SUBSET Handlers]

Counts == UNION {[C -> Nat] : C \in SUBSET Categories}

Task ==
    [pc : {"idle", "checking", "changing", "listing", "unlinking", "choosing", "replacing", "opening", "copying",
           "preparing", "publishing", "scanning", "writing"},
     request : Requests \cup {None}, left : Seq(Items), file : ImageNames \cup {None},
     listed : SUBSET ImageNames, counts : Counts \cup {None}, answer : {None, "ok"}]

\* The type invariant of the dataset.
TypeOK ==
    /\ DOMAIN folders \subseteq Directories
    /\ folders \in [DOMAIN folders -> Folder]
    /\ metadata \in Counts
    /\ loop \in Handlers \cup {None}
    /\ handlers \in [Handlers -> Task]

(***************************************************************************)
(* History: whether the request of a handler has been served at the same   *)
(* time as another one, and as one that gives an image a name it has       *)
(* checked before; and whether the counts may be stale: since a request    *)
(* that regenerates them was answered and had met no other, two were       *)
(* served at the same time, a batch of images ended with an error, or the  *)
(* counts could not be written.                                            *)
(***************************************************************************)
VARIABLES met, stale

Replacing == {"renameImage", "moveImage", "import"}

HistoryInit == Init /\ met = [h \in Handlers |-> {}] /\ stale = FALSE

Class(h) == IF Request(h).kind \in Replacing THEN "replacing" ELSE "other"

Busy == {h \in Handlers : ~ At(h, "idle")}

\* A snapshot is answered without a count.
Recounts(h) == handlers'[h].answer = "ok" /\ met[h] = {} /\ Request(h).kind # "snapshot"

Spoils(h) ==
    /\ handlers[h].pc \in {"choosing", "replacing", "opening", "copying", "writing"}
    /\ handlers'[h].pc = "idle" /\ handlers'[h].answer = None

HistoryNext ==
    /\ Next
    /\ met' = [h \in Handlers |->
                  IF h \in Busy' THEN met[h] \cup {Class(g) : g \in Busy \ {h}}' ELSE {}]
    /\ stale' = \/ stale /\ ~ \E h \in Busy : Recounts(h)
                \/ \E g, h \in Busy' : g # h
                \/ \E h \in Busy : Spoils(h)

HistorySpec == HistoryInit /\ [][HistoryNext]_<<vars, met, stale>>

(***************************************************************************)
(* "metadata.json regenerated by scanning actual directory contents after  *)
(* every mutation." (dataset manager design of 2026-08-07, line 57): when  *)
(* no request is being served, the counts are those of the images there    *)
(* are, whichever requests were answered or refused, snapshots included.   *)
(* The code does not keep the promise in three cases, all in the history:  *)
(* requests that overlap, a batch that is refused after its first images   *)
(* were stored (dataset_service.py:1026-1057 and 1140-1163 raise before    *)
(* they regenerate), and counts that could not be written.  The next that  *)
(* regenerates them without meeting another mends what was left.           *)
(***************************************************************************)
CountsDescribeFiles == Busy = {} /\ ~ stale => metadata = Scan

(***************************************************************************)
(* Nothing but a request to delete loses an image: a category or an image  *)
(* is not renamed onto another, and two uploads of one name both stay.     *)
(* Only an image that is renamed, moved or imported while another request  *)
(* runs may take the place of one that came after its name was checked,    *)
(* and be lost to one whose name was checked before.                       *)
(* "Persist an immutable preparation input" (dataset_service.py:545): a    *)
(* snapshot stays where its id is looked up, unless a category of the name *)
(* of its directory is deleted or renamed.                                 *)
(***************************************************************************)
Holding(x) == {place \in Images : folders[place[1]].images[place[2]] = x}

Copies(x) == Cardinality(Holding(x))

Prepared == IF Preparations \in DOMAIN folders THEN folders[Preparations].snapshots ELSE {}

Raced(h) ==
    \/ Request(h).kind \in Replacing /\ met[h] # {}
    \/ "replacing" \in met[h]

FilesAreKept ==
    [][/\ \A x \in Contents :
            \/ Copies(x) <= Copies(x)'
            \/ \E h \in Busy : Request(h).kind \in {"delete", "deleteImage"} \/ Raced(h)
       /\ \/ Prepared \subseteq Prepared'
          \/ \E h \in Busy : Request(h).category = Preparations /\ Request(h).kind \in {"delete", "rename"}]_vars
=============================================================================
