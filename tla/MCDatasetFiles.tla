---------------------------- MODULE MCDatasetFiles ---------------------------
(***************************************************************************)
(* Small instances of DatasetFiles for TLC.                                *)
(***************************************************************************)
EXTENDS DatasetFilesProperties, TLC

Every == {"create", "rename", "delete", "upload", "import", "deleteImage", "renameImage", "moveImage",
          "snapshot"}

\* No request reads the counts in the file, or what a handler has answered before; and stale
\* counts are replaced as a whole.
View == <<folders, loop, met, stale, IF stale THEN None ELSE metadata,
          [h \in Handlers |-> IF At(h, "idle") THEN Idle ELSE handlers[h]]>>

Symmetry == Permutations(Handlers) \cup Permutations(Contents)
=============================================================================
