------------------------- MODULE MCSettingsDocuments -------------------------
(***************************************************************************)
(* Small instances of SettingsDocuments for TLC.                           *)
(***************************************************************************)
EXTENDS SettingsDocumentsProperties, TLC

Symmetry == Permutations(Clients)
=============================================================================
