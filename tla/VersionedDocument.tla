-------------------------- MODULE VersionedDocument --------------------------
(***************************************************************************)
(* What a document with revisions promises, whoever writes to it: a write  *)
(* names the revision it was made for and is appended if that is the last  *)
(* one; one of the revisions is active, and a key activates once.          *)
(***************************************************************************)
EXTENDS Naturals, Sequences

CONSTANTS Keys

VARIABLES
    log,        \* for each revision, the one its writer named
    active,     \* the active revision, or 0
    used        \* the revision each key has activated, or 0

vars == <<log, active, used>>

Init ==
    /\ log = <<>>
    /\ active = 0
    /\ used = [key \in Keys |-> 0]

Write(expected) ==
    /\ expected = Len(log)
    /\ log' = Append(log, expected)
    /\ UNCHANGED <<active, used>>

Activate(key, revision) ==
    /\ used[key] = 0
    /\ used' = [used EXCEPT ![key] = revision]
    /\ active' = revision
    /\ UNCHANGED log

Next ==
    \/ Write(Len(log))
    \/ \E key \in Keys, revision \in 1..Len(log) : Activate(key, revision)

Spec == Init /\ [][Next]_vars
=============================================================================
