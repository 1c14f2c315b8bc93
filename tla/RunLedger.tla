----------------------------- MODULE RunLedger ------------------------------
(***************************************************************************)
(* What the inspection service promises about runs, without saying how:    *)
(* runs are admitted one at a time, except that a cancelled run no longer  *)
(* stands in the way of the next; a run ends once, either published with   *)
(* all the notifications its station asks for, or closed without any; a    *)
(* restart closes whatever was open.                                       *)
(***************************************************************************)
CONSTANTS
    Runs,     \* run identifiers
    Channels  \* where a published result may be announced

VARIABLES
    ledger,     \* where each run stands
    cancelled,  \* runs somebody asked to cancel
    announced   \* pairs of a run and a channel it was announced on

ledgerVars == <<ledger, cancelled, announced>>

Standing == {"absent", "open", "published", "closed"}

LedgerTypeOK ==
    /\ ledger \in [Runs -> Standing]
    /\ cancelled \subseteq Runs
    /\ announced \subseteq Runs \X Channels

LedgerInit ==
    /\ ledger = [r \in Runs |-> "absent"]
    /\ cancelled = {}
    /\ announced = {}

Admit(r) ==
    /\ ledger[r] = "absent"
    /\ \A s \in Runs : ledger[s] = "open" => s \in cancelled
    /\ ledger' = [ledger EXCEPT ![r] = "open"]
    /\ UNCHANGED <<cancelled, announced>>

AskToCancel(r) ==
    /\ ledger[r] # "absent"
    /\ cancelled' = cancelled \cup {r}
    /\ UNCHANGED <<ledger, announced>>

PublishRun(r) ==
    /\ ledger[r] = "open"
    /\ ledger' = [ledger EXCEPT ![r] = "published"]
    /\ \E enabled \in SUBSET Channels :
         announced' = announced \cup ({r} \X enabled)
    /\ UNCHANGED cancelled

Close(r) ==
    /\ ledger[r] = "open"
    /\ ledger' = [ledger EXCEPT ![r] = "closed"]
    /\ UNCHANGED <<cancelled, announced>>

Restart ==
    /\ ledger' = [r \in Runs |-> IF ledger[r] = "open" THEN "closed" ELSE ledger[r]]
    /\ UNCHANGED <<cancelled, announced>>

LedgerNext ==
    \/ \E r \in Runs : Admit(r) \/ AskToCancel(r) \/ PublishRun(r) \/ Close(r)
    \/ Restart

LedgerSpec == LedgerInit /\ [][LedgerNext]_ledgerVars
=============================================================================
