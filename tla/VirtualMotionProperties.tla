----------------------- MODULE VirtualMotionProperties -----------------------
(***************************************************************************)
(* What VirtualMotion is meant to guarantee.                               *)
(***************************************************************************)
EXTENDS VirtualMotion

\* The type invariant of the controller and of its handlers.
TypeOK ==
    /\ state \in MotionState
    /\ commands \in [Commands -> Nat \cup {None}]
    /\ events \in Seq(Nat)
    /\ job \in [Handlers -> Job]

(***************************************************************************)
(* History: whether two handlers have been under way at the same time;     *)
(* whether a move has copied a state that it would have refused, as it     *)
(* replaced the one it had checked; and whether the last copy to replace a *)
(* different state was that of a read, which is no event.                  *)
(***************************************************************************)
VARIABLES overlapped, raced, restored

historyVars == <<vars, overlapped, raced, restored>>

HistoryInit == Init /\ overlapped = FALSE /\ raced = FALSE /\ restored = FALSE

Overlap(j) == \E g, h \in Handlers : g # h /\ j[g].at # "idle" /\ j[h].at # "idle"

Race ==
    \E h \in Handlers :
        job[h].at = "ranging" /\ job'[h].at = "writing" /\ ~Accepts(state, job[h].request)

HistoryNext ==
    /\ Next
    /\ overlapped' = (overlapped \/ Overlap(job'))
    /\ raced' = (raced \/ Race)
    /\ restored' = IF state' = state THEN restored
                   ELSE \E h \in Handlers : Write(h) /\ job[h].request.call = "read"

HistorySpec == HistoryInit /\ [][HistoryNext]_historyVars

(***************************************************************************)
(* Every state a client can read is consistent, however the handlers       *)
(* interleave: an open interlock is a fault until it is cleared, only a    *)
(* faulted stage has a name other than idle or not homed, and no position  *)
(* is outside the workspace.  A fault is not in position, and only a homed *)
(* stage is idle or away from its reference, unless an emergency stop, a   *)
(* fault or a reset has come between the checks of a move and its copy.    *)
(***************************************************************************)
Latched(s) ==
    /\ s.estop \/ ~s.door \/ ~s.connected => s.fault # None
    /\ s.fault = None => s.name \in {"idle", "not-homed"}
    /\ s.position \in Workspace

Consistent(s) ==
    /\ Latched(s)
    /\ s.fault # None => ~s.inPosition
    /\ s.inPosition \/ s.position # 0 \/ s.name = "idle" => s.homed

StatesAreConsistent == Latched(state) /\ (~raced => Consistent(state))

(***************************************************************************)
(* Once nobody is under way, the newest event for the clients that follow  *)
(* /events has the revision of the state, though every handler records the *)
(* one it finds and a reset drops them all; only a read that has put back  *)
(* what another handler had replaced announces nothing.                    *)
(***************************************************************************)
Announced == IF events = <<>> THEN state.revision = 0 ELSE events[Len(events)] = state.revision

LastChangeIsAnnounced == (\A h \in Handlers : job[h].at = "idle") /\ ~restored => Announced

(***************************************************************************)
(* "emergency stop latches a fault and blocks motion until cleared" (the   *)
(* test at test_motion_service.py:85): the stop is released only by the    *)
(* interlocks, a fault only by clear-fault; else only a reset ends them.   *)
(* A handler that overlaps another may put back what it read before.       *)
(***************************************************************************)
Writes(call) ==
    \E h \in Handlers : job[h].at = "writing" /\ job'[h].at # "writing" /\ job[h].request.call \in {call, "reset"}

FaultsLatch ==
    [][~overlapped =>
          /\ state.estop /\ ~state'.estop => Writes("interlocks")
          /\ state.fault # None /\ state'.fault = None => Writes("clear-fault")]_vars
=============================================================================
