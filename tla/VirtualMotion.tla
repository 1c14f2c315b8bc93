---------------------------- MODULE VirtualMotion ----------------------------
(***************************************************************************)
(* The virtual motion controller (simulator/mcu).  Its endpoints are plain *)
(* functions, so they run in a pool of threads that share one service: a   *)
(* handler looks its command up, copies the state it reads with the        *)
(* changes it makes, puts the copy in place of the state, remembers the    *)
(* result under the command's id and records an event, and no lock keeps   *)
(* the others out in between.  Code that calls nothing is not interrupted, *)
(* so most handlers check and copy the same state; a move calls            *)
(* _is_inside_workspace between its checks and its copy.                   *)
(*                                                                         *)
(* Left out: the times of observation, speeds, and two of the three axes.  *)
(***************************************************************************)
EXTENDS Naturals, Integers, Sequences

CONSTANTS
    Handlers,       \* the threads of the pool
    Commands,       \* the ids clients give to their commands
    Reach,          \* the workspace is 0..Reach
    MaxRevision,    \* bound: no request is taken from this revision, or as many events, on
    None

ASSUME ReachAssumption == Reach \in Nat

VARIABLES
    state,          \* MotionState
    commands,       \* for each id the revision of its result, or None
    events,         \* the revisions of the events for /events
    job             \* what each handler is doing

vars == <<state, commands, events, job>>

Injected == {"axis-stuck", "position-stale"}
Interlock == "interlock"    \* the three texts configure_interlocks writes

ASSUME NoneAssumption == None \notin Nat \cup Injected \cup {Interlock}

MotionState ==
    [revision : Nat, name : {"not-homed", "idle", "fault", "emergency-stop"},
     homed : BOOLEAN, inPosition : BOOLEAN, position : Int,
     estop : BOOLEAN, door : BOOLEAN, connected : BOOLEAN,
     fault : {None, Interlock} \cup Injected]

Moves == [call : {"move"}, id : Commands, target : Int]
Jogs == [call : {"jog"}, id : Commands, distance : Int]
Others == [call : {"home", "stop", "clear-fault"}, id : Commands]
Interlocks == [call : {"interlocks"}, estop : BOOLEAN, door : BOOLEAN, connected : BOOLEAN]
Faults == [call : {"fault"}, fault : Injected]
Plain == [call : {"read", "reset"}]

Identified == Moves \cup Jogs \cup Others
Requests == Identified \cup Interlocks \cup Faults \cup Plain

Job ==
    [at : {"idle", "looking", "resetting", "deciding", "ranging", "writing", "remembering", "recording"},
     request : Requests \cup {None}, copy : MotionState \cup {None}]

\* The requests that arrive: targets and distances that reach both ends of
\* the workspace and past one of them.
Arriving ==
    [call : {"move"}, id : Commands, target : 0..(Reach + 1)]
        \cup [call : {"jog"}, id : Commands, distance : {-1, 1}]
        \cup Others \cup Interlocks \cup Faults \cup Plain

-----------------------------------------------------------------------------
\* _require_motion_allowed
Allowed(s) == ~s.estop /\ s.door /\ s.connected /\ s.fault = None

Workspace == 0..Reach

\* The checks of the state between the lookup and the copy.
Accepts(s, r) ==
    CASE r.call = "home" -> Allowed(s)
      [] r.call \in {"move", "jog"} -> Allowed(s) /\ s.homed
      [] r.call = "clear-fault" -> ~s.estop /\ s.door /\ s.connected
      [] r.call = "read" -> s.connected /\ s.fault # "position-stale"
      [] OTHER -> TRUE

Homed(s) == [s EXCEPT !.name = "idle", !.homed = TRUE, !.inPosition = TRUE, !.position = 0]

Moved(s, target) == [s EXCEPT !.name = "idle", !.inPosition = TRUE, !.position = target]

Resting(s) == IF s.homed THEN "idle" ELSE "not-homed"

Stopped(s) == [s EXCEPT !.name = Resting(s), !.inPosition = FALSE]

Cleared(s) == [s EXCEPT !.name = Resting(s), !.fault = None]

FaultOf(s, r) == IF r.estop \/ ~r.connected \/ ~r.door THEN Interlock ELSE s.fault

NameOf(s, r) ==
    IF r.estop THEN "emergency-stop"
    ELSE IF ~r.connected \/ ~r.door THEN "fault" ELSE s.name

\* Variant: closed interlocks clear the fault.
InterlockedBlindly(s, r) ==
    [s EXCEPT !.name = NameOf(s, r), !.inPosition = FALSE,
              !.estop = r.estop, !.door = r.door, !.connected = r.connected,
              !.fault = IF r.estop \/ ~r.connected \/ ~r.door THEN Interlock ELSE None]

\* Variant: an open interlock leaves the stage in position.
InterlockedInPosition(s, r) ==
    [s EXCEPT !.name = NameOf(s, r),
              !.estop = r.estop, !.door = r.door, !.connected = r.connected,
              !.fault = FaultOf(s, r)]

Interlocked(s, r) ==
    [s EXCEPT !.name = NameOf(s, r),
              !.inPosition = IF FaultOf(s, r) # None THEN FALSE ELSE @,
              !.estop = r.estop, !.door = r.door, !.connected = r.connected,
              !.fault = FaultOf(s, r)]

Faulted(s, fault) == [s EXCEPT !.name = "fault", !.inPosition = FALSE, !.fault = fault]

Fresh ==
    [revision |-> 0, name |-> "not-homed", homed |-> FALSE, inPosition |-> FALSE, position |-> 0,
     estop |-> FALSE, door |-> TRUE, connected |-> TRUE, fault |-> None]

\* The copy a handler makes of the state it has read.
Changed(s, r) ==
    CASE r.call = "home" -> Homed(s)
      [] r.call = "move" -> Moved(s, r.target)
      [] r.call = "stop" -> Stopped(s)
      [] r.call = "clear-fault" -> Cleared(s)
      [] r.call = "interlocks" -> Interlocked(s, r)
      [] r.call = "fault" -> Faulted(s, r.fault)
      [] OTHER -> Fresh

Copy(s, r) ==
    IF r.call = "read" THEN s ELSE [Changed(s, r) EXCEPT !.revision = s.revision + 1]

-----------------------------------------------------------------------------
Idle == [at |-> "idle", request |-> None, copy |-> None]

Init ==
    /\ state = Fresh
    /\ commands = [id \in Commands |-> None]
    /\ events = <<>>
    /\ job = [h \in Handlers |-> Idle]

Take(h) ==
    /\ job[h].at = "idle"
    /\ state.revision < MaxRevision /\ Len(events) < MaxRevision
    /\ \E r \in Arriving :
          job' = [job EXCEPT ![h].request = r,
                             ![h].at = IF r \in Identified THEN "looking"
                                       ELSE IF r.call = "reset" THEN "resetting" ELSE "deciding"]
    /\ UNCHANGED <<state, commands, events>>

\* A command whose result is remembered is answered with it.
Look(h) ==
    /\ job[h].at = "looking"
    /\ job' = IF commands[job[h].request.id] # None
              THEN [job EXCEPT ![h] = Idle]
              ELSE [job EXCEPT ![h].at = "deciding"]
    /\ UNCHANGED <<state, commands, events>>

\* reset() forgets the results and the events before it makes its state.
Forget(h) ==
    /\ job[h].at = "resetting"
    /\ commands' = [id \in Commands |-> None]
    /\ events' = <<>>
    /\ job' = [job EXCEPT ![h].at = "deciding"]
    /\ UNCHANGED state

\* 409 and 422, and a read that finds the position stale.
Refuse(h) ==
    /\ \/ job[h].at = "deciding" /\ ~Accepts(state, job[h].request)
       \/ job[h].at = "ranging" /\ job[h].request.target \notin Workspace
    /\ job' = [job EXCEPT ![h] = Idle]
    /\ UNCHANGED <<state, commands, events>>

\* A move that passes the checks of the state calls _is_inside_workspace.
Check(h) ==
    /\ job[h].at = "deciding"
    /\ job[h].request.call = "move"
    /\ Accepts(state, job[h].request)
    /\ job' = [job EXCEPT ![h].at = "ranging"]
    /\ UNCHANGED <<state, commands, events>>

\* A jog calls move_absolute, which looks the command up and checks again.
Jog(h) ==
    /\ job[h].at = "deciding"
    /\ job[h].request.call = "jog"
    /\ Accepts(state, job[h].request)
    /\ job' = [job EXCEPT ![h].at = "looking",
                          ![h].request = [call |-> "move", id |-> job[h].request.id,
                                          target |-> state.position + job[h].request.distance]]
    /\ UNCHANGED <<state, commands, events>>

\* The copy is of the state as it is now: that of a move may be another one
\* than it has checked.
Decide(h) ==
    /\ \/ job[h].at = "deciding" /\ job[h].request.call \notin {"jog", "move"} /\ Accepts(state, job[h].request)
       \/ job[h].at = "ranging" /\ job[h].request.target \in Workspace
    /\ job' = [job EXCEPT ![h].at = "writing", ![h].copy = Copy(state, job[h].request)]
    /\ UNCHANGED <<state, commands, events>>

Write(h) ==
    /\ job[h].at = "writing"
    /\ state' = job[h].copy
    /\ job' = IF job[h].request.call = "read"
              THEN [job EXCEPT ![h] = Idle]
              ELSE [job EXCEPT ![h].copy = None,
                               ![h].at = IF job[h].request \in Identified THEN "remembering" ELSE "recording"]
    /\ UNCHANGED <<commands, events>>

\* The result names the revision of the state it finds, not of its copy.
Remember(h) ==
    /\ job[h].at = "remembering"
    /\ commands' = [commands EXCEPT ![job[h].request.id] = state.revision]
    /\ job' = [job EXCEPT ![h].at = "recording"]
    /\ UNCHANGED <<state, events>>

\* Variant: an event is left out when its revision has one already.
RecordNew(h) ==
    /\ job[h].at = "recording"
    /\ events' = IF \E i \in 1..Len(events) : events[i] = state.revision THEN events
                 ELSE Append(events, state.revision)
    /\ job' = [job EXCEPT ![h] = Idle]
    /\ UNCHANGED <<state, commands>>

\* _record_event; so does the event.
Record(h) ==
    /\ job[h].at = "recording"
    /\ events' = Append(events, state.revision)
    /\ job' = [job EXCEPT ![h] = Idle]
    /\ UNCHANGED <<state, commands>>

Step(h) ==
    \/ Take(h) \/ Look(h) \/ Forget(h) \/ Refuse(h) \/ Jog(h) \/ Check(h)
    \/ Decide(h) \/ Write(h) \/ Remember(h) \/ Record(h)

Next == \E h \in Handlers : Step(h)

Spec == Init /\ [][Next]_vars
=============================================================================
