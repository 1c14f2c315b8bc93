--------------------------- MODULE SimulatorProofs ---------------------------
(***************************************************************************)
(* Proofs about the two simulated devices, VirtualMotion and ReplayCamera, *)
(* for any number of handlers and requests.                                *)
(***************************************************************************)
EXTENDS VirtualMotionProperties, ReplayCameraProperties, TLAPS

(***************************************************************************)
(* The motion controller.  No lock orders the handlers, so nothing can be  *)
(* said of the state when a copy replaces it.  What holds is about the     *)
(* copy: each kind of request makes a latched copy of a latched state, and *)
(* a consistent copy of a consistent state that passes its checks, which   *)
(* are of the same state unless a move has raced.                          *)
(***************************************************************************)
Sound(j) ==
    /\ j.at # "idle" => j.request \in Requests
    /\ j.at \in {"looking", "remembering"} => j.request \in Identified
    /\ j.at = "resetting" => j.request.call = "reset"
    /\ j.at = "ranging" => j.request.call = "move"
    /\ j.at = "writing" => j.copy \in MotionState /\ Latched(j.copy)

IInv == TypeOK /\ Latched(state) /\ \A h \in Handlers : Sound(job[h])

-----------------------------------------------------------------------------
LEMMA FreshConsistent == Fresh \in MotionState /\ Consistent(Fresh)
  BY ReachAssumption DEF Fresh, MotionState, Consistent, Latched, Workspace

LEMMA InterlockedConsistent ==
  ASSUME NEW s \in MotionState, Latched(s), NEW r \in Interlocks
  PROVE  /\ Interlocked(s, r) \in MotionState /\ Latched(Interlocked(s, r))
         /\ Consistent(s) => Consistent(Interlocked(s, r))
  <1>1. r.estop \in BOOLEAN /\ r.door \in BOOLEAN /\ r.connected \in BOOLEAN
    BY DEF Interlocks
  <1>2. FaultOf(s, r) \in {None, Interlock} \cup Injected
    BY DEF FaultOf, MotionState
  <1>3. NameOf(s, r) \in {"not-homed", "idle", "fault", "emergency-stop"}
    BY DEF NameOf, MotionState
  <1>4. Interlocked(s, r) \in MotionState
    BY ZenonT(60), <1>1, <1>2, <1>3 DEF Interlocked, MotionState
  <1>5. CASE r.estop \/ ~r.connected \/ ~r.door
    <2>1. FaultOf(s, r) = Interlock /\ NameOf(s, r) # "idle"
      BY <1>5 DEF FaultOf, NameOf
    <2> QED
      BY <1>4, <2>1, NoneAssumption DEF Consistent, Latched, Interlocked, MotionState
  <1>6. CASE ~(r.estop \/ ~r.connected \/ ~r.door)
    <2>1. FaultOf(s, r) = s.fault /\ NameOf(s, r) = s.name
      BY <1>6 DEF FaultOf, NameOf
    <2> QED
      BY <1>4, <1>6, <2>1 DEF Consistent, Latched, Interlocked, MotionState
  <1> QED
    BY <1>4, <1>5, <1>6

LEMMA ChangedConsistent ==
  ASSUME NEW s \in MotionState, Latched(s), NEW r \in Requests, r.call \notin {"jog", "read"},
         IF r.call = "move" THEN r.target \in Workspace ELSE Accepts(s, r)
  PROVE  /\ Changed(s, r) \in MotionState /\ Latched(Changed(s, r))
         /\ Consistent(s) /\ Accepts(s, r) => Consistent(Changed(s, r))
  <1>1. CASE r.call = "home"
    <2>1. Changed(s, r) = Homed(s) /\ Allowed(s)
      BY <1>1 DEF Changed, Accepts
    <2>2. Homed(s) \in MotionState
      <3> DEFINE a == [s EXCEPT !.name = "idle", !.homed = TRUE]
      <3>1. a \in MotionState
        BY DEF MotionState
      <3>2. Homed(s) = [a EXCEPT !.inPosition = TRUE, !.position = 0]
        BY DEF Homed, MotionState
      <3>3. \A p \in Int : [a EXCEPT !.inPosition = TRUE, !.position = p] \in MotionState
        BY <3>1 DEF MotionState
      <3>4. 0 \in Int
        OBVIOUS
      <3> HIDE DEF a
      <3> QED
        BY <3>2, <3>3, <3>4
    <2>3. /\ Homed(s).fault = s.fault /\ Homed(s).name = "idle" /\ Homed(s).homed /\ Homed(s).position = 0
          /\ Homed(s).estop = s.estop /\ Homed(s).door = s.door /\ Homed(s).connected = s.connected
      BY DEF Homed, MotionState
    <2>4. 0 \in Workspace
      BY ReachAssumption DEF Workspace
    <2> QED
      BY <2>1, <2>2, <2>3, <2>4 DEF Allowed, Consistent, Latched
  <1>2. CASE r.call = "move"
    <2>1. Changed(s, r) = Moved(s, r.target) /\ r.target \in Workspace
      BY <1>2 DEF Changed
    <2>2. r.target \in Int
      BY <2>1, ReachAssumption DEF Workspace
    <2>3. Moved(s, r.target) \in MotionState
      BY <2>2 DEF Moved, MotionState
    <2>4. LET m == Moved(s, r.target)
          IN  /\ m.fault = s.fault /\ m.name = "idle" /\ m.homed = s.homed /\ m.position = r.target
              /\ m.estop = s.estop /\ m.door = s.door /\ m.connected = s.connected
      BY DEF Moved, MotionState
    <2>5. Latched(Moved(s, r.target))
      BY <2>1, <2>4 DEF Latched
    <2>6. Accepts(s, r) => s.homed /\ s.fault = None
      BY <1>2 DEF Accepts, Allowed
    <2> QED
      BY <2>1, <2>3, <2>4, <2>5, <2>6 DEF Consistent
  <1>3. CASE r.call = "stop"
    <2>1. Changed(s, r) = Stopped(s)
      BY <1>3 DEF Changed
    <2> QED
      BY <2>1 DEF Stopped, Resting, MotionState, Consistent, Latched
  <1>4. CASE r.call = "clear-fault"
    <2>1. Changed(s, r) = Cleared(s) /\ ~s.estop /\ s.door /\ s.connected
      BY <1>4 DEF Changed, Accepts
    <2> QED
      BY <2>1 DEF Cleared, Resting, MotionState, Consistent, Latched
  <1>5. CASE r.call = "interlocks"
    <2>1. Changed(s, r) = Interlocked(s, r)
      BY <1>5 DEF Changed
    <2>2. r \in Interlocks
      BY <1>5 DEF Requests, Identified, Moves, Jogs, Others, Faults, Plain
    <2> QED
      BY <2>1, <2>2, InterlockedConsistent
  <1>6. CASE r.call = "fault"
    <2>1. Changed(s, r) = Faulted(s, r.fault)
      BY <1>6 DEF Changed
    <2>2. r.fault \in Injected
      BY <1>6 DEF Requests, Identified, Moves, Jogs, Others, Interlocks, Faults, Plain
    <2>3. Faulted(s, r.fault) \in MotionState
      BY <2>2 DEF Faulted, MotionState
    <2>4. r.fault # None
      BY <2>2, NoneAssumption
    <2>5. LET f == Faulted(s, r.fault)
          IN  /\ f.fault = r.fault /\ f.name = "fault" /\ ~f.inPosition /\ f.position = s.position
              /\ f.homed = s.homed
      BY DEF Faulted, MotionState
    <2> QED
      BY <2>1, <2>3, <2>4, <2>5 DEF Consistent, Latched
  <1>7. CASE r.call = "reset"
    BY <1>7, FreshConsistent DEF Changed, Consistent
  <1>8. r.call \in {"home", "move", "stop", "clear-fault", "interlocks", "fault", "reset"}
    BY DEF Requests, Identified, Moves, Jogs, Others, Interlocks, Faults, Plain
  <1> QED
    BY <1>1, <1>2, <1>3, <1>4, <1>5, <1>6, <1>7, <1>8

LEMMA CopyConsistent ==
  ASSUME NEW s \in MotionState, Latched(s), NEW r \in Requests, r.call # "jog",
         IF r.call = "move" THEN r.target \in Workspace ELSE Accepts(s, r)
  PROVE  /\ Copy(s, r) \in MotionState /\ Latched(Copy(s, r))
         /\ Consistent(s) /\ Accepts(s, r) => Consistent(Copy(s, r))
  <1>1. CASE r.call = "read"
    BY <1>1 DEF Copy
  <1>2. CASE r.call # "read"
    <2> DEFINE c == Changed(s, r)
    <2>1. c \in MotionState /\ Latched(c) /\ (Consistent(s) /\ Accepts(s, r) => Consistent(c))
      BY <1>2, ChangedConsistent
    <2>2. Copy(s, r) = [c EXCEPT !.revision = s.revision + 1]
      BY <1>2 DEF Copy
    <2>3. s.revision + 1 \in Nat
      BY DEF MotionState
    <2> HIDE DEF c
    <2> QED
      BY <2>1, <2>2, <2>3 DEF MotionState, Consistent, Latched
  <1> QED
    BY <1>1, <1>2

-----------------------------------------------------------------------------
\* What a handler does to itself keeps the facts about the others.
LEMMA Local ==
  ASSUME IInv, NEW h \in Handlers, NEW j \in Job, Sound(j), job' = [job EXCEPT ![h] = j],
         state' \in MotionState, Latched(state'),
         commands' \in [Commands -> Nat \cup {None}], events' \in Seq(Nat)
  PROVE  IInv'
  <1>1. TypeOK'
    BY DEF IInv, TypeOK
  <1>2. ASSUME NEW i \in Handlers PROVE Sound(job'[i])
    <2>1. CASE i = h
      <3>1. job'[i] = j
        BY <2>1 DEF IInv, TypeOK
      <3> QED
        BY <3>1
    <2>2. CASE i # h
      <3>1. job'[i] = job[i] /\ Sound(job[i])
        BY <2>2 DEF IInv, TypeOK
      <3> QED
        BY <3>1
    <2> QED
      BY <2>1, <2>2
  <1>3. (\A i \in Handlers : Sound(job[i]))'
    BY <1>2
  <1> QED
    BY <1>1, <1>3 DEF IInv

\* A handler that changes only its own record.
LEMMA Alone ==
  ASSUME IInv, NEW h \in Handlers, NEW j \in Job, Sound(j), job' = [job EXCEPT ![h] = j],
         UNCHANGED <<state, commands, events>>
  PROVE  IInv'
  <1>1. /\ state' \in MotionState /\ Latched(state')
        /\ commands' \in [Commands -> Nat \cup {None}] /\ events' \in Seq(Nat)
    BY DEF IInv, TypeOK
  <1> QED
    BY <1>1, Local

LEMMA IdleJob == Idle \in Job /\ Sound(Idle)
  BY DEF Idle, Job, Sound

LEMMA Kept ==
  ASSUME IInv, NEW h \in Handlers
  PROVE  job[h] \in Job /\ Sound(job[h])
  BY DEF IInv, TypeOK

LEMMA Goes ==
  ASSUME IInv, NEW h \in Handlers, NEW j, NEW at \in {"deciding", "ranging", "recording"},
         j = [job[h] EXCEPT !.at = at], job[h].at # "idle", at = "ranging" => job[h].request.call = "move"
  PROVE  j \in Job /\ Sound(j)
  <1>1. j \in Job
    BY Kept DEF Job
  <1>2. j.at = at /\ j.request = job[h].request
    BY Kept DEF Job
  <1>3. job[h].request \in Requests
    BY Kept DEF Sound
  <1> QED
    BY <1>1, <1>2, <1>3 DEF Sound

LEMMA Initial == Init => IInv
  <1> SUFFICES ASSUME Init PROVE IInv
    OBVIOUS
  <1>1. TypeOK
    BY FreshConsistent, IdleJob DEF Init, TypeOK
  <1> QED
    BY <1>1, FreshConsistent, IdleJob DEF Init, IInv, Consistent

LEMMA Arrivals == Arriving \subseteq Requests
  BY ReachAssumption DEF Arriving, Requests, Identified, Moves, Jogs

LEMMA TakeIInv == ASSUME IInv, NEW h \in Handlers, Take(h) PROVE IInv'
  <1>1. PICK r \in Arriving :
           job' = [job EXCEPT ![h].request = r,
                              ![h].at = IF r \in Identified THEN "looking"
                                        ELSE IF r.call = "reset" THEN "resetting" ELSE "deciding"]
    BY DEF Take
  <1> DEFINE at == IF r \in Identified THEN "looking" ELSE IF r.call = "reset" THEN "resetting" ELSE "deciding"
             j == [job[h] EXCEPT !.request = r, !.at = at]
  <1>2. job' = [job EXCEPT ![h] = j]
    BY <1>1 DEF IInv, TypeOK
  <1>3. r \in Requests
    BY Arrivals
  <1>4. /\ at \in {"looking", "resetting", "deciding"}
        /\ at = "looking" => r \in Identified
        /\ at = "resetting" => r.call = "reset"
    OBVIOUS
  <1> HIDE DEF at
  <1>5. j \in Job /\ j.at = at /\ j.request = r
    BY <1>3, <1>4, Kept DEF Job
  <1>6. Sound(j)
    BY <1>3, <1>4, <1>5 DEF Sound
  <1>7. UNCHANGED <<state, commands, events>>
    BY DEF Take
  <1> HIDE DEF j
  <1> QED
    BY <1>2, <1>5, <1>6, <1>7, Alone

LEMMA LookIInv == ASSUME IInv, NEW h \in Handlers, Look(h) PROVE IInv'
  <1>1. UNCHANGED <<state, commands, events>> /\ job[h].at # "idle"
    BY DEF Look
  <1>2. CASE job' = [job EXCEPT ![h] = Idle]
    BY <1>1, <1>2, IdleJob, Alone
  <1>3. CASE job' = [job EXCEPT ![h].at = "deciding"]
    <2> DEFINE j == [job[h] EXCEPT !.at = "deciding"]
    <2>1. job' = [job EXCEPT ![h] = j]
      BY <1>3 DEF IInv, TypeOK
    <2>2. j \in Job /\ Sound(j)
      BY <1>1, Goes
    <2> HIDE DEF j
    <2> QED
      BY <1>1, <2>1, <2>2, Alone
  <1> QED
    BY <1>2, <1>3 DEF Look

LEMMA ForgetIInv == ASSUME IInv, NEW h \in Handlers, Forget(h) PROVE IInv'
  <1> DEFINE j == [job[h] EXCEPT !.at = "deciding"]
  <1>1. job' = [job EXCEPT ![h] = j]
    BY DEF IInv, TypeOK, Forget
  <1>2. j \in Job /\ Sound(j)
    BY Goes DEF Forget
  <1>3. state' \in MotionState /\ Latched(state')
    BY DEF IInv, TypeOK, Forget
  <1>4. commands' \in [Commands -> Nat \cup {None}] /\ events' \in Seq(Nat)
    BY DEF Forget
  <1> HIDE DEF j
  <1> QED
    BY <1>1, <1>2, <1>3, <1>4, Local

LEMMA JogIInv == ASSUME IInv, NEW h \in Handlers, Jog(h) PROVE IInv'
  <1> DEFINE m == [call |-> "move", id |-> job[h].request.id, target |-> state.position + job[h].request.distance]
             j == [job[h] EXCEPT !.at = "looking", !.request = m]
  <1>1. job' = [job EXCEPT ![h] = j]
    BY DEF IInv, TypeOK, Jog
  <1>2. job[h].request \in Jogs
    <2>1. job[h].request \in Requests /\ job[h].request.call = "jog"
      BY Kept DEF Jog, Sound
    <2> QED
      BY <2>1 DEF Requests, Identified, Moves, Others, Interlocks, Faults, Plain
  <1>3. job[h].request.id \in Commands /\ job[h].request.distance \in Int
    BY <1>2 DEF Jogs
  <1>4. state.position \in Int
    BY DEF IInv, TypeOK, MotionState
  <1>5. m \in Moves
    BY <1>3, <1>4 DEF Moves
  <1>6. m \in Identified /\ m \in Requests
    BY <1>5 DEF Identified, Requests
  <1> HIDE DEF m
  <1>7. j \in Job /\ j.at = "looking" /\ j.request = m
    BY <1>6, Kept DEF Job
  <1>8. Sound(j)
    BY <1>6, <1>7 DEF Sound
  <1>9. UNCHANGED <<state, commands, events>>
    BY DEF Jog
  <1> HIDE DEF j
  <1> QED
    BY <1>1, <1>7, <1>8, <1>9, Alone

LEMMA CheckIInv == ASSUME IInv, NEW h \in Handlers, Check(h) PROVE IInv'
  <1> DEFINE j == [job[h] EXCEPT !.at = "ranging"]
  <1>1. job' = [job EXCEPT ![h] = j] /\ UNCHANGED <<state, commands, events>>
    BY DEF IInv, TypeOK, Check
  <1>2. j \in Job /\ Sound(j)
    BY Goes DEF Check
  <1> HIDE DEF j
  <1> QED
    BY <1>1, <1>2, Alone

\* The copy of a handler, and when it is consistent.
LEMMA DecideCopy ==
  ASSUME IInv, NEW h \in Handlers, Decide(h)
  PROVE  LET c == Copy(state, job[h].request)
         IN  /\ c \in MotionState /\ Latched(c)
             /\ Consistent(state) /\ Accepts(state, job[h].request) => Consistent(c)
  <1>1. job[h].request \in Requests /\ state \in MotionState /\ Latched(state) /\ Sound(job[h])
    BY Kept DEF Decide, Sound, IInv, TypeOK
  <1>2. CASE job[h].at = "deciding"
    BY <1>1, <1>2, CopyConsistent DEF Decide
  <1>3. CASE job[h].at = "ranging"
    <2>1. job[h].request.call = "move" /\ job[h].request.target \in Workspace
      BY <1>1, <1>3 DEF Decide, Sound
    <2> QED
      BY <1>1, <2>1, CopyConsistent
  <1> QED
    BY <1>2, <1>3 DEF Decide

LEMMA DecideIInv == ASSUME IInv, NEW h \in Handlers, Decide(h) PROVE IInv'
  <1> DEFINE c == Copy(state, job[h].request)
             j == [job[h] EXCEPT !.at = "writing", !.copy = c]
  <1>1. job' = [job EXCEPT ![h] = j]
    BY DEF IInv, TypeOK, Decide
  <1>2. job[h].request \in Requests
    BY Kept DEF Decide, Sound
  <1>3. c \in MotionState /\ Latched(c)
    BY DecideCopy
  <1> HIDE DEF c
  <1>4. j \in Job /\ j.at = "writing" /\ j.copy = c /\ j.request = job[h].request
    BY <1>3, Kept DEF Job
  <1>5. Sound(j)
    BY <1>2, <1>3, <1>4 DEF Sound
  <1>6. UNCHANGED <<state, commands, events>>
    BY DEF Decide
  <1> HIDE DEF j
  <1> QED
    BY <1>1, <1>4, <1>5, <1>6, Alone

LEMMA WriteIInv == ASSUME IInv, NEW h \in Handlers, Write(h) PROVE IInv'
  <1>1. /\ job[h].at = "writing" /\ state' = job[h].copy
        /\ commands' \in [Commands -> Nat \cup {None}] /\ events' \in Seq(Nat)
    BY DEF Write, IInv, TypeOK
  <1>2. state' \in MotionState /\ Latched(state') /\ job[h].request \in Requests
    BY <1>1, Kept DEF Sound
  <1>3. CASE job' = [job EXCEPT ![h] = Idle]
    BY <1>1, <1>2, <1>3, IdleJob, Local
  <1>4. CASE job' = [job EXCEPT ![h].copy = None,
              ![h].at = IF job[h].request \in Identified THEN "remembering" ELSE "recording"]
    <2> DEFINE at == IF job[h].request \in Identified THEN "remembering" ELSE "recording"
               j == [job[h] EXCEPT !.copy = None, !.at = at]
    <2>1. job' = [job EXCEPT ![h] = j]
      BY <1>4 DEF IInv, TypeOK
    <2>2. at \in {"remembering", "recording"} /\ (at = "remembering" => job[h].request \in Identified)
      OBVIOUS
    <2> HIDE DEF at
    <2>3. j \in Job /\ j.at = at /\ j.request = job[h].request
      BY <2>2, Kept DEF Job
    <2>4. Sound(j)
      BY <1>2, <2>2, <2>3 DEF Sound
    <2> HIDE DEF j
    <2> QED
      BY <1>1, <1>2, <2>1, <2>3, <2>4, Local
  <1> QED
    BY <1>3, <1>4 DEF Write

LEMMA RememberIInv == ASSUME IInv, NEW h \in Handlers, Remember(h) PROVE IInv'
  <1> DEFINE j == [job[h] EXCEPT !.at = "recording"]
  <1>1. job' = [job EXCEPT ![h] = j]
    BY DEF IInv, TypeOK, Remember
  <1>2. j \in Job /\ Sound(j)
    BY Goes DEF Remember
  <1>3. state' \in MotionState /\ Latched(state') /\ events' \in Seq(Nat) /\ state.revision \in Nat
    BY DEF IInv, TypeOK, Remember, MotionState
  <1>4. commands' \in [Commands -> Nat \cup {None}]
    BY <1>3 DEF IInv, TypeOK, Remember
  <1> HIDE DEF j
  <1> QED
    BY <1>1, <1>2, <1>3, <1>4, Local

LEMMA RecordIInv == ASSUME IInv, NEW h \in Handlers, Record(h) PROVE IInv'
  <1>1. /\ state' \in MotionState /\ Latched(state') /\ events \in Seq(Nat) /\ state.revision \in Nat
        /\ commands' \in [Commands -> Nat \cup {None}]
    BY DEF IInv, TypeOK, Record, MotionState
  <1>2. events' = Append(events, state.revision) /\ job' = [job EXCEPT ![h] = Idle]
    BY DEF Record
  <1>3. events' \in Seq(Nat)
    BY <1>1, <1>2
  <1> QED
    BY <1>1, <1>2, <1>3, IdleJob, Local

LEMMA Inductive == IInv /\ [Next]_vars => IInv'
  <1> SUFFICES ASSUME IInv, [Next]_vars PROVE IInv'
    OBVIOUS
  <1>1. CASE UNCHANGED vars
    BY <1>1 DEF vars, IInv, TypeOK
  <1>2. ASSUME NEW h \in Handlers, Refuse(h) PROVE IInv'
    BY <1>2, IdleJob, Alone DEF Refuse
  <1> QED
    BY <1>1, <1>2, TakeIInv, LookIInv, ForgetIInv, JogIInv, CheckIInv, DecideIInv, WriteIInv, RememberIInv, RecordIInv
    DEF Next, Step

-----------------------------------------------------------------------------
(***************************************************************************)
(* The controller and its handlers keep their types.                       *)
(***************************************************************************)
THEOREM TypeCorrect == Spec => []TypeOK
  BY Initial, Inductive, PTL DEF Spec, IInv

LEMMA HistoryIsNext == [HistoryNext]_historyVars => [Next]_vars
  BY DEF HistoryNext, historyVars, vars

\* A step of one handler leaves the others where they are.
LEMMA OthersStay ==
  ASSUME IInv, NEW h \in Handlers, Step(h), NEW i \in Handlers, i # h
  PROVE  job'[i] = job[i]
  BY DEF IInv, TypeOK, Step, Take, Look, Forget, Refuse, Jog, Check, Decide, Write, Remember, Record

LEMMA TakesUp ==
  ASSUME IInv, NEW h \in Handlers, Take(h)
  PROVE  job[h].at = "idle" /\ job'[h].at \in {"looking", "resetting", "deciding"}
  <1>1. PICK r \in Arriving :
           job' = [job EXCEPT ![h].request = r,
                              ![h].at = IF r \in Identified THEN "looking"
                                        ELSE IF r.call = "reset" THEN "resetting" ELSE "deciding"]
    BY DEF Take
  <1> QED
    BY <1>1, Kept DEF Take, Job, IInv, TypeOK

LEMMA NeverWriting ==
  ASSUME IInv, NEW h \in Handlers, Step(h), ~Decide(h), ~Write(h)
  PROVE  job'[h].at # "writing"
  <1>1. job[h] \in Job /\ DOMAIN job = Handlers
    BY Kept DEF IInv, TypeOK
  <1>2. CASE Take(h)
    BY <1>2, TakesUp
  <1>3. CASE Look(h)
    BY <1>1, <1>3 DEF Look, Job, Idle
  <1>4. CASE Forget(h) \/ Remember(h)
    BY <1>1, <1>4 DEF Forget, Remember, Job
  <1>5. CASE Refuse(h) \/ Record(h)
    BY <1>1, <1>5 DEF Refuse, Record, Idle
  <1>6. CASE Jog(h) \/ Check(h)
    BY <1>1, <1>6 DEF Jog, Check, Job
  <1> QED
    BY <1>2, <1>3, <1>4, <1>5, <1>6 DEF Step

-----------------------------------------------------------------------------
(***************************************************************************)
(* As long as no move has raced, every copy was made of a consistent state *)
(* that has passed the checks of its request.                              *)
(***************************************************************************)
Sane(j) == j.at = "writing" => Consistent(j.copy)

RaceInv == ~raced => Consistent(state) /\ \A h \in Handlers : Sane(job[h])

LEMMA RaceStep ==
  ASSUME IInv, RaceInv, [HistoryNext]_historyVars
  PROVE  RaceInv'
  <1> SUFFICES ASSUME ~raced' PROVE Consistent(state)' /\ \A i \in Handlers : Sane(job[i])'
    BY DEF RaceInv
  <1>1. CASE UNCHANGED historyVars
    BY <1>1 DEF historyVars, vars, RaceInv, Sane, Consistent, Latched
  <1>2. CASE HistoryNext
    <2>1. ~raced /\ ~Race
      BY <1>2 DEF HistoryNext
    <2>2. Consistent(state) /\ \A i \in Handlers : Sane(job[i])
      BY <2>1 DEF RaceInv
    <2>3. PICK h \in Handlers : Step(h)
      BY <1>2 DEF HistoryNext, Next
    <2>4. ASSUME NEW i \in Handlers, i # h PROVE Sane(job[i])'
      BY <2>2, <2>3, <2>4, OthersStay DEF Sane
    <2>5. job[h] \in Job /\ Sound(job[h]) /\ DOMAIN job = Handlers
      BY Kept DEF IInv, TypeOK
    <2>6. CASE Decide(h)
      <3> DEFINE c == Copy(state, job[h].request)
      <3>1. job'[h].at = "writing" /\ job'[h].copy = c /\ state' = state
        BY <2>5, <2>6 DEF Decide, Job
      <3>2. Accepts(state, job[h].request)
        BY <2>1, <2>6, <3>1 DEF Decide, Race
      <3>3. Consistent(c)
        BY <2>2, <2>6, <3>2, DecideCopy
      <3> HIDE DEF c
      <3> QED
        BY <2>2, <2>4, <3>1, <3>3 DEF Sane
    <2>7. CASE Write(h)
      <3>1. job[h].at = "writing" /\ state' = job[h].copy
        BY <2>7 DEF Write
      <3>2. job'[h].at # "writing"
        BY <2>5, <2>7 DEF Write, Job, Idle
      <3> QED
        BY <2>2, <2>4, <3>1, <3>2 DEF Sane
    <2>8. CASE ~Decide(h) /\ ~Write(h)
      <3>1. state' = state
        BY <2>3, <2>8 DEF Step, Take, Look, Forget, Refuse, Jog, Check, Remember, Record
      <3>2. job'[h].at # "writing"
        BY <2>3, <2>5, <2>8, NeverWriting
      <3> QED
        BY <2>2, <2>4, <3>1, <3>2 DEF Sane
    <2> QED
      BY <2>6, <2>7, <2>8
  <1> QED
    BY <1>1, <1>2

-----------------------------------------------------------------------------
(***************************************************************************)
(* Events.  Whoever replaces the state records an event later, and a reset *)
(* that has dropped the events replaces the state.                         *)
(***************************************************************************)
Owes(j) ==
    \/ j.at \in {"remembering", "recording"}
    \/ j.at \in {"deciding", "writing"} /\ j.request.call = "reset"

EventInv == restored \/ Announced \/ \E h \in Handlers : Owes(job[h])

LEMMA EventStep ==
  ASSUME IInv, EventInv, [HistoryNext]_historyVars
  PROVE  EventInv'
  <1>1. CASE UNCHANGED historyVars
    BY <1>1 DEF historyVars, vars, EventInv, Announced, Owes
  <1>2. CASE HistoryNext
    <2>1. PICK h \in Handlers : Step(h)
      BY <1>2 DEF HistoryNext, Next
    <2>2. job[h] \in Job /\ Sound(job[h]) /\ DOMAIN job = Handlers
      BY Kept DEF IInv, TypeOK
    <2>3. ASSUME NEW i \in Handlers, Owes(job[i]), i # h PROVE EventInv'
      BY <2>1, <2>3, OthersStay DEF EventInv, Owes
    <2>4. CASE state' = state /\ events' = events /\ (Owes(job[h]) => Owes(job'[h]))
      <3>1. restored' = restored
        BY <1>2, <2>4 DEF HistoryNext
      <3>2. Owes(job[h]) => Owes(job[h])'
        BY <2>4 DEF Owes
      <3> QED
        BY <2>3, <2>4, <3>1, <3>2 DEF EventInv, Announced
    <2>5. CASE Take(h)
      BY <2>4, <2>5, TakesUp DEF Take, Owes
    <2>6. CASE Look(h) \/ Jog(h) \/ Check(h)
      <3>1. ~Owes(job[h])
        BY <2>2, <2>6 DEF Look, Jog, Check, Owes, Sound, Identified, Moves, Jogs, Others
      <3> QED
        BY <2>4, <2>6, <3>1 DEF Look, Jog, Check
    <2>7. CASE Refuse(h)
      <3>1. ~Owes(job[h])
        BY <2>7 DEF Refuse, Owes, Accepts
      <3> QED
        BY <2>4, <2>7, <3>1 DEF Refuse
    <2>8. CASE Forget(h)
      <3>1. job'[h].at = "deciding" /\ job'[h].request.call = "reset"
        BY <2>2, <2>8 DEF Forget, Job, Sound
      <3> QED
        BY <3>1 DEF EventInv, Owes
    <2>9. CASE Decide(h)
      <3>1. job'[h].at = "writing" /\ job'[h].request = job[h].request
        BY <2>2, <2>9 DEF Decide, Job
      <3>2. job[h].at \in {"deciding", "ranging"} /\ state' = state /\ events' = events
        BY <2>9 DEF Decide
      <3> QED
        BY <2>4, <3>1, <3>2 DEF Owes
    <2>10. CASE Write(h)
      <3>1. CASE job[h].request.call = "read"
        <4>1. ~Owes(job[h]) /\ events' = events
          BY <2>10, <3>1 DEF Write, Owes
        <4>2. CASE state' = state
          BY <2>4, <4>1, <4>2
        <4>3. CASE state' # state
          BY <1>2, <2>10, <3>1, <4>3 DEF HistoryNext, EventInv
        <4> QED
          BY <4>2, <4>3
      <3>2. CASE job[h].request.call # "read"
        <4>1. job'[h].at \in {"remembering", "recording"}
          BY <2>2, <2>10, <3>2 DEF Write, Job
        <4> QED
          BY <4>1 DEF EventInv, Owes
      <3> QED
        BY <3>1, <3>2
    <2>11. CASE Remember(h)
      <3>1. job'[h].at = "recording"
        BY <2>2, <2>11 DEF Remember, Job
      <3> QED
        BY <3>1 DEF EventInv, Owes
    <2>12. CASE Record(h)
      <3>1. events \in Seq(Nat) /\ state.revision \in Nat
        BY DEF IInv, TypeOK, MotionState
      <3>2. events' = Append(events, state.revision) /\ state' = state
        BY <2>12 DEF Record
      <3>3. events' # <<>> /\ events'[Len(events')] = state'.revision
        BY <3>1, <3>2
      <3> QED
        BY <3>3 DEF EventInv, Announced
    <2> QED
      BY <2>1, <2>5, <2>6, <2>7, <2>8, <2>9, <2>10, <2>11, <2>12 DEF Step
  <1> QED
    BY <1>1, <1>2

-----------------------------------------------------------------------------
(***************************************************************************)
(* As long as no two handlers overlapped, the copy the only one under way  *)
(* is about to write was made of the state it replaces.                    *)
(***************************************************************************)
Current(j) == j.at = "writing" => j.request.call # "jog" /\ j.copy = Copy(state, j.request)

HistoryInv == ~overlapped => ~Overlap(job) /\ \A h \in Handlers : Current(job[h])

\* No copy releases the stop or the fault but those that are meant to.
LEMMA CopyLatches ==
  ASSUME NEW s \in MotionState, NEW r \in Requests, r.call # "jog"
  PROVE  /\ s.estop /\ ~Copy(s, r).estop => r.call \in {"interlocks", "reset"}
         /\ s.fault # None /\ Copy(s, r).fault = None => r.call \in {"clear-fault", "reset"}
  <1>1. CASE r.call = "read"
    BY <1>1 DEF Copy
  <1>2. CASE r.call = "home"
    BY <1>2 DEF Copy, Changed, Homed, MotionState
  <1>3. CASE r.call = "move"
    BY <1>3 DEF Copy, Changed, Moved, MotionState
  <1>4. CASE r.call = "stop"
    BY <1>4 DEF Copy, Changed, Stopped, MotionState
  <1>5. CASE r.call = "clear-fault"
    BY <1>5 DEF Copy, Changed, Cleared, MotionState
  <1>6. CASE r.call = "interlocks"
    <2>1. Copy(s, r).fault = FaultOf(s, r)
      BY <1>6 DEF Copy, Changed, Interlocked, MotionState
    <2>2. FaultOf(s, r) \in {Interlock, s.fault}
      BY DEF FaultOf
    <2> QED
      BY <1>6, <2>1, <2>2, NoneAssumption
  <1>7. CASE r.call = "fault"
    <2>1. r.fault \in Injected
      BY <1>7 DEF Requests, Identified, Moves, Jogs, Others, Interlocks, Faults, Plain
    <2>2. Copy(s, r).fault = r.fault /\ Copy(s, r).estop = s.estop
      BY <1>7 DEF Copy, Changed, Faulted, MotionState
    <2> QED
      BY <2>1, <2>2, NoneAssumption
  <1>8. CASE r.call = "reset"
    BY <1>8
  <1>9. r.call \in {"home", "move", "stop", "clear-fault", "interlocks", "fault", "read", "reset"}
    BY DEF Requests, Identified, Moves, Jogs, Others, Interlocks, Faults, Plain
  <1> QED
    BY <1>1, <1>2, <1>3, <1>4, <1>5, <1>6, <1>7, <1>8, <1>9

LEMMA OthersIdle ==
  ASSUME HistoryInv, ~overlapped, NEW h \in Handlers, job[h].at # "idle", NEW i \in Handlers, i # h
  PROVE  job[i].at = "idle"
  BY DEF HistoryInv, Overlap

\* The handler's own step.
LEMMA OwnStep ==
  ASSUME IInv, NEW h \in Handlers, Step(h)
  PROVE  Current(job[h])'
  <1>1. job[h] \in Job /\ Sound(job[h]) /\ DOMAIN job = Handlers
    BY Kept DEF IInv, TypeOK
  <1>2. CASE Decide(h)
    <2>1. /\ job'[h].at = "writing" /\ job'[h].request = job[h].request
          /\ job'[h].copy = Copy(state, job[h].request) /\ state' = state
      BY <1>1, <1>2 DEF Job, Decide
    <2>2. job[h].request.call # "jog"
      BY <1>1, <1>2 DEF Decide, Sound
    <2> QED
      BY <2>1, <2>2 DEF Current, Copy
  <1>3. CASE ~Decide(h)
    <2>1. CASE Write(h)
      BY <1>1, <2>1 DEF Write, Job, Idle, Current
    <2>2. CASE ~Write(h)
      <3>1. job'[h].at # "writing"
        BY <1>1, <1>3, <2>2, NeverWriting
      <3> QED
        BY <3>1 DEF Current
    <2> QED
      BY <2>1, <2>2
  <1> QED
    BY <1>2, <1>3

LEMMA AloneStateStep ==
  ASSUME IInv, HistoryInv, [HistoryNext]_historyVars
  PROVE  HistoryInv'
  <1>1. CASE UNCHANGED historyVars
    BY <1>1 DEF historyVars, vars, HistoryInv, Overlap, Current, Copy
  <1>2. CASE HistoryNext
    <2> SUFFICES ASSUME ~overlapped' PROVE ~Overlap(job') /\ \A i \in Handlers : Current(job[i])'
      BY DEF HistoryInv, Overlap
    <2>1. ~overlapped /\ ~Overlap(job')
      BY <1>2 DEF HistoryNext
    <2>2. PICK h \in Handlers : Step(h)
      BY <1>2 DEF HistoryNext, Next
    <2>3. ASSUME NEW i \in Handlers, i # h PROVE Current(job[i])'
      <3>1. job'[i] = job[i]
        BY <2>2, <2>3, OthersStay
      <3>2. job[i].at = "idle" \/ job'[h].at = "idle"
        BY <2>1, <2>3, <3>1 DEF Overlap
      <3>3. job[h].at # "idle" => job[i].at = "idle"
        BY <2>1, <2>3, OthersIdle
      <3>4. job[h].at = "idle" => Take(h)
        BY <2>2 DEF Step, Take, Look, Forget, Refuse, Jog, Check, Decide, Write, Remember, Record
      <3>5. Take(h) => job'[h].at # "idle"
        BY TakesUp
      <3>6. job'[i].at = "idle"
        BY <3>1, <3>2, <3>3, <3>4, <3>5
      <3> QED
        BY <3>6 DEF Current
    <2>4. Current(job[h])'
      BY <2>2, OwnStep
    <2> QED
      BY <2>1, <2>3, <2>4
  <1> QED
    BY <1>1, <1>2

LEMMA WritesWhatItRead ==
  ASSUME IInv, HistoryInv, ~overlapped, NEW h \in Handlers, Write(h)
  PROVE  /\ state' = Copy(state, job[h].request) /\ job[h].request.call # "jog"
         /\ job[h].request \in Requests /\ job[h].at = "writing" /\ job'[h].at # "writing"
  <1>1. job[h] \in Job /\ Sound(job[h]) /\ Current(job[h]) /\ DOMAIN job = Handlers
    BY Kept DEF HistoryInv, IInv, TypeOK
  <1>2. job'[h].at # "writing"
    BY <1>1 DEF Write, Job, Idle
  <1> QED
    BY <1>1, <1>2 DEF Write, Sound, Current

LEMMA StepLatches ==
  ASSUME IInv, HistoryInv, ~overlapped, [Next]_vars
  PROVE  /\ state.estop /\ ~state'.estop => Writes("interlocks")
         /\ state.fault # None /\ state'.fault = None => Writes("clear-fault")
  <1>1. CASE state' = state
    BY <1>1
  <1>2. CASE state' # state
    <2>1. PICK h \in Handlers : Write(h)
      BY <1>2 DEF vars, Next, Step, Take, Look, Forget, Refuse, Jog, Check, Decide, Remember, Record
    <2>2. /\ state' = Copy(state, job[h].request) /\ job[h].request.call # "jog"
          /\ job[h].request \in Requests /\ job[h].at = "writing" /\ job'[h].at # "writing"
      BY <2>1, WritesWhatItRead
    <2>3. state \in MotionState
      BY DEF IInv, TypeOK
    <2>4. /\ state.estop /\ ~state'.estop => job[h].request.call \in {"interlocks", "reset"}
          /\ state.fault # None /\ state'.fault = None => job[h].request.call \in {"clear-fault", "reset"}
      BY <2>2, <2>3, CopyLatches
    <2> QED
      BY <2>2, <2>4 DEF Writes
  <1> QED
    BY <1>1, <1>2

LEMMA HistoryKeeps == HistorySpec => [](IInv /\ RaceInv /\ EventInv /\ HistoryInv)
  <1>1. HistoryInit => IInv /\ RaceInv /\ EventInv /\ HistoryInv
    <2> SUFFICES ASSUME HistoryInit PROVE IInv /\ RaceInv /\ EventInv /\ HistoryInv
      OBVIOUS
    <2>1. IInv /\ Consistent(state) /\ \A h \in Handlers : job[h].at = "idle"
      BY Initial, FreshConsistent DEF HistoryInit, Init, Idle
    <2>2. Announced
      BY DEF HistoryInit, Init, Announced, Fresh
    <2> QED
      BY <2>1, <2>2 DEF RaceInv, Sane, EventInv, HistoryInv, Overlap, Current
  <1>2. IInv /\ RaceInv /\ EventInv /\ HistoryInv /\ [HistoryNext]_historyVars
          => (IInv /\ RaceInv /\ EventInv /\ HistoryInv)'
    BY HistoryIsNext, Inductive, RaceStep, EventStep, AloneStateStep
  <1> QED
    BY <1>1, <1>2, PTL DEF HistorySpec

(***************************************************************************)
(* Every state /state returns is consistent, for any number of handlers,   *)
(* until a move copies a state that its checks would have refused; what is *)
(* said of open interlocks and of the workspace holds even then.           *)
(***************************************************************************)
THEOREM AlwaysConsistent == HistorySpec => []StatesAreConsistent
  <1>1. IInv /\ RaceInv => StatesAreConsistent
    BY DEF IInv, RaceInv, StatesAreConsistent
  <1> QED
    BY <1>1, HistoryKeeps, PTL

(***************************************************************************)
(* When the handlers rest, the newest event tells of the state, unless a   *)
(* read has put back an older one.                                         *)
(***************************************************************************)
THEOREM ChangesAnnounced == HistorySpec => []LastChangeIsAnnounced
  <1>1. EventInv => LastChangeIsAnnounced
    BY DEF EventInv, LastChangeIsAnnounced, Owes
  <1> QED
    BY <1>1, HistoryKeeps, PTL

(***************************************************************************)
(* As long as no two handlers were under way at once, only the interlocks  *)
(* release the stop and only clear-fault a fault, or a reset does.         *)
(***************************************************************************)
THEOREM SequentialFaultsLatch == HistorySpec => FaultsLatch
  <1> DEFINE Latch == ~overlapped =>
                        /\ state.estop /\ ~state'.estop => Writes("interlocks")
                        /\ state.fault # None /\ state'.fault = None => Writes("clear-fault")
  <1>1. IInv /\ HistoryInv /\ [HistoryNext]_historyVars => [Latch]_vars
    BY HistoryIsNext, StepLatches
  <1>2. FaultsLatch <=> [][Latch]_vars
    BY DEF FaultsLatch
  <1> HIDE DEF Latch
  <1> QED
    BY <1>1, <1>2, HistoryKeeps, PTL DEF HistorySpec

-----------------------------------------------------------------------------
(***************************************************************************)
(* The camera.  Handlers may share all names: what each can count on       *)
(* whatever the others do is that files that are there stay there, and     *)
(* that a file it has open has the name it takes it for.  A handler that   *)
(* has met no other with its id can count on what it has written.          *)
(***************************************************************************)
\* A request that has not found a result.
Capturing == {"reading", "rereading", "opening", "putting", "renaming", "unlinking", "finishing"}
Writing == {"opening", "putting", "renaming", "unlinking", "finishing"}

\* What a handler has in hand, whatever the others do.
JobInv(h) ==
    LET j == task[h] IN
    /\ j.at = "idle" => j = Free
    /\ j.at # "idle" => j.name \in Names
    /\ j.at \in {"looking", "reading", "rereading", "unlinking", "finishing"} => j.name \in Ids
    /\ j.at \in Writing => j.bytes \in Data
    /\ j.at = "rereading" => j.bytes \in Images /\ artifacts[j.bytes] # Nothing
    /\ j.file = "temporary" => temporaries[j.name] # Nothing
    /\ j.file = "artifact" => artifacts[j.name] # Nothing
    /\ j.at = "finishing" => artifacts[j.name] # Nothing

ProxyInv ==
    \A id \in Ids :
        /\ \A h \in Threads : proxy[id].handler = h => task[h].name = id
        /\ proxy[id].at = "fetching" => artifacts[id] # Nothing

CameraInv ==
    /\ CameraTypeOK
    /\ \A h \in Threads : JobInv(h)
    /\ ProxyInv
    /\ configuration.source # Nothing => artifacts[configuration.source] # Nothing
    /\ \A id \in Ids : results[id] # Nothing => artifacts[id] # Nothing

\* What a handler may count on that has met no other with its id.
AloneAt(h) ==
    LET n == task[h].name IN
    /\ task[h].at \in Capturing => results[n] = Nothing
    /\ task[h].at = "putting" => task[h].file = "temporary" /\ temporaries[n] = "empty"
    /\ task[h].at = "renaming" => temporaries[n] = task[h].bytes
    /\ task[h].at = "finishing" => artifacts[n] = task[h].bytes

AloneInv ==
    /\ Contested \subseteq met
    /\ \A h \in Threads : task[h].name \in Ids \ met => AloneAt(h)
    /\ ResultsDescribeArtifacts

-----------------------------------------------------------------------------
LEMMA FreeTask ==
  /\ Free \in Task /\ Free.at = "idle" /\ Free.name = Nothing /\ Free.file = "gone"
  /\ Nothing \notin Names /\ Nothing \notin Data /\ Nothing \notin Ids /\ Nothing \notin Threads
  /\ Ids \cap Images = {}
  BY NamesAssumption, NothingAssumption DEF Free, Task, Names, Data

LEMMA OverType ==
  ASSUME NEW old \in Data, NEW new \in Data
  PROVE  Over(old, new) \subseteq Data
  BY DEF Over, Data

\* Files that are there stay there.
Keeps(files) == \A n \in Names : files[n] # Nothing => files'[n] # Nothing

\* A handler that goes on where it was; its file may have another name.
LEMMA JobKept ==
  ASSUME NEW g \in Threads, JobInv(g), CameraTypeOK, Keeps(artifacts), task'[g].at = task[g].at,
         task'[g].name = task[g].name,
         task'[g].bytes = task[g].bytes, task[g].at = "idle" => task'[g] = task[g],
         task'[g].file = "temporary" => temporaries'[task[g].name] # Nothing,
         task'[g].file = "artifact" => artifacts'[task[g].name] # Nothing
  PROVE  JobInv(g)'
  <1>1. Ids \subseteq Names /\ Images \subseteq Names
    BY DEF Names
  <1>2. task[g].at = "finishing" => artifacts'[task[g].name] # Nothing
    BY <1>1 DEF JobInv, Keeps
  <1>3. task[g].at = "rereading" => task[g].bytes \in Images /\ artifacts'[task[g].bytes] # Nothing
    BY <1>1 DEF JobInv, Keeps
  <1> QED
    BY <1>2, <1>3 DEF JobInv

\* The proxy's side of an answer.
LEMMA Answered ==
  ASSUME CameraInv, NEW h \in Threads, NEW jobs \in [Threads -> Task], NEW result \in Result \cup {Nothing},
         AnswerFrom(jobs, h, result), \A g \in Threads : jobs[g].name = task[g].name, Keeps(artifacts),
         result # Nothing => artifacts'[task[h].name] # Nothing
  PROVE  /\ ProxyInv'
         /\ proxy' \in [Ids -> [at : {"idle", "waiting", "fetching"}, handler : Threads \cup {Nothing},
                                result : Result \cup {Nothing}, confirmed : Data \cup {Nothing}]]
         /\ task' \in [Threads -> Task]
         /\ task'[h] = Free /\ JobInv(h)'
         /\ \A g \in Threads : g # h => task'[g] = jobs[g]
  <1> DEFINE Request == [at : {"idle", "waiting", "fetching"}, handler : Threads \cup {Nothing},
                         result : Result \cup {Nothing}, confirmed : Data \cup {Nothing}]
  <1>1. task' \in [Threads -> Task] /\ task'[h] = Free /\ \A g \in Threads : g # h => task'[g] = jobs[g]
    BY FreeTask DEF AnswerFrom
  <1>2. proxy \in [Ids -> Request]
    BY DEF CameraInv, CameraTypeOK
  <1>3. \A id \in Ids : proxy'[id] = IF proxy[id].handler # h THEN proxy[id]
                                     ELSE [proxy[id] EXCEPT !.handler = Nothing, !.result = result,
                                              !.at = IF result = Nothing THEN "idle" ELSE "fetching"]
    BY DEF AnswerFrom
  <1>4. proxy' \in [Ids -> Request]
    <2>1. ASSUME NEW id \in Ids PROVE proxy'[id] \in Request
      <3>1. CASE proxy[id].handler # h
        BY <1>2, <1>3, <3>1
      <3>2. CASE proxy[id].handler = h
        <4> DEFINE at == IF result = Nothing THEN "idle" ELSE "fetching"
        <4>1. proxy'[id] = [proxy[id] EXCEPT !.handler = Nothing, !.result = result, !.at = at]
          BY <1>3, <3>2
        <4>2. proxy[id] \in Request /\ at \in {"idle", "fetching"}
          BY <1>2
        <4> HIDE DEF at
        <4> QED
          BY <4>1, <4>2
      <3> QED
        BY <3>1, <3>2
    <2>2. DOMAIN proxy' = Ids /\ proxy' = [id \in DOMAIN proxy' |-> proxy'[id]]
      BY DEF AnswerFrom
    <2> QED
      BY <2>1, <2>2
  <1>5. ASSUME NEW id \in Ids, NEW g \in Threads, proxy'[id].handler = g PROVE task'[g].name = id
    <2>1. proxy[id].handler # h
      BY <1>2, <1>3, <1>5, FreeTask
    <2>2. proxy[id].handler = g /\ g # h
      BY <1>3, <1>5, <2>1
    <2> QED
      BY <1>1, <2>2 DEF CameraInv, ProxyInv
  <1>6. ASSUME NEW id \in Ids, proxy'[id].at = "fetching" PROVE artifacts'[id] # Nothing
    <2>1. CASE proxy[id].handler # h
      BY <1>3, <1>6, <2>1 DEF CameraInv, ProxyInv, Keeps, Names
    <2>2. CASE proxy[id].handler = h
      <3>1. result # Nothing
        BY ZenonT(60), <1>2, <1>3, <1>6, <2>2
      <3> QED
        BY <2>2, <3>1 DEF CameraInv, ProxyInv
    <2> QED
      BY <2>1, <2>2
  <1>7. JobInv(h)'
    BY <1>1, FreeTask DEF JobInv, Writing
  <1> QED
    BY <1>1, <1>4, <1>5, <1>6, <1>7 DEF ProxyInv

LEMMA ProxyKept ==
  ASSUME ProxyInv, proxy' = proxy, Keeps(artifacts), \A g \in Threads : task'[g].name = task[g].name
  PROVE  ProxyInv'
  BY DEF ProxyInv, Keeps, Names

\* The parts of Sound together, after a step that keeps the artifacts.
LEMMA SoundFrom ==
  ASSUME CameraInv, CameraTypeOK', ProxyInv', Keeps(artifacts), configuration' = configuration,
         \A id \in Ids : results'[id] # results[id] => artifacts'[id] # Nothing,
         \A h \in Threads : JobInv(h)'
  PROVE  CameraInv'
  <1>1. configuration'.source # Nothing => artifacts'[configuration'.source] # Nothing
    BY DEF CameraInv, CameraTypeOK, Keeps, Names
  <1>2. \A id \in Ids : results'[id] # Nothing => artifacts'[id] # Nothing
    BY DEF CameraInv, Keeps, Names
  <1> QED
    BY <1>1, <1>2 DEF CameraInv

LEMMA SoundInitially == CameraInit => CameraInv
  <1> SUFFICES ASSUME CameraInit PROVE CameraInv
    OBVIOUS
  <1>1. CameraTypeOK
    BY FreeTask DEF CameraInit, CameraTypeOK, Names
  <1>2. \A h \in Threads : task[h] = Free
    BY DEF CameraInit
  <1>3. \A h \in Threads : JobInv(h)
    BY <1>2, FreeTask DEF JobInv, Writing
  <1>4. ProxyInv
    BY FreeTask DEF CameraInit, ProxyInv
  <1> QED
    BY <1>1, <1>3, <1>4 DEF CameraInit, CameraInv

\* A step of one handler that changes no name of a file.
LEMMA SoundLocal ==
  ASSUME CameraInv, NEW h \in Threads, NEW j \in Task, task' = [task EXCEPT ![h] = j], JobInv(h)', ProxyInv',
         Keeps(artifacts), Keeps(temporaries), CameraTypeOK', UNCHANGED configuration,
         \A id \in Ids : results'[id] # results[id] => artifacts'[id] # Nothing
  PROVE  CameraInv'
  <1>1. ASSUME NEW g \in Threads, g # h PROVE JobInv(g)'
    <2>1. task'[g] = task[g] /\ JobInv(g)
      BY <1>1 DEF CameraInv, CameraTypeOK
    <2>2. task[g].file # "gone" => task[g].name \in Names
      BY <2>1, FreeTask DEF JobInv
    <2>3. task[g].file = "temporary" => temporaries'[task[g].name] # Nothing
      BY <2>1, <2>2 DEF JobInv, Keeps
    <2>4. task[g].file = "artifact" => artifacts'[task[g].name] # Nothing
      BY <2>1, <2>2 DEF JobInv, Keeps
    <2> QED
      BY <2>1, <2>3, <2>4, JobKept DEF CameraInv
  <1> QED
    BY <1>1, SoundFrom

LEMMA KeptFiles ==
  /\ artifacts' = artifacts => Keeps(artifacts)
  /\ temporaries' = temporaries => Keeps(temporaries)
  BY DEF Keeps

\* A step of one handler that leaves the files alone.
LEMMA SoundGoto ==
  ASSUME CameraInv, NEW h \in Threads, NEW j \in Task, task' = [task EXCEPT ![h] = j],
         j.name = task[h].name, JobInv(h)',
         UNCHANGED <<configuration, artifacts, temporaries, results, proxy>>
  PROVE  CameraInv'
  <1>1. task \in [Threads -> Task] /\ task' \in [Threads -> Task]
    BY DEF CameraInv, CameraTypeOK
  <1>2. CameraTypeOK'
    BY <1>1 DEF CameraInv, CameraTypeOK
  <1>3. ProxyInv'
    BY <1>1, KeptFiles, ProxyKept DEF CameraInv
  <1> QED
    BY <1>2, <1>3, KeptFiles, SoundLocal

LEMMA SoundAnswer ==
  ASSUME CameraInv, NEW h \in Threads, NEW result \in Result \cup {Nothing}, Answer(h, result),
         UNCHANGED <<configuration, artifacts, temporaries>>,
         results' \in [Ids -> Result \cup {Nothing}],
         \A id \in Ids : results'[id] # results[id] => artifacts'[id] # Nothing,
         result # Nothing => artifacts[task[h].name] # Nothing
  PROVE  CameraInv'
  <1>1. task \in [Threads -> Task] /\ AnswerFrom(task, h, result)
    BY DEF CameraInv, CameraTypeOK, Answer
  <1>2. /\ ProxyInv' /\ JobInv(h)' /\ task' \in [Threads -> Task]
        /\ proxy' \in [Ids -> [at : {"idle", "waiting", "fetching"}, handler : Threads \cup {Nothing},
                               result : Result \cup {Nothing}, confirmed : Data \cup {Nothing}]]
    BY <1>1, KeptFiles, Answered
  <1>3. CameraTypeOK'
    BY <1>2 DEF CameraInv, CameraTypeOK
  <1>4. task' = [task EXCEPT ![h] = Free]
    BY DEF Answer, AnswerFrom
  <1> QED
    BY <1>2, <1>3, <1>4, KeptFiles, FreeTask, SoundLocal

-----------------------------------------------------------------------------
LEMMA AskSound == ASSUME CameraInv, NEW id \in Ids, NEW h \in Threads, Ask(id, h) PROVE CameraInv'
  <1> DEFINE j == [task[h] EXCEPT !.at = "looking", !.name = id]
             p == [proxy[id] EXCEPT !.at = "waiting", !.handler = h]
  <1>1. task[h] = Free /\ task' = [task EXCEPT ![h] = j] /\ proxy' = [proxy EXCEPT ![id] = p]
    BY DEF Ask, CameraInv, CameraTypeOK
  <1>2. j \in Task /\ j.at = "looking" /\ j.name = id /\ j.file = "gone"
    BY <1>1, FreeTask DEF Task, Names
  <1>3. UNCHANGED <<configuration, artifacts, temporaries, results>>
    BY DEF Ask
  <1>4. CameraTypeOK'
    BY ZenonT(60), <1>1, <1>2, <1>3 DEF CameraInv, CameraTypeOK
  <1>5. p.handler = h /\ p.at = "waiting"
    BY DEF CameraInv, CameraTypeOK
  <1> HIDE DEF j, p
  <1>6. task'[h] = j /\ \A g \in Threads : g # h => task'[g] = task[g]
    BY <1>1 DEF CameraInv, CameraTypeOK
  <1>7. proxy'[id] = p /\ \A i \in Ids : i # id => proxy'[i] = proxy[i]
    BY <1>1 DEF CameraInv, CameraTypeOK
  <1>8. JobInv(h)'
    BY <1>2, <1>6 DEF JobInv, Writing, Names
  <1>9. ProxyInv'
    <2> SUFFICES ASSUME NEW i \in Ids
                 PROVE  /\ \A g \in Threads : proxy'[i].handler = g => task'[g].name = i
                        /\ proxy'[i].at = "fetching" => artifacts'[i] # Nothing
      BY DEF ProxyInv
    <2>1. CASE i = id
      BY <1>2, <1>5, <1>6, <1>7, <2>1
    <2>2. CASE i # id
      <3>1. \A g \in Threads : proxy[i].handler = g => task[g].name = i /\ g # h
        BY <1>1, FreeTask DEF CameraInv, ProxyInv
      <3>2. proxy'[i] = proxy[i]
        BY <1>7, <2>2
      <3>3. proxy[i].at = "fetching" => artifacts'[i] # Nothing
        BY <1>3 DEF CameraInv, ProxyInv
      <3> QED
        BY <1>6, <3>1, <3>2, <3>3
    <2> QED
      BY <2>1, <2>2
  <1> QED
    BY <1>1, <1>2, <1>3, <1>4, <1>8, <1>9, KeptFiles, SoundLocal

\* A step of the proxy alone.
LEMMA SoundProxy ==
  ASSUME CameraInv, NEW id \in Ids,
         NEW p \in [at : {"idle", "waiting", "fetching"}, handler : Threads \cup {Nothing},
                    result : Result \cup {Nothing}, confirmed : Data \cup {Nothing}],
         proxy' = [proxy EXCEPT ![id] = p], p.at = "idle", p.handler = Nothing,
         UNCHANGED <<configuration, artifacts, temporaries, results, task>>
  PROVE  CameraInv'
  <1>1. CameraTypeOK'
    BY DEF CameraInv, CameraTypeOK
  <1>2. proxy'[id] = p /\ \A i \in Ids : i # id => proxy'[i] = proxy[i]
    BY DEF CameraInv, CameraTypeOK
  <1>3. ProxyInv'
    BY <1>2, FreeTask DEF CameraInv, ProxyInv
  <1>4. \A h \in Threads : JobInv(h)'
    BY DEF CameraInv, JobInv
  <1> QED
    BY <1>1, <1>3, <1>4, KeptFiles, SoundFrom

LEMMA GiveUpSound == ASSUME CameraInv, NEW id \in Ids, GiveUp(id) PROVE CameraInv'
  <1> DEFINE p == [proxy[id] EXCEPT !.at = "idle", !.handler = Nothing]
  <1>1. proxy' = [proxy EXCEPT ![id] = p] /\ UNCHANGED <<configuration, artifacts, temporaries, results, task>>
    BY DEF GiveUp, CameraInv, CameraTypeOK
  <1>2. /\ p.at = "idle" /\ p.handler = Nothing
        /\ p \in [at : {"idle", "waiting", "fetching"}, handler : Threads \cup {Nothing},
                  result : Result \cup {Nothing}, confirmed : Data \cup {Nothing}]
    BY ZenonT(60) DEF CameraInv, CameraTypeOK
  <1> HIDE DEF p
  <1> QED
    BY <1>1, <1>2, SoundProxy

LEMMA FetchSound == ASSUME CameraInv, NEW id \in Ids, Fetch(id) PROVE CameraInv'
  <1> DEFINE confirmed == IF artifacts[id] = proxy[id].result.checksum THEN artifacts[id] ELSE proxy[id].confirmed
             p == [at |-> "idle", handler |-> Nothing, result |-> Nothing, confirmed |-> confirmed]
  <1>1. proxy' = [proxy EXCEPT ![id] = p] /\ UNCHANGED <<configuration, artifacts, temporaries, results, task>>
    BY DEF Fetch, CameraInv, CameraTypeOK
  <1>2. confirmed \in Data \cup {Nothing}
    BY DEF CameraInv, CameraTypeOK, Names
  <1> HIDE DEF confirmed
  <1>3. /\ p.at = "idle" /\ p.handler = Nothing
        /\ p \in [at : {"idle", "waiting", "fetching"}, handler : Threads \cup {Nothing},
                  result : Result \cup {Nothing}, confirmed : Data \cup {Nothing}]
    BY <1>2
  <1> HIDE DEF p
  <1> QED
    BY <1>1, <1>3, SoundProxy

LEMMA ConfigureSound ==
  ASSUME CameraInv, NEW source \in Images \cup {Nothing},
         NEW fault \in {"none", "failed-frame", "checksum-mismatch"},
         Configure(source, fault)
  PROVE  CameraInv'
  <1>1. CameraTypeOK'
    BY DEF Configure, CameraInv, CameraTypeOK
  <1>2. ProxyInv' /\ \A h \in Threads : JobInv(h)'
    BY DEF Configure, CameraInv, ProxyInv, JobInv
  <1>3. configuration'.source = source /\ (source # Nothing => artifacts[source] # Nothing)
    BY DEF Configure
  <1> QED
    BY <1>1, <1>2, <1>3 DEF Configure, CameraInv

LEMMA UploadSound ==
  ASSUME CameraInv, NEW h \in Threads, NEW image \in Images, NEW content \in Contents, Upload(h, image, content)
  PROVE  CameraInv'
  <1> DEFINE j == [task[h] EXCEPT !.at = "opening", !.name = image, !.bytes = content]
  <1>1. task[h] = Free /\ task' = [task EXCEPT ![h] = j]
        /\ UNCHANGED <<configuration, artifacts, temporaries, results, proxy>>
    BY DEF Upload, CameraInv, CameraTypeOK
  <1>2. j \in Task /\ j.at = "opening" /\ j.name = image /\ j.file = "gone" /\ j.bytes = content
    BY <1>1, FreeTask DEF Task, Names, Data
  <1> HIDE DEF j
  <1>3. CameraTypeOK'
    BY <1>1, <1>2 DEF CameraInv, CameraTypeOK
  <1>4. task'[h] = j /\ \A g \in Threads : g # h => task'[g] = task[g]
    BY <1>1 DEF CameraInv, CameraTypeOK
  <1>5. JobInv(h)'
    BY <1>2, <1>4 DEF JobInv, Writing, Names, Data
  <1>6. ProxyInv'
    BY <1>1, <1>4, FreeTask DEF CameraInv, ProxyInv
  <1> QED
    BY <1>1, <1>2, <1>3, <1>5, <1>6, KeptFiles, SoundLocal

-----------------------------------------------------------------------------
LEMMA HandlerOf == ASSUME CameraInv, NEW h \in Threads PROVE task[h] \in Task /\ JobInv(h)
  BY DEF CameraInv, CameraTypeOK

\* A step to another point of the same request.
LEMMA SoundPoint ==
  ASSUME CameraInv, NEW h \in Threads, Goto(h, "reading") \/ Goto(h, "unlinking"), task[h].name \in Ids,
         task[h].at \in Writing \/ task[h].at = "looking", task[h].at = "looking" => Goto(h, "reading"),
         UNCHANGED <<configuration, artifacts, temporaries, results, proxy>>
  PROVE  CameraInv'
  <1>1. PICK at \in {"reading", "unlinking"} : Goto(h, at) /\ (task[h].at = "looking" => at = "reading")
    OBVIOUS
  <1> DEFINE j == [task[h] EXCEPT !.at = at]
  <1>2. task[h] \in Task /\ JobInv(h)
    BY HandlerOf
  <1>3. j \in Task /\ j.at = at /\ j.name = task[h].name /\ j.bytes = task[h].bytes /\ j.file = task[h].file
    BY <1>2 DEF Task
  <1>4. task' = [task EXCEPT ![h] = j] /\ task'[h] = j
    BY <1>1 DEF Goto, CameraInv, CameraTypeOK
  <1> HIDE DEF j
  <1>5. JobInv(h)'
    BY <1>1, <1>2, <1>3, <1>4 DEF JobInv, Names, Writing
  <1> QED
    BY <1>3, <1>4, <1>5, SoundGoto

LEMMA LookSound == ASSUME CameraInv, NEW h \in Threads, LookUp(h) PROVE CameraInv'
  <1>1. task[h].at = "looking" /\ task[h].name \in Ids
        /\ UNCHANGED <<configuration, artifacts, temporaries, results>>
    BY HandlerOf DEF LookUp, JobInv
  <1>2. results[task[h].name] \in Result \cup {Nothing} /\ (results[task[h].name] # Nothing
        => artifacts[task[h].name] # Nothing)
    BY <1>1 DEF CameraInv, CameraTypeOK
  <1>3. ASSUME NEW result \in Result \cup {Nothing}, Answer(h, result),
               result # Nothing => artifacts[task[h].name] # Nothing
        PROVE  CameraInv'
    BY <1>1, <1>3, SoundAnswer DEF CameraInv, CameraTypeOK
  <1>4. CASE Answer(h, results[task[h].name]) \/ Answer(h, Nothing)
    BY <1>2, <1>3, <1>4
  <1>5. CASE Goto(h, "reading") /\ UNCHANGED proxy
    BY <1>1, <1>5, SoundPoint
  <1> QED
    BY <1>4, <1>5 DEF LookUp

LEMMA ReadSourceSound == ASSUME CameraInv, NEW h \in Threads, ReadSource(h) PROVE CameraInv'
  <1>1. task[h].at = "reading" /\ task[h].name \in Ids
        /\ UNCHANGED <<configuration, artifacts, temporaries, results>>
    BY HandlerOf DEF ReadSource, JobInv
  <1>2. task[h] \in Task /\ JobInv(h)
    BY HandlerOf
  <1>3. CASE configuration.source = Nothing
    <2> DEFINE j == [task[h] EXCEPT !.at = "opening", !.bytes = Pattern]
    <2>1. j \in Task /\ j.at = "opening" /\ j.name = task[h].name /\ j.bytes = Pattern /\ j.file = task[h].file
      BY <1>2 DEF Task, Data
    <2>2. task' = [task EXCEPT ![h] = j] /\ task'[h] = j /\ UNCHANGED proxy
      BY <1>3 DEF ReadSource, CameraInv, CameraTypeOK
    <2> HIDE DEF j
    <2>3. JobInv(h)'
      BY <1>1, <1>2, <2>1, <2>2 DEF JobInv, Writing, Names, Data
    <2> QED
      BY <1>1, <2>1, <2>2, <2>3, SoundGoto
  <1>4. CASE configuration.source # Nothing /\ artifacts[configuration.source] = "empty"
    <2>1. Answer(h, Nothing)
      BY <1>4 DEF ReadSource
    <2> QED
      BY <1>1, <2>1, SoundAnswer DEF CameraInv, CameraTypeOK
  <1>5. CASE configuration.source # Nothing /\ artifacts[configuration.source] # "empty"
    <2> DEFINE j == [task[h] EXCEPT !.at = "rereading", !.bytes = configuration.source]
    <2>1. configuration.source \in Images /\ artifacts[configuration.source] # Nothing
      BY <1>5 DEF CameraInv, CameraTypeOK
    <2>2. j \in Task /\ j.at = "rereading" /\ j.name = task[h].name /\ j.bytes = configuration.source
          /\ j.file = task[h].file
      BY <1>2, <2>1 DEF Task
    <2>3. task' = [task EXCEPT ![h] = j] /\ task'[h] = j /\ UNCHANGED proxy
      BY <1>5 DEF ReadSource, CameraInv, CameraTypeOK
    <2> HIDE DEF j
    <2>4. JobInv(h)'
      BY <1>1, <1>2, <2>1, <2>2, <2>3 DEF JobInv, Writing, Names
    <2> QED
      BY <1>1, <2>2, <2>3, <2>4, SoundGoto
  <1> QED
    BY <1>3, <1>4, <1>5

LEMMA RereadSound == ASSUME CameraInv, NEW h \in Threads, Reread(h) PROVE CameraInv'
  <1> DEFINE j == [task[h] EXCEPT !.at = "opening", !.bytes = artifacts[task[h].bytes]]
  <1>1. /\ task[h].at = "rereading" /\ task[h] \in Task /\ JobInv(h)
        /\ UNCHANGED <<configuration, artifacts, temporaries, results, proxy>>
    BY HandlerOf DEF Reread
  <1>2. artifacts[task[h].bytes] \in Data
    BY <1>1 DEF JobInv, CameraInv, CameraTypeOK, Names
  <1>3. j \in Task /\ j.at = "opening" /\ j.name = task[h].name /\ j.bytes \in Data /\ j.file = task[h].file
    BY <1>1, <1>2 DEF Task
  <1>4. task' = [task EXCEPT ![h] = j] /\ task'[h] = j
    BY DEF Reread, CameraInv, CameraTypeOK
  <1> HIDE DEF j
  <1>5. JobInv(h)'
    BY <1>1, <1>3, <1>4 DEF JobInv, Writing
  <1> QED
    BY <1>1, <1>3, <1>4, <1>5, SoundGoto

LEMMA OpenSound == ASSUME CameraInv, NEW h \in Threads, Open(h) PROVE CameraInv'
  <1> DEFINE j == [task[h] EXCEPT !.at = "putting", !.file = "temporary"]
  <1>1. /\ task[h].at = "opening" /\ task[h] \in Task /\ JobInv(h) /\ task[h].name \in Names
        /\ UNCHANGED <<configuration, artifacts, results, proxy>>
    BY HandlerOf DEF Open, JobInv
  <1>2. temporaries' = [temporaries EXCEPT ![task[h].name] = "empty"]
    BY DEF Open
  <1>3. j \in Task /\ j.at = "putting" /\ j.name = task[h].name /\ j.bytes = task[h].bytes
        /\ j.file = "temporary"
    BY <1>1 DEF Task
  <1>4. task' = [task EXCEPT ![h] = j] /\ task'[h] = j /\ \A g \in Threads : g # h => task'[g] = task[g]
    BY DEF Open, CameraInv, CameraTypeOK
  <1> HIDE DEF j
  <1>5. Keeps(temporaries) /\ temporaries'[task[h].name] # Nothing
    BY <1>1, <1>2, FreeTask DEF Keeps, Data, CameraInv, CameraTypeOK
  <1>6. JobInv(h)'
    BY <1>1, <1>3, <1>4, <1>5 DEF JobInv, Writing
  <1>7. CameraTypeOK'
    BY <1>1, <1>2, <1>3, <1>4 DEF CameraInv, CameraTypeOK, Data
  <1>8. ProxyInv'
    BY <1>1, <1>3, <1>4, KeptFiles, ProxyKept DEF CameraInv
  <1> QED
    BY <1>1, <1>3, <1>4, <1>5, <1>6, <1>7, <1>8, KeptFiles, SoundLocal

LEMMA PutSound == ASSUME CameraInv, NEW h \in Threads, Put(h) PROVE CameraInv'
  <1> DEFINE j == [task[h] EXCEPT !.at = "renaming"]
             n == task[h].name
  <1>1. /\ task[h].at = "putting" /\ task[h] \in Task /\ JobInv(h) /\ n \in Names /\ task[h].bytes \in Data
        /\ UNCHANGED <<configuration, results, proxy>>
    BY HandlerOf DEF Put, JobInv, Writing
  <1>2. j \in Task /\ j.at = "renaming" /\ j.name = n /\ j.bytes = task[h].bytes /\ j.file = task[h].file
    BY <1>1 DEF Task
  <1>3. task' = [task EXCEPT ![h] = j] /\ task'[h] = j /\ \A g \in Threads : g # h => task'[g] = task[g]
    BY DEF Put, Goto, CameraInv, CameraTypeOK
  <1> HIDE DEF j
  <1>4. /\ artifacts' \in [Names -> Data \cup {Nothing}] /\ temporaries' \in [Names -> Data \cup {Nothing}]
        /\ Keeps(artifacts) /\ Keeps(temporaries)
    <2>1. CASE task[h].file = "temporary"
      <3>1. PICK d \in Over(temporaries[n], task[h].bytes) : temporaries' = [temporaries EXCEPT ![n] = d]
        BY <2>1 DEF Put
      <3>2. temporaries[n] \in Data
        BY <1>1, <2>1 DEF JobInv, CameraInv, CameraTypeOK
      <3>3. d \in Data
        BY <1>1, <3>2, OverType
      <3>4. artifacts' = artifacts
        BY <2>1 DEF Put
      <3> QED
        BY <3>1, <3>3, <3>4, FreeTask DEF Keeps, CameraInv, CameraTypeOK
    <2>2. CASE task[h].file = "artifact"
      <3>1. PICK d \in Over(artifacts[n], task[h].bytes) : artifacts' = [artifacts EXCEPT ![n] = d]
        BY <2>2 DEF Put
      <3>2. artifacts[n] \in Data
        BY <1>1, <2>2 DEF JobInv, CameraInv, CameraTypeOK
      <3>3. d \in Data
        BY <1>1, <3>2, OverType
      <3>4. temporaries' = temporaries
        BY <2>2 DEF Put
      <3> QED
        BY <3>1, <3>3, <3>4, FreeTask DEF Keeps, CameraInv, CameraTypeOK
    <2>3. CASE task[h].file = "gone"
      <3>1. UNCHANGED <<artifacts, temporaries>>
        BY <2>3 DEF Put
      <3> QED
        BY <3>1 DEF Keeps, CameraInv, CameraTypeOK
    <2> QED
      BY <1>1, <2>1, <2>2, <2>3 DEF Task
  <1>5. JobInv(h)'
    BY <1>1, <1>2, <1>3, <1>4 DEF JobInv, Writing, Keeps
  <1>6. CameraTypeOK'
    BY <1>1, <1>2, <1>3, <1>4 DEF CameraInv, CameraTypeOK
  <1>7. ProxyInv'
    BY <1>1, <1>2, <1>3, <1>4, ProxyKept DEF CameraInv
  <1> QED
    BY <1>1, <1>2, <1>3, <1>4, <1>5, <1>6, <1>7, SoundLocal

LEMMA FailSound == ASSUME CameraInv, NEW h \in Threads, Fail(h) \/ MissRename(h) PROVE CameraInv'
  <1>1. /\ task[h].at \in {"putting", "renaming"}
        /\ UNCHANGED <<configuration, artifacts, temporaries, results>>
    BY DEF Fail, MissRename
  <1>2. CASE task[h].name \in Ids
    <2>1. Goto(h, "unlinking") /\ UNCHANGED proxy
      BY <1>2 DEF Fail, MissRename
    <2> QED
      BY <1>1, <1>2, <2>1, SoundPoint DEF Writing
  <1>3. CASE task[h].name \notin Ids
    <2>1. Answer(h, Nothing)
      BY <1>3 DEF Fail, MissRename
    <2> QED
      BY <1>1, <2>1, SoundAnswer DEF CameraInv, CameraTypeOK
  <1> QED
    BY <1>2, <1>3

LEMMA FinishSound == ASSUME CameraInv, NEW h \in Threads, Finish(h) PROVE CameraInv'
  <1> DEFINE n == task[h].name
  <1>1. /\ task[h].at = "finishing" /\ n \in Ids /\ task[h].bytes \in Data /\ artifacts[n] # Nothing
        /\ UNCHANGED <<configuration, artifacts, temporaries>>
    BY HandlerOf DEF Finish, JobInv, Writing
  <1>2. CASE task[h].bytes = "empty"
    <2>1. Answer(h, Nothing) /\ UNCHANGED results
      BY <1>2 DEF Finish
    <2> QED
      BY <1>1, <2>1, SoundAnswer DEF CameraInv, CameraTypeOK
  <1>3. CASE task[h].bytes # "empty"
    <2> DEFINE result == [checksum |-> ChecksumOf(task[h].bytes)]
    <2>1. Answer(h, result) /\ results' = [results EXCEPT ![n] = result]
      BY <1>3 DEF Finish
    <2>2. result \in Result
      BY <1>1 DEF Result, ChecksumOf
    <2> HIDE DEF result
    <2>3. results' \in [Ids -> Result \cup {Nothing}] /\ \A id \in Ids : results'[id] # results[id] => id = n
      BY <2>1, <2>2 DEF CameraInv, CameraTypeOK
    <2> QED
      BY <1>1, <2>1, <2>2, <2>3, SoundAnswer
  <1> QED
    BY <1>2, <1>3

\* Renaming and removing a temporary file: the handlers that have the file
\* open keep it.
LEMMA RenameSound == ASSUME CameraInv, NEW h \in Threads, Rename(h) PROVE CameraInv'
  <1> DEFINE n == task[h].name
             jobs == [Renamed(n) EXCEPT ![h].at = "finishing"]
  <1>1. /\ task[h].at = "renaming" /\ task[h] \in Task /\ JobInv(h) /\ n \in Names /\ task[h].bytes \in Data
        /\ temporaries[n] # Nothing /\ UNCHANGED <<configuration, results>>
    BY HandlerOf DEF Rename, JobInv, Writing
  <1>2. /\ artifacts' = [artifacts EXCEPT ![n] = temporaries[n]]
        /\ temporaries' = [temporaries EXCEPT ![n] = Nothing]
    BY DEF Rename
  <1>3. /\ artifacts' \in [Names -> Data \cup {Nothing}] /\ temporaries' \in [Names -> Data \cup {Nothing}]
        /\ Keeps(artifacts) /\ artifacts'[n] # Nothing
        /\ \A m \in Names : m # n => temporaries'[m] = temporaries[m]
    BY <1>1, <1>2 DEF Keeps, CameraInv, CameraTypeOK
  \* What the renaming does to a handler.
  <1>4. ASSUME NEW g \in Threads
        PROVE  /\ Renamed(n)[g] \in Task
               /\ Renamed(n)[g].at = task[g].at /\ Renamed(n)[g].name = task[g].name
               /\ Renamed(n)[g].bytes = task[g].bytes
               /\ task[g].name # n => Renamed(n)[g] = task[g]
               /\ task[g].name = n => Renamed(n)[g].file # "temporary"
    <2>1. task[g] \in Task
      BY HandlerOf
    <2>2. CASE task[g].name # n
      BY <2>1, <2>2 DEF Renamed
    <2>3. CASE task[g].name = n
      <3> DEFINE file == IF task[g].file = "temporary" THEN "artifact" ELSE "gone"
      <3>1. Renamed(n)[g] = [task[g] EXCEPT !.file = file]
        BY <2>3 DEF Renamed
      <3>2. file \in {"artifact", "gone"}
        OBVIOUS
      <3> HIDE DEF file
      <3> QED
        BY <2>1, <2>3, <3>1, <3>2 DEF Task
    <2> QED
      BY <2>2, <2>3
  <1>5. Renamed(n) \in [Threads -> Task]
    BY <1>4 DEF Renamed
  <1>6. ASSUME NEW g \in Threads, task'[g] = Renamed(n)[g] PROVE JobInv(g)'
    <2>1. JobInv(g) /\ task[g] \in Task
      BY HandlerOf
    <2>2. CASE task[g].at = "idle"
      <3>1. task'[g] = Free
        BY <1>1, <1>4, <1>6, <2>1, <2>2, FreeTask DEF JobInv
      <3> QED
        BY <3>1, FreeTask DEF JobInv, Writing
    <2>3. CASE task[g].at # "idle"
      <3>1. task[g].name \in Names
        BY <2>1, <2>3 DEF JobInv
      <3>2. task'[g].file = "temporary" => temporaries'[task[g].name] # Nothing
        BY <1>3, <1>4, <1>6, <2>1, <3>1 DEF JobInv
      <3>3. task'[g].file = "artifact" => artifacts'[task[g].name] # Nothing
        BY <1>3, <1>4, <1>6, <2>1, <3>1 DEF JobInv, Keeps
      <3> QED
        BY <1>3, <1>4, <1>6, <2>1, <2>3, <3>2, <3>3, JobKept DEF CameraInv
    <2> QED
      BY <2>2, <2>3
  <1>7. CASE n \in Ids
    <2>1. task' = jobs /\ UNCHANGED proxy
      BY <1>7 DEF Rename
    <2> DEFINE j == [Renamed(n)[h] EXCEPT !.at = "finishing"]
    <2>2. /\ j \in Task /\ j.at = "finishing" /\ j.name = n /\ j.bytes = task[h].bytes
          /\ j.file # "temporary"
      BY <1>4 DEF Task
    <2>3. jobs = [Renamed(n) EXCEPT ![h] = j]
      BY <1>5
    <2> HIDE DEF j
    <2>4. /\ task' \in [Threads -> Task] /\ task'[h] = j
          /\ \A g \in Threads : g # h => task'[g] = Renamed(n)[g]
      BY <1>5, <2>1, <2>2, <2>3
    <2>5. JobInv(h)'
      BY <1>1, <1>3, <1>7, <2>2, <2>4 DEF JobInv, Writing
    <2>6. ProxyInv'
      BY <1>3, <1>4, <2>1, <2>2, <2>4, ProxyKept DEF CameraInv
    <2>7. CameraTypeOK'
      BY <1>1, <1>3, <2>1, <2>4 DEF CameraInv, CameraTypeOK
    <2>8. \A g \in Threads : JobInv(g)'
      BY <1>6, <2>4, <2>5
    <2> QED
      BY <1>1, <1>3, <2>6, <2>7, <2>8, SoundFrom
  <1>8. CASE n \notin Ids
    <2>1. AnswerFrom(Renamed(n), h, Nothing)
      BY <1>8 DEF Rename
    <2>2. /\ ProxyInv' /\ task' \in [Threads -> Task] /\ JobInv(h)'
          /\ proxy' \in [Ids -> [at : {"idle", "waiting", "fetching"}, handler : Threads \cup {Nothing},
                                 result : Result \cup {Nothing}, confirmed : Data \cup {Nothing}]]
          /\ \A g \in Threads : g # h => task'[g] = Renamed(n)[g]
      BY <1>3, <1>4, <1>5, <2>1, Answered
    <2>3. CameraTypeOK'
      BY <1>1, <1>3, <2>2 DEF CameraInv, CameraTypeOK
    <2>4. \A g \in Threads : JobInv(g)'
      BY <1>6, <2>2
    <2> QED
      BY <1>1, <1>3, <2>2, <2>3, <2>4, SoundFrom
  <1> QED
    BY <1>7, <1>8

LEMMA UnlinkSound == ASSUME CameraInv, NEW h \in Threads, Unlink(h) PROVE CameraInv'
  <1> DEFINE n == task[h].name
  <1>1. /\ task[h].at = "unlinking" /\ n \in Names
        /\ temporaries' = [temporaries EXCEPT ![n] = Nothing]
        /\ AnswerFrom(Removed(n), h, Nothing) /\ UNCHANGED <<configuration, artifacts, results>>
    BY HandlerOf DEF Unlink, JobInv, Names
  <1>2. /\ temporaries' \in [Names -> Data \cup {Nothing}]
        /\ \A m \in Names : m # n => temporaries'[m] = temporaries[m]
    BY <1>1 DEF CameraInv, CameraTypeOK
  <1>3. ASSUME NEW g \in Threads
        PROVE  /\ Removed(n)[g] \in Task
               /\ Removed(n)[g].at = task[g].at /\ Removed(n)[g].name = task[g].name
               /\ Removed(n)[g].bytes = task[g].bytes
               /\ task[g].name # n => Removed(n)[g] = task[g]
               /\ task[g].name = n => Removed(n)[g].file # "temporary"
               /\ Removed(n)[g].file = "artifact" => task[g].file = "artifact"
               /\ task[g].file # "temporary" => Removed(n)[g] = task[g]
    <2>1. task[g] \in Task
      BY HandlerOf
    <2>2. CASE task[g].name = n /\ task[g].file = "temporary"
      <3>1. Removed(n)[g] = [task[g] EXCEPT !.file = "gone"]
        BY <2>2 DEF Removed
      <3> QED
        BY <2>1, <2>2, <3>1 DEF Task
    <2>3. CASE ~(task[g].name = n /\ task[g].file = "temporary")
      <3>1. Removed(n)[g] = task[g]
        BY <2>3 DEF Removed
      <3> QED
        BY <2>1, <2>3, <3>1
    <2> QED
      BY <2>2, <2>3
  <1>4. Removed(n) \in [Threads -> Task]
    BY <1>3 DEF Removed
  <1>5. /\ ProxyInv' /\ task' \in [Threads -> Task] /\ JobInv(h)'
        /\ proxy' \in [Ids -> [at : {"idle", "waiting", "fetching"}, handler : Threads \cup {Nothing},
                               result : Result \cup {Nothing}, confirmed : Data \cup {Nothing}]]
        /\ \A g \in Threads : g # h => task'[g] = Removed(n)[g]
    BY <1>1, <1>3, <1>4, KeptFiles, Answered
  <1>6. ASSUME NEW g \in Threads, g # h PROVE JobInv(g)'
    <2>1. JobInv(g) /\ task[g] \in Task /\ task'[g] = Removed(n)[g]
      BY <1>5, <1>6, HandlerOf
    <2>2. task[g].at = "idle" => task'[g] = task[g]
      BY <1>3, <2>1, FreeTask DEF JobInv
    <2>3. task[g].file # "gone" => task[g].name \in Names
      BY <2>1, FreeTask DEF JobInv
    <2>4. task'[g].file = "temporary" => temporaries'[task[g].name] # Nothing
      BY <1>2, <1>3, <2>1, <2>3 DEF JobInv
    <2>5. task'[g].file = "artifact" => artifacts'[task[g].name] # Nothing
      BY <1>1, <1>3, <2>1 DEF JobInv
    <2> QED
      BY <1>1, <1>3, <2>1, <2>2, <2>4, <2>5, KeptFiles, JobKept DEF CameraInv
  <1>7. CameraTypeOK'
    BY <1>1, <1>2, <1>5 DEF CameraInv, CameraTypeOK
  <1> QED
    BY <1>1, <1>5, <1>6, <1>7, KeptFiles, SoundFrom

LEMMA SoundStep == CameraInv /\ [CameraNext]_cameraVars => CameraInv'
  <1> SUFFICES ASSUME CameraInv, [CameraNext]_cameraVars PROVE CameraInv'
    OBVIOUS
  <1>1. CASE UNCHANGED cameraVars
    BY <1>1 DEF cameraVars, CameraInv, CameraTypeOK, JobInv, ProxyInv
  <1> QED
    BY <1>1, AskSound, GiveUpSound, FetchSound, ConfigureSound, UploadSound, LookSound, ReadSourceSound,
       RereadSound, OpenSound, PutSound, FailSound, RenameSound, UnlinkSound, FinishSound DEF CameraNext, Handle

(***************************************************************************)
(* The files, the requests and the answers keep their types.               *)
(***************************************************************************)
THEOREM CameraTypeCorrect == CameraSpec => []CameraTypeOK
  BY SoundInitially, SoundStep, PTL DEF CameraSpec, CameraInv

(***************************************************************************)
(* An artifact that is announced can be downloaded, even when captures     *)
(* with its id overlap and fail: a rename puts a file in its place, and    *)
(* what a failed capture removes is the temporary file.                    *)
(***************************************************************************)
THEOREM AnnouncedExist == CameraSpec => []AnnouncedArtifactsExist
  <1>1. CameraInv => AnnouncedArtifactsExist
    BY DEF CameraInv, ProxyInv, AnnouncedArtifactsExist
  <1> QED
    BY <1>1, SoundInitially, SoundStep, PTL DEF CameraSpec

-----------------------------------------------------------------------------
(***************************************************************************)
(* Handlers that have met no other with their id.                          *)
(***************************************************************************)
\* What a step of a handler leaves alone: the files of other names, and the
\* handlers that have other names.
LEMMA OthersKept ==
  ASSUME CameraInv, NEW h \in Threads, Handle(h)
  PROVE  /\ \A m \in Names : m # task[h].name =>
                artifacts'[m] = artifacts[m] /\ temporaries'[m] = temporaries[m]
         /\ \A id \in Ids : id # task[h].name => results'[id] = results[id]
         /\ \A g \in Threads : g # h => task'[g].name = task[g].name
         /\ \A g \in Threads : g # h /\ task[g].name # task[h].name => task'[g] = task[g]
  <1>1. /\ artifacts \in [Names -> Data \cup {Nothing}] /\ temporaries \in [Names -> Data \cup {Nothing}]
        /\ results \in [Ids -> Result \cup {Nothing}] /\ task \in [Threads -> Task]
    BY DEF CameraInv, CameraTypeOK
  <1>2. \A m \in Names : m # task[h].name =>
           artifacts'[m] = artifacts[m] /\ temporaries'[m] = temporaries[m]
    <2>1. CASE LookUp(h) \/ ReadSource(h) \/ Reread(h) \/ Fail(h) \/ MissRename(h) \/ Finish(h)
      BY <2>1 DEF LookUp, ReadSource, Reread, Fail, MissRename, Finish
    <2>2. CASE Open(h) \/ Rename(h) \/ Unlink(h)
      BY <1>1, <2>2 DEF Open, Rename, Unlink
    <2>3. CASE Put(h)
      BY <1>1, <2>3 DEF Put
    <2> QED
      BY <2>1, <2>2, <2>3 DEF Handle
  <1>3. \A id \in Ids : id # task[h].name => results'[id] = results[id]
    <2>1. CASE Finish(h)
      BY <1>1, <2>1 DEF Finish
    <2>2. CASE ~Finish(h)
      BY <2>2 DEF Handle, LookUp, ReadSource, Reread, Open, Put, Fail, Rename, MissRename, Unlink
    <2> QED
      BY <2>1, <2>2
  <1>4. ASSUME NEW g \in Threads, g # h
        PROVE  /\ task'[g].name = task[g].name
               /\ task[g].name # task[h].name => task'[g] = task[g]
    <2>1. \/ task'[g] = task[g]
          \/ task'[g] = Renamed(task[h].name)[g]
          \/ task'[g] = Removed(task[h].name)[g]
      <3>1. CASE LookUp(h) \/ ReadSource(h) \/ Reread(h) \/ Open(h) \/ Put(h) \/ Fail(h) \/ MissRename(h)
                 \/ Finish(h)
        BY <1>1, <1>4, <3>1
           DEF LookUp, ReadSource, Reread, Open, Put, Fail, MissRename, Finish, Goto, Answer, AnswerFrom
      <3>2. CASE Rename(h)
        BY <1>1, <1>4, <3>2 DEF Rename, AnswerFrom, Renamed
      <3>3. CASE Unlink(h)
        BY <1>1, <1>4, <3>3 DEF Unlink, AnswerFrom, Removed
      <3> QED
        BY <3>1, <3>2, <3>3 DEF Handle
    <2>2. task[g] \in Task
      BY <1>1
    <2>3. /\ Renamed(task[h].name)[g].name = task[g].name
          /\ task[g].name # task[h].name => Renamed(task[h].name)[g] = task[g]
      BY <2>2 DEF Renamed, Task
    <2>4. /\ Removed(task[h].name)[g].name = task[g].name
          /\ task[g].name # task[h].name => Removed(task[h].name)[g] = task[g]
      BY <2>2 DEF Removed, Task
    <2> QED
      BY <2>1, <2>3, <2>4
  <1> QED
    BY <1>2, <1>3, <1>4

LEMMA NamePersists ==
  ASSUME CameraInv, NEW h \in Threads, Handle(h), task'[h].name \in Ids
  PROVE  task'[h].name = task[h].name
  <1> DEFINE n == task[h].name
  <1>1. task \in [Threads -> Task] /\ task[h] \in Task
    BY HandlerOf DEF CameraInv, CameraTypeOK
  <1>2. \A jobs, result : ~AnswerFrom(jobs, h, result) \/ jobs \notin [Threads -> Task]
    BY FreeTask DEF AnswerFrom
  <1>3. \A result : ~Answer(h, result)
    BY <1>1, <1>2 DEF Answer
  <1>4. CASE LookUp(h) \/ Put(h) \/ Fail(h) \/ MissRename(h)
    BY <1>1, <1>3, <1>4 DEF LookUp, Put, Fail, MissRename, Goto, Task
  <1>5. CASE ReadSource(h) \/ Reread(h) \/ Open(h)
    BY <1>1, <1>3, <1>5 DEF ReadSource, Reread, Open, Task
  <1>6. CASE Rename(h)
    <2>1. CASE n \in Ids
      <3>1. task' = [Renamed(n) EXCEPT ![h].at = "finishing"]
        BY <1>6, <2>1 DEF Rename
      <3> DEFINE file == IF task[h].file = "temporary" THEN "artifact" ELSE "gone"
      <3>2. task'[h] = [task[h] EXCEPT !.file = file, !.at = "finishing"]
        BY <1>1, <3>1 DEF Renamed
      <3> HIDE DEF file
      <3> QED
        BY <1>1, <3>2 DEF Task
    <2>2. CASE n \notin Ids
      <3>1. task'[h] = Free
        BY <1>1, <1>6, <2>2 DEF Rename, AnswerFrom, Renamed
      <3> QED
        BY <3>1, FreeTask
    <2> QED
      BY <2>1, <2>2
  <1>7. CASE Unlink(h) \/ Finish(h)
    <2>1. task'[h] = Free
      BY <1>1, <1>7 DEF Unlink, Finish, Answer, AnswerFrom, Removed
    <2> QED
      BY <2>1, FreeTask
  <1> QED
    BY <1>4, <1>5, <1>6, <1>7 DEF Handle

LEMMA AloneGoesOn ==
  ASSUME CameraInv, NEW h \in Threads, Handle(h), task[h].name \in Ids, AloneAt(h), task'[h].name \in Ids
  PROVE  AloneAt(h)' /\ task'[h].name = task[h].name
  <1> DEFINE n == task[h].name
  <1>1. /\ artifacts \in [Names -> Data \cup {Nothing}] /\ temporaries \in [Names -> Data \cup {Nothing}]
        /\ results \in [Ids -> Result \cup {Nothing}] /\ task \in [Threads -> Task] /\ n \in Names
        /\ task[h] \in Task /\ JobInv(h)
    BY HandlerOf DEF CameraInv, CameraTypeOK, Names
  <1>2. \A jobs, result : ~AnswerFrom(jobs, h, result) \/ jobs \notin [Threads -> Task]
    BY FreeTask DEF AnswerFrom
  <1>3. \A result : ~Answer(h, result)
    BY <1>1, <1>2 DEF Answer
  <1>4. CASE LookUp(h)
    <2>1. results[n] = Nothing /\ Goto(h, "reading") /\ UNCHANGED results
      BY <1>3, <1>4 DEF LookUp
    <2>2. task'[h].at = "reading" /\ task'[h].name = n
      BY <1>1, <2>1 DEF Goto, Task
    <2> QED
      BY <2>1, <2>2 DEF AloneAt
  <1>5. CASE ReadSource(h) \/ Reread(h)
    <2>1. task[h].at \in {"reading", "rereading"} /\ UNCHANGED results
      BY <1>5 DEF ReadSource, Reread
    <2>2. task'[h].at \in {"rereading", "opening"} /\ task'[h].name = n
      BY <1>1, <1>3, <1>5 DEF ReadSource, Reread, Task
    <2> QED
      BY <2>1, <2>2 DEF AloneAt, Capturing
  <1>6. CASE Open(h)
    <2>1. task[h].at = "opening" /\ UNCHANGED results /\ temporaries'[n] = "empty"
      BY <1>1, <1>6 DEF Open
    <2>2. task'[h].at = "putting" /\ task'[h].name = n /\ task'[h].file = "temporary"
      BY <1>1, <1>6 DEF Open, Task
    <2> QED
      BY <2>1, <2>2 DEF AloneAt, Capturing
  <1>7. CASE Put(h)
    <2>1. task[h].at = "putting" /\ UNCHANGED results /\ task[h].file = "temporary" /\ temporaries[n] = "empty"
      BY <1>7 DEF Put, AloneAt
    <2>2. PICK d \in Over("empty", task[h].bytes) : temporaries' = [temporaries EXCEPT ![n] = d]
      BY <1>7, <2>1 DEF Put
    <2>3. temporaries'[n] = task[h].bytes
      BY <1>1, <2>2 DEF Over
    <2>4. task'[h].at = "renaming" /\ task'[h].name = n /\ task'[h].bytes = task[h].bytes
      BY <1>1, <1>7 DEF Put, Goto, Task
    <2> QED
      BY <2>1, <2>3, <2>4 DEF AloneAt, Capturing
  <1>8. CASE Fail(h) \/ MissRename(h)
    <2>1. task[h].at \in {"putting", "renaming"} /\ UNCHANGED results /\ Goto(h, "unlinking")
      BY <1>3, <1>8 DEF Fail, MissRename
    <2>2. task'[h].at = "unlinking" /\ task'[h].name = n
      BY <1>1, <2>1 DEF Goto, Task
    <2> QED
      BY <2>1, <2>2 DEF AloneAt, Capturing
  <1>9. CASE Rename(h)
    <2>1. task[h].at = "renaming" /\ UNCHANGED results /\ artifacts'[n] = temporaries[n]
      BY <1>1, <1>9 DEF Rename
    <2>2. task' = [Renamed(n) EXCEPT ![h].at = "finishing"]
      BY <1>9 DEF Rename
    <2> DEFINE file == IF task[h].file = "temporary" THEN "artifact" ELSE "gone"
    <2>3. task'[h] = [task[h] EXCEPT !.file = file, !.at = "finishing"]
      BY <1>1, <2>2 DEF Renamed
    <2> HIDE DEF file
    <2>4. task'[h].at = "finishing" /\ task'[h].name = n /\ task'[h].bytes = task[h].bytes
      BY <1>1, <2>3 DEF Task
    <2> QED
      BY <2>1, <2>4 DEF AloneAt, Capturing
  <1>10. CASE Unlink(h) \/ Finish(h)
    <2>1. task'[h] = Free
      BY <1>1, <1>10 DEF Unlink, Finish, Answer, AnswerFrom, Removed
    <2> QED
      BY <2>1, FreeTask
  <1> QED
    BY <1>4, <1>5, <1>6, <1>7, <1>8, <1>9, <1>10 DEF Handle

LEMMA AloneInitially == CameraHistoryInit => AloneInv
  <1> SUFFICES ASSUME CameraHistoryInit PROVE AloneInv
    OBVIOUS
  <1>1. \A h \in Threads : task[h].name = Nothing
    BY FreeTask DEF CameraHistoryInit, CameraInit
  <1> QED
    BY <1>1, FreeTask DEF CameraHistoryInit, CameraInit, AloneInv, Contested, ResultsDescribeArtifacts

\* Two handlers with one name have met.
LEMMA Met ==
  ASSUME AloneInv, NEW g \in Threads, NEW h \in Threads, g # h, task[g].name = task[h].name,
         task[h].name \in Names
  PROVE  task[h].name \in met
  BY DEF AloneInv, Contested

LEMMA AloneStep == CameraInv /\ AloneInv /\ [CameraHistoryNext]_<<cameraVars, met>> => AloneInv'
  <1> SUFFICES ASSUME CameraInv, AloneInv, [CameraHistoryNext]_<<cameraVars, met>> PROVE AloneInv'
    OBVIOUS
  <1>1. CASE UNCHANGED <<cameraVars, met>>
    BY <1>1 DEF cameraVars, AloneInv, AloneAt, Contested, ResultsDescribeArtifacts
  <1>2. CASE CameraHistoryNext
    <2>1. Contested' \subseteq met' /\ met \subseteq met' /\ CameraNext
      BY <1>2 DEF CameraHistoryNext
    \* Steps that neither capture nor write.
    <2>2. ASSUME UNCHANGED <<artifacts, temporaries, results>>,
                 \A g \in Threads : task'[g] = task[g] \/ task'[g].at = "looking" \/ task'[g].name \in Images
          PROVE  AloneInv'
      <3>1. ASSUME NEW g \in Threads, task'[g].name \in Ids \ met' PROVE AloneAt(g)'
        <4>1. CASE task'[g] = task[g]
          BY <2>1, <2>2, <3>1, <4>1 DEF AloneInv, AloneAt
        <4>2. CASE task'[g].at = "looking"
          BY <4>2 DEF AloneAt, Capturing
        <4> QED
          BY <2>2, <3>1, <4>1, <4>2, FreeTask
      <3> QED
        BY <2>1, <2>2, <3>1 DEF AloneInv, ResultsDescribeArtifacts
    <2>3. CASE \/ \E id \in Ids : GiveUp(id) \/ Fetch(id) \/ \E h \in Threads : Ask(id, h)
               \/ \E h \in Threads, image \in Images, content \in Contents : Upload(h, image, content)
               \/ \E source \in Images \cup {Nothing}, fault \in {"none", "failed-frame", "checksum-mismatch"} :
                     Configure(source, fault)
      <3>1. UNCHANGED <<artifacts, temporaries, results>>
        BY <2>3 DEF GiveUp, Fetch, Ask, Upload, Configure
      <3>2. \A g \in Threads : task'[g] = task[g] \/ task'[g].at = "looking" \/ task'[g].name \in Images
        <4>1. task \in [Threads -> Task]
          BY DEF CameraInv, CameraTypeOK
        <4>2. ASSUME NEW id \in Ids, NEW h \in Threads, Ask(id, h)
              PROVE  \A g \in Threads : task'[g] = task[g] \/ task'[g].at = "looking"
          BY <4>1, <4>2 DEF Ask, Task
        <4>3. ASSUME NEW h \in Threads, NEW image \in Images, NEW content \in Contents,
                     Upload(h, image, content)
              PROVE  \A g \in Threads : task'[g] = task[g] \/ task'[g].name \in Images
          BY <4>1, <4>3 DEF Upload, Task
        <4> QED
          BY <2>3, <4>2, <4>3 DEF GiveUp, Fetch, Configure
      <3> QED
        BY <2>2, <3>1, <3>2
    <2>4. ASSUME NEW h \in Threads, Handle(h) PROVE AloneInv'
      <3>1. task[h].at # "idle" /\ task[h].name \in Names /\ Ids \subseteq Names
        <4>1. task[h].at # "idle"
          BY <2>4 DEF Handle, LookUp, ReadSource, Reread, Open, Put, Fail, Rename, MissRename, Unlink, Finish
        <4> QED
          BY <4>1, HandlerOf DEF JobInv, Names
      <3>2. task'[h].name \in Ids => task'[h].name = task[h].name
        BY <2>4, NamePersists
      <3>3. ASSUME NEW g \in Threads, task'[g].name \in Ids \ met' PROVE AloneAt(g)'
        <4>1. task'[g].name = task[g].name
          BY <2>4, <3>2, <3>3, OthersKept
        <4>2. AloneAt(g)
          BY <2>1, <3>3, <4>1 DEF AloneInv
        <4>3. CASE g = h
          BY <2>4, <3>3, <4>1, <4>2, <4>3, AloneGoesOn
        <4>4. CASE g # h
          <5>1. task[g].name # task[h].name
            BY <2>1, <3>1, <3>3, <4>1, <4>4, Met
          <5>2. /\ task'[g] = task[g] /\ artifacts'[task[g].name] = artifacts[task[g].name]
                /\ temporaries'[task[g].name] = temporaries[task[g].name]
                /\ results'[task[g].name] = results[task[g].name]
            BY <2>4, <3>1, <3>3, <4>1, <4>4, <5>1, OthersKept
          <5> QED
            BY <4>2, <5>2 DEF AloneAt
        <4> QED
          BY <4>3, <4>4
      <3>4. ASSUME NEW id \in Ids \ met', results'[id] # Nothing
            PROVE  results'[id].checksum \in {Mismatch, artifacts'[id]}
        <4>1. id \notin met
          BY <2>1
        <4>2. CASE id # task[h].name
          <5>1. artifacts'[id] = artifacts[id] /\ results'[id] = results[id]
            BY <2>4, <3>1, <4>2, OthersKept
          <5> QED
            BY <3>4, <4>1, <5>1 DEF AloneInv, ResultsDescribeArtifacts
        <4>3. CASE id = task[h].name
          <5>1. AloneAt(h)
            BY <4>1, <4>3 DEF AloneInv
          <5>2. CASE Finish(h)
            <6>1. UNCHANGED artifacts /\ task[h].at = "finishing" /\ results[id] = Nothing
              BY <4>3, <5>1, <5>2 DEF Finish, AloneAt, Capturing
            <6>2. results' = [results EXCEPT ![id] = [checksum |-> ChecksumOf(task[h].bytes)]]
              BY <3>4, <4>3, <5>2, <6>1 DEF Finish
            <6>3. results'[id].checksum = ChecksumOf(task[h].bytes)
              BY <6>2 DEF CameraInv, CameraTypeOK
            <6> QED
              BY <4>3, <5>1, <6>1, <6>3 DEF ChecksumOf, AloneAt
          <5>3. CASE LookUp(h)
            <6>1. UNCHANGED <<artifacts, results>>
              BY <5>3 DEF LookUp
            <6> QED
              BY <3>4, <4>1, <6>1 DEF AloneInv, ResultsDescribeArtifacts
          <5>4. CASE ~Finish(h) /\ ~LookUp(h)
            <6>1. UNCHANGED results /\ task[h].at \in Capturing
              BY <2>4, <5>4
                 DEF Handle, ReadSource, Reread, Open, Put, Fail, Rename, MissRename, Unlink, Capturing
            <6> QED
              BY <3>4, <4>3, <5>1, <6>1 DEF AloneAt
          <5> QED
            BY <5>2, <5>3, <5>4
        <4> QED
          BY <4>2, <4>3
      <3> QED
        BY <2>1, <3>3, <3>4 DEF AloneInv, ResultsDescribeArtifacts
    <2> QED
      BY <2>1, <2>3, <2>4 DEF CameraNext
  <1> QED
    BY <1>1, <1>2

LEMMA HistoryStep == [CameraHistoryNext]_<<cameraVars, met>> => [CameraNext]_cameraVars
  BY DEF CameraHistoryNext, cameraVars

(***************************************************************************)
(* The result of a capture is of its artifact, whatever was configured or  *)
(* uploaded while the frame was awaited, unless a request met another one  *)
(* with its id.                                                            *)
(***************************************************************************)
THEOREM ResultsDescribe == CameraHistorySpec => []ResultsDescribeArtifacts
  <1>1. CameraHistoryInit => CameraInv /\ AloneInv
    BY SoundInitially, AloneInitially DEF CameraHistoryInit
  <1>2. CameraInv /\ AloneInv /\ [CameraHistoryNext]_<<cameraVars, met>> => (CameraInv /\ AloneInv)'
    BY SoundStep, AloneStep, HistoryStep
  <1> QED
    BY <1>1, <1>2, PTL DEF CameraHistorySpec, AloneInv

LEMMA RepeatStep ==
  ASSUME CameraInv, AloneInv, CameraNext, NEW id \in Ids \ met, results[id] # Nothing
  PROVE  results'[id] = results[id]
  <1>1. CASE \E h \in Threads : Handle(h)
    <2>1. PICK h \in Threads : Handle(h)
      BY <1>1
    <2>2. CASE id # task[h].name
      BY <2>1, <2>2, OthersKept
    <2>3. CASE id = task[h].name
      <3>1. ~Finish(h)
        BY <2>3 DEF AloneInv, AloneAt, Finish, Capturing
      <3> QED
        BY <2>1, <3>1 DEF Handle, LookUp, ReadSource, Reread, Open, Put, Fail, Rename, MissRename, Unlink
    <2> QED
      BY <2>2, <2>3
  <1>2. CASE ~ \E h \in Threads : Handle(h)
    BY <1>2 DEF CameraNext, GiveUp, Fetch, Ask, Upload, Configure
  <1> QED
    BY <1>1, <1>2

(***************************************************************************)
(* A repeated request returns the remembered result and does not capture   *)
(* again: a result is replaced only by a request that met another one with *)
(* its id.                                                                 *)
(***************************************************************************)
THEOREM RepeatsAnswered == CameraHistorySpec => RepeatsReturnTheSame
  <1>1. CameraHistoryInit => CameraInv /\ AloneInv
    BY SoundInitially, AloneInitially DEF CameraHistoryInit
  <1>2. CameraInv /\ AloneInv /\ [CameraHistoryNext]_<<cameraVars, met>> => (CameraInv /\ AloneInv)'
    BY SoundStep, AloneStep, HistoryStep
  <1>3. CameraInv /\ AloneInv /\ [CameraHistoryNext]_<<cameraVars, met>>
           => [\A id \in Ids \ met : results[id] # Nothing => results'[id] = results[id]]_cameraVars
    BY RepeatStep, HistoryStep
  <1> QED
    BY <1>1, <1>2, <1>3, PTL DEF CameraHistorySpec, RepeatsReturnTheSame
=============================================================================
