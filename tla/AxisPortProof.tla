--------------------------- MODULE AxisPortProof ---------------------------
(***************************************************************************)
(* Axis implements AxisPort: every step of the task thread and of a client *)
(* is a step of the port or leaves what it shows as it is.  What relates   *)
(* the two is the invariant of AxisProof with PhaseInv: the point of the   *)
(* task thread tells the slewing state, and with it what may come next.    *)
(***************************************************************************)
EXTENDS AxisImplements, AxisProof

USE DEF queueVars, semVars, speedVars, motionVars, motorVars, localVars,
        clientVars, taskUnchanged, callersUnchanged, Goto

\* What the port shows of the axis
Shown == [queue |-> taskQueue,
          flags |-> flags \cap {"STOP", "EMERGE_STOP", "STOP_KEEPSPEED"},
          run |-> Running, cmd |-> cmd, status |-> status,
          dir |-> currentDirection,
          slewState |-> IF slewState \in {"ACCELERATING", "CONSTANT_SPEED"}
                         THEN "RUNNING" ELSE slewState,
          sem |-> finishSem, result |-> finishState]

\* What the port tells the points of a slew by: its slewing state, the endless
\* wait of an indefinite slew, the correction still to come.
PhaseInv ==
  /\ pc = "accel" => slewState = "ACCELERATING"
  /\ pc \in {"cruise", "ramp", "stop", "decel", "emerge_stop"} => slewState # "NOT_SLEWING"
  /\ pc \in {"accel", "cruise", "ramp"} /\ Indefinite => waitMs < 0
  /\ pc \in {"correction", "correct_next", "correcting"} => cmd.withCorrection

\* Only an indefinite slew has no end of its own, and only AfterMotion leads to
\* a correction.
LEMMA PhaseStep ==
  ASSUME IInv, PhaseInv, [Next]_vars
  PROVE  PhaseInv'
<1> USE DEF PhaseInv
<1>1. CASE Task
  <2>1. CASE Fetch \/ Reject \/ SkipSlew \/ KeepSpeed \/ CorrectionTooLarge \/ Finish \/ EndTrack
    BY <2>1 DEF Fetch, Reject, SkipSlew, KeepSpeed, CorrectionTooLarge, Finish, EndTrack, Return
  <2>2. CASE BeginShortSlew \/ BeginLongSlew
    BY <2>2 DEF BeginShortSlew, BeginLongSlew, EnterSlew, AfterMotion, Indefinite
  <2>3. CASE \/ AccelStep \/ AccelDone \/ CruiseDone \/ CruiseTimeout
             \/ SpeedChange \/ SpeedChangeStep \/ SpeedChangeDone
    <3>1. waitMs \in Int /\ MaxLateMs \in Nat
      BY TimesAssumption DEF IInv, TypeOK
    <3> QED BY <2>3, <3>1 DEF AccelStep, RampStep, AccelDone, CruiseTimeout, CruiseDone,
       SpeedChange, SpeedChangeStep, SpeedChangeDone, Indefinite
  <2>4. CASE AccelHalted \/ CruiseHalted \/ RampHalted \/ DecelHalted
    <3>1. pc' \in {"stop", "emerge_stop"} /\ slewState' = slewState /\ slewState # "NOT_SLEWING"
      BY <2>4 DEF AccelHalted, CruiseHalted, RampHalted, DecelHalted, Halt
    <3> QED BY <3>1
  <2>5. CASE BeginDecel \/ DecelStep
    BY <2>5 DEF BeginDecel, DecelStep
  <2>6. CASE \/ PullOver \/ BeginCorrection \/ Correct \/ CorrectionDone
             \/ Corrected \/ CorrectionHalted
    BY <2>6 DEF PullOver, AfterMotion, BeginCorrection, Correct, CorrectionDone, Corrected,
       CorrectionHalted
  <2>7. CASE \/ BeginTrack \/ TrackHalted \/ TrackGuide
             \/ BeginGuide \/ SkipGuide \/ GuideDone \/ EndGuide \/ GuideHalted
    BY <2>7 DEF BeginTrack, TrackHalted, TrackGuide, BeginGuide, SkipGuide, GuideDone,
       EndGuide, GuideHalted
  <2> QED BY <1>1, <2>1, <2>2, <2>3, <2>4, <2>5, <2>6, <2>7 DEF Task, Slew, Track
<1>2. ASSUME NEW c \in Clients, Call(c) \/ Continue(c)
      PROVE  PhaseInv'
  BY <1>2 DEF Call, Continue, Indefinite
<1>3. CASE UNCHANGED vars
  BY <1>3 DEF vars, Indefinite
<1> QED BY <1>1, <1>2, <1>3 DEF Next

(***************************************************************************)
(* What is shown                                                           *)
(***************************************************************************)
\* The types of what is shown
PortRuns == {"fetch", "begin", "slew", "stop", "decel", "over", "correct", "track", "track_end"}
PortStates ==
  [queue : Seq(Command), flags : SUBSET Flags, run : PortRuns, cmd : Command \cup {NoCmd},
   status : {"STOPPED", "SLEWING", "TRACKING", "INERTIAL"}, dir : {"POSITIVE", "NEGATIVE"},
   slewState : {"NOT_SLEWING", "RUNNING", "DECELERATING"}, sem : {0, 1},
   result : {"COMPLETE", "STOPPED", "EMERG_STOPPED"}]

\* The flags the callers set, and the slewing state as they can tell it
PortFlags == {"STOP", "EMERGE_STOP", "STOP_KEEPSPEED"}
ShownFlags == flags \cap PortFlags
ShownSlewState == IF slewState \in {"ACCELERATING", "CONSTANT_SPEED"} THEN "RUNNING" ELSE slewState

\* The fields of what is shown; ShownWell' are those after a step.
ShownWell ==
  /\ Shown \in PortStates
  /\ Shown.queue = taskQueue /\ Shown.run = Running /\ Shown.cmd = cmd
  /\ Shown.flags = ShownFlags
  /\ Shown.status = status /\ Shown.dir = currentDirection
  /\ Shown.slewState = ShownSlewState
  /\ Shown.sem = finishSem /\ Shown.result = finishState

\* They have their types in every state.
LEMMA ShownType == TypeOK => ShownWell
<1> SUFFICES ASSUME TypeOK PROVE ShownWell
  OBVIOUS
<1>1. Running \in PortRuns
  BY DEF TypeOK, Running, TaskPoints, PortRuns, Guiding
<1>2. ShownFlags \in SUBSET Flags /\ ShownSlewState \in {"NOT_SLEWING", "RUNNING", "DECELERATING"}
  BY DEF TypeOK, ShownFlags, ShownSlewState
<1>3. Shown = [queue |-> taskQueue, flags |-> ShownFlags, run |-> Running, cmd |-> cmd,
               status |-> status, dir |-> currentDirection, slewState |-> ShownSlewState,
               sem |-> finishSem, result |-> finishState]
  BY DEF Shown, ShownFlags, ShownSlewState, PortFlags
<1>4. Shown \in PortStates
  BY <1>1, <1>2, <1>3 DEF PortStates, TypeOK
<1> QED BY <1>3, <1>4 DEF ShownWell

(***************************************************************************)
(* Each step of Axis::task is a step of the port                           *)
(***************************************************************************)
\* What a step of the task thread is to the port
Maps == Shown' \in Port!TaskSteps(Shown)

\* Back in Axis::task, a finite slew gives the semaphore.
LEMMA ReturnShown ==
  ASSUME Return
  PROVE  /\ Running' = "fetch" /\ cmd' = Port!Nothing /\ cmd' = NoCmd
         /\ finishSem' = IF cmd.signal = "SLEW_TO" THEN 1 ELSE finishSem
  BY DEF Return, Running, Port!Nothing, NoCmd, Guiding


\* The fields that a step of the axis leaves to the port as they are
Kept(S) == \A x \in S : Shown'[x] = Shown[x]

\* A fetch is a fetch.
LEMMA FetchMaps ==
  ASSUME ShownWell, ShownWell', taskQueue \in Seq(Command), Fetch
  PROVE  Maps
<1>1. Running = "fetch" /\ Running' = "begin"
  BY DEF Fetch, Running, Guiding
<1>2. Head(Shown.queue) \in Command /\ Tail(Shown.queue) \in Seq(Command)
  BY QueuedCommand DEF ShownWell, Fetch
<1>3. /\ Shown' \in PortStates /\ Shown \in PortStates /\ Kept({"flags", "status", "dir", "slewState", "sem", "result"})
      /\ Shown'.cmd = Head(Shown.queue) /\ Shown'.queue = Tail(Shown.queue) /\ Shown'.run = "begin"
  BY <1>1 DEF ShownWell, ShownFlags, ShownSlewState, Fetch, Kept
<1>4. Shown' = [Shown EXCEPT !.cmd = Head(Shown.queue), !.queue = Tail(Shown.queue), !.run = "begin"]
  BY <1>2, <1>3 DEF PortStates, Kept
<1>5. Shown.queue # <<>> /\ Shown.run = "fetch"
  BY <1>1 DEF Fetch, ShownWell
<1> QED BY <1>4, <1>5 DEF Maps, Port!TaskSteps, Port!Fetches

\* A command that the status does not let start, or that goes nowhere, is
\* refused.
LEMMA RefusedMaps ==
  ASSUME ShownWell, ShownWell', Reject \/ SkipSlew
  PROVE  Maps
<1>1. Running = "begin"
  BY DEF Reject, SkipSlew, Running, Guiding
<1>2. Return /\ UNCHANGED <<taskQueue, flags, status, slewState, currentDirection, finishState>>
  BY DEF Reject, SkipSlew
<1>3. /\ Shown' \in PortStates /\ Shown \in PortStates 
      /\ Kept({"queue", "flags", "status", "dir", "slewState", "result"})
      /\ Shown'.run = "fetch" /\ Shown'.cmd = Port!Nothing
      /\ Shown'.sem = IF Shown.cmd.signal = "SLEW_TO" THEN 1 ELSE Shown.sem
  BY <1>2, ReturnShown DEF ShownWell, ShownFlags, ShownSlewState, Kept
<1>4. Shown' = Port!Returned(Shown)
  BY <1>3 DEF Port!Returned, PortStates, Kept
<1>5. Port!Refused(Shown)
  BY DEF ShownWell, Reject, SkipSlew, Port!Refused, Accepted, Indefinite, IsSlew
<1> QED BY <1>1, <1>4, <1>5 DEF Maps, ShownWell, Port!TaskSteps, Port!Begins

\* A slew begins, with or without a motion, and drops the stops that were
\* pending.
LEMMA SlewMaps ==
  ASSUME ShownWell, ShownWell', BeginShortSlew \/ BeginLongSlew
  PROVE  Maps
<1>1. EnterSlew /\ Running = "begin"
  BY DEF BeginShortSlew, BeginLongSlew, EnterSlew, Running, Guiding
<1>2. ~Port!Refused(Shown) /\ Shown.cmd.signal # "TRACK"
  BY <1>1 DEF ShownWell, EnterSlew, Port!Refused, Accepted, Indefinite, IsSlew
<1>3. ShownFlags' = ShownFlags \ Port!Stops
  BY <1>1 DEF EnterSlew, Port!Stops, ShownFlags, PortFlags
<1>4. /\ Shown' \in PortStates /\ Shown \in PortStates /\ Kept({"queue", "cmd", "sem"})
      /\ Shown'.flags = Shown.flags \ Port!Stops /\ Shown'.status = "SLEWING"
      /\ Shown'.result = "COMPLETE" /\ Shown'.dir = Shown.cmd.dir
  BY <1>1, <1>3 DEF ShownWell, EnterSlew, Kept
<1> DEFINE b == [Shown EXCEPT !.flags = @ \ Port!Stops, !.status = "SLEWING",
                              !.result = "COMPLETE", !.dir = Shown.cmd.dir]
<1>5. CASE BeginLongSlew
  <2>1. Shown'.run = "slew" /\ Shown'.slewState = "RUNNING"
    BY <1>5 DEF ShownWell, ShownSlewState, BeginLongSlew, Running, Guiding
  <2>2. Shown' = [b EXCEPT !.run = "slew", !.slewState = "RUNNING"]
    BY <1>4, <2>1 DEF PortStates, Kept
  <2> QED BY <1>1, <1>2, <2>2 DEF Maps, ShownWell, Port!TaskSteps, Port!Begins, Port!SlewBegins
<1>6. CASE BeginShortSlew
  <2>1. /\ Shown'.run = "over" /\ Shown'.slewState = "NOT_SLEWING"
        /\ Shown.cmd.signal # "SLEW_INDEFINITE"
    BY <1>6 DEF ShownWell, ShownSlewState, BeginShortSlew, AfterMotion, Running, Guiding
  <2>2. Shown' = [b EXCEPT !.run = "over", !.slewState = "NOT_SLEWING"]
    BY <1>4, <2>1 DEF PortStates, Kept
  <2> QED BY <1>1, <1>2, <2>1, <2>2
      DEF Maps, ShownWell, Port!TaskSteps, Port!Begins, Port!SlewBegins
<1> QED BY <1>5, <1>6

\* Clearing the correction is a change of the command in hand.
LEMMA UncorrectedIs ==
  ASSUME NEW a \in PortStates, [a.cmd EXCEPT !.withCorrection = FALSE] \in Command \cup {NoCmd}
  PROVE  LET u == Port!Uncorrected(a)
         IN  /\ u \in PortStates /\ u.cmd = [a.cmd EXCEPT !.withCorrection = FALSE]
             /\ \A x \in {"queue", "flags", "run", "status", "dir", "slewState", "sem", "result"} :
                  u[x] = a[x]
<1> DEFINE m == [a.cmd EXCEPT !.withCorrection = FALSE]
<1>1. Port!Uncorrected(a) = [a EXCEPT !.cmd = m]
  BY DEF Port!Uncorrected, PortStates
<1>2. m \in Command \cup {NoCmd}
  OBVIOUS
<1> HIDE DEF m
<1>3. [a EXCEPT !.cmd = m] \in PortStates /\ [a EXCEPT !.cmd = m].cmd = m
  BY <1>2 DEF PortStates
<1>4. \A x \in {"queue", "flags", "run", "status", "dir", "slewState", "sem", "result"} :
        [a EXCEPT !.cmd = m][x] = a[x]
  BY DEF PortStates
<1> QED BY <1>1, <1>3, <1>4 DEF m

\* A stop or an emergency stop in a wait of the slew
LEMMA HaltMaps ==
  ASSUME ShownWell, ShownWell', AccelHalted \/ CruiseHalted \/ RampHalted
  PROVE  Maps
<1>1. /\ Halt /\ Running = "slew"
      /\ Awaited(pc) \subseteq {"STOP", "EMERGE_STOP", "SPEEDCHANGE"}
      /\ {"STOP", "EMERGE_STOP"} \subseteq Awaited(pc)
  BY DEF AccelHalted, CruiseHalted, RampHalted, Running, Awaited, Guiding
<1>2. /\ ShownFlags' = ShownFlags \ Port!Stops
      /\ ShownFlags \cap Port!Stops # {}
      /\ "EMERGE_STOP" \in flags <=> "EMERGE_STOP" \in ShownFlags
  BY <1>1 DEF Halt, Port!Stops, ShownFlags, PortFlags
<1>3. Running' = IF "EMERGE_STOP" \in ShownFlags THEN "over" ELSE "stop"
  BY <1>1, <1>2 DEF Halt, Running, Guiding
<1>4. /\ Shown' \in PortStates /\ Shown \in PortStates
      /\ Kept({"queue", "sem", "status", "dir", "slewState"})
      /\ Shown'.flags = Shown.flags \ Port!Stops
      /\ Shown'.cmd = [Shown.cmd EXCEPT !.withCorrection = FALSE]
      /\ Shown'.result = IF "EMERGE_STOP" \in Shown.flags THEN "EMERG_STOPPED" ELSE "STOPPED"
      /\ Shown'.run = IF "EMERGE_STOP" \in Shown.flags THEN "over" ELSE "stop"
  BY <1>1, <1>2, <1>3 DEF ShownWell, ShownSlewState, Halt, WithoutCorrection, Kept
<1>5. Shown' = [Port!Uncorrected(Shown) EXCEPT !.flags = @ \ Port!Stops,
           !.result = IF "EMERGE_STOP" \in Shown.flags THEN "EMERG_STOPPED" ELSE "STOPPED",
           !.run = IF "EMERGE_STOP" \in Shown.flags THEN "over" ELSE "stop"]
  <2> DEFINE u == Port!Uncorrected(Shown)
  <2>1. [Shown.cmd EXCEPT !.withCorrection = FALSE] \in Command \cup {NoCmd}
    BY <1>4 DEF PortStates
  <2>2. /\ u \in PortStates /\ u.cmd = Shown'.cmd
        /\ \A x \in {"queue", "flags", "run", "status", "dir", "slewState", "sem", "result"} :
             u[x] = Shown[x]
    BY <1>4, <2>1, UncorrectedIs
  <2>3. /\ Shown' \in PortStates /\ Shown'.flags = u.flags \ Port!Stops
        /\ \A x \in {"queue", "cmd", "status", "dir", "slewState", "sem"} : Shown'[x] = u[x]
    BY <1>4, <2>2 DEF Kept
  <2>4. PICK res, run : /\ res = IF "EMERGE_STOP" \in Shown.flags THEN "EMERG_STOPPED" ELSE "STOPPED"
                        /\ run = IF "EMERGE_STOP" \in Shown.flags THEN "over" ELSE "stop"
    OBVIOUS
  <2>5. Shown'.result = res /\ Shown'.run = run
    BY <1>4, <2>4
  <2> HIDE DEF u
  <2>6. Shown' = [u EXCEPT !.flags = @ \ Port!Stops, !.result = res, !.run = run]
    BY <2>2, <2>3, <2>5 DEF PortStates
  <2> QED BY <2>4, <2>6 DEF u
<1> QED BY <1>1, <1>2, <1>5 DEF Maps, ShownWell, Port!TaskSteps, Port!Slews

\* The end of the constant speed of a finite slew, and the deceleration
LEMMA StopMaps ==
  ASSUME ShownWell, ShownWell', PhaseInv, CruiseDone \/ BeginDecel
  PROVE  Maps
<1>1. CASE CruiseDone
  <2>1. Running = "slew" /\ Running' = "stop" /\ cmd.signal # "SLEW_INDEFINITE"
    BY <1>1 DEF CruiseDone, Running, Guiding, PhaseInv, Indefinite
  <2>2. /\ Shown' \in PortStates /\ Shown \in PortStates /\ Shown'.run = "stop"
        /\ Kept({"queue", "flags", "cmd", "status", "dir", "slewState", "sem", "result"})
    BY <1>1, <2>1 DEF ShownWell, ShownFlags, ShownSlewState, CruiseDone, Kept
  <2>3. Shown' = [Shown EXCEPT !.run = "stop"]
    BY <2>2 DEF PortStates, Kept
  <2> QED BY <2>1, <2>3 DEF Maps, ShownWell, Port!TaskSteps, Port!Slews
<1>2. CASE BeginDecel
  <2>1. Running = "stop" /\ Running' \in {"decel", "over"}
    BY <1>2 DEF BeginDecel, Running, Guiding
  <2>2. /\ Shown' \in PortStates /\ Shown \in PortStates
        /\ Shown'.run = Running' /\ Shown'.slewState = "DECELERATING"
        /\ Kept({"queue", "flags", "cmd", "status", "dir", "sem", "result"})
    BY <1>2, <2>1 DEF ShownWell, ShownFlags, ShownSlewState, BeginDecel, Kept
  <2>3. Shown' = [Shown EXCEPT !.slewState = "DECELERATING", !.run = Running']
    BY <2>2 DEF PortStates, Kept
  <2> QED BY <2>1, <2>3 DEF Maps, ShownWell, Port!TaskSteps, Port!StopsRunning
<1> QED BY <1>1, <1>2

\* The waits of the deceleration end in three ways, or go on.
LEMMA DecelMaps ==
  ASSUME ShownWell, ShownWell', DecelStep \/ DecelHalted \/ KeepSpeed, ~UNCHANGED Shown
  PROVE  Maps
<1> DEFINE b == [Shown EXCEPT !.flags = @ \ {"EMERGE_STOP", "STOP_KEEPSPEED"}]
<1>1. /\ pc = "decel" /\ Running = "decel" /\ Awaited(pc) = {"EMERGE_STOP", "STOP_KEEPSPEED"}
      /\ Shown' \in PortStates /\ Shown \in PortStates
      /\ \A f \in {"EMERGE_STOP", "STOP_KEEPSPEED"} : f \in flags <=> f \in Shown.flags
  BY DEF ShownWell, ShownFlags, PortFlags, DecelStep, DecelHalted, KeepSpeed, Running, Awaited,
         Guiding
<1>2. CASE DecelStep
  <2>1. /\ Kept({"queue", "flags", "cmd", "status", "dir", "sem", "result", "slewState"})
        /\ Running' \in {"decel", "over"} /\ Shown'.run = Running'
        /\ "EMERGE_STOP" \notin flags /\ "STOP_KEEPSPEED" \notin flags
    BY <1>1, <1>2 DEF ShownWell, ShownFlags, ShownSlewState, DecelStep, TimedOut, Kept,
       Running, Guiding
  <2>2. Shown' = [Shown EXCEPT !.run = Running']
    BY <1>1, <2>1 DEF PortStates, Kept
  <2>3. Running' = "over"
    <3>1. CASE Running' = "decel"
      <4>1. Shown'.run = Shown.run
        BY <1>1, <2>1, <3>1 DEF ShownWell
      <4>2. Shown' = Shown
        BY <1>1, <2>1, <4>1 DEF PortStates, Kept
      <4> QED BY <4>2
    <3> QED BY <2>1, <3>1
  <2> QED BY <1>1, <2>1, <2>2, <2>3 DEF Maps, ShownWell, Port!TaskSteps, Port!Decelerates
<1>3. ASSUME flags' = flags \ Awaited(pc)
      PROVE  Shown'.flags = Shown.flags \ {"EMERGE_STOP", "STOP_KEEPSPEED"}
  BY <1>1, <1>3 DEF ShownWell, ShownFlags
<1>4. CASE DecelHalted
  <2>1. Running' = "over"
    BY <1>4 DEF DecelHalted, Running, Guiding
  <2>2. /\ Kept({"queue", "status", "dir", "sem", "slewState"})
        /\ Shown'.flags = Shown.flags \ {"EMERGE_STOP", "STOP_KEEPSPEED"}
        /\ Shown'.cmd = [Shown.cmd EXCEPT !.withCorrection = FALSE]
        /\ Shown'.run = "over" /\ Shown'.result = "EMERG_STOPPED"
    BY <1>3, <1>4, <2>1 DEF ShownWell, ShownSlewState, DecelHalted, WithoutCorrection, Kept
  <2>3. Shown' = [Port!Uncorrected(b) EXCEPT !.result = "EMERG_STOPPED", !.run = "over"]
    <3> DEFINE u == Port!Uncorrected(b)
    <3>1. [b.cmd EXCEPT !.withCorrection = FALSE] \in Command \cup {NoCmd}
      BY <1>1, <2>2 DEF PortStates
    <3>2. b \in PortStates /\ b.cmd = Shown.cmd /\ b.flags = Shown'.flags
          /\ \A x \in {"queue", "status", "dir", "slewState", "sem"} : b[x] = Shown'[x]
      BY <1>1, <2>2 DEF PortStates, Kept
    <3>3. /\ u \in PortStates /\ u.cmd = Shown'.cmd
          /\ \A x \in {"queue", "flags", "run", "status", "dir", "slewState", "sem", "result"} :
               u[x] = b[x]
      BY <2>2, <3>1, <3>2, UncorrectedIs
    <3>4. /\ Shown' \in PortStates /\ Shown'.result = "EMERG_STOPPED" /\ Shown'.run = "over"
          /\ \A x \in {"queue", "flags", "cmd", "status", "dir", "slewState", "sem"} :
               Shown'[x] = u[x]
      BY <1>1, <2>2, <3>2, <3>3
    <3> HIDE DEF u
    <3>5. Shown' = [u EXCEPT !.result = "EMERG_STOPPED", !.run = "over"]
      BY <3>3, <3>4 DEF PortStates
    <3> QED BY <3>5 DEF u
  <2>4. "EMERGE_STOP" \in Shown.flags
    BY <1>1, <1>4 DEF DecelHalted
  <2> QED BY <1>1, <2>3, <2>4 DEF Maps, ShownWell, Port!TaskSteps, Port!Decelerates
<1>5. CASE KeepSpeed
  <2>1. /\ Kept({"queue", "dir", "result"})
        /\ Shown'.flags = Shown.flags \ {"EMERGE_STOP", "STOP_KEEPSPEED"}
        /\ Shown'.run = "fetch" /\ Shown'.cmd = Port!Nothing
        /\ Shown'.status = "INERTIAL" /\ Shown'.slewState = "NOT_SLEWING"
        /\ Shown'.sem = IF Shown.cmd.signal = "SLEW_TO" THEN 1 ELSE Shown.sem
    BY <1>3, <1>5, ReturnShown DEF ShownWell, ShownSlewState, KeepSpeed, Kept
  <2>2. Shown' = [Port!Returned(b) EXCEPT !.status = "INERTIAL", !.slewState = "NOT_SLEWING"]
    BY <1>1, <2>1 DEF PortStates, Port!Returned, Kept
  <2>3. "EMERGE_STOP" \notin Shown.flags /\ "STOP_KEEPSPEED" \in Shown.flags
    BY <1>1, <1>5 DEF KeepSpeed
  <2> QED BY <1>1, <2>2, <2>3 DEF Maps, ShownWell, Port!TaskSteps, Port!Decelerates
<1> QED BY <1>2, <1>4, <1>5

\* The two ways on when a correction is asked for
LEMMA CorrectionWays ==
  ASSUME NEW a, a.cmd.withCorrection, a.slewState = "NOT_SLEWING"
  PROVE  /\ [a EXCEPT !.run = "correct"] \in Port!IsOver(a)
         /\ [Port!Returned(Port!StopAxis(a, "STOP")) EXCEPT
               !.status = "STOPPED", !.result = "EMERG_STOPPED"] \in Port!IsOver(a)
<1> DEFINE S == {a.cmd.withCorrection} \ {FALSE}
           x == [a EXCEPT !.run = "correct"]
           y == [Port!Returned(Port!StopAxis(a, "STOP")) EXCEPT
                   !.status = "STOPPED", !.result = "EMERG_STOPPED"]
           z == [Port!Returned(a) EXCEPT !.status = "STOPPED"]
<1>1. a.cmd.withCorrection \in S
  BY Zenon
<1>2. Port!IsOver(a) = {z} \cup UNION {{x, y} : c \in S}
  BY Zenon DEF Port!IsOver
<1> HIDE DEF S, x, y, z
<1>3. {x, y} \subseteq UNION {{x, y} : c \in S}
  BY <1>1
<1>4. x \in Port!IsOver(a) /\ y \in Port!IsOver(a)
  BY <1>2, <1>3
<1> QED BY <1>4 DEF x, y

\* The steps of an axis that has pulled over
\* They end the slew, or correct it.
LEMMA OverMaps ==
  ASSUME IInv, PhaseInv, ShownWell, ShownWell',
         PullOver \/ CorrectionTooLarge \/ Correct \/ Finish
  PROVE  Maps
<1>1. /\ Running = "over" /\ Shown' \in PortStates /\ Shown \in PortStates
  BY DEF ShownWell, PullOver, CorrectionTooLarge, Correct, Finish, Running, Guiding
<1>2. CASE PullOver
  <2>1. Running' = "over" /\ slewState' = "NOT_SLEWING"
    BY <1>2 DEF PullOver, AfterMotion, Running, Guiding
  <2>2. /\ Shown'.slewState = "NOT_SLEWING" /\ Shown.slewState # "NOT_SLEWING"
        /\ Kept({"queue", "flags", "run", "cmd", "status", "dir", "sem", "result"})
    BY <1>1, <1>2, <2>1 DEF ShownWell, ShownFlags, ShownSlewState, PullOver, PhaseInv, Kept
  <2>3. Shown' = [Shown EXCEPT !.slewState = "NOT_SLEWING"]
    BY <1>1, <2>2 DEF PortStates, Kept
  <2> QED BY <1>1, <2>2, <2>3 DEF Maps, ShownWell, Port!TaskSteps, Port!IsOver
<1>3. ASSUME ~PullOver
      PROVE  slewState = "NOT_SLEWING" /\ Shown.slewState = "NOT_SLEWING"
  BY <1>3 DEF CorrectionTooLarge, Correct, Finish, IInv, MotionInv, ShownWell, ShownSlewState
<1>4. CASE CorrectionTooLarge
  <2>1. /\ Kept({"dir", "slewState"})
        /\ Shown'.flags = Shown.flags \cup {"STOP"}
        /\ Shown'.queue = <<>> /\ Shown'.run = "fetch" /\ Shown'.cmd = Port!Nothing
        /\ Shown'.status = "STOPPED" /\ Shown'.result = "EMERG_STOPPED"
        /\ Shown'.sem = IF Shown.cmd.signal = "SLEW_TO" THEN 1 ELSE Shown.sem
    BY <1>4, ReturnShown DEF ShownWell, ShownFlags, PortFlags, ShownSlewState,
       CorrectionTooLarge, Kept
  <2>2. Shown' = [Port!Returned(Port!StopAxis(Shown, "STOP")) EXCEPT
                    !.status = "STOPPED", !.result = "EMERG_STOPPED"]
    BY <1>1, <2>1 DEF PortStates, Port!Returned, Port!StopAxis, Port!Flagged, Port!Flushed, Kept
  <2>3. Shown.cmd.withCorrection /\ Shown.slewState = "NOT_SLEWING"
    BY <1>3, <1>4 DEF CorrectionTooLarge, PullOver, PhaseInv, ShownWell
  <2>4. Shown' \in Port!IsOver(Shown)
    BY <2>2, <2>3, CorrectionWays
  <2> QED BY <1>1, <2>4 DEF Maps, ShownWell, Port!TaskSteps
<1>5. CASE Correct
  <2>1. Running' = "correct" /\ Shown'.run = "correct"
    BY <1>5 DEF Correct, ShownWell, Running, Guiding
  <2>2. Kept({"queue", "flags", "slewState", "cmd", "status", "dir", "sem", "result"})
    BY <1>5 DEF ShownWell, ShownFlags, ShownSlewState, Correct, Kept
  <2>3. Shown' = [Shown EXCEPT !.run = "correct"]
    BY <1>1, <2>1, <2>2 DEF PortStates, Kept
  <2>4. Shown.cmd.withCorrection /\ Shown.slewState = "NOT_SLEWING"
    BY <1>3, <1>5 DEF Correct, PullOver, PhaseInv, ShownWell
  <2>5. Shown' \in Port!IsOver(Shown)
    BY <2>3, <2>4, CorrectionWays
  <2> QED BY <1>1, <2>5 DEF Maps, ShownWell, Port!TaskSteps
<1>6. CASE Finish
  <2>1. /\ Kept({"queue", "flags", "dir", "slewState", "result"})
        /\ Shown'.run = "fetch" /\ Shown'.cmd = Port!Nothing /\ Shown'.status = "STOPPED"
        /\ Shown'.sem = IF Shown.cmd.signal = "SLEW_TO" THEN 1 ELSE Shown.sem
    BY <1>6, ReturnShown DEF ShownWell, ShownFlags, ShownSlewState, Finish, Kept
  <2>2. Shown' = [Port!Returned(Shown) EXCEPT !.status = "STOPPED"]
    BY <1>1, <2>1 DEF PortStates, Port!Returned, Kept
  <2>3. Shown.slewState = "NOT_SLEWING"
    BY <1>3, <1>6 DEF Finish, PullOver
  <2> QED BY <1>1, <2>2, <2>3 DEF Maps, ShownWell, Port!TaskSteps, Port!IsOver
<1> QED BY <1>2, <1>4, <1>5, <1>6

\* A correction that ends, or is cut short by an emergency stop
LEMMA CorrectedMaps ==
  ASSUME ShownWell, ShownWell', Corrected \/ CorrectionHalted
  PROVE  Maps
<1>1. /\ pc = "correcting" /\ Running = "correct" /\ Running' = "over"
      /\ Shown' \in PortStates /\ Shown \in PortStates /\ Shown'.run = "over"
      /\ "EMERGE_STOP" \in flags <=> "EMERGE_STOP" \in Shown.flags
      /\ Awaited(pc) = {"EMERGE_STOP"}
      /\ Kept({"queue", "slewState", "cmd", "status", "dir", "sem"})
  BY DEF ShownWell, ShownFlags, ShownSlewState, PortFlags, Corrected, CorrectionHalted,
         Running, Awaited, Guiding, Kept
<1>2. CASE Corrected
  <2>1. "EMERGE_STOP" \notin Shown.flags /\ Kept({"flags", "result"})
    BY <1>1, <1>2 DEF Corrected, TimedOut, ShownWell, ShownFlags, Kept
  <2>2. Shown' = [Shown EXCEPT !.run = "over"]
    BY <1>1, <2>1 DEF PortStates, Kept
  <2> QED BY <1>1, <2>1, <2>2 DEF Maps, ShownWell, Port!TaskSteps, Port!Corrects
<1>3. CASE CorrectionHalted
  <2>1. /\ "EMERGE_STOP" \in Shown.flags /\ Shown'.result = "EMERG_STOPPED"
        /\ Shown'.flags = Shown.flags \ {"EMERGE_STOP"}
    BY <1>1, <1>3 DEF CorrectionHalted, Woken, ShownWell, ShownFlags
  <2>2. Shown' = [Shown EXCEPT !.flags = @ \ {"EMERGE_STOP"}, !.result = "EMERG_STOPPED",
                               !.run = "over"]
    BY <1>1, <2>1 DEF PortStates, Kept
  <2> QED BY <1>1, <2>1, <2>2 DEF Maps, ShownWell, Port!TaskSteps, Port!Corrects
<1> QED BY <1>2, <1>3

\* Tracking begins, is stopped from any of its waits, and ends.
LEMMA TrackMaps ==
  ASSUME TypeOK, ShownWell, ShownWell', BeginTrack \/ TrackHalted \/ GuideHalted \/ EndTrack
  PROVE  Maps
<1>1. Shown' \in PortStates /\ Shown \in PortStates
  BY DEF ShownWell
<1>2. CASE BeginTrack
  <2>1. Running = "begin" /\ Running' = "track"
    BY <1>2 DEF BeginTrack, Running, Guiding
  <2>2. ~Port!Refused(Shown) /\ Shown.cmd.signal = "TRACK"
    BY <1>2 DEF ShownWell, BeginTrack, Port!Refused, Accepted, Indefinite
  <2>3. Shown'.dir \in {Shown.cmd.dir, "POSITIVE"} \ {"STOP"}
    BY <1>2 DEF ShownWell, BeginTrack
  <2>4. ShownFlags' = ShownFlags \ Port!Stops
    BY <1>2 DEF BeginTrack, Port!Stops, ShownFlags, PortFlags
  <2>5. /\ Kept({"queue", "cmd", "slewState", "sem", "result"})
        /\ Shown'.flags = Shown.flags \ Port!Stops /\ Shown'.status = "TRACKING"
        /\ Shown'.run = "track"
    BY <1>2, <2>1, <2>4 DEF ShownWell, ShownSlewState, BeginTrack, Kept
  <2>6. Shown' = [Shown EXCEPT !.flags = @ \ Port!Stops, !.status = "TRACKING",
                               !.run = "track", !.dir = Shown'.dir]
    BY <1>1, <2>5 DEF PortStates, Kept
  <2> QED BY <2>1, <2>2, <2>3, <2>6
      DEF Maps, ShownWell, Port!TaskSteps, Port!Begins, Port!TrackBegins
<1>3. CASE TrackHalted \/ GuideHalted
  <2>1. /\ Running = "track" /\ Running' = "track_end"
        /\ Awaited(pc) \subseteq {"STOP", "EMERGE_STOP", "GUIDE"}
        /\ {"STOP", "EMERGE_STOP"} \subseteq Awaited(pc)
        /\ flags \cap {"STOP", "EMERGE_STOP"} # {}
        /\ flags' = flags \ Awaited(pc)
    BY <1>3 DEF TrackHalted, GuideHalted, Woken, Running, Awaited, Guiding
  <2>2. ShownFlags' = ShownFlags \ Port!Stops /\ ShownFlags \cap Port!Stops # {}
    BY <2>1 DEF Port!Stops, ShownFlags, PortFlags
  <2>3. /\ Kept({"queue", "cmd", "status", "dir", "slewState", "sem", "result"})
        /\ Shown'.flags = Shown.flags \ Port!Stops /\ Shown'.run = "track_end"
    BY <1>3, <2>1, <2>2 DEF ShownWell, ShownSlewState, TrackHalted, GuideHalted, Kept
  <2>4. Shown' = [Shown EXCEPT !.flags = @ \ Port!Stops, !.run = "track_end"]
    BY <1>1, <2>3 DEF PortStates, Kept
  <2> QED BY <2>1, <2>2, <2>4 DEF Maps, ShownWell, Port!TaskSteps, Port!TracksOn
<1>4. CASE EndTrack
  <2>1. Running = "track_end"
    BY <1>4 DEF EndTrack, Running, Guiding
  <2>2. /\ Kept({"queue", "flags", "dir", "slewState", "result"})
        /\ Shown'.run = "fetch" /\ Shown'.cmd = Port!Nothing /\ Shown'.status = "STOPPED"
        /\ Shown'.sem = IF Shown.cmd.signal = "SLEW_TO" THEN 1 ELSE Shown.sem
    BY <1>4, ReturnShown DEF ShownWell, ShownFlags, ShownSlewState, EndTrack, Kept
  <2>3. Shown' = [Port!Returned(Shown) EXCEPT !.status = "STOPPED"]
    BY <1>1, <2>2 DEF PortStates, Port!Returned, Kept
  <2> QED BY <2>1, <2>3 DEF Maps, ShownWell, Port!TaskSteps
<1> QED BY <1>2, <1>3, <1>4

\* A step that changes nothing of what is shown
LEMMA Unseen ==
  ASSUME UNCHANGED <<taskQueue, cmd, status, currentDirection, finishSem, finishState>>,
         Running' = Running, ShownFlags' = ShownFlags, ShownSlewState' = ShownSlewState
  PROVE  Shown' = Shown
  BY DEF Shown, ShownFlags, ShownSlewState, PortFlags

\* Speeds, corrections and guide pulses go on behind the port.
LEMMA UnseenSteps ==
  ASSUME PhaseInv,
         \/ AccelStep \/ AccelDone \/ CruiseTimeout \/ SpeedChange \/ SpeedChangeStep
         \/ SpeedChangeDone \/ BeginCorrection \/ CorrectionDone \/ TrackGuide
         \/ BeginGuide \/ SkipGuide \/ GuideDone \/ EndGuide
  PROVE  Shown' = Shown
<1>1. CASE AccelStep \/ AccelDone \/ CruiseTimeout \/ SpeedChangeStep \/ SpeedChangeDone
  BY <1>1, Unseen DEF AccelStep, RampStep, AccelDone, CruiseTimeout, SpeedChangeStep,
     SpeedChangeDone, PhaseInv, Running, Guiding, ShownFlags, ShownSlewState
<1>2. CASE SpeedChange \/ TrackGuide
  <2>1. /\ Awaited(pc) \subseteq {"STOP", "EMERGE_STOP", "SPEEDCHANGE", "GUIDE"}
        /\ flags \cap {"STOP", "EMERGE_STOP"} = {} /\ flags' = flags \ Awaited(pc)
    BY <1>2 DEF SpeedChange, TrackGuide, Awaited, Guiding
  <2>2. ShownFlags' = ShownFlags
    BY <2>1 DEF ShownFlags, PortFlags
  <2> QED BY <1>2, <2>2, Unseen DEF SpeedChange, TrackGuide, Running, Guiding, ShownSlewState
<1>3. CASE BeginCorrection \/ CorrectionDone
  BY <1>3, Unseen DEF BeginCorrection, CorrectionDone, Running, Guiding, ShownFlags, ShownSlewState
<1>4. CASE BeginGuide \/ SkipGuide \/ GuideDone \/ EndGuide
  BY <1>4, Unseen DEF BeginGuide, SkipGuide, GuideDone, EndGuide, Running, Guiding,
     ShownFlags, ShownSlewState
<1> QED BY <1>1, <1>2, <1>3, <1>4

(***************************************************************************)
(* Each step of a caller is a request to the port, or nothing to it        *)
(***************************************************************************)
\* A caller posts, takes one command out, sets a flag or takes the semaphore.
LEMMA CallMaps ==
  ASSUME TypeOK, ClientInv, ShownWell, ShownWell', NEW c \in Clients, Call(c) \/ Continue(c)
  PROVE  Port!Next \/ Shown' = Shown
<1>0. /\ UNCHANGED <<Running, ShownSlewState, cmd, status, currentDirection, finishState>>
      /\ Shown \in PortStates /\ Shown' \in PortStates
      /\ Kept({"run", "cmd", "status", "dir", "slewState", "result"})
  BY DEF Call, Continue, Running, ShownSlewState, ShownWell, Kept
<1>1. ASSUME UNCHANGED <<taskQueue, flags, finishSem>>
      PROVE  Shown' = Shown
  BY <1>0, <1>1, Unseen DEF ShownFlags
<1> DEFINE Asked == Port!Post \/ Port!Flush \/ Port!Flag \/ Port!TakeOrClearSem
<1>2. ASSUME Asked
      PROVE  Port!Next
  <2>1. Shown'.run = Shown.run
    BY <1>0 DEF Kept
  <2> QED BY <1>2, <2>1 DEF Port!Next, Shown
<1>3. CASE ClearSem(c) \/ WaitForSlew(c)
  <2>1. Kept({"queue", "flags"}) /\ Shown'.sem = 0
    BY <1>3 DEF ClearSem, WaitForSlew, ShownWell, ShownFlags, Kept
  <2>2. Shown' = [Shown EXCEPT !.sem = 0]
    BY <1>0, <2>1 DEF PortStates, Kept
  <2> QED BY <1>2, <2>2 DEF Port!TakeOrClearSem, Shown
<1>4. CASE Put(c)
  <2>1. held[c] \in Command
    BY <1>4, CommandFields DEF Put, ClientInv, TypeOK
  <2>2. Kept({"flags", "sem"}) /\ Shown'.queue = Append(Shown.queue, held[c])
    BY <1>4 DEF Put, ShownWell, ShownFlags, Kept
  <2>3. Shown' = Port!Posted(Shown, held[c])
    BY <1>0, <2>2 DEF PortStates, Port!Posted, Kept
  <2>4. Shown'.queue # <<>> /\ Shown'.queue[Len(Shown'.queue)] = held[c]
    BY <1>0, <2>1, <2>2 DEF PortStates
  <2> QED BY <1>2, <2>1, <2>3, <2>4 DEF Port!Post, Shown
<1>5. CASE FlushGet(c)
  <2>1. Kept({"flags", "sem"}) /\ Shown'.queue = Tail(Shown.queue) /\ Shown.queue # <<>>
    BY <1>5 DEF FlushGet, ShownWell, ShownFlags, Kept
  <2>2. Shown' = [Shown EXCEPT !.queue = Tail(@)]
    BY <1>0, <2>1 DEF PortStates, Kept
  <2> QED BY <1>2, <2>1, <2>2 DEF Port!Flush, Shown
<1>6. ASSUME NEW f, flags' = flags \cup {f}, UNCHANGED <<taskQueue, finishSem>>
      PROVE  Port!Next \/ Shown' = Shown
  <2>1. CASE f \in Port!Stops \cup {"STOP_KEEPSPEED"}
    <3>1. Kept({"queue", "sem"}) /\ Shown'.flags = Shown.flags \cup {f}
      BY <1>6, <2>1 DEF ShownWell, ShownFlags, PortFlags, Port!Stops, Kept
    <3>2. Shown' = Port!Flagged(Shown, f)
      BY <1>0, <3>1 DEF PortStates, Port!Flagged, Kept
    <3> QED BY <1>2, <2>1, <3>2 DEF Port!Flag, Shown
  <2>2. CASE f \notin Port!Stops \cup {"STOP_KEEPSPEED"}
    <3>1. ShownFlags' = ShownFlags
      BY <1>6, <2>2 DEF ShownFlags, PortFlags, Port!Stops
    <3> QED BY <1>0, <1>6, <3>1, Unseen
  <2> QED BY <2>1, <2>2
<1>7. CASE Signal(c) \/ StopKeepSpeed(c)
  <2>1. /\ \E f : flags' = flags \cup {f}
        /\ UNCHANGED <<taskQueue, finishSem>>
    BY <1>7 DEF Signal, StopKeepSpeed
  <2> QED BY <1>6, <2>1
<1>8. CASE \/ PutFails(c) \/ FlushFree(c) \/ FlushDone(c) \/ Stop(c) \/ EmergencyStop(c)
           \/ FlushCommandQueue(c) \/ SetSlewSpeed(c) \/ SetTrackSpeed(c) \/ SetGuideSpeed(c)
           \/ (\E m \in Requests : Alloc(c, m)) \/ (\E pulse \in Pulses : Guide(c, pulse))
  <2>1. UNCHANGED <<taskQueue, flags, finishSem>>
    BY <1>8 DEF PutFails, FlushFree, FlushDone, Stop, EmergencyStop, FlushCommandQueue,
       StartFlush, SetSlewSpeed, SetTrackSpeed, SetGuideSpeed, Alloc, Guide
  <2> QED BY <1>1, <2>1
<1> QED BY <1>3, <1>4, <1>5, <1>7, <1>8 DEF Call, Continue

(***************************************************************************)
(* The refinement                                                          *)
(***************************************************************************)
\* Every step of the axis is a step of the port or changes nothing it shows.
LEMMA StepMaps ==
  ASSUME IInv, IInv', PhaseInv, [Next]_vars
  PROVE  Port!Next \/ Shown' = Shown
<1>1. ShownWell /\ ShownWell' /\ TypeOK /\ ClientInv
  BY ShownType, PTL DEF IInv
<1>2. ASSUME Maps
      PROVE  Port!Next
  BY <1>2 DEF Maps, Port!Next, Port!Task, Shown
<1>3. CASE Task
  BY <1>1, <1>2, <1>3, FetchMaps, RefusedMaps, SlewMaps, HaltMaps, StopMaps, DecelMaps,
     OverMaps, CorrectedMaps, TrackMaps, UnseenSteps DEF Task, Slew, Track, TypeOK
<1>4. ASSUME NEW c \in Clients, Call(c) \/ Continue(c)
      PROVE  Port!Next \/ Shown' = Shown
  BY <1>1, <1>4, CallMaps
<1>5. CASE UNCHANGED vars
  BY <1>5, Unseen DEF vars, Running, ShownFlags, ShownSlewState, Guiding
<1> QED BY <1>3, <1>4, <1>5 DEF Next

\* Module Axis implements AxisPort, for any clients, commands, queue, pool and
\* speeds: what EquatorialMount takes an axis to be (AxisContract) is all that
\* Axis::task and the methods of Axis do, seen without speeds, motor and guide
\* pulses (Axis.h:86-260; Axis.cpp:61-137, 139-515, 517-672).
THEOREM Implements == Spec => ImplementsPort
<1>1. Init => Port!Init /\ PhaseInv
  BY DEF Init, PhaseInv, Port!Init, Port!Rest, Running, Port!Nothing, NoCmd, Guiding
<1>2. IInv /\ PhaseInv /\ [Next]_vars => PhaseInv'
  BY PhaseStep
<1>3. IInv /\ IInv' /\ PhaseInv /\ [Next]_vars => [Port!Next]_Shown
  BY StepMaps
<1> QED BY <1>1, <1>2, <1>3, Invariant, PTL DEF Spec, ImplementsPort, Port!Spec, Shown
=============================================================================
