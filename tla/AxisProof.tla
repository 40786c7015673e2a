----------------------------- MODULE AxisProof -----------------------------
(***************************************************************************)
(* Theorems about Axis, for any clients, queue and pool sizes and speeds.  *)
(***************************************************************************)
EXTENDS Axis, FiniteSetTheorems, SequenceTheorems, TLAPS

USE DEF queueVars, semVars, speedVars, motionVars, motorVars, localVars,
        clientVars, taskUnchanged, callersUnchanged, Goto

(***************************************************************************)
(* Ramps                                                                   *)
(***************************************************************************)
\* A ramp of one step, or of as many steps as there are units of speed
\* between its ends; what AccelRamp, SpeedRamp and DecelRamp build.
UnitRamp(r) ==
  /\ r \in [from : Nat, to : Nat, steps : Nat \ {0}, i : Nat]
  /\ r.i <= r.steps
  /\ r.steps = 1 \/ r.steps = Dist(r.from, r.to)

\* Each builder of ramps, from legal speeds, makes a unit ramp.
LEMMA RampsAreUnit ==
  ASSUME NEW a \in Nat, NEW b \in Nat
  PROVE  /\ UnitRamp(AccelRamp(a, b)) /\ AccelRamp(a, b).i = 1
         /\ UnitRamp(SpeedRamp(a, b)) /\ SpeedRamp(a, b).i = 1
         /\ UnitRamp(DecelRamp(b))
         /\ UnitRamp(NoRamp)
  BY DEF UnitRamp, AccelRamp, SpeedRamp, DecelRamp, Max1, Dist, NoRamp

\* The speeds of a unit ramp are natural numbers, and positive when the ramp
\* ends at a positive speed.
LEMMA RampSpeeds ==
  ASSUME NEW r, UnitRamp(r), r.i >= 1
  PROVE  /\ r \in Ramps
         /\ RampSpeed(r) \in Nat
         /\ r.to >= 1 => RampSpeed(r) >= 1
  BY DEF UnitRamp, RampSpeed, Dist, Ramps

\* The next step of a ramp is a step of the same ramp, one unit of speed away.
LEMMA NextRampStep ==
  ASSUME NEW r, UnitRamp(r), r.i >= 1, r.i < r.steps
  PROVE  LET n == [r EXCEPT !.i = @ + 1]
         IN  UnitRamp(n) /\ n.i >= 1 /\ n.to = r.to
             /\ Dist(RampSpeed(r), RampSpeed(n)) <= 1
  BY DEF UnitRamp, RampSpeed, Dist

\* The same, for the deceleration that counts down.
LEMMA PrevRampStep ==
  ASSUME NEW r, UnitRamp(r), r.i >= 2, r.from = 0
  PROVE  LET n == [r EXCEPT !.i = @ - 1]
         IN  UnitRamp(n) /\ n.i >= 1 /\ n.to = r.to /\ n.from = r.from
             /\ Dist(RampSpeed(r), RampSpeed(n)) <= 1
  BY DEF UnitRamp, RampSpeed, Dist

(***************************************************************************)
(* The invariant: where the task thread is tells what the motor does.      *)
(***************************************************************************)
SlewPoints  == SlewWaits \cup {"stop", "emerge_stop", "correction",
                               "correct_next", "correcting", "finish"}
TrackPoints == Guiding \cup {"track", "guide_next", "track_end"}

\* Out of slew and track: stopped, or inertial in the slew mode.
Resting ==
  /\ slewState = "NOT_SLEWING"
  /\ \/ status = "STOPPED" /\ motor = "idle" /\ currentSpeed = 0
     \/ status = "INERTIAL" /\ motor # "idle" /\ currentSpeed >= 1 /\ mode = "slew"

RampInv ==
  /\ UnitRamp(ramp) /\ ramp.i >= 1
  /\ pc \in {"accel", "ramp", "decel"} =>
       ramp.to >= 1 /\ currentSpeed = RampSpeed(ramp)
  /\ pc = "decel" => ramp.from = 0

MotionInv ==
  /\ pc \in {"fetch", "dispatch"} => Resting
  /\ pc \in SlewPoints => status = "SLEWING" /\ IsSlew
  /\ pc \in SlewWaits \cup {"stop"} =>
       motor # "idle" /\ currentSpeed >= 1 /\ mode = "slew"
  /\ pc \in {"correction", "correct_next", "finish"} => motor = "idle"
  /\ pc \in {"correction", "correct_next", "correcting", "finish"} =>
       slewState = "NOT_SLEWING"
  /\ pc \in TrackPoints => status = "TRACKING" /\ slewState = "NOT_SLEWING"

\* What a client holds at each point of a call
ClientInv ==
  \A c \in Clients :
    /\ cpc[c] \in {"clear", "put", "free"} <=> held[c].signal # "NONE"
    /\ cpc[c] = "signal" => after[c] # "NONE"
    /\ cpc[c] \notin {"flush", "free", "signal"} => after[c] = "NONE"
    /\ cpc[c] \in {"flush", "free"} => after[c] \in {"NONE", "STOP", "EMERGE_STOP"}

IInv == TypeOK /\ RampInv /\ MotionInv /\ ClientInv

(***************************************************************************)
(* Commands                                                                *)
(***************************************************************************)
\* NoCmd has a signal and a direction that start nothing.
LEMMA NoCmdIsNone == NoCmd.signal = "NONE" /\ NoCmd.dir = "STOP"
  BY DEF NoCmd

\* Only NoCmd has the signal "NONE", and a command with a direction turns one
\* way or the other.
LEMMA CommandFields ==
  ASSUME NEW m \in Command \cup {NoCmd}
  PROVE  /\ m.signal # "NONE" => m \in Command
         /\ m.dir # "STOP" => m \in Command /\ m.dir \in {"POSITIVE", "NEGATIVE"}
<1>1. CASE m = NoCmd
  BY <1>1, NoCmdIsNone
<1>2. CASE m \in Command
  <2>1. m.dir \in {"STOP", "POSITIVE", "NEGATIVE"}
    BY <1>2 DEF Command
  <2> QED BY <1>2, <2>1
<1> QED BY <1>1, <1>2

\* No command that can be posted is NoCmd.
LEMMA CommandSignal == \A m \in Command : m.signal # "NONE" /\ m # NoCmd
<1>1. \A m \in Command : m.signal # "NONE"
  BY DEF Command
<1> QED BY <1>1, NoCmdIsNone

\* What is taken from a queue of commands is a command.
LEMMA QueuedCommand ==
  ASSUME taskQueue \in Seq(Command), taskQueue # <<>>
  PROVE  /\ Head(taskQueue) \in Command /\ Head(taskQueue).signal # "NONE"
         /\ Tail(taskQueue) \in Seq(Command)
         /\ Len(Tail(taskQueue)) = Len(taskQueue) - 1
  BY CommandSignal

\* Clearing the correction of a command leaves a command with its signal and
\* its direction.
LEMMA WithoutCorrectionType ==
  ASSUME NEW m \in Command
  PROVE  /\ WithoutCorrection(m) \in Command
         /\ WithoutCorrection(m).signal = m.signal /\ WithoutCorrection(m).dir = m.dir
  BY DEF WithoutCorrection, Command

(***************************************************************************)
(* Initial states                                                          *)
(***************************************************************************)
\* The ramp of a task thread that has none
LEMMA NoRampType == NoRamp \in Ramps /\ UnitRamp(NoRamp) /\ NoRamp.i = 1
  BY DEF NoRamp, Ramps, UnitRamp, Dist

\* The initial state is well typed, whatever the configured speeds.
LEMMA InitTypes == Init => TypeOK
  BY SpeedsAssumption, SizesAssumption, NoRampType
  DEF Init, TypeOK, TaskPoints, ClientPoints, MotorDirs

\* The axis starts at rest, as the constructor leaves it (Axis.cpp:16-41).
LEMMA InitInv == Init => IInv
<1> SUFFICES ASSUME Init PROVE IInv
  OBVIOUS
<1>1. TypeOK
  BY InitTypes
<1>2. RampInv
  BY NoRampType DEF Init, RampInv
<1>3. MotionInv
  BY DEF Init, MotionInv, Resting, SlewPoints, SlewWaits, TrackPoints, Guiding,
         GuideRestoresTracking
<1>4. ClientInv
  BY NoCmdIsNone DEF Init, ClientInv
<1> QED BY <1>1, <1>2, <1>3, <1>4 DEF IInv

(***************************************************************************)
(* The steps of the task thread                                            *)
(***************************************************************************)
\* The steps that set or follow a ramp
RampAction == BeginLongSlew \/ AccelStep \/ SpeedChange \/ SpeedChangeStep
              \/ BeginDecel \/ DecelStep

\* The steps that set or follow a ramp keep the invariant of ramps, leave the
\* motor a positive speed, and once it runs move that by at most one unit.
LEMMA RampSteps ==
  ASSUME IInv, RampAction
  PROVE  /\ RampInv' /\ currentSpeed' \in Nat /\ currentSpeed' >= 1
         /\ pc # "dispatch" => Dist(currentSpeed, currentSpeed') <= 1
<1>0. /\ currentSpeed \in Nat /\ slewSpeed \in Nat \ {0} /\ UnitRamp(ramp) /\ ramp.i >= 1
      /\ pc = "decel" => ramp.from = 0
      /\ pc \in {"accel", "ramp", "decel"} =>
           ramp.to >= 1 /\ currentSpeed = RampSpeed(ramp)
      /\ pc \in {"accel", "cruise", "ramp", "decel", "stop"} => currentSpeed >= 1
  BY DEF IInv, TypeOK, RampInv, MotionInv, SlewWaits
<1> DEFINE NewRamp(r) == /\ UnitRamp(r) /\ r.i >= 1 /\ r.to >= 1
                         /\ pc' = "decel" => r.from = 0
                         /\ ramp' = r /\ currentSpeed' = RampSpeed(r)
<1>1. ASSUME NEW r, NewRamp(r)
      PROVE  RampInv' /\ currentSpeed' \in Nat /\ currentSpeed' >= 1
  BY <1>1, RampSpeeds DEF RampInv
<1>2. CASE BeginLongSlew
  <2> DEFINE from == IF status = "INERTIAL" THEN currentSpeed ELSE 0
  <2>1. PICK endSpeed \in Nat \ {0} :
          ramp' = AccelRamp(from, endSpeed) /\ currentSpeed' = RampSpeed(AccelRamp(from, endSpeed))
    BY <1>2, <1>0 DEF BeginLongSlew
  <2>2. AccelRamp(from, endSpeed).to = endSpeed
    BY DEF AccelRamp
  <2>3. NewRamp(AccelRamp(from, endSpeed)) /\ pc = "dispatch"
    BY <1>2, <1>0, <2>1, <2>2, RampsAreUnit DEF BeginLongSlew, EnterSlew
  <2> QED BY <2>3, <1>1
<1>3. CASE AccelStep \/ SpeedChangeStep
  <2> DEFINE r == [ramp EXCEPT !.i = @ + 1]
  <2>1. /\ ramp.i < ramp.steps /\ ramp' = r /\ currentSpeed' = RampSpeed(r)
        /\ pc' = pc /\ pc \in {"accel", "ramp"}
    BY <1>3 DEF AccelStep, SpeedChangeStep, RampStep
  <2>2. UnitRamp(r) /\ r.i >= 1 /\ r.to = ramp.to /\ Dist(RampSpeed(ramp), RampSpeed(r)) <= 1
    BY <1>0, <2>1, NextRampStep
  <2>3. NewRamp(r)
    BY <1>0, <2>1, <2>2
  <2> QED BY <1>0, <2>1, <2>2, <2>3, <1>1
<1>4. CASE SpeedChange
  <2> DEFINE r == SpeedRamp(currentSpeed, slewSpeed)
  <2>1. ramp' = r /\ currentSpeed' = RampSpeed(r) /\ pc = "cruise" /\ pc' = "ramp"
    BY <1>4 DEF SpeedChange
  <2>2. r.to = slewSpeed /\ Dist(currentSpeed, RampSpeed(r)) <= 1
    BY <1>0 DEF SpeedRamp, RampSpeed, Dist, Max1
  <2>3. NewRamp(r)
    BY <1>0, <2>1, <2>2, RampsAreUnit
  <2> QED BY <2>1, <2>2, <2>3, <1>1
<1>5. CASE BeginDecel
  <2> DEFINE r == DecelRamp(currentSpeed)
  <2>1. pc = "stop" /\ r.to = currentSpeed /\ r.from = 0 /\ UnitRamp(r)
    BY <1>5, <1>0, RampsAreUnit DEF BeginDecel, DecelRamp
  <2>2. CASE r.i >= 1
    <3>1. ramp' = r /\ currentSpeed' = RampSpeed(r) /\ pc' = "decel"
      BY <1>5, <2>2 DEF BeginDecel
    <3>2. Dist(currentSpeed, RampSpeed(r)) <= 1
      BY <1>0, <2>2 DEF DecelRamp, RampSpeed, Dist, Max1
    <3>3. NewRamp(r)
      BY <1>0, <2>1, <2>2, <3>1
    <3> QED BY <3>1, <3>2, <3>3, <1>1
  <2>3. CASE ~(r.i >= 1)
    <3>1. ramp' = ramp /\ currentSpeed' = currentSpeed /\ pc' = "emerge_stop"
      BY <1>5, <2>3 DEF BeginDecel
    <3> QED BY <1>0, <2>1, <3>1 DEF RampInv, Dist
  <2> QED BY <2>2, <2>3
<1>6. CASE DecelStep
  <2> DEFINE r == [ramp EXCEPT !.i = @ - 1]
  <2>1. pc = "decel"
    BY <1>6 DEF DecelStep
  <2>2. ramp.i \in Nat /\ r.i = ramp.i - 1
    BY <1>0 DEF UnitRamp
  <2>3. CASE r.i >= 1
    <3>1. ramp' = r /\ currentSpeed' = RampSpeed(r) /\ pc' = "decel"
      BY <1>6, <2>3 DEF DecelStep
    <3>2. /\ UnitRamp(r) /\ r.i >= 1 /\ r.to = ramp.to /\ r.from = ramp.from
          /\ Dist(RampSpeed(ramp), RampSpeed(r)) <= 1
      BY <1>0, <2>1, <2>2, <2>3, PrevRampStep
    <3>3. NewRamp(r)
      BY <1>0, <2>1, <3>1, <3>2
    <3> QED BY <1>0, <2>1, <3>1, <3>2, <3>3, <1>1
  <2>4. CASE ~(r.i >= 1)
    <3>1. ramp' = NoRamp /\ currentSpeed' = currentSpeed /\ pc' = "emerge_stop"
      BY <1>6, <2>4 DEF DecelStep
    <3> QED BY <1>0, <2>1, <3>1, NoRampType DEF RampInv, Dist
  <2> QED BY <2>3, <2>4
<1> QED BY <1>2, <1>3, <1>4, <1>5, <1>6 DEF RampAction

\* No step of Axis::task, slew or track breaks a type.
LEMMA TaskTypes ==
  ASSUME IInv, Task
  PROVE  TypeOK'
<1> USE DEF TypeOK
<1>0. callersUnchanged /\ TypeOK /\ RampInv /\ MotionInv
  BY DEF Task, IInv
<1>r. ramp \in Ramps /\ UnitRamp(ramp) /\ NoRamp \in Ramps
  BY <1>0, NoRampType, RampSpeeds DEF RampInv
<1>1. CASE Fetch
  BY <1>1, <1>0, <1>r DEF Fetch, TaskPoints
<1>2. CASE Reject
  BY <1>2, <1>0, <1>r DEF Reject, Return, TaskPoints
<1>3. CASE SkipSlew
  BY <1>3, <1>0, <1>r DEF SkipSlew, Return, TaskPoints
<1>4. CASE BeginShortSlew
  <2>1. cmd.dir \in {"POSITIVE", "NEGATIVE"}
    BY <1>4, <1>0, CommandFields DEF BeginShortSlew, EnterSlew
  <2> QED BY <1>4, <1>0, <1>r, <2>1 DEF BeginShortSlew, EnterSlew, AfterMotion, TaskPoints
<1>5. CASE BeginLongSlew
  <2>1. cmd.dir \in {"POSITIVE", "NEGATIVE"}
    BY <1>5, <1>0, CommandFields DEF BeginLongSlew, EnterSlew
  <2>2. ramp' \in Ramps /\ currentSpeed' \in Nat
    BY <1>5, RampSteps, RampSpeeds DEF RampAction, RampInv
  <2>3. waitMs' \in Int
    BY <1>5, TimesAssumption DEF BeginLongSlew
  <2>4. motor' \in MotorDirs \cup {"idle"}
    BY <1>5, <1>0 DEF BeginLongSlew, Started, MotorFor, MotorDirs
  <2> QED BY <1>5, <1>0, <1>r, <2>1, <2>2, <2>3, <2>4
  DEF BeginLongSlew, EnterSlew, TaskPoints
<1>6. CASE AccelStep
  <2>1. ramp' \in Ramps /\ currentSpeed' \in Nat
    BY <1>6, <1>0, <1>r, NextRampStep, RampSpeeds DEF AccelStep, RampStep, RampInv
  <2> QED BY <1>6, <1>0, <1>r, <2>1 DEF AccelStep, RampStep
<1>7. CASE AccelDone
  BY <1>7, <1>0, <1>r DEF AccelDone, TaskPoints
<1>8. CASE AccelHalted
  <2>1. cmd \in Command
    BY <1>8, <1>0, CommandFields DEF AccelHalted, MotionInv, SlewPoints, SlewWaits, IsSlew
  <2>2. cmd' \in Command
    BY <1>8, <2>1, WithoutCorrectionType DEF AccelHalted, Halt
  <2> QED BY <1>8, <1>0, <1>r, <2>2 DEF AccelHalted, Halt, TaskPoints
<1>9. CASE CruiseTimeout
  BY <1>9, <1>0, <1>r DEF CruiseTimeout, TaskPoints
<1>10. CASE CruiseDone
  BY <1>10, <1>0, <1>r DEF CruiseDone, TaskPoints
<1>11. CASE CruiseHalted
  <2>1. cmd \in Command
    BY <1>11, <1>0, CommandFields DEF CruiseHalted, MotionInv, SlewPoints, SlewWaits, IsSlew
  <2>2. cmd' \in Command
    BY <1>11, <2>1, WithoutCorrectionType DEF CruiseHalted, Halt
  <2> QED BY <1>11, <1>0, <1>r, <2>2 DEF CruiseHalted, Halt, TaskPoints
<1>12. CASE SpeedChange
  <2>1. ramp' \in Ramps /\ currentSpeed' \in Nat
    BY <1>12, RampSteps, RampSpeeds DEF RampAction, RampInv
  <2>2. pc' \in TaskPoints
    BY <1>12, <1>0 DEF SpeedChange, TaskPoints
  <2> QED BY <1>12, <1>0, <1>r, <2>1, <2>2 DEF SpeedChange
<1>13. CASE SpeedChangeStep
  <2>1. ramp' \in Ramps /\ currentSpeed' \in Nat
    BY <1>13, <1>0, <1>r, NextRampStep, RampSpeeds DEF SpeedChangeStep, RampStep, RampInv
  <2> QED BY <1>13, <1>0, <1>r, <2>1 DEF SpeedChangeStep, RampStep
<1>14. CASE SpeedChangeDone
  BY <1>14, <1>0, <1>r DEF SpeedChangeDone, TaskPoints
<1>15. CASE RampHalted
  <2>1. cmd \in Command
    BY <1>15, <1>0, CommandFields DEF RampHalted, MotionInv, SlewPoints, SlewWaits, IsSlew
  <2>2. cmd' \in Command
    BY <1>15, <2>1, WithoutCorrectionType DEF RampHalted, Halt
  <2> QED BY <1>15, <1>0, <1>r, <2>2 DEF RampHalted, Halt, TaskPoints
<1>16. CASE BeginDecel
  <2>1. ramp' \in Ramps /\ currentSpeed' \in Nat
    BY <1>16, RampSteps, RampSpeeds DEF RampAction, RampInv
  <2>2. pc' \in TaskPoints
    BY <1>16, <1>0 DEF BeginDecel, TaskPoints
  <2> QED BY <1>16, <1>0, <1>r, <2>1, <2>2 DEF BeginDecel
<1>17. CASE DecelStep
  <2>1. ramp' \in Ramps /\ currentSpeed' \in Nat
    BY <1>17, RampSteps, RampSpeeds DEF RampAction, RampInv
  <2>2. pc' \in TaskPoints
    BY <1>17, <1>0 DEF DecelStep, TaskPoints
  <2> QED BY <1>17, <1>0, <1>r, <2>1, <2>2 DEF DecelStep
<1>18. CASE DecelHalted
  <2>1. cmd \in Command
    BY <1>18, <1>0, CommandFields DEF DecelHalted, MotionInv, SlewPoints, SlewWaits, IsSlew
  <2>2. cmd' \in Command
    BY <1>18, <2>1, WithoutCorrectionType DEF DecelHalted
  <2> QED BY <1>18, <1>0, <1>r, <2>2 DEF DecelHalted, TaskPoints
<1>19. CASE KeepSpeed
  BY <1>19, <1>0, <1>r DEF KeepSpeed, Return, TaskPoints
<1>20. CASE PullOver
  BY <1>20, <1>0, <1>r DEF PullOver, AfterMotion, TaskPoints, MotorDirs
<1>21. CASE BeginCorrection
  BY <1>21, <1>0, <1>r DEF BeginCorrection, TaskPoints
<1>22. CASE CorrectionTooLarge
  <2>1. pool' \in Nat /\ taskQueue' \in Seq(Command)
    BY <1>22, <1>0 DEF CorrectionTooLarge
  <2> QED BY <1>22, <1>0, <1>r, <2>1 DEF CorrectionTooLarge, Return, TaskPoints, Flags
<1>23. CASE Correct
  BY <1>23, <1>0, <1>r, SpeedsAssumption DEF Correct, Started, TaskPoints, MotorDirs
<1>24. CASE CorrectionDone
  BY <1>24, <1>0, <1>r, SpeedsAssumption DEF CorrectionDone, TaskPoints
<1>25. CASE Corrected
  BY <1>25, <1>0, <1>r DEF Corrected, TaskPoints, MotorDirs
<1>26. CASE CorrectionHalted
  BY <1>26, <1>0, <1>r DEF CorrectionHalted, TaskPoints, MotorDirs
<1>27. CASE Finish
  BY <1>27, <1>0, <1>r DEF Finish, Return, TaskPoints
<1>28. CASE BeginTrack
  <2>1. trackSpeed # 0 /\ cmd.dir # "STOP" => cmd.dir \in {"POSITIVE", "NEGATIVE"}
    BY <1>0, CommandFields
  <2> QED BY <1>28, <1>0, <1>r, <2>1
  DEF BeginTrack, Started, MotorFor, MotorDirs, TaskPoints
<1>29. CASE TrackHalted
  BY <1>29, <1>0, <1>r DEF TrackHalted, TaskPoints
<1>30. CASE TrackGuide
  BY <1>30, <1>0, <1>r DEF TrackGuide, TaskPoints
<1>31. CASE BeginGuide
  BY <1>31, <1>0, <1>r
  DEF BeginGuide, Started, MotorFor, Opposite, GuidedSpeed, TaskPoints, MotorDirs
<1>32. CASE SkipGuide
  BY <1>32, <1>0, <1>r DEF SkipGuide, TaskPoints
<1>33. CASE GuideDone
  BY <1>33, <1>0, <1>r DEF GuideDone, TaskPoints
<1>34. CASE EndGuide
  BY <1>34, <1>0, <1>r DEF EndGuide, MotorFor, TaskPoints, MotorDirs
<1>35. CASE GuideHalted
  BY <1>35, <1>0, <1>r DEF GuideHalted, TaskPoints
<1>36. CASE EndTrack
  BY <1>36, <1>0, <1>r DEF EndTrack, Return, TaskPoints, MotorDirs
<1> QED BY <1>1, <1>2, <1>3, <1>4, <1>5, <1>6, <1>7, <1>8, <1>9, <1>10, <1>11,
       <1>12, <1>13, <1>14, <1>15, <1>16, <1>17, <1>18, <1>19, <1>20, <1>21,
       <1>22, <1>23, <1>24, <1>25, <1>26, <1>27, <1>28, <1>29, <1>30, <1>31,
       <1>32, <1>33, <1>34, <1>35, <1>36 DEF Task, Slew, Track

\* Every step of Axis::task, slew and track keeps motor, speed, status and mode
\* as the point it ends at requires.
LEMMA TaskMotion ==
  ASSUME IInv, Task
  PROVE  RampInv' /\ MotionInv'
<1>0. TypeOK /\ RampInv /\ MotionInv
  BY DEF IInv
<1> USE DEF MotionInv, SlewPoints, SlewWaits, TrackPoints, Guiding
<1>1. CASE Fetch
  <2>1. RampInv'
    BY <1>1, <1>0, NoRampType DEF RampInv, Fetch
  <2>2. MotionInv'
    BY <1>1, <1>0, <2>1 DEF TypeOK, Fetch, Resting, IsSlew
  <2> QED BY <2>1, <2>2
<1>2. CASE Reject
  <2>1. RampInv'
    BY <1>2, <1>0, NoRampType DEF RampInv, Reject, Return, Accepted
  <2>2. MotionInv'
    BY <1>2, <1>0, <2>1 DEF TypeOK, Reject, Return, Resting, Accepted, IsSlew
  <2> QED BY <2>1, <2>2
<1>3. CASE SkipSlew
  <2>1. RampInv'
    BY <1>3, <1>0, NoRampType DEF RampInv, SkipSlew, Return, Accepted, IsSlew, Indefinite
  <2>2. MotionInv'
    BY <1>3, <1>0, <2>1 DEF TypeOK, SkipSlew, Return, Resting, Accepted, IsSlew, Indefinite
  <2> QED BY <2>1, <2>2
<1>4. CASE BeginShortSlew
  <2>1. RampInv'
    BY <1>4, <1>0, NoRampType
    DEF RampInv, BeginShortSlew, EnterSlew, AfterMotion, Accepted, IsSlew, Indefinite
  <2>2. MotionInv'
    BY <1>4, <1>0, <2>1
    DEF TypeOK, BeginShortSlew, EnterSlew, AfterMotion, Resting, Accepted, IsSlew,
        Indefinite
  <2> QED BY <2>1, <2>2
<1>5. CASE BeginLongSlew
  <2>1. RampInv' /\ currentSpeed' >= 1
    BY <1>5, RampSteps DEF RampAction
  <2>2. MotionInv'
    BY <1>5, <1>0, <2>1
    DEF TypeOK, BeginLongSlew, EnterSlew, Started, MotorFor, Resting, Accepted,
        IsSlew, Indefinite, MotorDirs
  <2> QED BY <2>1, <2>2
<1>6. CASE AccelStep
  <2>1. RampInv' /\ currentSpeed' >= 1
    BY <1>6, RampSteps DEF RampAction
  <2>2. MotionInv'
    BY <1>6, <1>0, <2>1 DEF TypeOK, AccelStep, RampStep, IsSlew
  <2> QED BY <2>1, <2>2
<1>7. CASE AccelDone
  <2>1. RampInv'
    BY <1>7, <1>0, NoRampType DEF RampInv, AccelDone
  <2>2. MotionInv'
    BY <1>7, <1>0, <2>1 DEF TypeOK, AccelDone, IsSlew
  <2> QED BY <2>1, <2>2
<1>8. CASE AccelHalted
  <2>1. RampInv'
    BY <1>8, <1>0, NoRampType DEF RampInv, AccelHalted, Halt
  <2>2. cmd'.signal = cmd.signal
    BY <1>8, <1>0, CommandFields, WithoutCorrectionType
    DEF TypeOK, IsSlew, AccelHalted, Halt
  <2>3. MotionInv'
    BY <1>8, <1>0, <2>2 DEF TypeOK, IsSlew, AccelHalted, Halt
  <2> QED BY <2>1, <2>3
<1>9. CASE CruiseTimeout
  <2>1. RampInv'
    BY <1>9, <1>0, NoRampType DEF RampInv, CruiseTimeout
  <2>2. MotionInv'
    BY <1>9, <1>0, <2>1 DEF TypeOK, CruiseTimeout, IsSlew
  <2> QED BY <2>1, <2>2
<1>10. CASE CruiseDone
  <2>1. RampInv'
    BY <1>10, <1>0, NoRampType DEF RampInv, CruiseDone
  <2>2. MotionInv'
    BY <1>10, <1>0, <2>1 DEF TypeOK, CruiseDone, IsSlew
  <2> QED BY <2>1, <2>2
<1>11. CASE CruiseHalted
  <2>1. RampInv'
    BY <1>11, <1>0, NoRampType DEF RampInv, CruiseHalted, Halt
  <2>2. cmd'.signal = cmd.signal
    BY <1>11, <1>0, CommandFields, WithoutCorrectionType
    DEF TypeOK, IsSlew, CruiseHalted, Halt
  <2>3. MotionInv'
    BY <1>11, <1>0, <2>2 DEF TypeOK, IsSlew, CruiseHalted, Halt
  <2> QED BY <2>1, <2>3
<1>12. CASE SpeedChange
  <2>1. RampInv' /\ currentSpeed' >= 1
    BY <1>12, RampSteps DEF RampAction
  <2>2. MotionInv'
    BY <1>12, <1>0, <2>1 DEF TypeOK, SpeedChange, IsSlew
  <2> QED BY <2>1, <2>2
<1>13. CASE SpeedChangeStep
  <2>1. RampInv' /\ currentSpeed' >= 1
    BY <1>13, RampSteps DEF RampAction
  <2>2. MotionInv'
    BY <1>13, <1>0, <2>1 DEF TypeOK, SpeedChangeStep, RampStep, IsSlew
  <2> QED BY <2>1, <2>2
<1>14. CASE SpeedChangeDone
  <2>1. RampInv'
    BY <1>14, <1>0, NoRampType DEF RampInv, SpeedChangeDone
  <2>2. MotionInv'
    BY <1>14, <1>0, <2>1 DEF TypeOK, SpeedChangeDone, IsSlew
  <2> QED BY <2>1, <2>2
<1>15. CASE RampHalted
  <2>1. RampInv'
    BY <1>15, <1>0, NoRampType DEF RampInv, RampHalted, Halt
  <2>2. cmd'.signal = cmd.signal
    BY <1>15, <1>0, CommandFields, WithoutCorrectionType
    DEF TypeOK, IsSlew, RampHalted, Halt
  <2>3. MotionInv'
    BY <1>15, <1>0, <2>2 DEF TypeOK, IsSlew, RampHalted, Halt
  <2> QED BY <2>1, <2>3
<1>16. CASE BeginDecel
  <2>1. RampInv' /\ currentSpeed' >= 1
    BY <1>16, RampSteps DEF RampAction
  <2>2. MotionInv'
    BY <1>16, <1>0, <2>1 DEF TypeOK, BeginDecel, IsSlew
  <2> QED BY <2>1, <2>2
<1>17. CASE DecelStep
  <2>1. RampInv' /\ currentSpeed' >= 1
    BY <1>17, RampSteps DEF RampAction
  <2>2. MotionInv'
    BY <1>17, <1>0, <2>1 DEF TypeOK, DecelStep, IsSlew
  <2> QED BY <2>1, <2>2
<1>18. CASE DecelHalted
  <2>1. RampInv'
    BY <1>18, <1>0, NoRampType DEF RampInv, DecelHalted
  <2>2. cmd'.signal = cmd.signal
    BY <1>18, <1>0, CommandFields, WithoutCorrectionType DEF TypeOK, IsSlew, DecelHalted
  <2>3. MotionInv'
    BY <1>18, <1>0, <2>2 DEF TypeOK, IsSlew, DecelHalted
  <2> QED BY <2>1, <2>3
<1>19. CASE KeepSpeed
  <2>1. RampInv'
    BY <1>19, <1>0, NoRampType DEF RampInv, KeepSpeed, Return
  <2>2. MotionInv'
    BY <1>19, <1>0, <2>1 DEF TypeOK, KeepSpeed, Return, Resting, IsSlew
  <2> QED BY <2>1, <2>2
<1>20. CASE PullOver
  <2>1. RampInv'
    BY <1>20, <1>0, NoRampType DEF RampInv, PullOver, AfterMotion
  <2>2. MotionInv'
    BY <1>20, <1>0, <2>1 DEF TypeOK, PullOver, AfterMotion, IsSlew
  <2> QED BY <2>1, <2>2
<1>21. CASE BeginCorrection
  <2>1. RampInv'
    BY <1>21, <1>0, NoRampType DEF RampInv, BeginCorrection
  <2>2. MotionInv'
    BY <1>21, <1>0, <2>1 DEF TypeOK, BeginCorrection, IsSlew
  <2> QED BY <2>1, <2>2
<1>22. CASE CorrectionTooLarge
  <2>1. RampInv'
    BY <1>22, <1>0, NoRampType DEF RampInv, CorrectionTooLarge, Return
  <2>2. MotionInv'
    BY <1>22, <1>0, <2>1 DEF TypeOK, CorrectionTooLarge, Return, Resting, IsSlew
  <2> QED BY <2>1, <2>2
<1>23. CASE Correct
  <2>1. RampInv'
    BY <1>23, <1>0, NoRampType DEF RampInv, Correct, Started
  <2>2. MotionInv'
    BY <1>23, <1>0, SpeedsAssumption, <2>1 DEF TypeOK, Correct, Started, IsSlew, MotorDirs
  <2> QED BY <2>1, <2>2
<1>24. CASE CorrectionDone
  <2>1. RampInv'
    BY <1>24, <1>0, NoRampType DEF RampInv, CorrectionDone
  <2>2. MotionInv'
    BY <1>24, <1>0, <2>1 DEF TypeOK, CorrectionDone, IsSlew
  <2> QED BY <2>1, <2>2
<1>25. CASE Corrected
  <2>1. RampInv'
    BY <1>25, <1>0, NoRampType DEF RampInv, Corrected
  <2>2. MotionInv'
    BY <1>25, <1>0, <2>1 DEF TypeOK, Corrected, IsSlew
  <2> QED BY <2>1, <2>2
<1>26. CASE CorrectionHalted
  <2>1. RampInv'
    BY <1>26, <1>0, NoRampType DEF RampInv, CorrectionHalted
  <2>2. MotionInv'
    BY <1>26, <1>0, <2>1 DEF TypeOK, CorrectionHalted, IsSlew
  <2> QED BY <2>1, <2>2
<1>27. CASE Finish
  <2>1. RampInv'
    BY <1>27, <1>0, NoRampType DEF RampInv, Finish, Return
  <2>2. MotionInv'
    BY <1>27, <1>0, <2>1 DEF TypeOK, Finish, Return, Resting, IsSlew
  <2> QED BY <2>1, <2>2
<1>28. CASE BeginTrack
  <2>1. RampInv'
    BY <1>28, <1>0, NoRampType
    DEF RampInv, BeginTrack, Started, MotorFor, Accepted, Indefinite
  <2>2. MotionInv'
    BY <1>28, <1>0, <2>1
    DEF TypeOK, BeginTrack, Started, MotorFor, Resting, Accepted, Indefinite, IsSlew,
        MotorDirs
  <2> QED BY <2>1, <2>2
<1>29. CASE TrackHalted
  <2>1. RampInv'
    BY <1>29, <1>0, NoRampType DEF RampInv, TrackHalted
  <2>2. MotionInv'
    BY <1>29, <1>0, <2>1 DEF TypeOK, TrackHalted, IsSlew
  <2> QED BY <2>1, <2>2
<1>30. CASE TrackGuide
  <2>1. RampInv'
    BY <1>30, <1>0, NoRampType DEF RampInv, TrackGuide
  <2>2. MotionInv'
    BY <1>30, <1>0, <2>1 DEF TypeOK, TrackGuide, IsSlew
  <2> QED BY <2>1, <2>2
<1>31. CASE BeginGuide
  <2>1. RampInv'
    BY <1>31, <1>0, NoRampType
    DEF RampInv, BeginGuide, Started, MotorFor, Opposite, GuidedSpeed
  <2>2. MotionInv'
    BY <1>31, <1>0, <2>1
    DEF TypeOK, BeginGuide, Started, MotorFor, Opposite, GuidedSpeed, IsSlew,
        MotorDirs
  <2> QED BY <2>1, <2>2
<1>32. CASE SkipGuide
  <2>1. RampInv'
    BY <1>32, <1>0, NoRampType DEF RampInv, SkipGuide
  <2>2. MotionInv'
    BY <1>32, <1>0, <2>1 DEF TypeOK, SkipGuide, IsSlew
  <2> QED BY <2>1, <2>2
<1>33. CASE GuideDone
  <2>1. RampInv'
    BY <1>33, <1>0, NoRampType DEF RampInv, GuideDone
  <2>2. MotionInv'
    BY <1>33, <1>0, <2>1 DEF TypeOK, GuideDone, IsSlew
  <2> QED BY <2>1, <2>2
<1>34. CASE EndGuide
  <2>1. RampInv'
    BY <1>34, <1>0, NoRampType DEF RampInv, EndGuide, MotorFor
  <2>2. MotionInv'
    BY <1>34, <1>0, <2>1 DEF TypeOK, EndGuide, MotorFor, IsSlew, MotorDirs
  <2> QED BY <2>1, <2>2
<1>35. CASE GuideHalted
  <2>1. RampInv'
    BY <1>35, <1>0, NoRampType DEF RampInv, GuideHalted
  <2>2. MotionInv'
    BY <1>35, <1>0, <2>1 DEF TypeOK, GuideHalted, IsSlew
  <2> QED BY <2>1, <2>2
<1>36. CASE EndTrack
  <2>1. RampInv'
    BY <1>36, <1>0, NoRampType DEF RampInv, EndTrack, Return
  <2>2. MotionInv'
    BY <1>36, <1>0, <2>1 DEF TypeOK, EndTrack, Return, Resting, IsSlew
  <2> QED BY <2>1, <2>2
<1> QED BY <1>1, <1>2, <1>3, <1>4, <1>5, <1>6, <1>7, <1>8, <1>9, <1>10, <1>11,
       <1>12, <1>13, <1>14, <1>15, <1>16, <1>17, <1>18, <1>19, <1>20, <1>21,
       <1>22, <1>23, <1>24, <1>25, <1>26, <1>27, <1>28, <1>29, <1>30, <1>31,
       <1>32, <1>33, <1>34, <1>35, <1>36 DEF Task, Slew, Track

(***************************************************************************)
(* The steps of the clients                                                *)
(***************************************************************************)
\* No step of a call in progress breaks a type.
LEMMA ContinueTypes ==
  ASSUME TypeOK, ClientInv, NEW c \in Clients, Continue(c)
  PROVE  TypeOK'
<1> USE DEF TypeOK
<1>0. taskUnchanged
  BY DEF Continue
<1>1. CASE ClearSem(c)
  BY <1>1, <1>0 DEF ClearSem, ClientPoints
<1>2. CASE Put(c)
  <2>1. held[c] \in Command
    BY <1>2, CommandFields DEF Put, ClientInv
  <2> QED BY <1>2, <1>0, <2>1 DEF Put, ClientPoints
<1>3. CASE PutFails(c)
  BY <1>3, <1>0 DEF PutFails, ClientPoints
<1>4. CASE WaitForSlew(c)
  BY <1>4, <1>0 DEF WaitForSlew, ClientPoints
<1>5. CASE FlushGet(c)
  BY <1>5, <1>0 DEF FlushGet, ClientPoints
<1>6. CASE FlushFree(c)
  <2>1. held'[c] = NoCmd /\ held' = [held EXCEPT ![c] = NoCmd]
    BY <1>6 DEF FlushFree
  <2> QED BY <1>6, <1>0, <2>1 DEF FlushFree, ClientPoints
<1>7. CASE FlushDone(c)
  BY <1>7, <1>0 DEF FlushDone, ClientPoints, ClientInv
<1>8. CASE Signal(c)
  BY <1>8, <1>0 DEF Signal, ClientPoints, ClientInv
<1> QED BY <1>1, <1>2, <1>3, <1>4, <1>5, <1>6, <1>7, <1>8 DEF Continue

\* No method call breaks a type.
LEMMA CallTypes ==
  ASSUME TypeOK, NEW c \in Clients, Call(c)
  PROVE  TypeOK'
<1> USE DEF TypeOK
<1>0. taskUnchanged
  BY DEF Call
<1>1. ASSUME NEW m \in Requests, Alloc(c, m)
      PROVE  TypeOK'
  BY <1>1, <1>0, RequestsAssumption DEF Alloc, ClientPoints
<1>2. ASSUME NEW pulse \in Pulses, Guide(c, pulse)
      PROVE  TypeOK'
  BY <1>2, <1>0 DEF Guide, ClientPoints, Flags
<1>3. ASSUME NEW op, NEW flag \in Flags \cup {"NONE"}, StartFlush(c, op, flag)
      PROVE  TypeOK'
  BY <1>3, <1>0 DEF StartFlush, ClientPoints
<1>8. CASE Stop(c) \/ EmergencyStop(c) \/ FlushCommandQueue(c)
  BY <1>3, <1>8 DEF Stop, EmergencyStop, FlushCommandQueue, Flags
<1>4. CASE StopKeepSpeed(c)
  BY <1>4, <1>0 DEF StopKeepSpeed, Flags
<1>5. CASE SetSlewSpeed(c)
  BY <1>5, <1>0, SpeedsAssumption DEF SetSlewSpeed, ClientPoints, Flags
<1>6. CASE SetTrackSpeed(c)
  BY <1>6, <1>0, SpeedsAssumption DEF SetTrackSpeed
<1>7. CASE SetGuideSpeed(c)
  BY <1>7, <1>0, SpeedsAssumption DEF SetGuideSpeed
<1> QED BY <1>1, <1>2, <1>8, <1>4, <1>5, <1>6, <1>7 DEF Call

\* A client changes nothing that the motion depends on.
LEMMA ClientMotion ==
  ASSUME IInv, NEW c \in Clients, Call(c) \/ Continue(c)
  PROVE  RampInv' /\ MotionInv'
<1>0. RampInv /\ MotionInv
  BY DEF IInv
<1>1. taskUnchanged
  BY DEF Call, Continue
<1>2. RampInv'
  BY <1>0, <1>1 DEF RampInv
<1>3. MotionInv'
  BY <1>0, <1>1 DEF MotionInv, Resting, IsSlew
<1> QED BY <1>2, <1>3

\* The steps of a call keep what the client holds in line with the point it is at.
LEMMA ContinueClients ==
  ASSUME TypeOK, ClientInv, NEW c \in Clients, Continue(c)
  PROVE  ClientInv'
<1> USE NoCmdIsNone DEF ClientInv, TypeOK
<1>1. CASE ClearSem(c)
  BY <1>1 DEF ClearSem
<1>2. CASE Put(c)
  BY <1>2 DEF Put
<1>3. CASE PutFails(c)
  BY <1>3 DEF PutFails
<1>4. CASE WaitForSlew(c)
  BY <1>4 DEF WaitForSlew
<1>5. CASE FlushGet(c)
  BY <1>5, QueuedCommand DEF FlushGet
<1>6. CASE FlushFree(c)
  BY <1>6 DEF FlushFree
<1>7. CASE FlushDone(c)
  BY <1>7 DEF FlushDone
<1>8. CASE Signal(c)
  BY <1>8 DEF Signal
<1> QED BY <1>1, <1>2, <1>3, <1>4, <1>5, <1>6, <1>7, <1>8 DEF Continue

\* So does a new call.
LEMMA CallClients ==
  ASSUME TypeOK, ClientInv, NEW c \in Clients, Call(c)
  PROVE  ClientInv'
<1> USE DEF ClientInv, TypeOK
<1>1. ASSUME NEW m \in Requests, Alloc(c, m)
      PROVE  ClientInv'
  <2>1. m.signal # "NONE"
    BY RequestsAssumption, CommandSignal
  <2> QED BY <1>1, <2>1 DEF Alloc
<1>2. ASSUME NEW pulse \in Pulses, Guide(c, pulse)
      PROVE  ClientInv'
  BY <1>2 DEF Guide
<1>3. CASE Stop(c) \/ EmergencyStop(c) \/ FlushCommandQueue(c)
  BY <1>3 DEF Stop, EmergencyStop, FlushCommandQueue, StartFlush
<1>4. CASE StopKeepSpeed(c) \/ SetTrackSpeed(c) \/ SetGuideSpeed(c)
  BY <1>4 DEF StopKeepSpeed, SetTrackSpeed, SetGuideSpeed
<1>5. CASE SetSlewSpeed(c)
  BY <1>5 DEF SetSlewSpeed
<1> QED BY <1>1, <1>2, <1>3, <1>4, <1>5 DEF Call

(***************************************************************************)
(* The invariant is inductive                                              *)
(***************************************************************************)
\* The invariant survives every step.
LEMMA NextInv == IInv /\ [Next]_vars => IInv'
<1> SUFFICES ASSUME IInv, [Next]_vars PROVE IInv'
  OBVIOUS
<1>1. CASE Task
  <2>1. ClientInv'
    BY <1>1 DEF Task, IInv, ClientInv
  <2> QED BY <1>1, <2>1, TaskTypes, TaskMotion DEF IInv
<1>2. ASSUME NEW c \in Clients, Call(c) \/ Continue(c)
      PROVE  IInv'
  BY <1>2, ContinueTypes, CallTypes, ClientMotion, ContinueClients, CallClients DEF IInv
<1>3. CASE UNCHANGED vars
  BY <1>3 DEF vars, IInv, TypeOK, RampInv, MotionInv, ClientInv, Resting, IsSlew
<1> QED BY <1>1, <1>2, <1>3 DEF Next

\* The invariant holds in every state the axis can reach.
THEOREM Invariant == Spec => []IInv
<1>1. Init => IInv
  BY InitInv
<1>2. IInv /\ [Next]_vars => IInv'
  BY NextInv
<1> QED BY <1>1, <1>2, PTL DEF Spec

\* Every variable keeps its type: the ramps never produce a speed that is not
\* a natural number, and pool never goes below 0.
THEOREM TypeCorrect == Spec => []TypeOK
<1>1. IInv => TypeOK
  BY DEF IInv
<1> QED BY <1>1, Invariant, PTL

(***************************************************************************)
(* Safety                                                                  *)
(***************************************************************************)
\* AXIS_STOPPED means a motor at rest (Axis.cpp:508-514, 667-671), whatever
\* the calls that ended the slew or the track.
THEOREM Still == Spec => []StoppedMeansStill
<1>1. IInv => StoppedMeansStill
  BY DEF IInv, TypeOK, TaskPoints, MotionInv, SlewPoints, SlewWaits, TrackPoints,
         Guiding, Resting, StoppedMeansStill
<1> QED BY <1>1, Invariant, PTL

\* Axis::task comes back to its queue stopped, or inertial with the motor
\* running, and in no other state.
THEOREM IdleStatus == Spec => []IdleTaskStatus
<1>1. IInv => IdleTaskStatus
  BY DEF IInv, TypeOK, MotionInv, Resting, IdleTaskStatus
<1> QED BY <1>1, Invariant, PTL

\* The blocks in the hands of clients, for any step that lets one client
\* take a block or give one back.
LEMMA HoldersChange ==
  ASSUME TypeOK, IsFiniteSet(Clients), NEW c \in Clients, NEW m,
         held' = [held EXCEPT ![c] = m]
  PROVE  /\ IsFiniteSet(Holders) /\ Cardinality(Holders) \in Nat
         /\ held[c] = NoCmd /\ m # NoCmd =>
              Cardinality(Holders') = Cardinality(Holders) + 1
         /\ held[c] # NoCmd /\ m = NoCmd =>
              Cardinality(Holders') = Cardinality(Holders) - 1
<1>0. held \in [Clients -> Command \cup {NoCmd}]
  BY DEF TypeOK
<1>1. IsFiniteSet(Holders) /\ Cardinality(Holders) \in Nat
  BY FS_Subset, FS_CardinalityType DEF Holders
<1>2. CASE held[c] = NoCmd /\ m # NoCmd
  <2>1. Holders' = Holders \cup {c} /\ c \notin Holders
    BY <1>0, <1>2 DEF Holders
  <2> QED BY <1>1, <1>2, <2>1, FS_AddElement
<1>3. CASE held[c] # NoCmd /\ m = NoCmd
  <2>1. Holders' = Holders \ {c} /\ c \in Holders
    BY <1>0, <1>3 DEF Holders
  <2> QED BY <1>1, <1>3, <2>1, FS_RemoveElement
<1> QED BY <1>1, <1>2, <1>3

\* Who holds a block: a client between taking it and passing it on
LEMMA HolderPoints ==
  ASSUME IInv, NEW c \in Clients
  PROVE  held[c] # NoCmd <=> cpc[c] \in {"clear", "put", "free"}
  BY CommandFields, CommandSignal, NoCmdIsNone DEF IInv, TypeOK, ClientInv

\* No step creates or loses a block of task_pool.
LEMMA ConservedStep == IInv /\ PoolConserved /\ [Next]_vars => PoolConserved'
<1> SUFFICES ASSUME IInv, PoolConserved, [Next]_vars PROVE PoolConserved'
  OBVIOUS
<1>0. /\ taskQueue \in Seq(Command) /\ pool \in Nat /\ TypeOK
      /\ pool + Len(taskQueue) + Cardinality(Holders) = PoolSize
      /\ IsFiniteSet(Holders) /\ Cardinality(Holders) \in Nat
  BY ClientsAssumption, FS_Subset, FS_CardinalityType
  DEF IInv, TypeOK, PoolConserved, Holders
<1>1. ASSUME UNCHANGED <<taskQueue, pool, held>>
      PROVE  PoolConserved'
  BY <1>1, <1>0 DEF PoolConserved, Holders
<1>2. CASE Fetch /\ callersUnchanged
  <2>1. Len(taskQueue') = Len(taskQueue) - 1 /\ pool' = pool + 1 /\ Holders' = Holders
    BY <1>2, <1>0, QueuedCommand DEF Fetch, Holders
  <2> QED BY <1>0, <2>1 DEF PoolConserved
<1>3. CASE CorrectionTooLarge /\ callersUnchanged
  <2>1. Len(taskQueue') = 0 /\ pool' = pool + Len(taskQueue) /\ Holders' = Holders
    BY <1>3, <1>0 DEF CorrectionTooLarge, Holders
  <2> QED BY <1>0, <2>1 DEF PoolConserved
<1>4. CASE Task /\ ~Fetch /\ ~CorrectionTooLarge
  BY <1>4, <1>1 DEF Task, Slew, Track, Reject, SkipSlew, BeginShortSlew, BeginLongSlew,
     EnterSlew, AccelStep, RampStep, AccelDone, AccelHalted, Halt, CruiseTimeout, CruiseDone,
     CruiseHalted, SpeedChange, SpeedChangeStep, SpeedChangeDone, RampHalted, BeginDecel,
     DecelStep, DecelHalted, KeepSpeed, PullOver, BeginCorrection, Correct, CorrectionDone,
     Corrected, CorrectionHalted, Finish, BeginTrack, TrackHalted, TrackGuide, BeginGuide,
     SkipGuide, GuideDone, EndGuide, GuideHalted, EndTrack
<1>5. ASSUME NEW c \in Clients, NEW m \in Requests, Alloc(c, m)
      PROVE  PoolConserved'
  <2>1. held[c] = NoCmd /\ m # NoCmd
    BY <1>5, HolderPoints, CommandSignal, RequestsAssumption DEF Alloc
  <2>2. Cardinality(Holders') = Cardinality(Holders) + 1
    BY <1>0, <1>5, <2>1, ClientsAssumption, HoldersChange DEF Alloc
  <2> QED BY <1>0, <1>5, <2>2 DEF Alloc, PoolConserved
<1>6. ASSUME NEW c \in Clients, Put(c)
      PROVE  PoolConserved'
  <2>1. held[c] # NoCmd
    BY <1>6, HolderPoints DEF Put
  <2>2. Cardinality(Holders') = Cardinality(Holders) - 1
    BY <1>0, <1>6, <2>1, ClientsAssumption, HoldersChange DEF Put
  <2>3. held[c] \in Command
    BY <1>0, <2>1 DEF TypeOK
  <2>4. Len(taskQueue') = Len(taskQueue) + 1 /\ pool' = pool
    BY <1>0, <1>6, <2>3 DEF Put
  <2> QED BY <1>0, <2>2, <2>4 DEF PoolConserved
<1>7. ASSUME NEW c \in Clients, PutFails(c) \/ FlushFree(c)
      PROVE  PoolConserved'
  <2>1. held[c] # NoCmd
    BY <1>7, HolderPoints DEF PutFails, FlushFree
  <2>2. Cardinality(Holders') = Cardinality(Holders) - 1
    BY <1>0, <1>7, <2>1, ClientsAssumption, HoldersChange DEF PutFails, FlushFree
  <2> QED BY <1>0, <1>7, <2>2 DEF PutFails, FlushFree, PoolConserved
<1>8. ASSUME NEW c \in Clients, FlushGet(c)
      PROVE  PoolConserved'
  <2>1. held[c] = NoCmd
    BY <1>8, HolderPoints DEF FlushGet
  <2>2. Head(taskQueue) # NoCmd /\ Len(taskQueue') = Len(taskQueue) - 1 /\ pool' = pool
    BY <1>0, <1>8, QueuedCommand, CommandSignal DEF FlushGet
  <2>3. Cardinality(Holders') = Cardinality(Holders) + 1
    BY <1>0, <1>8, <2>1, <2>2, ClientsAssumption, HoldersChange DEF FlushGet
  <2> QED BY <1>0, <2>2, <2>3 DEF PoolConserved
<1>9. ASSUME NEW c \in Clients, Call(c) \/ Continue(c)
      PROVE  PoolConserved'
  BY <1>9, <1>1, <1>5, <1>6, <1>7, <1>8
  DEF Call, Continue, Guide, Stop, EmergencyStop, FlushCommandQueue, StartFlush,
      StopKeepSpeed, SetSlewSpeed, SetTrackSpeed, SetGuideSpeed, ClearSem, WaitForSlew,
      FlushDone, Signal
<1>10. CASE Task
  BY <1>10, <1>2, <1>3, <1>4 DEF Task
<1> QED BY <1>1, <1>9, <1>10 DEF Next, vars

\* No message is lost or freed twice, for any number of clients that post,
\* flush and stop while the task thread fetches (Axis.h:86-106, 212-222).
THEOREM Conserved == Spec => []PoolConserved
<1>1. Init => PoolConserved
  <2> SUFFICES ASSUME Init PROVE PoolConserved
    OBVIOUS
  <2>1. Holders = {}
    BY DEF Init, Holders
  <2>2. Cardinality(Holders) = 0
    BY <2>1, FS_EmptySet
  <2> QED BY <2>2, SizesAssumption DEF Init, PoolConserved
<1> QED BY <1>1, ConservedStep, Invariant, PTL DEF Spec

\* With a queue of at least as many slots as the pool has blocks, as in Axis.h
\* (both 16), a post that got a block is never refused.
THEOREM PutsSucceed == Spec => []PutNeverFails
<1>1. IInv /\ PoolConserved => PutNeverFails
  <2> SUFFICES ASSUME IInv, PoolConserved, PoolSize <= QueueSize,
                      NEW c \in Clients, cpc[c] = "put"
               PROVE  Len(taskQueue) < QueueSize
    BY DEF PutNeverFails
  <2>1. c \in Holders
    BY HolderPoints DEF Holders
  <2>2. IsFiniteSet(Holders) /\ Cardinality(Holders) \in Nat /\ Cardinality(Holders) # 0
    BY <2>1, ClientsAssumption, FS_Subset, FS_CardinalityType, FS_EmptySet DEF Holders
  <2>3. pool \in Nat /\ Len(taskQueue) \in Nat
    BY DEF IInv, TypeOK
  <2> QED BY <2>2, <2>3, SizesAssumption DEF PoolConserved
<1> QED BY <1>1, Conserved, Invariant, PTL

(***************************************************************************)
(* No signal is lost                                                       *)
(***************************************************************************)
\* guide queues and then signals; the task clears the flag and then reads.
LEMMA PulseStep == IInv /\ NoLostGuidePulse /\ [Next]_vars => NoLostGuidePulse'
<1> SUFFICES ASSUME IInv, NoLostGuidePulse, [Next]_vars PROVE NoLostGuidePulse'
  OBVIOUS
<1>0. ClientInv /\ after \in [Clients -> Flags \cup {"NONE"}] /\ cpc \in [Clients -> ClientPoints]
  BY DEF IInv, TypeOK
<1>1. ASSUME UNCHANGED <<pc, guideQueue>>, flags \subseteq flags',
             \A c \in Clients : after[c] = "GUIDE" => after'[c] = "GUIDE" \/ "GUIDE" \in flags'
      PROVE  NoLostGuidePulse'
  BY <1>1 DEF NoLostGuidePulse
<1>2. CASE Task
  <2>1. CASE pc' # "track"
    BY <2>1 DEF NoLostGuidePulse
  <2>2. CASE pc' = "track" /\ pc = "track"
    BY <1>2, <2>2 DEF Task, Slew, Track, Fetch, Reject, SkipSlew, BeginShortSlew,
       BeginLongSlew, EnterSlew, AccelStep, RampStep, AccelDone, AccelHalted, CruiseTimeout,
       CruiseDone, CruiseHalted, SpeedChange, SpeedChangeStep, SpeedChangeDone, RampHalted,
       BeginDecel, DecelStep, DecelHalted, KeepSpeed, PullOver, BeginCorrection,
       CorrectionTooLarge, Correct, CorrectionDone, Corrected, CorrectionHalted, Finish,
       BeginTrack, TrackHalted, TrackGuide, BeginGuide, SkipGuide, GuideDone, EndGuide,
       GuideHalted, EndTrack, Guiding
  <2>3. CASE pc' = "track" /\ pc # "track"
    <3>1. BeginTrack \/ GuideDone
      BY <1>2, <2>3 DEF Task, Slew, Track, Fetch, Reject, SkipSlew, BeginShortSlew,
         BeginLongSlew, EnterSlew, AfterMotion, AccelStep, RampStep, AccelDone, AccelHalted,
         Halt, CruiseTimeout, CruiseDone, CruiseHalted, SpeedChange, SpeedChangeStep,
         SpeedChangeDone, RampHalted, BeginDecel, DecelStep, DecelHalted, KeepSpeed, PullOver,
         BeginCorrection, CorrectionTooLarge, Correct, CorrectionDone, Corrected,
         CorrectionHalted, Finish, TrackHalted, TrackGuide, BeginGuide, SkipGuide, EndGuide,
         GuideHalted, EndTrack, Return
    <3>2. guideQueue' = <<>>
      BY <3>1 DEF BeginTrack, GuideDone
    <3> QED BY <3>2 DEF NoLostGuidePulse
  <2> QED BY <2>1, <2>2, <2>3
<1>3. ASSUME NEW c \in Clients, NEW pulse \in Pulses, Guide(c, pulse)
      PROVE  NoLostGuidePulse'
  <2>1. after'[c] = "GUIDE"
    BY <1>0, <1>3 DEF Guide
  <2> QED BY <2>1 DEF NoLostGuidePulse
<1>4. ASSUME NEW c \in Clients, Signal(c), taskUnchanged
      PROVE  NoLostGuidePulse'
  <2>1. /\ flags' = flags \cup {after[c]} /\ UNCHANGED guideQueue
        /\ \A d \in Clients \ {c} : after'[d] = after[d]
    BY <1>0, <1>4 DEF Signal
  <2> QED BY <1>1, <1>4, <2>1
<1>5. ASSUME NEW c \in Clients, NEW op, NEW flag, StartFlush(c, op, flag), taskUnchanged
      PROVE  NoLostGuidePulse'
  <2>1. after[c] = "NONE"
    BY <1>0, <1>5 DEF StartFlush, ClientInv
  <2>2. \A d \in Clients \ {c} : after'[d] = after[d]
    BY <1>0, <1>5 DEF StartFlush
  <2> QED BY <1>1, <1>5, <2>1, <2>2 DEF StartFlush
<1>6. ASSUME NEW c \in Clients, SetSlewSpeed(c), taskUnchanged
      PROVE  NoLostGuidePulse'
  <2>1. after[c] = "NONE"
    BY <1>0, <1>6 DEF SetSlewSpeed, ClientInv
  <2>2. \A d \in Clients \ {c} : after'[d] = after[d]
    BY <1>0, <1>6 DEF SetSlewSpeed
  <2> QED BY <1>1, <1>6, <2>1, <2>2 DEF SetSlewSpeed
<1>7. ASSUME NEW c \in Clients, Call(c) \/ Continue(c)
      PROVE  NoLostGuidePulse'
  BY <1>7, <1>1, <1>3, <1>4, <1>5, <1>6
  DEF Call, Continue, Alloc, Stop, EmergencyStop, FlushCommandQueue, StopKeepSpeed,
      SetTrackSpeed, SetGuideSpeed, ClearSem, Put, PutFails, WaitForSlew, FlushGet,
      FlushFree, FlushDone
<1>8. CASE UNCHANGED vars
  BY <1>1, <1>8 DEF vars
<1> QED BY <1>2, <1>7, <1>8 DEF Next

\* A guide pulse queued while the axis tracks is always followed by its signal
\* (Axis.h:195-207; Axis.cpp:544-573).
THEOREM PulsesKept == Spec => []NoLostGuidePulse
<1>1. Init => NoLostGuidePulse
  BY DEF Init, NoLostGuidePulse
<1> QED BY <1>1, PulseStep, Invariant, PTL DEF Spec

\* The change is announced: the flag is set, or a caller is about to set it.
ChangeSignalled ==
  "SPEEDCHANGE" \in flags \/ \E c \in Clients : after[c] = "SPEEDCHANGE"

\* While an indefinite slew ramps, the speed it ramps to is the slewing speed,
\* or it will be told.
RampsToSlewSpeed ==
  pc \in {"accel", "ramp"} /\ Indefinite /\ ramp.to # slewSpeed => ChangeSignalled

\* The invariant of the slewing speed
SpeedInv == RampsToSlewSpeed /\ NoLostSpeedChange

\* A ramp starts towards the slewing speed as it is then; a later change is
\* announced, and the announcement is taken by the next ramp only.
LEMMA SpeedStep == IInv /\ SpeedInv /\ [Next]_vars => SpeedInv'
<1> SUFFICES ASSUME IInv, SpeedInv, [Next]_vars PROVE SpeedInv'
  OBVIOUS
<1> USE DEF SpeedInv, RampsToSlewSpeed, NoLostSpeedChange, ChangeSignalled
<1>0. /\ ClientInv /\ after \in [Clients -> Flags \cup {"NONE"}]
      /\ cpc \in [Clients -> ClientPoints] /\ UnitRamp(ramp)
      /\ pc \in {"accel", "ramp"} => currentSpeed = RampSpeed(ramp)
  BY DEF IInv, TypeOK, RampInv
<1>1. ASSUME UNCHANGED <<pc, cmd, ramp, currentSpeed, slewSpeed>>, flags \subseteq flags',
             \A c \in Clients :
               after[c] = "SPEEDCHANGE" => after'[c] = "SPEEDCHANGE" \/ "SPEEDCHANGE" \in flags'
      PROVE  SpeedInv'
  BY <1>1 DEF Indefinite
<1>2. CASE Task
  <2>0. UNCHANGED <<slewSpeed, after>>
    BY <1>2 DEF Task
  <2>1. CASE BeginLongSlew
    BY <2>0, <2>1 DEF BeginLongSlew, EnterSlew, AccelRamp, Indefinite
  <2>2. CASE AccelStep \/ SpeedChangeStep
    <3>1. /\ UNCHANGED <<pc, cmd, flags>> /\ ramp'.to = ramp.to /\ pc # "cruise"
      BY <1>0, <2>2 DEF AccelStep, SpeedChangeStep, RampStep, UnitRamp
    <3> QED BY <2>0, <3>1 DEF Indefinite
  <2>3. CASE AccelDone \/ SpeedChangeDone
    <3>1. /\ pc \in {"accel", "ramp"} /\ ramp.i = ramp.steps /\ pc' = "cruise"
          /\ UNCHANGED <<cmd, flags, currentSpeed>>
      BY <2>3 DEF AccelDone, SpeedChangeDone
    <3>2. currentSpeed = ramp.to
      BY <1>0, <3>1 DEF RampSpeed
    <3> QED BY <2>0, <3>1, <3>2 DEF Indefinite
  <2>4. CASE SpeedChange
    BY <2>0, <2>4 DEF SpeedChange, SpeedRamp
  <2>5. CASE CruiseTimeout
    BY <1>1, <2>0, <2>5 DEF CruiseTimeout
  <2>6. CASE ~(BeginLongSlew \/ AccelStep \/ SpeedChangeStep \/ AccelDone
               \/ SpeedChangeDone \/ SpeedChange \/ CruiseTimeout)
    <3>1. pc' \notin {"accel", "ramp", "cruise"}
      BY <1>2, <2>6 DEF Task, Slew, Track, Fetch, Reject, SkipSlew, BeginShortSlew,
         EnterSlew, AfterMotion, AccelHalted, Halt, CruiseDone,
         CruiseHalted, RampHalted, BeginDecel, DecelStep, DecelHalted, KeepSpeed, PullOver,
         BeginCorrection, CorrectionTooLarge, Correct, CorrectionDone, Corrected,
         CorrectionHalted, Finish, BeginTrack, TrackHalted, TrackGuide, BeginGuide,
         SkipGuide, GuideDone, EndGuide, GuideHalted, EndTrack, Return
    <3> QED BY <3>1
  <2> QED BY <2>1, <2>2, <2>3, <2>4, <2>5, <2>6
<1>3. ASSUME NEW c \in Clients, SetSlewSpeed(c)
      PROVE  SpeedInv'
  <2>1. after'[c] = "SPEEDCHANGE"
    BY <1>0, <1>3 DEF SetSlewSpeed
  <2> QED BY <2>1
<1>4. ASSUME NEW c \in Clients, Signal(c), taskUnchanged
      PROVE  SpeedInv'
  <2>1. /\ flags' = flags \cup {after[c]} /\ UNCHANGED slewSpeed
        /\ \A d \in Clients \ {c} : after'[d] = after[d]
    BY <1>0, <1>4 DEF Signal
  <2> QED BY <1>1, <1>4, <2>1
<1>5. ASSUME NEW c \in Clients, NEW op, NEW flag, StartFlush(c, op, flag), taskUnchanged
      PROVE  SpeedInv'
  <2>1. after[c] = "NONE" /\ \A d \in Clients \ {c} : after'[d] = after[d]
    BY <1>0, <1>5 DEF StartFlush, ClientInv
  <2> QED BY <1>1, <1>5, <2>1 DEF StartFlush
<1>6. ASSUME NEW c \in Clients, NEW pulse \in Pulses, Guide(c, pulse), taskUnchanged
      PROVE  SpeedInv'
  <2>1. after[c] = "NONE" /\ \A d \in Clients \ {c} : after'[d] = after[d]
    BY <1>0, <1>6 DEF Guide, ClientInv
  <2> QED BY <1>1, <1>6, <2>1 DEF Guide
<1>7. ASSUME NEW c \in Clients, Call(c) \/ Continue(c)
      PROVE  SpeedInv'
  BY <1>7, <1>1, <1>3, <1>4, <1>5, <1>6
  DEF Call, Continue, Alloc, Stop, EmergencyStop, FlushCommandQueue, StopKeepSpeed,
      SetTrackSpeed, SetGuideSpeed, ClearSem, Put, PutFails, WaitForSlew, FlushGet,
      FlushFree, FlushDone
<1>8. CASE UNCHANGED vars
  BY <1>1, <1>8 DEF vars
<1> QED BY <1>2, <1>7, <1>8 DEF Next

\* setSlewSpeed writes the speed and then signals; the task clears the flag and
\* then reads the speed (Axis.h:284-292; Axis.cpp:155, 323-330).
THEOREM SpeedChangesKept == Spec => []NoLostSpeedChange
<1>1. Init => SpeedInv
  BY DEF Init, SpeedInv, RampsToSlewSpeed, NoLostSpeedChange
<1>2. SpeedInv => NoLostSpeedChange
  BY DEF SpeedInv
<1> QED BY <1>1, <1>2, SpeedStep, Invariant, PTL DEF Spec

(***************************************************************************)
(* Who is woken, and when                                                  *)
(***************************************************************************)
\* At most one thread calls startSlewTo.
OneSlewer == \A c, d \in Slewers : c = d

\* A goto is in the queue, at place k; one is pending, queued or running.
QueuedGoto(k) == k \in 1..Len(taskQueue) /\ taskQueue[k].signal = "SLEW_TO"
PendingGoto == cmd.signal = "SLEW_TO" \/ \E k \in Nat : QueuedGoto(k)

\* The one slewer: while its goto is queued or runs it waits for it, with the
\* semaphore down; it queues no second one, and none beside the one that runs.
WakeInv ==
  /\ \A c \in Clients :
       /\ cpc[c] \in {"clear", "await"} => c \in Slewers
       /\ cpc[c] = "clear" => held[c].signal = "SLEW_TO"
       /\ cpc[c] = "put" /\ held[c].signal = "SLEW_TO" =>
            c \in Slewers /\ finishSem = 0
  /\ PendingGoto => finishSem = 0 /\ \E c \in Slewers : cpc[c] = "await"
  /\ \A k \in Nat : QueuedGoto(k) =>
       cmd.signal # "SLEW_TO" /\ \A j \in Nat : QueuedGoto(j) => j = k

\* No step queues a second goto, or raises the semaphore while one is pending:
\* it is raised by the end of the only one there is.
LEMMA WakeStep ==
  ASSUME OneSlewer, IInv, WakeInv, [Next]_vars
  PROVE  WakeInv'
<1>0. /\ ClientInv /\ TypeOK /\ cpc \in [Clients -> ClientPoints] /\ finishSem \in {0, 1}
      /\ held \in [Clients -> Command \cup {NoCmd}] /\ taskQueue \in Seq(Command)
      /\ Slewers \subseteq Clients
  BY ClientsAssumption DEF IInv, TypeOK
<1> DEFINE Fewer == \E n \in {0, 1} : \A k \in Nat : QueuedGoto(k)' => QueuedGoto(k + n)
<1> HIDE DEF Fewer
<1>1. ASSUME cmd'.signal = cmd.signal, UNCHANGED <<cpc, held, finishSem>>, Fewer
      PROVE  WakeInv'
  BY <1>1 DEF WakeInv, PendingGoto, Fewer
<1>2. ASSUME UNCHANGED taskQueue
      PROVE  Fewer
  <2>1. \A k \in Nat : QueuedGoto(k)' => QueuedGoto(k + 0)
    BY <1>2 DEF QueuedGoto
  <2> QED BY <2>1 DEF Fewer
<1>3. ASSUME taskQueue # <<>>, taskQueue' = Tail(taskQueue)
      PROVE  \A k \in Nat : QueuedGoto(k)' => QueuedGoto(k + 1)
  BY <1>0, <1>3 DEF QueuedGoto
<1>4. ASSUME taskQueue' = <<>>
      PROVE  \A k \in Nat : ~QueuedGoto(k)'
  BY <1>4 DEF QueuedGoto
<1>5. CASE Task
  <2>0. UNCHANGED <<cpc, held>>
    BY <1>5 DEF Task
  <2>1. CASE Fetch
    <3>1. /\ cmd' = taskQueue[1] /\ finishSem' = finishSem /\ Len(taskQueue) >= 1
          /\ taskQueue # <<>> /\ taskQueue' = Tail(taskQueue)
      BY <1>0, <2>1 DEF Fetch
    <3>2. \A k \in Nat : QueuedGoto(k)' => QueuedGoto(k + 1)
      BY <1>3, <3>1
    <3>3. cmd'.signal = "SLEW_TO" <=> QueuedGoto(1)
      BY <3>1, <1>0 DEF QueuedGoto
    <3>4. PendingGoto' => PendingGoto
      BY <3>2, <3>3 DEF PendingGoto
    <3>5. ASSUME NEW k \in Nat, QueuedGoto(k)'
          PROVE  cmd'.signal # "SLEW_TO" /\ \A j \in Nat : QueuedGoto(j)' => j = k
      <4>1. QueuedGoto(k + 1) /\ k >= 1 /\ k + 1 \in Nat
        BY <3>2, <3>5 DEF QueuedGoto
      <4>2. \A j \in Nat : QueuedGoto(j) => j = k + 1
        BY <4>1 DEF WakeInv
      <4>3. cmd'.signal # "SLEW_TO"
        BY <4>1, <4>2, <3>3
      <4>4. \A j \in Nat : QueuedGoto(j)' => j = k
        BY <4>2, <3>2
      <4> QED BY <4>3, <4>4
    <3> QED BY <2>0, <3>1, <3>4, <3>5 DEF WakeInv
  <2>2. ASSUME Return, taskQueue' = taskQueue \/ taskQueue' = <<>>
        PROVE  WakeInv'
    <3>1. cmd' = NoCmd /\ finishSem' = IF cmd.signal = "SLEW_TO" THEN 1 ELSE finishSem
      BY <2>2 DEF Return
    <3>2. \A k \in Nat : QueuedGoto(k)' => QueuedGoto(k)
      BY <1>4, <2>2 DEF QueuedGoto
    <3>3. CASE cmd.signal = "SLEW_TO"
      <4>1. \A k \in Nat : ~QueuedGoto(k)
        BY <3>3 DEF WakeInv
      <4>2. ~PendingGoto'
        BY <3>1, <3>2, <4>1, NoCmdIsNone DEF PendingGoto
      <4>3. PICK s \in Slewers : cpc[s] = "await"
        BY <3>3 DEF WakeInv, PendingGoto
      <4>4. \A c \in Clients : ~(cpc[c] = "put" /\ held[c].signal = "SLEW_TO")
        BY <4>3 DEF WakeInv, OneSlewer
      <4> QED BY <2>0, <3>2, <4>1, <4>2, <4>4 DEF WakeInv
    <3>4. CASE cmd.signal # "SLEW_TO"
      <4>1. PendingGoto' => PendingGoto
        BY <3>1, <3>2, NoCmdIsNone DEF PendingGoto
      <4> QED BY <2>0, <3>1, <3>2, <3>4, <4>1, NoCmdIsNone DEF WakeInv
    <3> QED BY <3>3, <3>4
  <2>3. CASE Reject \/ SkipSlew \/ KeepSpeed \/ CorrectionTooLarge \/ Finish \/ EndTrack
    BY <2>2, <2>3 DEF Reject, SkipSlew, KeepSpeed, CorrectionTooLarge, Finish, EndTrack
  <2>4. CASE AccelHalted \/ CruiseHalted \/ RampHalted \/ DecelHalted
    <3>1. UNCHANGED <<taskQueue, finishSem>> /\ cmd' = WithoutCorrection(cmd)
          /\ pc \in SlewPoints
      BY <2>4 DEF AccelHalted, CruiseHalted, RampHalted, DecelHalted, Halt, SlewPoints, SlewWaits
    <3>2. cmd \in Command
      BY <1>0, <3>1, CommandFields DEF IInv, TypeOK, MotionInv, IsSlew
    <3>3. cmd'.signal = cmd.signal
      BY <3>1, <3>2, WithoutCorrectionType
    <3> QED BY <1>1, <1>2, <2>0, <3>1, <3>3
  <2>5. CASE ~(Fetch \/ Reject \/ SkipSlew \/ KeepSpeed \/ CorrectionTooLarge \/ Finish
               \/ EndTrack \/ AccelHalted \/ CruiseHalted \/ RampHalted \/ DecelHalted)
    <3>1. UNCHANGED <<taskQueue, finishSem, cmd>>
      BY <1>5, <2>5 DEF Task, Slew, Track, BeginShortSlew, BeginLongSlew,
         EnterSlew, AccelStep, RampStep, AccelDone, CruiseTimeout, CruiseDone,
         SpeedChange, SpeedChangeStep, SpeedChangeDone, BeginDecel, DecelStep, PullOver,
         BeginCorrection, Correct, CorrectionDone, Corrected,
         CorrectionHalted, BeginTrack, TrackHalted, TrackGuide, BeginGuide,
         SkipGuide, GuideDone, EndGuide, GuideHalted
    <3> QED BY <1>1, <1>2, <2>0, <3>1
  <2> QED BY <2>1, <2>3, <2>4, <2>5
<1>6. ASSUME NEW c \in Clients, NEW m \in Requests, Alloc(c, m), taskUnchanged
      PROVE  WakeInv'
  <2>1. /\ UNCHANGED <<taskQueue, finishSem, cmd>> /\ cpc[c] = "idle" /\ held' = [held EXCEPT ![c] = m]
        /\ m.signal = "SLEW_TO" => c \in Slewers
        /\ cpc' = [cpc EXCEPT ![c] = IF m.signal = "SLEW_TO" THEN "clear" ELSE "put"]
    BY <1>6 DEF Alloc
  <2>2. UNCHANGED PendingGoto /\ \A k \in Nat : QueuedGoto(k)' => QueuedGoto(k)
    BY <2>1 DEF PendingGoto, QueuedGoto
  <2> QED BY <1>0, <2>1, <2>2 DEF WakeInv
<1>7. ASSUME NEW c \in Clients, ClearSem(c), taskUnchanged
      PROVE  WakeInv'
  <2>1. UNCHANGED <<taskQueue, held, cmd>> /\ cpc[c] = "clear" /\ finishSem' = 0
        /\ cpc' = [cpc EXCEPT ![c] = "put"]
    BY <1>7 DEF ClearSem
  <2>2. UNCHANGED PendingGoto /\ \A k \in Nat : QueuedGoto(k)' => QueuedGoto(k)
    BY <2>1 DEF PendingGoto, QueuedGoto
  <2> QED BY <1>0, <2>1, <2>2 DEF WakeInv
<1>8. ASSUME NEW c \in Clients, Put(c), taskUnchanged
      PROVE  WakeInv'
  <2>1. /\ UNCHANGED <<cmd, finishSem>> /\ cpc[c] = "put"
        /\ held' = [held EXCEPT ![c] = NoCmd] /\ taskQueue' = Append(taskQueue, held[c])
        /\ cpc' = [cpc EXCEPT ![c] = IF held[c].signal = "SLEW_TO" THEN "await" ELSE "idle"]
    BY <1>8 DEF Put
  <2>2. held[c] \in Command
    BY <1>0, <2>1, CommandFields DEF ClientInv
  <2>3. \A k \in Nat : QueuedGoto(k)' <=>
          QueuedGoto(k) \/ (k = Len(taskQueue) + 1 /\ held[c].signal = "SLEW_TO")
    BY <1>0, <2>1, <2>2 DEF QueuedGoto
  <2>4. Len(taskQueue) + 1 \in Nat
    BY <1>0
  <2>5. CASE held[c].signal = "SLEW_TO"
    <3>1. c \in Slewers /\ finishSem = 0 /\ cpc'[c] = "await"
      BY <1>0, <2>1, <2>5 DEF WakeInv
    <3>2. ~PendingGoto
      BY <2>1, <3>1 DEF WakeInv, OneSlewer
    <3> QED BY <1>0, <2>1, <2>3, <2>4, <2>5, <3>1, <3>2, NoCmdIsNone
        DEF WakeInv, PendingGoto
  <2>6. CASE held[c].signal # "SLEW_TO"
    <3>1. PendingGoto' <=> PendingGoto
      BY <2>1, <2>3, <2>6 DEF PendingGoto
    <3> QED BY <1>0, <2>1, <2>3, <2>6, <3>1, NoCmdIsNone DEF WakeInv
  <2> QED BY <2>5, <2>6
<1>9. ASSUME NEW c \in Clients, WaitForSlew(c), taskUnchanged
      PROVE  WakeInv'
  <2>1. UNCHANGED <<taskQueue, held, cmd>> /\ finishSem = 1 /\ finishSem' = 0
        /\ cpc' = [cpc EXCEPT ![c] = "idle"]
    BY <1>9 DEF WaitForSlew
  <2>2. (PendingGoto' <=> PendingGoto) /\ \A k \in Nat : QueuedGoto(k)' => QueuedGoto(k)
    BY <2>1 DEF PendingGoto, QueuedGoto
  <2>3. ~PendingGoto
    BY <2>1 DEF WakeInv
  <2> QED BY <1>0, <2>1, <2>2, <2>3 DEF WakeInv
<1>10. ASSUME NEW c \in Clients, FlushGet(c), taskUnchanged
       PROVE  WakeInv'
  <2>1. /\ UNCHANGED <<cmd, finishSem>> /\ cpc[c] = "flush" /\ taskQueue' = Tail(taskQueue)
        /\ cpc' = [cpc EXCEPT ![c] = "free"] /\ held' = [held EXCEPT ![c] = Head(taskQueue)]
        /\ taskQueue # <<>>
    BY <1>10 DEF FlushGet
  <2>2. \A k \in Nat : QueuedGoto(k)' => QueuedGoto(k + 1)
    BY <1>3, <2>1
  <2>3. PendingGoto' => PendingGoto
    BY <2>1, <2>2 DEF PendingGoto
  <2> QED BY <1>0, <2>1, <2>2, <2>3 DEF WakeInv
<1>11. ASSUME NEW c \in Clients, taskUnchanged,
              \/ PutFails(c) \/ FlushFree(c) \/ FlushDone(c) \/ Signal(c)
              \/ \E pulse \in Pulses : Guide(c, pulse)
              \/ Stop(c) \/ EmergencyStop(c) \/ FlushCommandQueue(c) \/ SetSlewSpeed(c)
       PROVE  WakeInv'
  <2>1. /\ UNCHANGED <<taskQueue, cmd, finishSem>> /\ cpc[c] # "await"
        /\ held' \in {held, [held EXCEPT ![c] = NoCmd]}
        /\ \E p \in {"idle", "signal", "flush"} : cpc' = [cpc EXCEPT ![c] = p]
    BY <1>11 DEF PutFails, FlushFree, FlushDone, Signal, Guide, Stop, EmergencyStop,
       FlushCommandQueue, StartFlush, SetSlewSpeed
  <2>2. (PendingGoto' <=> PendingGoto) /\ \A k \in Nat : QueuedGoto(k)' => QueuedGoto(k)
    BY <2>1 DEF PendingGoto, QueuedGoto
  <2> QED BY <1>0, <2>1, <2>2, NoCmdIsNone DEF WakeInv
<1>12. ASSUME NEW c \in Clients, taskUnchanged,
              StopKeepSpeed(c) \/ SetTrackSpeed(c) \/ SetGuideSpeed(c)
       PROVE  WakeInv'
  BY <1>12, <1>1, <1>2 DEF StopKeepSpeed, SetTrackSpeed, SetGuideSpeed
<1>13. ASSUME NEW c \in Clients, Call(c) \/ Continue(c)
       PROVE  WakeInv'
  BY <1>13, <1>6, <1>7, <1>8, <1>9, <1>10, <1>11, <1>12 DEF Call, Continue
<1>14. CASE UNCHANGED vars
  BY <1>14, <1>1, <1>2 DEF vars
<1> QED BY <1>5, <1>13, <1>14 DEF Next

\* A caller of startSlewTo and waitForSlew, if there is one such thread at a
\* time, is woken when its own command is over, however many other threads
\* post, flush and stop (Axis.h:86-142; Axis.cpp:98-108).
THEOREM WokenByOwnSlew ==
  ASSUME OneSlewer
  PROVE  Spec => []NoEarlyWake
<1>1. Init => WakeInv
  BY NoCmdIsNone DEF Init, WakeInv, PendingGoto, QueuedGoto
<1>2. IInv /\ WakeInv /\ [Next]_vars => WakeInv'
  BY WakeStep
<1>3. IInv /\ WakeInv => NoEarlyWake
  BY DEF WakeInv, PendingGoto, QueuedGoto, NoEarlyWake
<1> QED BY <1>1, <1>2, <1>3, Invariant, PTL DEF Spec

(***************************************************************************)
(* The motor and the direction of a goto                                   *)
(***************************************************************************)
GotoRuns == pc \in SlewWaits \cup {"stop"} /\ cmd.signal = "SLEW_TO"

\* The driver does nothing on a start while the motor runs, but a goto is
\* taken up from the stopped state alone, with the motor at rest.
LEMMA GotoStep ==
  ASSUME IInv, MotorFollowsGoto, [Next]_vars
  PROVE  GotoRuns' => motor' = MotorFor(cmd'.dir) /\ currentDirection' = cmd'.dir
<1> USE DEF MotorFollowsGoto, GotoRuns, SlewWaits
<1> DEFINE Goal == GotoRuns' => motor' = MotorFor(cmd'.dir) /\ currentDirection' = cmd'.dir
<1> SUFFICES Goal
  OBVIOUS
<1>0. MotionInv /\ cmd \in Command \cup {NoCmd}
  BY DEF IInv, TypeOK
<1>1. CASE Task
  <2>1. CASE BeginLongSlew
    <3> SUFFICES ASSUME cmd.signal = "SLEW_TO"
                 PROVE  motor' = MotorFor(cmd.dir) /\ currentDirection' = cmd.dir
      BY <2>1 DEF BeginLongSlew, EnterSlew
    <3>1. motor = "idle"
      BY <1>0, <2>1 DEF BeginLongSlew, EnterSlew, Accepted, Indefinite, MotionInv, Resting
    <3> QED BY <2>1, <3>1 DEF BeginLongSlew, EnterSlew, Started
  <2>2. CASE \/ AccelStep \/ AccelDone \/ CruiseTimeout \/ CruiseDone
             \/ SpeedChange \/ SpeedChangeStep \/ SpeedChangeDone
             \/ BeginDecel \/ DecelStep
    BY <2>2 DEF AccelStep, RampStep, AccelDone, CruiseTimeout, CruiseDone, SpeedChange,
       SpeedChangeStep, SpeedChangeDone, BeginDecel, DecelStep
  <2>3. CASE AccelHalted \/ CruiseHalted \/ RampHalted
    <3>1. pc \in SlewWaits
      BY <2>3 DEF AccelHalted, CruiseHalted, RampHalted
    <3>2. IsSlew /\ UNCHANGED <<motor, currentDirection>> /\ cmd' = WithoutCorrection(cmd)
      BY <1>0, <2>3, <3>1 DEF MotionInv, SlewPoints, AccelHalted, CruiseHalted, RampHalted, Halt
    <3>3. cmd'.signal = cmd.signal /\ cmd'.dir = cmd.dir
      BY <1>0, <3>2, CommandFields, WithoutCorrectionType DEF IsSlew
    <3> QED BY <3>1, <3>2, <3>3
  <2>4. CASE \/ Fetch \/ Reject \/ SkipSlew \/ DecelHalted \/ KeepSpeed
             \/ BeginShortSlew \/ PullOver \/ BeginCorrection \/ Correct \/ CorrectionDone
             \/ Corrected \/ CorrectionHalted \/ BeginTrack \/ TrackHalted \/ TrackGuide
             \/ BeginGuide \/ SkipGuide \/ GuideDone \/ EndGuide \/ GuideHalted
             \/ CorrectionTooLarge \/ Finish \/ EndTrack
    <3>1. pc' \notin SlewWaits \cup {"stop"}
      BY <2>4 DEF Fetch, Reject, SkipSlew, DecelHalted, KeepSpeed, Return,
         BeginShortSlew, AfterMotion, PullOver, BeginCorrection, Correct,
         CorrectionDone, Corrected, CorrectionHalted, BeginTrack, TrackHalted, TrackGuide,
         BeginGuide, SkipGuide, GuideDone, EndGuide, GuideHalted, CorrectionTooLarge,
         Finish, EndTrack
    <3> QED BY <3>1
  <2> QED BY <1>1, <2>1, <2>2, <2>3, <2>4 DEF Task, Slew, Track
<1>2. ASSUME NEW c \in Clients, Call(c) \/ Continue(c)
      PROVE  Goal
  BY <1>2 DEF Call, Continue
<1>3. CASE UNCHANGED vars
  BY <1>3 DEF vars
<1> QED BY <1>1, <1>2, <1>3 DEF Next

\* A goto never turns the wrong way, whatever clients there are, whatever they
\* post, and whatever stops, keep-speeds and stale flags went before it
\* (Axis.cpp:99, 159-160, 242-262).
THEOREM FollowsGoto == Spec => []MotorFollowsGoto
<1>1. Init => MotorFollowsGoto
  BY DEF Init, MotorFollowsGoto, SlewWaits
<1>2. IInv /\ IInv' /\ MotorFollowsGoto /\ [Next]_vars => MotorFollowsGoto'
  <2> SUFFICES ASSUME IInv, IInv', MotorFollowsGoto, [Next]_vars, GotoRuns'
               PROVE  /\ motor' = MotorFor(cmd'.dir) /\ currentDirection' = cmd'.dir
                      /\ currentSpeed' > 0
    BY DEF MotorFollowsGoto, GotoRuns
  <2>1. currentSpeed' > 0
    BY DEF IInv, MotionInv, TypeOK, GotoRuns
  <2> QED BY <2>1, GotoStep
<1> QED BY <1>1, <1>2, Invariant, PTL DEF Spec

(***************************************************************************)
(* Guiding                                                                 *)
(***************************************************************************)
\* Commands come from the callers alone.
Posted ==
  /\ \A k \in 1..Len(taskQueue) : taskQueue[k] \in Requests
  /\ \A c \in Clients : held[c] \in Requests \cup {NoCmd}
  /\ pc = "dispatch" => cmd \in Requests

\* No step puts another command into the queue, a client's hand or the task's.
LEMMA PostedStep ==
  ASSUME IInv, Posted, [Next]_vars
  PROVE  Posted'
<1>0. /\ ClientInv /\ taskQueue \in Seq(Command)
      /\ held \in [Clients -> Command \cup {NoCmd}] /\ Requests \subseteq Command
  BY RequestsAssumption DEF IInv, TypeOK
<1> DEFINE Queued == \A k \in 1..Len(taskQueue) : taskQueue[k] \in Requests
           Held == \A c \in Clients : held[c] \in Requests \cup {NoCmd}
<1>1. Queued /\ Held /\ (pc = "dispatch" => cmd \in Requests)
  BY DEF Posted
<1>2. ASSUME taskQueue # <<>>
      PROVE  /\ Head(taskQueue) \in Requests
             /\ taskQueue' = Tail(taskQueue) => Queued'
  BY <1>0, <1>1, <1>2
<1>3. taskQueue' = taskQueue \/ taskQueue' = <<>> => Queued'
  BY <1>1
<1>4. ASSUME NEW c \in Clients, NEW m \in Requests \cup {NoCmd}, held' = [held EXCEPT ![c] = m]
      PROVE  Held'
  BY <1>0, <1>1, <1>4
<1> HIDE DEF Queued, Held
<1>5. CASE Task
  <2>0. Held'
    BY <1>1, <1>5 DEF Task, Held
  <2>1. CASE Fetch
    BY <1>1, <1>2, <2>0, <2>1 DEF Fetch, Posted, Queued, Held
  <2>2. CASE ~Fetch
    <3>1. pc' # "dispatch" /\ (taskQueue' = taskQueue \/ taskQueue' = <<>>)
      BY <1>5, <2>2 DEF Task, Slew, Track,
         Reject, SkipSlew, AccelStep, RampStep, AccelDone, AccelHalted, Halt,
         CruiseTimeout, CruiseDone, CruiseHalted, SpeedChange, SpeedChangeStep,
         SpeedChangeDone, RampHalted, BeginDecel, DecelStep, DecelHalted, KeepSpeed, Return,
         BeginShortSlew, BeginLongSlew, EnterSlew, AfterMotion, PullOver, BeginCorrection,
         Correct, CorrectionDone, Corrected, CorrectionHalted, BeginTrack, TrackHalted,
         TrackGuide, BeginGuide, SkipGuide, GuideDone, EndGuide, GuideHalted, Guiding,
         CorrectionTooLarge, Finish, EndTrack
    <3> QED BY <1>3, <2>0, <3>1 DEF Posted, Queued, Held
  <2> QED BY <2>1, <2>2
<1>6. ASSUME taskUnchanged, Queued', Held'
      PROVE  Posted'
  BY <1>1, <1>6 DEF Posted, Queued, Held
<1>7. ASSUME NEW c \in Clients, Call(c) \/ Continue(c)
      PROVE  Posted'
  <2>0. taskUnchanged
    BY <1>7 DEF Call, Continue
  <2> SUFFICES Queued' /\ Held'
    BY <1>6, <2>0
  <2>1. ASSUME NEW m \in Requests, Alloc(c, m)
        PROVE  Queued' /\ Held'
    BY <1>3, <1>4, <2>1 DEF Alloc
  <2>2. CASE Put(c)
    <3>1. held[c] \in Requests
      BY <1>0, <1>1, <2>2, NoCmdIsNone DEF Put, ClientInv, Held
    <3>2. Queued'
      BY <1>0, <1>1, <2>2, <3>1 DEF Put, Queued
    <3> QED BY <1>4, <2>2, <3>2 DEF Put
  <2>3. CASE FlushGet(c)
    BY <1>2, <1>4, <2>3 DEF FlushGet
  <2>4. CASE PutFails(c) \/ FlushFree(c)
    BY <1>3, <1>4, <2>4 DEF PutFails, FlushFree
  <2>5. CASE \/ \E pulse \in Pulses : Guide(c, pulse)
             \/ Stop(c) \/ EmergencyStop(c) \/ FlushCommandQueue(c) \/ SetSlewSpeed(c)
             \/ StopKeepSpeed(c) \/ SetTrackSpeed(c) \/ SetGuideSpeed(c)
             \/ ClearSem(c) \/ WaitForSlew(c) \/ FlushDone(c) \/ Signal(c)
    <3>1. UNCHANGED <<taskQueue, held>>
      BY <2>5 DEF Guide, Stop, EmergencyStop, FlushCommandQueue, StartFlush, SetSlewSpeed,
         StopKeepSpeed, SetTrackSpeed, SetGuideSpeed, ClearSem, WaitForSlew, FlushDone, Signal
    <3> QED BY <1>1, <1>3, <3>1 DEF Held
  <2> QED BY <1>7, <2>1, <2>2, <2>3, <2>4, <2>5 DEF Call, Continue
<1>8. CASE UNCHANGED vars
  BY <1>8, <1>1, <1>3, <1>6 DEF vars, Held
<1> QED BY <1>5, <1>7, <1>8 DEF Next

\* How the mount uses its axes: it sets the tracking speed of the right
\* ascension axis alone, never to 0, and always tracks it in a direction
\* (EquatorialMount.cpp:130-135, 280, 468-473; EqMountServer.cpp:376).
MountUse ==
  "setTrackSpeed" \in Ops =>
    /\ 0 \notin TrackSpeeds
    /\ \A m \in Requests : m.signal = "TRACK" => m.dir # "STOP"

\* The invariant: during a pulse in the direction of tracking too the motor
\* turns in that direction.
GuideInv ==
  /\ "setTrackSpeed" \in Ops => trackSpeed # 0
  /\ pc = "guiding" /\ trackSpeed # 0 => motor = MotorFor(currentDirection)
  /\ GuideRestoresTracking

\* Every pulse is undone at its end, also when the speeds were set during it.
LEMMA GuideStep ==
  ASSUME MountUse, IInv, Posted, GuideInv, [Next]_vars
  PROVE  GuideInv'
<1> USE DEF GuideInv, GuideRestoresTracking
<1>0. TypeOK /\ MotionInv
  BY DEF IInv
<1>1. CASE Task
  <2>1. CASE BeginTrack
    <3>1. motor = "idle"
      BY <1>0, <2>1 DEF BeginTrack, Accepted, Indefinite, MotionInv, Resting
    <3>2. "setTrackSpeed" \in Ops => cmd.dir # "STOP"
      BY <2>1 DEF BeginTrack, MountUse, Posted
    <3> QED BY <1>0, <2>1, <3>1, <3>2 DEF BeginTrack, TypeOK, Started, MotorFor
  <2>2. CASE TrackHalted \/ TrackGuide \/ SkipGuide \/ GuideDone
    BY <2>2 DEF TrackHalted, TrackGuide, SkipGuide, GuideDone
  <2>3. CASE BeginGuide
    BY <2>3 DEF BeginGuide
  <2>4. CASE EndGuide
    BY <1>0, <2>4 DEF EndGuide, Guiding, TypeOK, MotorFor
  <2>5. CASE Fetch \/ Reject \/ Slew \/ GuideHalted \/ EndTrack
    <3>1. pc' \notin Guiding \cup {"track", "guide_next"} /\ UNCHANGED trackSpeed
      BY <2>5 DEF Slew, Guiding, Fetch,
         Reject, SkipSlew, AccelStep, RampStep, AccelDone, AccelHalted, Halt,
         CruiseTimeout, CruiseDone, CruiseHalted, SpeedChange, SpeedChangeStep,
         SpeedChangeDone, RampHalted, BeginDecel, DecelStep, DecelHalted, KeepSpeed, Return,
         BeginShortSlew, BeginLongSlew, EnterSlew, AfterMotion, PullOver, BeginCorrection,
         Correct, CorrectionDone, Corrected, CorrectionHalted, GuideHalted,
         CorrectionTooLarge, Finish, EndTrack
    <3> QED BY <3>1 DEF Guiding
  <2> QED BY <1>1, <2>1, <2>2, <2>3, <2>4, <2>5 DEF Task, Track
<1>2. ASSUME NEW c \in Clients, Call(c) \/ Continue(c)
      PROVE  GuideInv'
  <2>1. taskUnchanged
    BY <1>2 DEF Call, Continue
  <2>2. CASE SetTrackSpeed(c)
    <3>1. trackSpeed # 0 /\ trackSpeed' # 0
      BY <2>2 DEF SetTrackSpeed, MountUse
    <3> QED BY <2>1, <3>1
  <2>3. CASE ~SetTrackSpeed(c)
    <3>1. UNCHANGED trackSpeed
      BY <1>2, <2>3 DEF Call, Continue, Alloc, Guide, Stop, EmergencyStop,
         FlushCommandQueue, StartFlush, StopKeepSpeed, SetSlewSpeed, SetGuideSpeed,
         ClearSem, Put, PutFails, WaitForSlew, FlushGet, FlushFree, FlushDone, Signal
    <3> QED BY <2>1, <3>1
  <2> QED BY <2>2, <2>3
<1>3. CASE UNCHANGED vars
  BY <1>3 DEF vars
<1> QED BY <1>1, <1>2, <1>3 DEF Next

\* All guide pulses are undone when the task waits for the next one, whenever
\* the speeds of tracking and guiding are set: the axis turns in the tracking
\* direction, or is still when it has nothing to track (Axis.cpp:574-660).
THEOREM GuidingUndone ==
  ASSUME MountUse
  PROVE  Spec => []GuideRestoresTracking
<1>1. Init => Posted /\ GuideInv
  BY DEF Init, Posted, GuideInv, GuideRestoresTracking, MountUse
<1>2. IInv /\ Posted /\ GuideInv /\ [Next]_vars => Posted' /\ GuideInv'
  BY PostedStep, GuideStep
<1>3. GuideInv => GuideRestoresTracking
  BY DEF GuideInv
<1> QED BY <1>1, <1>2, <1>3, Invariant, PTL DEF Spec

(***************************************************************************)
(* What a step may not do                                                  *)
(***************************************************************************)
\* From the first wait of its acceleration to its pulling over, a slew changes
\* the speed of the motor by one acceleration step at most, for every slewing
\* speed, change of speed and stop (Axis.cpp:264-426).  The step that takes up
\* a slew is not among them: out of the inertial state it sets the first speed
\* of a ramp that a slower slewing speed has made one step long (Axis.cpp:249).
THEOREM Acceleration == Spec => AccelerationLimited
<1>1. IInv /\ [Next]_vars =>
        [(pc \in SlewWaits \cup {"stop"}) => Dist(currentSpeed, currentSpeed') <= 1]_vars
  <2> SUFFICES ASSUME IInv, Next, pc \in SlewWaits \cup {"stop"}
               PROVE  Dist(currentSpeed, currentSpeed') <= 1
    BY DEF vars
  <2>0. currentSpeed \in Nat
    BY DEF IInv, TypeOK
  <2>1. ASSUME currentSpeed' = currentSpeed
        PROVE  Dist(currentSpeed, currentSpeed') <= 1
    BY <2>0, <2>1 DEF Dist
  <2>2. ASSUME NEW c \in Clients, Call(c) \/ Continue(c)
        PROVE  currentSpeed' = currentSpeed
    BY <2>2 DEF Call, Continue
  <2>3. CASE RampAction
    BY <2>3, RampSteps DEF SlewWaits
  <2>4. CASE Task /\ ~RampAction
    BY <2>4, <2>1
    DEF SlewWaits, Guiding, Task, RampAction, Slew, Track, Fetch, Reject, SkipSlew,
       BeginShortSlew, EnterSlew, AccelDone, AccelHalted, Halt, CruiseTimeout, CruiseDone,
       CruiseHalted, SpeedChangeDone, RampHalted, DecelHalted, KeepSpeed, PullOver,
       BeginCorrection, CorrectionTooLarge, Correct, CorrectionDone, Corrected,
       CorrectionHalted, Finish, BeginTrack, TrackHalted, TrackGuide, BeginGuide, SkipGuide,
       GuideDone, EndGuide, GuideHalted, EndTrack
  <2> QED BY <2>1, <2>2, <2>3, <2>4 DEF Next
<1> QED BY <1>1, Invariant, PTL DEF Spec, AccelerationLimited

\* The microsteps are switched only while the motor is at rest.
THEOREM ModeSwitches == Spec => ModeChangesAtRest
<1>1. IInv /\ [Next]_vars => [mode' # mode => motor = "idle" \/ motor' = "idle"]_vars
  <2> SUFFICES ASSUME IInv, Next, mode' # mode
               PROVE  motor = "idle" \/ motor' = "idle"
    BY DEF vars
  <2>0. MotionInv
    BY DEF IInv
  <2>1. Task
    BY DEF Next, Call, Continue
  <2>2. \/ BeginShortSlew \/ BeginLongSlew \/ BeginCorrection \/ CorrectionTooLarge
        \/ Finish \/ BeginTrack \/ EndTrack
    BY <2>1 DEF Task, Slew, Track, Fetch, Reject, SkipSlew, AccelStep, RampStep, AccelDone,
       AccelHalted, Halt, CruiseTimeout, CruiseDone, CruiseHalted, SpeedChange,
       SpeedChangeStep, SpeedChangeDone, RampHalted, BeginDecel, DecelStep, DecelHalted,
       KeepSpeed, PullOver, Correct, CorrectionDone, Corrected, CorrectionHalted,
       TrackHalted, TrackGuide, BeginGuide, SkipGuide, GuideDone, EndGuide, GuideHalted
  <2>3. CASE BeginShortSlew \/ BeginLongSlew
    BY <2>0, <2>3 DEF BeginShortSlew, BeginLongSlew, EnterSlew, MotionInv, Resting
  <2>4. CASE BeginTrack
    BY <2>0, <2>4 DEF BeginTrack, Accepted, Indefinite, MotionInv, Resting
  <2>5. CASE BeginCorrection \/ CorrectionTooLarge \/ Finish \/ EndTrack
    BY <2>0, <2>5 DEF BeginCorrection, CorrectionTooLarge, Finish, EndTrack, MotionInv
  <2> QED BY <2>2, <2>3, <2>4, <2>5
<1> QED BY <1>1, Invariant, PTL DEF Spec, ModeChangesAtRest

\* A finite slew hands over its result (and wakes its caller) at rest, or
\* inertial for one of the two reasons the code has (Axis.cpp:98-121, 419-425).
THEOREM HandOver == Spec => SlewEndsStopped
<1> DEFINE AtRest == \/ status' = "STOPPED" /\ motor' = "idle"
                     \/ status = "INERTIAL" /\ pc = "dispatch"
                     \/ "STOP_KEEPSPEED" \in flags /\ pc = "decel"
<1>1. IInv /\ [Next]_vars => [finishSem = 0 /\ finishSem' = 1 => AtRest]_vars
  <2> SUFFICES ASSUME IInv, Next, finishSem = 0, finishSem' = 1
               PROVE  AtRest
    BY DEF vars
  <2>0. MotionInv
    BY DEF IInv
  <2>1. ASSUME NEW c \in Clients, Call(c) \/ Continue(c)
        PROVE  finishSem' = finishSem \/ finishSem' = 0
    BY <2>1 DEF Call, Continue, Alloc, Guide, Stop, EmergencyStop, FlushCommandQueue,
       StartFlush, StopKeepSpeed, SetSlewSpeed, SetTrackSpeed, SetGuideSpeed,
       ClearSem, Put, PutFails, WaitForSlew, FlushGet, FlushFree, FlushDone, Signal
  <2>2. Task
    BY <2>1 DEF Next
  <2>3. \/ Reject \/ SkipSlew \/ KeepSpeed \/ CorrectionTooLarge \/ Finish \/ EndTrack
    BY <2>2 DEF Task, Slew, Track, Fetch, BeginShortSlew, BeginLongSlew, EnterSlew,
       AccelStep, RampStep, AccelDone, AccelHalted, Halt, CruiseTimeout, CruiseDone,
       CruiseHalted, SpeedChange, SpeedChangeStep, SpeedChangeDone, RampHalted, BeginDecel,
       DecelStep, DecelHalted, PullOver, BeginCorrection, Correct, CorrectionDone,
       Corrected, CorrectionHalted, BeginTrack, TrackHalted, TrackGuide, BeginGuide,
       SkipGuide, GuideDone, EndGuide, GuideHalted
  <2>4. CASE Reject \/ SkipSlew
    BY <2>0, <2>4 DEF Reject, SkipSlew, MotionInv, Resting
  <2>5. CASE KeepSpeed
    BY <2>5 DEF KeepSpeed
  <2>6. CASE CorrectionTooLarge \/ Finish \/ EndTrack
    BY <2>0, <2>6 DEF CorrectionTooLarge, Finish, EndTrack, MotionInv
  <2> QED BY <2>3, <2>4, <2>5, <2>6
<1> QED BY <1>1, Invariant, PTL DEF Spec, SlewEndsStopped

\* Every wait of a slew obeys a pending emergency stop before anything else,
\* keeping the speed the same until the axis pulls over (Axis.cpp:280-292,
\* 312-321, 345-362, 408-425, 486-494).
THEOREM Immediate == Spec => EmergencyStopIsImmediate
<1> DEFINE Waiting == \/ pc \in {"accel", "ramp", "decel", "correcting"}
                      \/ (pc = "cruise" /\ waitMs # 0)
           Obeyed == /\ pc' \in {"emerge_stop", "finish"}
                     /\ finishState' = "EMERG_STOPPED" /\ currentSpeed' = currentSpeed
<1>1. [Next]_vars => ["EMERGE_STOP" \in flags /\ Waiting /\ pc' # pc => Obeyed]_vars
  <2> SUFFICES ASSUME Next, "EMERGE_STOP" \in flags, Waiting, pc' # pc
               PROVE  Obeyed
    BY DEF vars
  <2>1. Task
    BY DEF Next, Call, Continue
  <2>2. ~TimedOut
    BY DEF TimedOut, Awaited
  <2>3. \/ AccelHalted \/ CruiseHalted \/ RampHalted \/ DecelHalted \/ CorrectionHalted
    BY <2>1, <2>2 DEF Task, Slew, Track, Fetch, Reject, SkipSlew, BeginShortSlew,
       BeginLongSlew, EnterSlew, AccelStep, RampStep, AccelDone, CruiseTimeout, CruiseDone,
       SpeedChange, SpeedChangeStep, SpeedChangeDone, BeginDecel, DecelStep, KeepSpeed,
       PullOver, BeginCorrection, CorrectionTooLarge, Correct, CorrectionDone, Corrected,
       Finish, BeginTrack, TrackHalted, TrackGuide, BeginGuide, SkipGuide, GuideDone,
       EndGuide, GuideHalted, EndTrack, Guiding
  <2> QED BY <2>3 DEF AccelHalted, CruiseHalted, RampHalted, DecelHalted,
             CorrectionHalted, Halt
<1> QED BY <1>1, PTL DEF Spec, EmergencyStopIsImmediate

=============================================================================
