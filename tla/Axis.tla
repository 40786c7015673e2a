------------------------------- MODULE Axis -------------------------------
(***************************************************************************)
(* One rotation axis of the mount: pushtogo/Axis.h and Axis.cpp, with the  *)
(* mode switches of AdaptiveAxis.cpp and the StepperMotor it drives.       *)
(*                                                                         *)
(* The axis owns a task thread (Axis::task) that takes commands from       *)
(* task_queue and runs one slew or one track at a time.  Clients (server   *)
(* dispatchers, the display, test code) call its methods from their own    *)
(* threads: they allocate a message from task_pool and queue it, or set a  *)
(* thread flag that the task waits for.                                    *)
(*                                                                         *)
(* Grain.  The task thread has a priority above every client               *)
(* (osPriorityAboveNormal, Axis.cpp:37), so its code from one blocking     *)
(* call to the next is one step; the labels of Axis::slew and the debug()  *)
(* after a message is fetched split it further (debug() may block on the   *)
(* display).  A client may be preempted between any two statements, so     *)
(* each of its accesses to shared state is a step.                         *)
(*                                                                         *)
(* Speeds are in units of acceleration * acceleration_step_time, so a ramp *)
(* moves by one unit per step.  The angle is not tracked: how far a slew   *)
(* has to go and what a correction finds are choices.                      *)
(*                                                                         *)
(* A definition under a comment "Fault" is the definition that follows it, *)
(* with a mistake in it: no other definition uses it, and it is there to   *)
(* show which property tells the two apart.                                *)
(***************************************************************************)
EXTENDS Integers, Sequences, FiniteSets

CONSTANTS
  Clients,          \* threads that call the methods of the axis
  Slewers,          \* those that call startSlewTo/waitForSlew (goToMount)
  Ops,              \* the methods the clients call, a subset of AllOps
  Requests,         \* the commands the clients post, a subset of Command
  QueueSize,        \* slots of task_queue (16 in Axis.h)
  PoolSize,         \* blocks of task_pool (16 in Axis.h)
  GuideQueueSize,   \* slots of guide_queue (16 in Axis.h)
  SlewSpeeds,       \* values of slewSpeed
  TrackSpeeds,      \* values of trackSpeed, 0 when the axis does not track
  GuideSpeeds,      \* values of guideSpeed
  CorrectionSpeed,  \* correction_speed_sidereal
  MaxWaitMs,        \* bound on the time a slew spends at constant speed
  MaxLateMs,        \* how late, in ms, the task may read its timer
  Preemptible       \* can a client run between two blocking calls of the task?

NoCmd == [signal |-> "NONE", dir |-> "STOP", withCorrection |-> FALSE,
          valid |-> FALSE]

\* msg_t.  "valid": the angle is a finite number.
Command ==
  [signal : {"SLEW_TO"}, dir : {"STOP", "POSITIVE", "NEGATIVE"},
   withCorrection : BOOLEAN, valid : BOOLEAN]
  \cup [signal : {"SLEW_INDEFINITE", "TRACK"},
        dir : {"STOP", "POSITIVE", "NEGATIVE"},
        withCorrection : {FALSE}, valid : {TRUE}]

AllOps == {"command", "guide", "stop", "emergency_stop", "flush",
           "stopKeepSpeed", "setSlewSpeed", "setTrackSpeed", "setGuideSpeed"}

ASSUME ClientsAssumption == IsFiniteSet(Clients) /\ Slewers \subseteq Clients
ASSUME RequestsAssumption == Requests \subseteq Command /\ Ops \subseteq AllOps
ASSUME SizesAssumption ==
  /\ QueueSize \in Nat \ {0} /\ PoolSize \in Nat \ {0}
  /\ GuideQueueSize \in Nat \ {0}
ASSUME SpeedsAssumption ==
  /\ SlewSpeeds \subseteq Nat \ {0} /\ SlewSpeeds # {}
  /\ TrackSpeeds \subseteq Nat /\ TrackSpeeds # {}
  /\ GuideSpeeds \subseteq Nat \ {0} /\ GuideSpeeds # {}
  /\ CorrectionSpeed \in Nat \ {0}
ASSUME TimesAssumption == MaxWaitMs \in Nat /\ MaxLateMs \in Nat
ASSUME PreemptibleAssumption == Preemptible \in BOOLEAN

VARIABLES
  \* shared with the clients
  taskQueue, pool, guideQueue, flags, finishSem, finishState,
  status, slewState, currentSpeed, currentDirection,
  slewSpeed, trackSpeed, guideSpeed,
  \* the stepper motor and its drive mode
  motor, mode,
  \* the task thread: where it is and its locals
  pc, cmd, ramp, waitMs, nTry,
  \* the clients: where each is, the message it holds, the flag its call sets
  cpc, held, after,
  \* history: the last command or stop, a stop counting from its flush
  lastCall

queueVars  == <<taskQueue, pool>>
semVars    == <<finishSem, finishState>>
speedVars  == <<slewSpeed, trackSpeed, guideSpeed>>
motionVars == <<status, slewState, currentSpeed, currentDirection>>
motorVars  == <<motor, mode>>
localVars  == <<cmd, ramp, waitMs, nTry>>
clientVars == <<cpc, held, after>>

vars == <<taskQueue, pool, guideQueue, flags, finishSem, finishState,
          status, slewState, currentSpeed, currentDirection,
          slewSpeed, trackSpeed, guideSpeed, motor, mode,
          pc, cmd, ramp, waitMs, nTry,
          cpc, held, after, lastCall>>

Flags == {"GUIDE", "STOP", "EMERGE_STOP", "STOP_KEEPSPEED", "SPEEDCHANGE"}

Pulses == {"POSITIVE", "NEGATIVE", "ZERO"}   \* a guide pulse: the sign of its time

\* Where the task thread can be.  A wait is a blocking call; the other
\* points are the labels and loop heads of Axis.cpp.  In "guiding_switched"
\* the local dirswitch is set, in "guiding" it is not.
SlewWaits  == {"accel", "cruise", "ramp", "decel"}
Guiding    == {"guiding", "guiding_switched"}
Waits      == SlewWaits \cup Guiding \cup {"correcting", "track"}
TaskPoints == {"fetch", "dispatch", "accel", "cruise", "ramp", "stop", "decel",
               "emerge_stop", "correction", "correct_next", "correcting", "finish",
               "track", "guide_next", "guiding", "guiding_switched", "track_end"}

ClientPoints == {"idle", "clear", "put", "await", "flush", "free", "signal"}

(***************************************************************************)
(* Helpers                                                                 *)
(***************************************************************************)
MotorDirs == {"forward", "backward"}

\* stepdir_t of a direction of rotation
MotorFor(dir) == IF dir = "POSITIVE" THEN "forward" ELSE "backward"
Opposite(m)   == IF m = "forward" THEN "backward" ELSE "forward"

\* StepperMotor::start: ignored unless the motor is idle
Started(m) == IF motor = "idle" THEN m ELSE motor

Max1(n) == IF n < 1 THEN 1 ELSE n
Dist(a, b) == IF a < b THEN b - a ELSE a - b

\* The speed of step i of a ramp of "steps" steps,
\* (to - from) / steps * i + from; "steps" is 1 or the distance.
RampSpeed(r) ==
  IF r.i = r.steps THEN r.to
  ELSE IF r.from < r.to THEN r.from + r.i ELSE r.from - r.i

NoRamp == [from |-> 0, to |-> 0, steps |-> 1, i |-> 1]

\* Acceleration (Axis.cpp:249).  A negative number of steps converts to 0
\* (__aeabi_d2uiz), and then counts as one step.
AccelRamp(from, to) == [from |-> from, to |-> to, steps |-> Max1(to - from), i |-> 1]
\* Fault: the sign of the change is not dropped.
SpeedRampSigned(from, to) == [from |-> from, to |-> to, steps |-> Max1(to - from), i |-> 1]

\* A change of speed (Axis.cpp:330) takes the distance.
SpeedRamp(from, to) == [from |-> from, to |-> to, steps |-> Max1(Dist(from, to)), i |-> 1]
\* Deceleration (Axis.cpp:389-400) counts i down from steps - 1.
DecelRamp(speed) == [from |-> 0, to |-> speed, steps |-> Max1(speed), i |-> Max1(speed) - 1]

\* useCorrection is a local copy of the command's flag: clearing it is
\* clearing the flag of the command in hand.
WithoutCorrection(c) == [c EXCEPT !.withCorrection = FALSE]

Indefinite == cmd.signal = "SLEW_INDEFINITE"

\* The flags a blocking call waits for
Awaited(p) ==
  CASE p \in {"accel", "ramp"} \cup Guiding -> {"STOP", "EMERGE_STOP"}
    [] p = "cruise" -> {"STOP", "EMERGE_STOP"}
                       \cup IF Indefinite THEN {"SPEEDCHANGE"} ELSE {}
    [] p = "decel" -> {"EMERGE_STOP", "STOP_KEEPSPEED"}
    [] p = "correcting" -> {"EMERGE_STOP"}
    [] p = "track" -> {"GUIDE", "STOP", "EMERGE_STOP"}
    [] OTHER -> {}

\* osThreadFlagsWait returns every flag that is set and clears those waited
\* for; it times out only when none of them is set.
Woken    == flags \cap Awaited(pc) # {}
TimedOut == flags \cap Awaited(pc) = {}

\* Is the task thread blocked, so that a thread of lower priority can run?
TaskBlocked ==
  \/ pc = "fetch" /\ taskQueue = <<>>
  \/ pc \in Waits /\ TimedOut /\ ~(pc = "cruise" /\ waitMs = 0)

ClientMayRun == Preemptible \/ TaskBlocked

-----------------------------------------------------------------------------
Init ==
  /\ taskQueue = <<>> /\ pool = PoolSize /\ guideQueue = <<>>
  /\ flags = {} /\ finishSem = 0 /\ finishState = "COMPLETE"
  /\ status = "STOPPED" /\ slewState = "NOT_SLEWING"
  /\ currentSpeed = 0 /\ currentDirection = "POSITIVE"
  /\ slewSpeed \in SlewSpeeds /\ trackSpeed \in TrackSpeeds
  /\ guideSpeed \in GuideSpeeds
  /\ motor = "idle" /\ mode = "idle"
  /\ pc = "fetch" /\ cmd = NoCmd /\ ramp = NoRamp /\ waitMs = 0 /\ nTry = 0
  /\ cpc = [c \in Clients |-> "idle"]
  /\ held = [c \in Clients |-> NoCmd]
  /\ after = [c \in Clients |-> "NONE"]
  /\ lastCall = "NONE"

(***************************************************************************)
(* The clients                                                             *)
(***************************************************************************)
taskUnchanged ==
  UNCHANGED <<motionVars, motorVars, localVars, pc, finishState>>

Goto(c, point) == cpc' = [cpc EXCEPT ![c] = point]

\* startSlewTo, startSlewingIndefinite and startTracking take a block of the
\* pool and fill it.  With no block free they return osErrorNoMemory and
\* change nothing.
Alloc(c, m) ==
  /\ cpc[c] = "idle" /\ "command" \in Ops /\ pool > 0
  /\ m.signal = "SLEW_TO" => c \in Slewers
  /\ pool' = pool - 1
  /\ held' = [held EXCEPT ![c] = m]
  /\ Goto(c, IF m.signal = "SLEW_TO" THEN "clear" ELSE "put")
  /\ UNCHANGED <<taskQueue, guideQueue, flags, finishSem, speedVars, after, lastCall>>

\* startSlewTo clears the semaphore before it queues the message.
ClearSem(c) ==
  /\ cpc[c] = "clear"
  /\ finishSem' = 0
  /\ Goto(c, "put")
  /\ UNCHANGED <<queueVars, guideQueue, flags, speedVars, held, after, lastCall>>

\* The caller of startSlewTo goes on to waitForSlew.
Put(c) ==
  /\ cpc[c] = "put" /\ Len(taskQueue) < QueueSize
  /\ taskQueue' = Append(taskQueue, held[c])
  /\ Goto(c, IF held[c].signal = "SLEW_TO" THEN "await" ELSE "idle")
  /\ held' = [held EXCEPT ![c] = NoCmd]
  /\ lastCall' = "command"
  /\ UNCHANGED <<pool, guideQueue, flags, finishSem, speedVars, after>>

\* Fault: the block is not given back.
PutFailsLeaking(c) ==
  /\ cpc[c] = "put" /\ Len(taskQueue) = QueueSize
  /\ held' = [held EXCEPT ![c] = NoCmd]
  /\ Goto(c, "idle")
  /\ UNCHANGED <<queueVars, guideQueue, flags, finishSem, speedVars, after, lastCall>>

\* The queue is full: the block goes back to the pool.
PutFails(c) ==
  /\ cpc[c] = "put" /\ Len(taskQueue) = QueueSize
  /\ pool' = pool + 1
  /\ held' = [held EXCEPT ![c] = NoCmd]
  /\ Goto(c, "idle")
  /\ UNCHANGED <<taskQueue, guideQueue, flags, finishSem, speedVars, after, lastCall>>

WaitForSlew(c) ==
  /\ cpc[c] = "await" /\ finishSem = 1
  /\ finishSem' = 0
  /\ Goto(c, "idle")
  /\ UNCHANGED <<queueVars, guideQueue, flags, speedVars, held, after, lastCall>>

\* guide: queue the pulse, then set the flag; nothing if the queue is full.
Guide(c, pulse) ==
  /\ cpc[c] = "idle" /\ "guide" \in Ops /\ Len(guideQueue) < GuideQueueSize
  /\ guideQueue' = Append(guideQueue, pulse)
  /\ after' = [after EXCEPT ![c] = "GUIDE"]
  /\ Goto(c, "signal")
  /\ UNCHANGED <<queueVars, flags, finishSem, speedVars, held, lastCall>>

\* stop, emergency_stop and flushCommandQueue start by emptying the queue.
StartFlush(c, op, flag) ==
  /\ cpc[c] = "idle" /\ op \in Ops
  /\ after' = [after EXCEPT ![c] = flag]
  /\ Goto(c, "flush")
  /\ UNCHANGED <<queueVars, guideQueue, flags, finishSem, speedVars, held, lastCall>>

Stop(c)              == StartFlush(c, "stop", "STOP")
EmergencyStop(c)     == StartFlush(c, "emergency_stop", "EMERGE_STOP")
FlushCommandQueue(c) == StartFlush(c, "flush", "NONE")

\* Fault: the block is freed here and again in FlushFree.
FlushGetFreeing(c) ==
  /\ cpc[c] = "flush" /\ taskQueue # <<>>
  /\ held' = [held EXCEPT ![c] = Head(taskQueue)]
  /\ taskQueue' = Tail(taskQueue)
  /\ pool' = pool + 1
  /\ Goto(c, "free")
  /\ UNCHANGED <<guideQueue, flags, finishSem, speedVars, after, lastCall>>

FlushGet(c) ==
  /\ cpc[c] = "flush" /\ taskQueue # <<>>
  /\ held' = [held EXCEPT ![c] = Head(taskQueue)]
  /\ taskQueue' = Tail(taskQueue)
  /\ Goto(c, "free")
  /\ UNCHANGED <<pool, guideQueue, flags, finishSem, speedVars, after, lastCall>>

FlushFree(c) ==
  /\ cpc[c] = "free"
  /\ pool' = pool + 1
  /\ held' = [held EXCEPT ![c] = NoCmd]
  /\ Goto(c, "flush")
  /\ UNCHANGED <<taskQueue, guideQueue, flags, finishSem, speedVars, after, lastCall>>

\* Fault: the flush may end with commands left in the queue.
FlushDoneEarly(c) ==
  /\ cpc[c] = "flush"
  /\ Goto(c, IF after[c] = "NONE" THEN "idle" ELSE "signal")
  /\ lastCall' = IF after[c] = "NONE" THEN lastCall ELSE after[c]
  /\ UNCHANGED <<queueVars, guideQueue, flags, finishSem, speedVars, held, after>>

FlushDone(c) ==
  /\ cpc[c] = "flush" /\ taskQueue = <<>>
  /\ Goto(c, IF after[c] = "NONE" THEN "idle" ELSE "signal")
  /\ lastCall' = IF after[c] = "NONE" THEN lastCall ELSE after[c]
  /\ UNCHANGED <<queueVars, guideQueue, flags, finishSem, speedVars, held, after>>

Signal(c) ==
  /\ cpc[c] = "signal"
  /\ flags' = flags \cup {after[c]}
  /\ after' = [after EXCEPT ![c] = "NONE"]
  /\ Goto(c, "idle")
  /\ UNCHANGED <<queueVars, guideQueue, finishSem, speedVars, held, lastCall>>

StopKeepSpeed(c) ==
  /\ cpc[c] = "idle" /\ "stopKeepSpeed" \in Ops
  /\ flags' = flags \cup {"STOP_KEEPSPEED"}
  /\ lastCall' = "STOP_KEEPSPEED"
  /\ UNCHANGED <<queueVars, guideQueue, finishSem, speedVars, clientVars>>

\* setSlewSpeed: the new speed first, then the flag
SetSlewSpeed(c) ==
  /\ cpc[c] = "idle" /\ "setSlewSpeed" \in Ops
  /\ slewSpeed' \in SlewSpeeds
  /\ after' = [after EXCEPT ![c] = "SPEEDCHANGE"]
  /\ Goto(c, "signal")
  /\ UNCHANGED <<queueVars, guideQueue, flags, finishSem, trackSpeed, guideSpeed,
                 held, lastCall>>

\* setTrackSpeedSidereal looks at the sign of the speed and at nothing else:
\* "Must be called only when the axis is stopped" (Axis.h:300) is a note to its
\* callers, and the mount's setTrackSpeedSidereal does not heed it.
SetTrackSpeed(c) ==
  /\ cpc[c] = "idle" /\ "setTrackSpeed" \in Ops
  /\ trackSpeed' \in TrackSpeeds
  /\ UNCHANGED <<queueVars, guideQueue, flags, finishSem, slewSpeed, guideSpeed,
                 clientVars, lastCall>>

\* setGuideSpeedSidereal, at any time too
SetGuideSpeed(c) ==
  /\ cpc[c] = "idle" /\ "setGuideSpeed" \in Ops
  /\ guideSpeed' \in GuideSpeeds
  /\ UNCHANGED <<queueVars, guideQueue, flags, finishSem, slewSpeed, trackSpeed,
                 clientVars, lastCall>>

\* A call that has begun
Continue(c) ==
  /\ \/ ClearSem(c) \/ Put(c) \/ PutFails(c) \/ WaitForSlew(c)
     \/ FlushGet(c) \/ FlushFree(c) \/ FlushDone(c) \/ Signal(c)
  /\ ClientMayRun
  /\ taskUnchanged

\* A new call
Call(c) ==
  /\ \/ \E m \in Requests : Alloc(c, m)
     \/ \E pulse \in Pulses : Guide(c, pulse)
     \/ Stop(c) \/ EmergencyStop(c) \/ FlushCommandQueue(c) \/ StopKeepSpeed(c)
     \/ SetSlewSpeed(c) \/ SetTrackSpeed(c) \/ SetGuideSpeed(c)
  /\ ClientMayRun
  /\ taskUnchanged

(***************************************************************************)
(* Axis::task                                                              *)
(***************************************************************************)
\* What no step of the task thread changes
callersUnchanged == UNCHANGED <<slewSpeed, guideSpeed, clientVars, lastCall>>

\* Fault: the semaphore is released after every command.
ReturnReleasing ==
  /\ pc' = "fetch"
  /\ finishSem' = 1
  /\ cmd' = NoCmd /\ ramp' = NoRamp /\ waitMs' = 0 /\ nTry' = 0

\* Back in the loop of Axis::task: the locals are dead, and a SLEW_TO
\* releases the semaphore, whatever became of it.
Return ==
  /\ pc' = "fetch"
  /\ finishSem' = IF cmd.signal = "SLEW_TO" THEN 1 ELSE finishSem
  /\ cmd' = NoCmd /\ ramp' = NoRamp /\ waitMs' = 0 /\ nTry' = 0

Fetch ==
  /\ pc = "fetch" /\ taskQueue # <<>>
  /\ cmd' = Head(taskQueue)
  /\ taskQueue' = Tail(taskQueue)
  /\ pool' = pool + 1
  /\ pc' = "dispatch"
  /\ UNCHANGED <<guideQueue, flags, semVars, trackSpeed, motionVars, motorVars,
                 ramp, waitMs, nTry>>

\* Fault: tracking too starts from the inertial state.
AcceptedInertial ==
  status = "STOPPED" \/ status = "INERTIAL"

\* Which commands the status lets start (Axis.cpp:99, 112, 123)
Accepted ==
  status = "STOPPED" \/ (Indefinite /\ status = "INERTIAL")

Reject ==
  /\ pc = "dispatch" /\ ~Accepted
  /\ Return
  /\ UNCHANGED <<queueVars, guideQueue, flags, finishState, trackSpeed,
                 motionVars, motorVars>>

(***************************************************************************)
(* Axis::slew                                                              *)
(***************************************************************************)
IsSlew == cmd.signal \in {"SLEW_TO", "SLEW_INDEFINITE"}

\* slew returns at once: no direction, or the angle is not a number.
SkipSlew ==
  /\ pc = "dispatch" /\ Accepted /\ IsSlew
  /\ cmd.dir = "STOP" \/ ~cmd.valid
  /\ Return
  /\ UNCHANGED <<queueVars, guideQueue, flags, finishState, trackSpeed,
                 motionVars, motorVars>>

\* What every slew does first (Axis.cpp:153-160)
EnterSlew ==
  /\ pc = "dispatch" /\ Accepted /\ IsSlew /\ cmd.dir # "STOP" /\ cmd.valid
  /\ mode' = "slew"
  /\ flags' = flags \ {"STOP", "EMERGE_STOP", "SPEEDCHANGE"}
  /\ status' = "SLEWING"
  /\ finishState' = "COMPLETE"
  /\ currentDirection' = cmd.dir
  /\ UNCHANGED <<queueVars, guideQueue, finishSem, trackSpeed, cmd, nTry>>

AfterMotion == IF cmd.withCorrection THEN "correction" ELSE "finish"

\* Not more than min_slew_angle to go: only the correction is left.
BeginShortSlew ==
  /\ EnterSlew
  /\ cmd.signal = "SLEW_TO"
  /\ slewState' = "NOT_SLEWING"
  /\ pc' = AfterMotion
  /\ UNCHANGED <<currentSpeed, motor, ramp, waitMs>>

\* Take the first step of the acceleration and start the motor.  The end
\* speed of a SLEW_TO is slewSpeed or what the distance allows.  wait_ms is
\* osWaitForever, which is -1, for an indefinite slew.
BeginLongSlew ==
  /\ EnterSlew
  /\ slewState' = "ACCELERATING"
  /\ \E endSpeed \in IF Indefinite THEN {slewSpeed} ELSE 1..slewSpeed :
       LET r == AccelRamp(IF status = "INERTIAL" THEN currentSpeed ELSE 0, endSpeed)
       IN  ramp' = r /\ currentSpeed' = RampSpeed(r)
  /\ waitMs' \in IF Indefinite THEN {-1} ELSE 0..MaxWaitMs
  /\ motor' = Started(MotorFor(cmd.dir))
  /\ pc' = "accel"

\* The next step of a ramp, one acceleration_step_time later
RampStep ==
  LET r == [ramp EXCEPT !.i = @ + 1]
  IN  /\ TimedOut /\ ramp.i < ramp.steps
      /\ ramp' = r
      /\ currentSpeed' = RampSpeed(r)
      /\ UNCHANGED <<queueVars, guideQueue, flags, semVars, trackSpeed, status,
                     slewState, currentDirection, motorVars, cmd, waitMs, nTry, pc>>

AccelStep == pc = "accel" /\ RampStep

AccelDone ==
  /\ pc = "accel" /\ TimedOut /\ ramp.i = ramp.steps
  /\ slewState' = "CONSTANT_SPEED"
  /\ pc' = "cruise"
  /\ ramp' = NoRamp
  /\ UNCHANGED <<queueVars, guideQueue, flags, semVars, trackSpeed, status,
                 currentSpeed, currentDirection, motorVars, cmd, waitMs, nTry>>

\* Fault: a stop goes before an emergency stop.
HaltStopFirst ==
  /\ flags \cap {"STOP", "EMERGE_STOP"} # {}
  /\ flags' = flags \ Awaited(pc)
  /\ IF "STOP" \notin flags
       THEN finishState' = "EMERG_STOPPED" /\ pc' = "emerge_stop"
       ELSE finishState' = "STOPPED" /\ pc' = "stop"
  /\ cmd' = WithoutCorrection(cmd)
  /\ ramp' = NoRamp
  /\ UNCHANGED <<queueVars, guideQueue, finishSem, trackSpeed, motionVars,
                 motorVars, waitMs, nTry>>

\* A stop or an emergency stop during a wait of the slew: the emergency stop
\* goes first, and there will be no correction.
Halt ==
  /\ flags \cap {"STOP", "EMERGE_STOP"} # {}
  /\ flags' = flags \ Awaited(pc)
  /\ IF "EMERGE_STOP" \in flags
       THEN finishState' = "EMERG_STOPPED" /\ pc' = "emerge_stop"
       ELSE finishState' = "STOPPED" /\ pc' = "stop"
  /\ cmd' = WithoutCorrection(cmd)
  /\ ramp' = NoRamp
  /\ UNCHANGED <<queueVars, guideQueue, finishSem, trackSpeed, motionVars,
                 motorVars, waitMs, nTry>>

AccelHalted  == pc = "accel" /\ Halt
CruiseHalted == pc = "cruise" /\ waitMs # 0 /\ Halt
RampHalted   == pc = "ramp" /\ Halt

\* Fault: the time left is not recomputed.
CruiseTimeoutStuck ==
  /\ pc = "cruise" /\ TimedOut /\ waitMs > 0
  /\ UNCHANGED <<queueVars, guideQueue, flags, semVars, trackSpeed, motionVars,
                 motorVars, localVars, pc>>

\* The wait of a finite slew timed out.  The elapsed time that the timer
\* shows is cut to whole ms, so it can be one short of the ticks waited, and
\* is longer when the thread was late.  A negative rest is an endless wait.
CruiseTimeout ==
  /\ pc = "cruise" /\ TimedOut /\ waitMs > 0
  /\ \E elapsed \in (waitMs - 1)..(waitMs + MaxLateMs) : waitMs' = waitMs - elapsed
  /\ UNCHANGED <<queueVars, guideQueue, flags, semVars, trackSpeed, motionVars,
                 motorVars, cmd, ramp, nTry, pc>>

CruiseDone ==
  /\ pc = "cruise" /\ waitMs = 0
  /\ pc' = "stop"
  /\ UNCHANGED <<queueVars, guideQueue, flags, semVars, trackSpeed, motionVars,
                 motorVars, localVars>>

\* setSlewSpeed during an indefinite slew
SpeedChange ==
  /\ pc = "cruise" /\ waitMs # 0 /\ Indefinite
  /\ "SPEEDCHANGE" \in flags /\ flags \cap {"STOP", "EMERGE_STOP"} = {}
  /\ flags' = flags \ Awaited(pc)
  /\ ramp' = SpeedRamp(currentSpeed, slewSpeed)
  /\ currentSpeed' = RampSpeed(ramp')
  /\ pc' = "ramp"
  /\ UNCHANGED <<queueVars, guideQueue, semVars, trackSpeed, status, slewState,
                 currentDirection, motorVars, cmd, waitMs, nTry>>

SpeedChangeStep == pc = "ramp" /\ RampStep

\* Fault: the flag is cleared after the change, not before.
SpeedChangeDoneClearing ==
  /\ pc = "ramp" /\ TimedOut /\ ramp.i = ramp.steps
  /\ pc' = "cruise"
  /\ ramp' = NoRamp
  /\ flags' = flags \ {"SPEEDCHANGE"}
  /\ UNCHANGED <<queueVars, guideQueue, semVars, trackSpeed, motionVars,
                 motorVars, cmd, waitMs, nTry>>

SpeedChangeDone ==
  /\ pc = "ramp" /\ TimedOut /\ ramp.i = ramp.steps
  /\ pc' = "cruise"
  /\ ramp' = NoRamp
  /\ UNCHANGED <<queueVars, guideQueue, flags, semVars, trackSpeed, motionVars,
                 motorVars, cmd, waitMs, nTry>>

\* Label "stop": decelerate, in no step at all from the lowest speed
BeginDecel ==
  /\ pc = "stop"
  /\ slewState' = "DECELERATING"
  /\ LET r == DecelRamp(currentSpeed)
     IN  IF r.i >= 1
           THEN ramp' = r /\ currentSpeed' = RampSpeed(r) /\ pc' = "decel"
           ELSE UNCHANGED <<ramp, currentSpeed>> /\ pc' = "emerge_stop"
  /\ UNCHANGED <<queueVars, guideQueue, flags, semVars, trackSpeed, status,
                 currentDirection, motorVars, cmd, waitMs, nTry>>

\* Fault: the deceleration counts down one step too far.
DecelStepToZero ==
  LET r == [ramp EXCEPT !.i = @ - 1]
  IN  /\ pc = "decel" /\ TimedOut
      /\ IF r.i >= 0
           THEN ramp' = r /\ currentSpeed' = RampSpeed(r) /\ pc' = "decel"
           ELSE ramp' = NoRamp /\ pc' = "emerge_stop" /\ UNCHANGED currentSpeed
      /\ UNCHANGED <<queueVars, guideQueue, flags, semVars, trackSpeed, status,
                     slewState, currentDirection, motorVars, cmd, waitMs, nTry>>

DecelStep ==
  LET r == [ramp EXCEPT !.i = @ - 1]
  IN  /\ pc = "decel" /\ TimedOut
      /\ IF r.i >= 1
           THEN ramp' = r /\ currentSpeed' = RampSpeed(r) /\ pc' = "decel"
           ELSE ramp' = NoRamp /\ pc' = "emerge_stop" /\ UNCHANGED currentSpeed
      /\ UNCHANGED <<queueVars, guideQueue, flags, semVars, trackSpeed, status,
                     slewState, currentDirection, motorVars, cmd, waitMs, nTry>>

DecelHalted ==
  /\ pc = "decel" /\ "EMERGE_STOP" \in flags
  /\ flags' = flags \ Awaited(pc)
  /\ finishState' = "EMERG_STOPPED"
  /\ cmd' = WithoutCorrection(cmd)
  /\ ramp' = NoRamp
  /\ pc' = "emerge_stop"
  /\ UNCHANGED <<queueVars, guideQueue, finishSem, trackSpeed, motionVars,
                 motorVars, waitMs, nTry>>

\* Fault: slewState is left as it was.
KeepSpeedDecelerating ==
  /\ pc = "decel" /\ "STOP_KEEPSPEED" \in flags /\ "EMERGE_STOP" \notin flags
  /\ flags' = flags \ Awaited(pc)
  /\ status' = "INERTIAL"
  /\ Return
  /\ UNCHANGED <<queueVars, guideQueue, finishState, trackSpeed, slewState, currentSpeed,
                 currentDirection, motorVars>>

\* slew returns with the motor running.
KeepSpeed ==
  /\ pc = "decel" /\ "STOP_KEEPSPEED" \in flags /\ "EMERGE_STOP" \notin flags
  /\ flags' = flags \ Awaited(pc)
  /\ status' = "INERTIAL"
  /\ slewState' = "NOT_SLEWING"
  /\ Return
  /\ UNCHANGED <<queueVars, guideQueue, finishState, trackSpeed, currentSpeed,
                 currentDirection, motorVars>>

\* Label "emerge_stop"
PullOver ==
  /\ pc = "emerge_stop"
  /\ slewState' = "NOT_SLEWING"
  /\ motor' = "idle"
  /\ currentSpeed' = 0
  /\ pc' = AfterMotion
  /\ ramp' = NoRamp
  /\ UNCHANGED <<queueVars, guideQueue, flags, semVars, trackSpeed, status,
                 currentDirection, mode, cmd, waitMs, nTry>>

BeginCorrection ==
  /\ pc = "correction"
  /\ mode' = "correction"
  /\ nTry' = 3
  /\ pc' = "correct_next"
  /\ UNCHANGED <<queueVars, guideQueue, flags, semVars, trackSpeed, motionVars,
                 motor, cmd, ramp, waitMs>>

\* Fault: status is left as it was.
CorrectionTooLargeSlewing ==
  /\ pc = "correction"
  /\ taskQueue' = <<>> /\ pool' = pool + Len(taskQueue)
  /\ flags' = flags \cup {"STOP"}
  /\ mode' = "idle"
  /\ currentSpeed' = 0
  /\ finishState' = "EMERG_STOPPED"
  /\ Return
  /\ UNCHANGED <<guideQueue, trackSpeed, status, slewState, currentDirection, motor>>

\* The angle left is above max_correction_angle: the axis calls stop() on
\* itself, which empties its queue, and gives up.
CorrectionTooLarge ==
  /\ pc = "correction"
  /\ taskQueue' = <<>> /\ pool' = pool + Len(taskQueue)
  /\ flags' = flags \cup {"STOP"}
  /\ mode' = "idle"
  /\ currentSpeed' = 0
  /\ finishState' = "EMERG_STOPPED"
  /\ status' = "STOPPED"
  /\ Return
  /\ UNCHANGED <<guideQueue, trackSpeed, slewState, currentDirection, motor>>

\* Another correction, in either direction, if tries are left ...
Correct ==
  /\ pc = "correct_next" /\ nTry > 1
  /\ nTry' = nTry - 1
  /\ currentSpeed' = CorrectionSpeed
  /\ \E m \in MotorDirs : motor' = Started(m)
  /\ pc' = "correcting"
  /\ UNCHANGED <<queueVars, guideQueue, flags, semVars, trackSpeed, status,
                 slewState, currentDirection, mode, cmd, ramp,
                 waitMs>>

\* ... or none: no try left, within tolerance, or too short a correction,
\* which is found out once the speed is set.
CorrectionDone ==
  /\ pc = "correct_next"
  /\ pc' = "finish"
  /\ nTry' = 0
  /\ \/ UNCHANGED currentSpeed
     \/ nTry > 1 /\ currentSpeed' = CorrectionSpeed
  /\ UNCHANGED <<queueVars, guideQueue, flags, semVars, trackSpeed, status, slewState,
                 currentDirection, motorVars, cmd, ramp, waitMs>>

Corrected ==
  /\ pc = "correcting" /\ TimedOut
  /\ motor' = "idle"
  /\ pc' = "correct_next"
  /\ UNCHANGED <<queueVars, guideQueue, flags, semVars, trackSpeed, motionVars,
                 mode, localVars>>

\* Fault: the motor is not stopped on an emergency stop.
CorrectionHaltedRunning ==
  /\ pc = "correcting" /\ Woken
  /\ flags' = flags \ Awaited(pc)
  /\ finishState' = "EMERG_STOPPED"
  /\ pc' = "finish"
  /\ UNCHANGED <<queueVars, guideQueue, finishSem, trackSpeed, motionVars, motorVars,
                 localVars>>

CorrectionHalted ==
  /\ pc = "correcting" /\ Woken
  /\ flags' = flags \ Awaited(pc)
  /\ motor' = "idle"
  /\ finishState' = "EMERG_STOPPED"
  /\ pc' = "finish"
  /\ UNCHANGED <<queueVars, guideQueue, finishSem, trackSpeed, motionVars, mode,
                 localVars>>

\* Label "emerge_stop2", the end of slew
Finish ==
  /\ pc = "finish"
  /\ currentSpeed' = 0
  /\ status' = "STOPPED"
  /\ mode' = "idle"
  /\ Return
  /\ UNCHANGED <<queueVars, guideQueue, flags, finishState, trackSpeed,
                 slewState, currentDirection, motor>>

Slew ==
  \/ SkipSlew \/ BeginShortSlew \/ BeginLongSlew
  \/ AccelStep \/ AccelDone \/ AccelHalted
  \/ CruiseTimeout \/ CruiseDone \/ CruiseHalted
  \/ SpeedChange \/ SpeedChangeStep \/ SpeedChangeDone \/ RampHalted
  \/ BeginDecel \/ DecelStep \/ DecelHalted \/ KeepSpeed \/ PullOver
  \/ BeginCorrection \/ CorrectionTooLarge \/ Correct \/ CorrectionDone
  \/ Corrected \/ CorrectionHalted \/ Finish

(***************************************************************************)
(* Axis::track                                                             *)
(***************************************************************************)
BeginTrack ==
  /\ pc = "dispatch" /\ Accepted /\ cmd.signal = "TRACK"
  /\ mode' = "track"
  /\ IF trackSpeed # 0 /\ cmd.dir # "STOP"
       THEN /\ currentSpeed' = trackSpeed
            /\ currentDirection' = cmd.dir
            /\ motor' = Started(MotorFor(cmd.dir))
            /\ UNCHANGED trackSpeed
       ELSE /\ trackSpeed' = 0
            /\ currentSpeed' = 0
            /\ currentDirection' = "POSITIVE"
            /\ UNCHANGED motor
  /\ status' = "TRACKING"
  /\ flags' = flags \ {"STOP", "EMERGE_STOP", "GUIDE"}
  /\ guideQueue' = <<>>
  /\ pc' = "track"
  /\ UNCHANGED <<queueVars, semVars, slewState, localVars>>

\* Fault: only an emergency stop ends tracking.
TrackHaltedEmergency ==
  /\ pc = "track" /\ "EMERGE_STOP" \in flags
  /\ flags' = flags \ Awaited(pc)
  /\ pc' = "track_end"
  /\ UNCHANGED <<queueVars, guideQueue, semVars, trackSpeed, motionVars,
                 motorVars, localVars>>

TrackHalted ==
  /\ pc = "track" /\ flags \cap {"STOP", "EMERGE_STOP"} # {}
  /\ flags' = flags \ Awaited(pc)
  /\ pc' = "track_end"
  /\ UNCHANGED <<queueVars, guideQueue, semVars, trackSpeed, motionVars,
                 motorVars, localVars>>

TrackGuide ==
  /\ pc = "track" /\ "GUIDE" \in flags /\ flags \cap {"STOP", "EMERGE_STOP"} = {}
  /\ flags' = flags \ Awaited(pc)
  /\ pc' = "guide_next"
  /\ UNCHANGED <<queueVars, guideQueue, semVars, trackSpeed, motionVars,
                 motorVars, localVars>>

\* Speed of a guide pulse in the direction of tracking
GuidedSpeed(pulse) ==
  IF pulse = currentDirection THEN trackSpeed + guideSpeed
                              ELSE trackSpeed - guideSpeed

BeginGuide ==
  /\ pc = "guide_next" /\ guideQueue # <<>> /\ Head(guideQueue) # "ZERO"
  /\ guideQueue' = Tail(guideQueue)
  /\ LET newSpeed == GuidedSpeed(Head(guideQueue))
     IN  \/ /\ newSpeed > 0
            /\ currentSpeed' = newSpeed
            /\ motor' = IF trackSpeed = 0 THEN Started("forward") ELSE motor
            /\ pc' = "guiding"
         \/ /\ newSpeed < 0
            /\ currentSpeed' = -newSpeed
            /\ motor' = Opposite(MotorFor(currentDirection))
            /\ pc' = "guiding_switched"
         \/ /\ newSpeed = 0
            /\ currentSpeed' = 0
            /\ motor' = "idle"
            /\ pc' = "guiding_switched"
  /\ UNCHANGED <<queueVars, flags, semVars, trackSpeed, status, slewState,
                 currentDirection, mode, cmd, ramp, waitMs, nTry>>

SkipGuide ==
  /\ pc = "guide_next" /\ guideQueue # <<>> /\ Head(guideQueue) = "ZERO"
  /\ guideQueue' = Tail(guideQueue)
  /\ UNCHANGED <<queueVars, flags, semVars, trackSpeed, motionVars, motorVars,
                 localVars, pc>>

\* Fault: pulses may be left in the queue.
GuideDoneEarly ==
  /\ pc = "guide_next"
  /\ pc' = "track"
  /\ UNCHANGED <<queueVars, guideQueue, flags, semVars, trackSpeed, motionVars,
                 motorVars, localVars>>

GuideDone ==
  /\ pc = "guide_next" /\ guideQueue = <<>>
  /\ pc' = "track"
  /\ UNCHANGED <<queueVars, guideQueue, flags, semVars, trackSpeed, motionVars,
                 motorVars, localVars>>

\* Fault: a reversed motor is not turned back.
EndGuideReversed ==
  /\ pc \in Guiding /\ TimedOut
  /\ motor' = IF trackSpeed # 0 THEN motor ELSE "idle"
  /\ currentSpeed' = trackSpeed
  /\ pc' = "guide_next"
  /\ UNCHANGED <<queueVars, guideQueue, flags, semVars, trackSpeed, status,
                 slewState, currentDirection, mode, cmd, ramp,
                 waitMs, nTry>>

\* The pulse is over: back to the motion of tracking
EndGuide ==
  /\ pc \in Guiding /\ TimedOut
  /\ motor' = IF pc = "guiding" /\ trackSpeed # 0 THEN motor
              ELSE IF trackSpeed # 0 THEN MotorFor(currentDirection)
              ELSE "idle"
  /\ currentSpeed' = trackSpeed
  /\ pc' = "guide_next"
  /\ UNCHANGED <<queueVars, guideQueue, flags, semVars, trackSpeed, status,
                 slewState, currentDirection, mode, cmd, ramp,
                 waitMs, nTry>>

GuideHalted ==
  /\ pc \in Guiding /\ Woken
  /\ flags' = flags \ Awaited(pc)
  /\ pc' = "track_end"
  /\ UNCHANGED <<queueVars, guideQueue, semVars, trackSpeed, motionVars,
                 motorVars, localVars>>

EndTrack ==
  /\ pc = "track_end"
  /\ currentSpeed' = 0
  /\ motor' = "idle"
  /\ status' = "STOPPED"
  /\ mode' = "idle"
  /\ Return
  /\ UNCHANGED <<queueVars, guideQueue, flags, finishState, trackSpeed,
                 slewState, currentDirection>>

Track ==
  \/ BeginTrack \/ TrackHalted \/ TrackGuide \/ BeginGuide \/ SkipGuide
  \/ GuideDone \/ EndGuide \/ GuideHalted \/ EndTrack

Task == (Fetch \/ Reject \/ Slew \/ Track) /\ callersUnchanged

-----------------------------------------------------------------------------
Next == Task \/ \E c \in Clients : Call(c) \/ Continue(c)

Spec == Init /\ [][Next]_vars

\* The task thread has the highest priority and its waits have timeouts.  A
\* client that has begun a call goes on with it when the task thread keeps
\* blocking (threads of one priority take turns).  Nobody has to call.
Fairness == WF_vars(Task) /\ \A c \in Clients : SF_vars(Continue(c))

LiveSpec == Spec /\ Fairness

-----------------------------------------------------------------------------
(***************************************************************************)
(* Properties                                                              *)
(***************************************************************************)
Ramps == [from : Nat, to : Nat, steps : Nat \ {0}, i : Nat \ {0}]

TypeOK ==
  /\ taskQueue \in Seq(Command) /\ pool \in Nat
  /\ guideQueue \in Seq(Pulses) /\ flags \subseteq Flags
  /\ finishSem \in {0, 1}
  /\ finishState \in {"COMPLETE", "STOPPED", "EMERG_STOPPED"}
  /\ status \in {"STOPPED", "SLEWING", "TRACKING", "INERTIAL"}
  /\ slewState \in {"NOT_SLEWING", "ACCELERATING", "CONSTANT_SPEED", "DECELERATING"}
  /\ currentSpeed \in Nat /\ currentDirection \in {"POSITIVE", "NEGATIVE"}
  /\ slewSpeed \in Nat \ {0} /\ trackSpeed \in Nat /\ guideSpeed \in Nat \ {0}
  /\ motor \in MotorDirs \cup {"idle"}
  /\ mode \in {"idle", "slew", "track", "correction"}
  /\ pc \in TaskPoints /\ cmd \in Command \cup {NoCmd}
  /\ ramp \in Ramps /\ waitMs \in Int /\ nTry \in 0..3
  /\ cpc \in [Clients -> ClientPoints]
  /\ held \in [Clients -> Command \cup {NoCmd}]
  /\ after \in [Clients -> Flags \cup {"NONE"}]
  /\ lastCall \in {"NONE", "command", "STOP", "EMERGE_STOP", "STOP_KEEPSPEED"}

Holders == {c \in Clients : held[c] # NoCmd}

\* No message is lost or freed twice: each block of task_pool is free, in
\* task_queue, or in the hands of one client, whatever the interleaving of
\* the posting calls, the flushing calls, the task thread's own flush and
\* its fetches (Axis.h:86-106, 212-222; Axis.cpp:75-84, 453).
PoolConserved == pool + Len(taskQueue) + Cardinality(Holders) = PoolSize

\* The queue has a slot for every block of the pool, so a post that got a
\* block is never refused (Axis.h:100-104: the error path is dead, and
\* goToMount, which ignores the result, never waits for a lost slew).
PutNeverFails ==
  PoolSize <= QueueSize =>
    \A c \in Clients : cpc[c] = "put" => Len(taskQueue) < QueueSize

\* What getStatus() = AXIS_STOPPED promises to stopSync and ~Axis, which
\* poll it from another thread: the motor is not stepping, the speed is 0.
StoppedMeansStill ==
  status = "STOPPED" => motor = "idle" /\ currentSpeed = 0

\* Between two commands the axis is stopped, or inertial with its motor
\* running; it never comes back to its queue in any other state.
IdleTaskStatus ==
  pc \in {"fetch", "dispatch"} =>
    \/ status = "STOPPED" /\ slewState = "NOT_SLEWING"
    \/ status = "INERTIAL" /\ slewState = "NOT_SLEWING"
       /\ motor # "idle" /\ currentSpeed > 0

\* A goto never turns the wrong way: from the first step of its acceleration
\* to the last of its deceleration the motor runs, in the direction of the
\* command and of the status, whatever nudges ran before, whatever
\* keep-speeds ended them, and whichever flags they left.  The driver ignores
\* a start while it runs (AMIS30543StepperDriver.cpp:81), so this holds only
\* because a goto is not taken up by an inertial axis (Axis.cpp:99).
MotorFollowsGoto ==
  pc \in SlewWaits \cup {"stop"} /\ cmd.signal = "SLEW_TO" =>
    /\ motor = MotorFor(cmd.dir) /\ currentDirection = cmd.dir
    /\ currentSpeed > 0

\* While it waits for guide pulses the motor does what tracking asks, all
\* guide pulses being undone, also when the speed of tracking or of guiding
\* is set during a pulse: it turns in the tracking direction, or is still
\* when there is nothing to track.  At which speed is not said: a new speed
\* of tracking is taken up at the end of the next pulse (Axis.cpp:646).
GuideRestoresTracking ==
  pc \in {"track", "guide_next"} =>
    /\ motor = IF trackSpeed = 0 THEN "idle" ELSE MotorFor(currentDirection)
    /\ currentSpeed > 0 <=> motor # "idle"

\* A caller of waitForSlew is woken by its own slew: when the semaphore is
\* up for it, its command is neither queued nor running.
NoEarlyWake ==
  \A c \in Clients :
    cpc[c] = "await" /\ finishSem = 1 =>
      /\ cmd.signal # "SLEW_TO"
      /\ \A k \in 1..Len(taskQueue) : taskQueue[k].signal # "SLEW_TO"

\* A change of the slewing speed is never lost: an indefinite slew that runs
\* at another speed has the flag to tell it, or the caller is about to set it
\* (setSlewSpeed writes, then signals; slew clears the flag, then reads).
NoLostSpeedChange ==
  pc = "cruise" /\ Indefinite /\ currentSpeed # slewSpeed =>
    "SPEEDCHANGE" \in flags \/ \E c \in Clients : after[c] = "SPEEDCHANGE"

\* A guide pulse is never left behind: while the task waits with a pulse in
\* its queue, it has the flag, or the caller is about to set it.
NoLostGuidePulse ==
  pc = "track" /\ guideQueue # <<>> =>
    "GUIDE" \in flags \/ \E c \in Clients : after[c] = "GUIDE"

\* While the motor runs a slew, one step changes its speed by at most one
\* acceleration step; only pulling over takes it to 0 at once.
AccelerationLimited ==
  [][ (pc \in SlewWaits \cup {"stop"}) =>
        Dist(currentSpeed, currentSpeed') <= 1 ]_vars

\* With an emergency stop pending, a slew takes no further speed step and
\* goes straight to the pull-over, past any deceleration, from every wait.
EmergencyStopIsImmediate ==
  [][ /\ "EMERGE_STOP" \in flags
      /\ pc \in {"accel", "ramp", "decel", "correcting"}
        \/ (pc = "cruise" /\ waitMs # 0)
      /\ pc' # pc
      => /\ pc' \in {"emerge_stop", "finish"}
         /\ finishState' = "EMERG_STOPPED" /\ currentSpeed' = currentSpeed ]_vars

\* A finite slew hands its result over with the axis at rest.  It does so with
\* the axis inertial only if it found the axis that way and was not taken
\* up, or took a stopKeepSpeed itself as it slowed down.
SlewEndsStopped ==
  [][ finishSem = 0 /\ finishSem' = 1 =>
        \/ status' = "STOPPED" /\ motor' = "idle"
        \/ status = "INERTIAL" /\ pc = "dispatch"
        \/ "STOP_KEEPSPEED" \in flags /\ pc = "decel" ]_vars

\* The drive mode (microsteps) changes only while the motor is not stepping,
\* since the driver divides the pulses it counts by the current microstep.
ModeChangesAtRest == [][ mode' # mode => motor = "idle" \/ motor' = "idle" ]_vars

(***************************************************************************)
(* Liveness, under LiveSpec                                                *)
(***************************************************************************)
\* If stop is the last thing that happens to the axis, it comes to rest for
\* good (Axis.h:225: "will stop the axis from indefinite slewing, or
\* tracking").
StopIsFinal == <>[](lastCall = "STOP") => <>[](motor = "idle")

\* The same for emergency_stop (Axis.h:236: "This should stop in ALL
\* situations"; "so the mount will be fully stopped").
EmergencyStopIsFinal == <>[](lastCall = "EMERGE_STOP") => <>[](motor = "idle")

\* A finite slew that has begun to run ends, in whatever state its waits find
\* the timer (Axis.cpp:308: "Wait the remaining time").
SlewEnds == cmd.signal = "SLEW_TO" ~> pc = "fetch"

\* slewTo comes back: every caller of waitForSlew is woken (Axis.h:125-126:
\* "It will perform an acceleration, a GoTo, and a deceleration before
\* returning").
SlewToReturns == \A c \in Clients : cpc[c] = "await" ~> cpc[c] = "idle"
=============================================================================
