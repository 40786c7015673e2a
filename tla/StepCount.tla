----------------------------- MODULE StepCount -----------------------------
(***************************************************************************)
(* Counting steps: AMIS30543StepperDriver.cpp and StepOut.cpp.  StepOut    *)
(* makes pulses with a PWM and counts them by the time since the last      *)
(* change of frequency; the driver adds up its runs, with their direction. *)
(* The axis's task thread starts, stops and changes the frequency; threads *)
(* below its priority read the count, a variable at a time, and may be     *)
(* interrupted by all of it.  The task thread reads it too, undisturbed.   *)
(*                                                                         *)
(* Time is counted in pulses: a frequency change falls between two, so the *)
(* fraction that its conversion to an integer drops is not modelled, nor   *)
(* is the division by the microsteps.                                      *)
(***************************************************************************)
EXTENDS Integers

CONSTANTS
  PulsesInStart,  \* bound on the pulses between step.start and resetCount
  MaxMoves,       \* bound on starts
  MaxPulses       \* bound on pulses made

ASSUME CountAssumption ==
  PulsesInStart \in Nat /\ MaxMoves \in Nat /\ MaxPulses \in Nat

VARIABLES
  driver,      \* status, inc and stepCount of the driver
  out,         \* status, freq > 0, stepCount, and pulses on its timer
  made,        \* steps the motor has made
  uncounted,   \* those made before resetCount
  moves, pulses,
  look         \* a reading: where it is, what it has seen, where the motor
               \* has been meanwhile, and whether the task thread came between

countVars == <<driver, out, made, uncounted, moves, pulses, look>>

\* StepOut.
OutStart(o) ==
  IF o.status = "IDLE" /\ o.on THEN [o EXCEPT !.status = "STEPPING", !.tim = 0]
  ELSE o

\* Fault: the pulses of the run are not added.
OutStopForgets(o) == [o EXCEPT !.status = "IDLE"]

OutStop(o) ==
  IF o.status = "STEPPING"
  THEN [o EXCEPT !.status = "IDLE", !.stepCount = @ + o.tim] ELSE o

\* A frequency of 0 stops the pulses, and drops those on the timer: they are
\* multiplied by a frequency that is already 0.
OutFrequency(o, on) ==
  IF on /\ o.status = "STEPPING" THEN OutStart(OutStop(o))
  ELSE [o EXCEPT !.status = "IDLE", !.on = on]

OutReset(o) ==
  [o EXCEPT !.stepCount = 0, !.tim = IF o.status = "STEPPING" THEN 0 ELSE @]

OutCount(o) ==
  IF o.status = "IDLE" THEN o.stepCount ELSE o.stepCount + o.tim

\* The driver, as its own thread reads it.
StepCountNow ==
  IF driver.status = "IDLE" THEN driver.stepCount
  ELSE driver.stepCount + driver.inc * OutCount(out)

Disturbed == [look EXCEPT !.disturbed = TRUE]

Start(inc) ==
  /\ driver.status = "IDLE" /\ moves < MaxMoves
  /\ moves' = moves + 1
  /\ out' = OutReset(OutStart(out))
  /\ driver' = [driver EXCEPT !.status = "STEPPING", !.inc = inc]
  /\ \E lost \in IF out.on THEN 0..PulsesInStart ELSE {0} :
       made' = made + inc * lost /\ uncounted' = uncounted + inc * lost
  /\ look' = Disturbed
  /\ UNCHANGED pulses

StopMotor ==
  /\ driver.status = "STEPPING"
  /\ out' = OutStop(out)
  /\ driver' = [driver EXCEPT !.status = "IDLE",
                              !.stepCount = @ + driver.inc * OutCount(out')]
  /\ look' = Disturbed
  /\ UNCHANGED <<made, uncounted, moves, pulses>>

\* The axis stops a motor by stop, and never by a frequency of 0.
SetFrequency(on) ==
  /\ on \/ driver.status = "IDLE"
  /\ out' = OutFrequency(out, on)
  /\ look' = Disturbed
  /\ UNCHANGED <<driver, made, uncounted, moves, pulses>>

Pulse ==
  /\ out.status = "STEPPING" /\ pulses < MaxPulses
  /\ pulses' = pulses + 1
  /\ out' = [out EXCEPT !.tim = @ + 1]
  /\ made' = made + driver.inc
  /\ look' = [look EXCEPT !.been = @ \cup {made' - uncounted}]
  /\ UNCHANGED <<driver, uncounted, moves>>

-----------------------------------------------------------------------------
(* getStepCount of another thread, a read at a time.                       *)

NoLook ==
  [pc |-> "idle", sum |-> 0, been |-> {}, disturbed |-> FALSE]

LookAt(pc, sum) == look' = [look EXCEPT !.pc = pc, !.sum = sum]

LookStatus ==
  /\ look.pc = "idle"
  /\ look' = [NoLook EXCEPT !.been = {made - uncounted},
       !.pc = IF driver.status = "IDLE" THEN "idle_count" ELSE "count"]

LookCount ==
  \/ look.pc = "idle_count" /\ LookAt("done", driver.stepCount)
  \/ look.pc = "count" /\ LookAt("out", driver.stepCount)
  \/ look.pc = "out"
       /\ LookAt(IF out.status = "IDLE" THEN "done" ELSE "timer",
                 look.sum + driver.inc * out.stepCount)
  \/ look.pc = "timer" /\ LookAt("done", look.sum + driver.inc * out.tim)
  \/ look.pc = "done" /\ look' = NoLook

CountInit ==
  /\ driver = [status |-> "IDLE", inc |-> 1, stepCount |-> 0]
  /\ out = [status |-> "IDLE", on |-> FALSE, stepCount |-> 0, tim |-> 0]
  /\ made = 0 /\ uncounted = 0 /\ moves = 0 /\ pulses = 0 /\ look = NoLook

CountNext ==
  \/ \E inc \in {-1, 1} : Start(inc)
  \/ StopMotor \/ Pulse
  \/ \E on \in BOOLEAN : SetFrequency(on)
  \/ /\ LookStatus \/ LookCount
     /\ UNCHANGED <<driver, out, made, uncounted, moves, pulses>>

-----------------------------------------------------------------------------
CountTypeOK ==
  /\ driver.status \in {"IDLE", "STEPPING"} /\ driver.inc \in {-1, 1}
  /\ driver.stepCount \in Int /\ out.stepCount \in Int /\ out.tim \in Nat
  /\ out.status = "STEPPING" => driver.status = "STEPPING" /\ out.on

\* Through starts, stops, reversals and changes of frequency on the way, the
\* count is the number of steps made, less those before resetCount
\* (AMIS30543StepperDriver.cpp:105).  A reading by another thread is a position
\* the motor had meanwhile if no start, stop or change of frequency came
\* between; otherwise it may count a run twice (115, 132).
StepsCounted ==
  /\ StepCountNow = made - uncounted
  /\ (look.pc = "done" /\ ~look.disturbed) => look.sum \in look.been
=============================================================================
