-------------------------- MODULE AxisImplements --------------------------
(* Axis implements AxisPort.                                               *)
EXTENDS Axis

Running ==
  CASE pc = "dispatch" -> "begin"
    [] pc \in {"accel", "cruise", "ramp"} -> "slew"
    [] pc \in {"emerge_stop", "correction", "correct_next", "finish"} -> "over"
    [] pc = "correcting" -> "correct"
    [] pc \in {"track", "guide_next"} \cup Guiding -> "track"
    [] OTHER -> pc

\* To its callers an axis is no more than AxisPort says, with guide pulses,
\* speeds and the motor behind it: which commands its status lets start, what
\* becomes of pending stops when a slew or a track begins (Axis.cpp:155, 541),
\* when the semaphore is released and with what result.
Port == INSTANCE AxisPort WITH
  axis <- [queue |-> taskQueue,
           flags |-> flags \cap {"STOP", "EMERGE_STOP", "STOP_KEEPSPEED"},
           run |-> Running, cmd |-> cmd, status |-> status,
           dir |-> currentDirection,
           slewState |-> IF slewState \in {"ACCELERATING", "CONSTANT_SPEED"}
                         THEN "RUNNING" ELSE slewState,
           sem |-> finishSem, result |-> finishState]

ImplementsPort == Port!Spec
=============================================================================
