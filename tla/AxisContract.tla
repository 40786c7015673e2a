--------------------------- MODULE AxisContract ---------------------------
(***************************************************************************)
(* What an axis is to the code that drives it: module Axis without the     *)
(* speeds, the motor and the guide pulses.  An axis is a record, and an    *)
(* operator gives the records one step of its task thread may leave.       *)
(* AxisPort makes a specification of it, which Axis implements;            *)
(* EquatorialMount drives two of them.                                     *)
(*                                                                         *)
(* Points of the task thread ("run"): "fetch" waits for a command, "begin" *)
(* has one; "slew" accelerates or runs, "stop" and "decel" slow down,      *)
(* "over" and "correct" are what follows; "track" and "track_end".         *)
(***************************************************************************)
EXTENDS Integers, Sequences

Nothing == [signal |-> "NONE", dir |-> "STOP", withCorrection |-> FALSE,
            valid |-> FALSE]

Stops == {"STOP", "EMERGE_STOP"}

Rest ==
  [queue |-> <<>>, flags |-> {}, run |-> "fetch", cmd |-> Nothing,
   status |-> "STOPPED", dir |-> "POSITIVE", slewState |-> "NOT_SLEWING",
   sem |-> 0, result |-> "COMPLETE"]

-----------------------------------------------------------------------------
(* Calls.                                                                  *)

Posted(a, m) == [a EXCEPT !.queue = Append(@, m)]

\* startSlewTo clears the semaphore before it posts.
SlewPosted(a, m) == [Posted(a, m) EXCEPT !.sem = 0]

Flushed(a) == [a EXCEPT !.queue = <<>>]

Flagged(a, flag) == [a EXCEPT !.flags = @ \cup {flag}]

\* stop and emergency_stop
StopAxis(a, flag) == Flagged(Flushed(a), flag)

-----------------------------------------------------------------------------
(* Steps of the task thread.                                               *)

Returned(a) ==
  [a EXCEPT !.run = "fetch", !.cmd = Nothing,
            !.sem = IF a.cmd.signal = "SLEW_TO" THEN 1 ELSE @]

Uncorrected(a) == [a EXCEPT !.cmd.withCorrection = FALSE]

Fetches(a) ==
  {[a EXCEPT !.cmd = Head(q), !.queue = Tail(q), !.run = "begin"] :
     q \in {a.queue} \ {<<>>}}

\* A command that the status does not let start, or that goes nowhere.
Refused(a) ==
  \/ a.status # "STOPPED"
     /\ ~(a.status = "INERTIAL" /\ a.cmd.signal = "SLEW_INDEFINITE")
  \/ a.cmd.signal # "TRACK" /\ (a.cmd.dir = "STOP" \/ ~a.cmd.valid)

SlewBegins(a) ==
  LET b == [a EXCEPT !.flags = @ \ Stops, !.status = "SLEWING",
                     !.result = "COMPLETE", !.dir = a.cmd.dir]
  IN  {[b EXCEPT !.run = "slew", !.slewState = "RUNNING"]}
      \cup {[b EXCEPT !.run = "over", !.slewState = "NOT_SLEWING"] :
              c \in {a.cmd.signal} \ {"SLEW_INDEFINITE"}}

TrackBegins(a) ==
  {[a EXCEPT !.flags = @ \ Stops, !.status = "TRACKING", !.run = "track",
             !.dir = d] : d \in {a.cmd.dir, "POSITIVE"} \ {"STOP"}}

Begins(a) ==
  IF Refused(a) THEN {Returned(a)}
  ELSE IF a.cmd.signal = "TRACK" THEN TrackBegins(a)
  ELSE SlewBegins(a)

\* The end of a finite slew, or a stop: an emergency stop goes first.
Slews(a) ==
  {[a EXCEPT !.run = "stop"] : c \in {a.cmd.signal} \ {"SLEW_INDEFINITE"}}
  \cup {[Uncorrected(a) EXCEPT !.flags = @ \ Stops,
           !.result = IF "EMERGE_STOP" \in a.flags THEN "EMERG_STOPPED"
                      ELSE "STOPPED",
           !.run = IF "EMERGE_STOP" \in a.flags THEN "over" ELSE "stop"] :
          f \in a.flags \cap Stops}

StopsRunning(a) ==
  {[a EXCEPT !.slewState = "DECELERATING", !.run = r] : r \in {"decel", "over"}}

Decelerates(a) ==
  LET b == [a EXCEPT !.flags = @ \ {"EMERGE_STOP", "STOP_KEEPSPEED"}]
  IN  IF "EMERGE_STOP" \in a.flags
      THEN {[Uncorrected(b) EXCEPT !.result = "EMERG_STOPPED", !.run = "over"]}
      ELSE IF "STOP_KEEPSPEED" \in a.flags
      THEN {[Returned(b) EXCEPT !.status = "INERTIAL",
                                !.slewState = "NOT_SLEWING"]}
      ELSE {[a EXCEPT !.run = "over"]}

\* Pulled over; then a correction, none, or one that would be too large.
IsOver(a) ==
  IF a.slewState # "NOT_SLEWING"
  THEN {[a EXCEPT !.slewState = "NOT_SLEWING"]}
  ELSE {[Returned(a) EXCEPT !.status = "STOPPED"]}
       \cup UNION {{[a EXCEPT !.run = "correct"],
                    [Returned(StopAxis(a, "STOP")) EXCEPT
                       !.status = "STOPPED", !.result = "EMERG_STOPPED"]} :
                     c \in {a.cmd.withCorrection} \ {FALSE}}

Corrects(a) ==
  IF "EMERGE_STOP" \in a.flags
  THEN {[a EXCEPT !.flags = @ \ {"EMERGE_STOP"},
                  !.result = "EMERG_STOPPED", !.run = "over"]}
  ELSE {[a EXCEPT !.run = "over"]}

TracksOn(a) ==
  {[a EXCEPT !.flags = @ \ Stops, !.run = "track_end"] :
     f \in a.flags \cap Stops}

TaskSteps(a) ==
  CASE a.run = "fetch" -> Fetches(a)
    [] a.run = "begin" -> Begins(a)
    [] a.run = "slew" -> Slews(a)
    [] a.run = "stop" -> StopsRunning(a)
    [] a.run = "decel" -> Decelerates(a)
    [] a.run = "over" -> IsOver(a)
    [] a.run = "correct" -> Corrects(a)
    [] a.run = "track" -> TracksOn(a)
    [] a.run = "track_end" -> {[Returned(a) EXCEPT !.status = "STOPPED"]}

\* Is the task thread in a wait that nothing has ended?
Waiting(a) ==
  \/ a.run = "fetch" /\ a.queue = <<>>
  \/ a.run \in {"slew", "track"} /\ a.flags \cap Stops = {}
  \/ a.run = "decel" /\ a.flags \cap {"EMERGE_STOP", "STOP_KEEPSPEED"} = {}
  \/ a.run = "correct" /\ "EMERGE_STOP" \notin a.flags
=============================================================================
