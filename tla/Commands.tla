----------------------------- MODULE Commands ------------------------------
(***************************************************************************)
(* What a command line asks of the mount: the handlers of EqMountServer.cpp*)
(* up to the call they make, or to the error they return instead.  A line  *)
(* is a command and its arguments, which are words; Value says what strtod *)
(* or strtol reads in the words that begin with a number.                  *)
(*                                                                         *)
(* A job is an operation of the mount with its parameters.  Commands that  *)
(* call none of those modelled in EquatorialMount are "ask": they end with *)
(* the code in ret, {} for 0.  The list of alignment stars is in module    *)
(* Alignment, `config` in Configuration; the speeds of tracking and        *)
(* guiding belong to module Axis.                                          *)
(***************************************************************************)
EXTENDS Integers, Sequences

CONSTANTS
  Value,           \* what the words that are numbers are read as
  MaxSpeed,        \* "max_speed"
  MaxGuideTime     \* "max_guide_time"

ASSUME NumberAssumption == \A word \in DOMAIN Value : Value[word] \in Int

IsNumber(word) == word \in DOMAIN Value

NoJob == [op |-> "none", dirs |-> {}, speed |-> 0, ret |-> {}]

Job(op) == [NoJob EXCEPT !.op = op]

Reply == Job("ask")

Answered(code) == [Reply EXCEPT !.ret = {code}]

WrongNumber == Answered("ERR_WRONG_NUM_PARAM")
OutOfRange == Answered("ERR_PARAM_OUT_OF_RANGE")

\* Angles within these bounds, or no number at all.
Within(word, bound) ==
  IsNumber(word) /\ Value[word] \in (-bound)..bound

StopJob(args) ==
  CASE args = <<>> -> Job("stop")
    [] args = <<"track">> -> Job("stop_track")
    [] OTHER -> WrongNumber

\* A goto of one or of three words that is none of these is taken for done.
GotoJob(args) ==
  LET n == Len(args)
      eq == n = 3 /\ args[1] = "eq"
      sky == IF eq THEN Tail(args) ELSE args
  IN  CASE n = 1 -> IF args[1] = "index" THEN Job("gotoMount") ELSE Reply
        [] n = 2 \/ eq ->
             IF Within(sky[1], 180) /\ Within(sky[2], 90) THEN Job("goto")
             ELSE OutOfRange
        [] n = 3 /\ args[1] = "mount" ->
             IF Within(args[2], 180) /\ Within(args[3], 180)
             THEN Job("gotoMount") ELSE OutOfRange
        [] n = 3 /\ args[1] \notin {"eq", "mount"} -> Reply
        [] OTHER -> WrongNumber

SpeedNames == {"slew", "track", "guide"}

SpeedJob(args) ==
  LET limit == IF args[1] = "slew" THEN MaxSpeed ELSE 64
      inRange == Value[args[2]] > 0 /\ Value[args[2]] <= limit
  IN  CASE Len(args) = 1 -> IF args[1] \in SpeedNames THEN Reply ELSE OutOfRange
        [] Len(args) = 2 ->
             IF ~IsNumber(args[2]) \/ (args[1] \in SpeedNames /\ ~inRange)
             THEN OutOfRange
             ELSE IF args[1] = "slew"
             THEN [Job("speed") EXCEPT !.speed = Value[args[2]]]
             ELSE Reply
        [] OTHER -> WrongNumber

NudgeBit ==
  [north |-> "NORTH", south |-> "SOUTH", east |-> "EAST", west |-> "WEST"]

\* The words are taken in order; "stop" ends them, whatever came before.
NudgeJob(args) ==
  LET Ends(i) == args[i] \notin DOMAIN NudgeBit
      end == CHOOSE i \in DOMAIN args :
               Ends(i) /\ \A j \in 1..(i - 1) : ~Ends(j)
  IN  CASE Len(args) \notin {1, 2} -> WrongNumber
        [] \A i \in DOMAIN args : ~Ends(i) ->
             [Job("nudge") EXCEPT
                !.dirs = {NudgeBit[args[i]] : i \in DOMAIN args}]
        [] OTHER -> IF args[end] = "stop" THEN Job("nudge") ELSE OutOfRange

TrackJob(args) == IF args = <<>> THEN Job("track") ELSE WrongNumber

GuideJob(args) ==
  IF Len(args) # 2 THEN WrongNumber
  ELSE IF IsNumber(args[2]) /\ Value[args[2]] \in 1..MaxGuideTime
            /\ args[1] \in DOMAIN NudgeBit
  THEN Job("guide") ELSE OutOfRange

ReadJob(args) ==
  CASE args \in {<<>>, <<"eq">>, <<"mount">>} -> Reply
    [] Len(args) = 1 /\ args[1] \notin {"eq", "mount"} -> OutOfRange
    [] OTHER -> WrongNumber

StateJob(args) == IF args = <<>> THEN Reply ELSE WrongNumber

TimeJob(args) == IF Len(args) >= 2 THEN WrongNumber ELSE Reply

\* mktime refuses dates it cannot represent; here, none with a year below 0.
SettimeJob(args) ==
  CASE Len(args) = 1 -> Reply
    [] Len(args) = 6 ->
         IF IsNumber(args[1]) /\ Value[args[1]] < 0 THEN OutOfRange ELSE Reply
    [] OTHER -> WrongNumber

AlignOps == {"align_add", "align_replace", "align_delete", "align_clear"}

\* The numbers that must be in the arguments of align, from the k-th on.
Numbers(args, k) == \A i \in k..Len(args) : IsNumber(args[i])

\* The index of a star is checked by the list; see module Alignment.  A delete
\* without an index reads a null pointer: no line asks for one.
AlignJob(args) ==
  LET n == Len(args)
  IN  CASE n = 0 -> WrongNumber
        [] n > 0 /\ args[1] = "add" ->
             IF n \notin {3, 5} THEN WrongNumber
             ELSE IF Numbers(args, 2) THEN Job("align_add") ELSE OutOfRange
        [] n > 0 /\ args[1] = "replace" ->
             IF n \notin {4, 6} THEN WrongNumber
             ELSE IF Numbers(args, 2) THEN Job("align_replace") ELSE OutOfRange
        [] n > 1 /\ args[1] = "delete" ->
             IF IsNumber(args[2]) THEN Job("align_delete") ELSE OutOfRange
        [] n > 0 /\ args[1] = "show" ->
             CASE n = 1 -> Reply
               [] n = 2 -> IF args[2] = "num" \/ IsNumber(args[2]) THEN Reply
                           ELSE OutOfRange
               [] OTHER -> WrongNumber
        [] n > 0 /\ args[1] = "clear" ->
             IF n = 1 THEN Job("align_clear") ELSE WrongNumber
        [] n > 0 /\ args[1] = "convert" ->
             IF n # 4 THEN WrongNumber
             ELSE IF Numbers(args, 3) /\ args[2] \in {"mount", "eq"} THEN Reply
             ELSE OutOfRange
        [] OTHER -> OutOfRange

\* Those a reader runs itself, with the first eight of the list.
Immediate ==
  {"stop", "estop", "read", "time", "status", "help", "speed", "align",
   "config"}

Known == Immediate \cup {"goto", "nudge", "track", "guide", "settime"}

JobOf(line) ==
  CASE line.cmd = "stop"    -> StopJob(line.args)
    [] line.cmd = "estop"   -> Job("estop")
    [] line.cmd = "read"    -> ReadJob(line.args)
    [] line.cmd = "time"    -> TimeJob(line.args)
    [] line.cmd = "status"  -> StateJob(line.args)
    [] line.cmd = "help"    -> Reply
    [] line.cmd = "speed"   -> SpeedJob(line.args)
    [] line.cmd = "align"   -> AlignJob(line.args)
    [] line.cmd = "goto"    -> GotoJob(line.args)
    [] line.cmd = "nudge"   -> NudgeJob(line.args)
    [] line.cmd = "track"   -> TrackJob(line.args)
    [] line.cmd = "guide"   -> GuideJob(line.args)
    [] line.cmd = "settime" -> SettimeJob(line.args)
    [] OTHER                -> Reply
=============================================================================
