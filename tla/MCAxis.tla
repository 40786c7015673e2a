------------------------------ MODULE MCAxis ------------------------------
(***************************************************************************)
(* Instances of Axis for TLC: the commands and the methods the clients of  *)
(* each run use.                                                           *)
(***************************************************************************)
EXTENDS AxisImplements

SlewTo(dir, wc) == [signal |-> "SLEW_TO", dir |-> dir, withCorrection |-> wc, valid |-> TRUE]
SlewToNaN == [signal |-> "SLEW_TO", dir |-> "POSITIVE", withCorrection |-> FALSE, valid |-> FALSE]
SlewIndefinite(dir) ==
  [signal |-> "SLEW_INDEFINITE", dir |-> dir, withCorrection |-> FALSE, valid |-> TRUE]
TrackCmd(dir) == [signal |-> "TRACK", dir |-> dir, withCorrection |-> FALSE, valid |-> TRUE]

\* goToMount, with a good angle and a bad one, and a slew of startNudge
SlewRequests == {SlewTo("POSITIVE", TRUE), SlewToNaN, SlewIndefinite("NEGATIVE")}
\* The right ascension axis: tracking, and nudges against it
ModeRequests == {TrackCmd("POSITIVE"), SlewIndefinite("NEGATIVE")}
\* Every command; one slew has nowhere to go.
MixedRequests ==
  {SlewTo("POSITIVE", TRUE), SlewTo("STOP", FALSE), SlewIndefinite("NEGATIVE"),
   TrackCmd("POSITIVE")}
PlainGoto == {SlewTo("POSITIVE", FALSE)}
PlainNudge == {SlewIndefinite("POSITIVE")}

CommandOps == {"command"}
StopOps    == {"command", "stop"}
KeepOps    == {"command", "stop", "emergency_stop", "stopKeepSpeed"}
SlewOps    == {"command", "stop", "emergency_stop", "stopKeepSpeed", "setSlewSpeed"}
ModeOps    == AllOps \ {"setSlewSpeed", "emergency_stop", "flush"}
LiveOps    == {"command", "guide", "stop", "emergency_stop", "flush"}
=============================================================================
