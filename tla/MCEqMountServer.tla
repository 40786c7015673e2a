-------------------------- MODULE MCEqMountServer --------------------------
(* Instances of the servers and the mount for TLC.                         *)
EXTENDS EqMountServer

CONSTANT Usb

MCThreads == Servers \X {"reader", "worker"}

MCNoThread == <<"none", "none">>

Line(cmd, args) == [cmd |-> cmd, args |-> args]

MCValue == [w \in {"0", "1", "20", "100"} |->
              CASE w = "0" -> 0 [] w = "1" -> 1 [] w = "20" -> 20
                [] w = "100" -> 100]

\* A goto, a nudge of each axis, of both and the end of a nudge, a nudge as fast
\* as tracking, a pulse, a command that is refused, and one that does not exist.
AllLines ==
  {Line("goto", <<"20", "20">>),
   Line("track", <<>>),
   Line("guide", <<"north", "20">>), Line("stop", <<>>),
   Line("stop", <<"track">>), Line("estop", <<>>), Line("align", <<"add">>),
   Line("speed", <<"slew", "1">>),
   Line("nudge", <<"stop">>), Line("nudge", <<"east">>),
   Line("nudge", <<"north">>), Line("nudge", <<"west", "south">>),
   Line("park", <<>>)}

\* The second line asks for less: a goto of the other kind.
TwoLines ==
  [s \in Servers |-> IF s = Usb THEN AllLines
     ELSE {Line("track", <<>>), Line("goto", <<"index">>)}]

EstopLines ==
  [s \in Servers |-> {Line("goto", <<"20", "20">>), Line("estop", <<>>)}]

BothDirs == {"POSITIVE", "STOP"}
=============================================================================
