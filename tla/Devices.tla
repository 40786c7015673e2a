------------------------------ MODULE Devices ------------------------------
(***************************************************************************)
(* The parts beside the axes and the mount.  They share no state, so that  *)
(* a behaviour is one of a single part: the unit, chosen at the start.     *)
(***************************************************************************)
EXTENDS UsbSerial, LcdConsole, StepCount, Alignment, Configuration, Pointing

CONSTANT Units   \* the parts looked at

VARIABLE unit

Parts ==
  <<serialVars, lcdVars, countVars, alignVars, configVars, pointVars>>

DevicesInit ==
  /\ unit \in Units
  /\ SerialInit /\ LcdInit /\ CountInit /\ AlignInit /\ ConfigInit /\ PointInit
  /\ unit # "pointing" => offset = [ra |-> 0, dec |-> 0]

Unchanged(other) ==
  /\ "serial" \in other    => UNCHANGED serialVars
  /\ "lcd" \in other       => UNCHANGED lcdVars
  /\ "count" \in other     => UNCHANGED countVars
  /\ "alignment" \in other => UNCHANGED alignVars
  /\ "config" \in other    => UNCHANGED configVars
  /\ "pointing" \in other  => UNCHANGED pointVars

DevicesNext ==
  /\ \/ unit = "serial" /\ SerialNext
     \/ unit = "lcd" /\ LcdNext
     \/ unit = "count" /\ CountNext
     \/ unit = "alignment" /\ AlignNext
     \/ unit = "config" /\ ConfigNext
     \/ unit = "pointing" /\ PointNext
  /\ Unchanged({"serial", "lcd", "count", "alignment", "config", "pointing"}
               \ {unit})
  /\ UNCHANGED unit

DevicesSpec == DevicesInit /\ [][DevicesNext]_<<unit, Parts>>

\* Types of the state of every part.
DevicesTypeOK ==
  SerialTypeOK /\ LcdTypeOK /\ CountTypeOK /\ AlignTypeOK /\ ConfigTypeOK
=============================================================================
