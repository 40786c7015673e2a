----------------------------- MODULE MCDevices -----------------------------
(***************************************************************************)
(* Instances for TLC of the parts beside the axes and the mount.           *)
(***************************************************************************)
EXTENDS Devices, TLC

CONSTANTS r1, w1, w2, stdout, stderr, usb, serial  \* model values of the threads

\* The writers do the same, and no property tells them apart.
Alike == Permutations({w1, w2})

-----------------------------------------------------------------------------
\* The host enumerates the device with two requests, in any order.
Request(req, value) ==
  [NoReq EXCEPT !.req = req, !.value = value]

MCRequests ==
  {Request("SET_ADDRESS", 5), Request("SET_CONFIGURATION", 1)}

MCDescLen == [k \in {1} |-> 1]

\* An item of each type, and the line of telescope.cfg that no item answers to.
Item(type, value, min, max) ==
  [type |-> type, value |-> value, min |-> min, max |-> max]

MCTable ==
  [n \in {"max_guide_time", "acceleration", "ra_invert"} |->
     CASE n = "max_guide_time" -> Item("INT", 200, 100, 300)
       [] n = "acceleration"   -> Item("DOUBLE", 200, 5, 300)
       [] n = "ra_invert"      -> Item("BOOL", 0, 0, 1)]

Text(spelt, number) == [spelt |-> spelt, number |-> number]

MCOriginal ==
  [n \in {"max_guide_time", "default_acceleration", "observatory"} |->
     CASE n = "max_guide_time"       -> Text("int", 100)
       [] n = "default_acceleration" -> Text("int", 200)
       [] n = "observatory"          -> Text("word", 7)]

MCTexts ==
  {Text("int", 400), Text("real", 114), Text("bool", 1), Text("word", 8)}

TheHourAngles == {-180, -90, -1, 0, 1, 60, 180}
TheDeclinations == {-90, -89, 0, 45, 89, 90}
TheOffsets == [ra : {-100, 0, 5}, dec : {-5, 0, 5}]
=============================================================================
