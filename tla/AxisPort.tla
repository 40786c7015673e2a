----------------------------- MODULE AxisPort -----------------------------
(* AxisContract as a specification: one axis, whose callers post commands, *)
(* empty its queue, set its flags and take its semaphore in any order.     *)
EXTENDS AxisContract

CONSTANT Command

VARIABLE axis

Init == axis = Rest

Post ==
  /\ axis'.queue # <<>>
  /\ LET m == axis'.queue[Len(axis'.queue)]
     IN  m \in Command /\ axis' = Posted(axis, m)

Flush ==
  /\ axis.queue # <<>>
  /\ axis' = [axis EXCEPT !.queue = Tail(@)]

Flag == \E f \in Stops \cup {"STOP_KEEPSPEED"} : axis' = Flagged(axis, f)

TakeOrClearSem == axis' = [axis EXCEPT !.sem = 0]

Task == axis' \in TaskSteps(axis)

Next ==
  \/ axis'.run = axis.run /\ (Post \/ Flush \/ Flag \/ TakeOrClearSem)
  \/ Task

Spec == Init /\ [][Next]_axis
=============================================================================
