---------------------------- MODULE StatusProof -----------------------------
(***************************************************************************)
(* What the status of the mount is worth, for any number of servers.       *)
(*                                                                         *)
(* A mount that says it is tracking is: the property TrackingIsReal.  The  *)
(* status becomes that of tracking in one place, where a tracking is posted*)
(* to RA.  Whatever takes it away again, a stop or a nudge, has a point    *)
(* after that at which it will change the status (Disturbing); and what a  *)
(* goto does is behind the mutex.                                          *)
(*                                                                         *)
(* The status also is what keeps callers from filling the queues of the    *)
(* axes.  A goto or a tracking is posted by a thread that found the mount  *)
(* stopped, and the first to post sets the status to something else; a     *)
(* nudge posts to queues that it has flushed.  Only a thread that stops    *)
(* the axes, has flushed a queue and has yet to set the status, lets       *)
(* others in once more.  So MountTypeOK, which says that a queue has no    *)
(* more commands than a task_pool holds, is a theorem too.                 *)
(***************************************************************************)
EXTENDS GotoProof

Tracking == {"TRACKING"}

\* A thread is about to take the status away, or stops RA.
Disturbing == {"stop", "estop", "stop_status", "estop_status", "sync",
               "sync_stop", "look_ra", "keep_ra", "act_ra", "look_dec",
               "keep_dec", "act_dec", "start_dec", "see_ra", "start_ra",
               "see_status", "nudge_status"}

Settled ==
  status = Tracking /\ \A t \in Threads : th[t].pc \notin Disturbing

\* An axis that tracks, or will, unless it is inertial.
Ready(a) ==
  \/ a.queue # <<>> /\ a.queue[Len(a.queue)].signal = "TRACK"
  \/ a.queue = <<>> /\ a.run = "begin" /\ a.cmd.signal = "TRACK"
  \/ a.run = "track" /\ a.flags \cap Stops = {}
  \/ a.queue = <<>> /\ a.run = "fetch" /\ a.status = "INERTIAL"

\* Only a goto is corrected at its end, which may flush the queue.
Plain(m) == IsGoto(m) \/ m.withCorrection = FALSE

\* Between commands an axis is stopped, or inertial.
Upright(a) ==
  /\ Plain(a.cmd) /\ \A i \in 1..Len(a.queue) : Plain(a.queue[i])
  /\ a.run \in {"fetch", "begin"} => a.status \in {"STOPPED", "INERTIAL"}

NoTrackingInGoto ==
  \A t \in Threads : th[t].pc \in SlewPoints => status # Tracking

TrackInv ==
  /\ GotoInv /\ Upright(ax.ra) /\ NoTrackingInGoto
  /\ Settled => Ready(ax.ra)

-----------------------------------------------------------------------------
(* Steps of the task thread.                                               *)

LEMMA StatusBetween ==
  ASSUME NEW a, AxisShape(a), Upright(a), NEW b \in TaskSteps(a),
         b.run \in {"fetch", "begin"}
  PROVE  b.status \in {"STOPPED", "INERTIAL"}
<1>0. DOMAIN a = AxisFields BY DEF AxisShape
<1>1. CASE a.run = "fetch"
  BY <1>0, <1>1 DEF TaskSteps, Fetches, AxisFields, Upright
<1>2. CASE a.run = "begin"
  <2>1. CASE b = Returned(a)
    BY <1>0, <1>2, <2>1 DEF Returned, AxisFields, Upright
  <2>2. CASE b \in TrackBegins(a)
    BY <1>0, <2>2 DEF TrackBegins, AxisFields
  <2>3. CASE b \in SlewBegins(a)
    BY <1>0, <2>3 DEF SlewBegins, AxisFields
  <2> QED BY <1>2, <2>1, <2>2, <2>3 DEF TaskSteps, Begins
<1>3. CASE a.run \in {"slew", "stop", "correct", "track"}
  <2>1. b \in Slews(a) \cup StopsRunning(a) \cup Corrects(a) \cup TracksOn(a)
    BY <1>3 DEF TaskSteps
  <2>2. DOMAIN Uncorrected(a) = AxisFields
    BY <1>0 DEF Uncorrected, AxisFields
  <2>3. b.run \in {"stop", "over", "decel", "track_end"}
    BY <1>0, <2>1, <2>2
       DEF Slews, StopsRunning, Corrects, TracksOn, AxisFields
  <2> QED BY <2>3
<1>4. CASE a.run = "decel"
  <2> DEFINE s == [a EXCEPT !.flags = @ \ {"EMERGE_STOP", "STOP_KEEPSPEED"}]
  <2>1. DOMAIN s = AxisFields BY <1>0 DEF AxisFields
  <2>2. b \in Decelerates(a) BY <1>4 DEF TaskSteps
  <2>3. \/ b = [Uncorrected(s) EXCEPT !.result = "EMERG_STOPPED",
                                     !.run = "over"]
        \/ b = [Returned(s) EXCEPT !.status = "INERTIAL",
                                  !.slewState = "NOT_SLEWING"]
        \/ b = [a EXCEPT !.run = "over"]
    BY <2>2 DEF Decelerates
  <2> HIDE DEF s
  <2>4. DOMAIN Uncorrected(s) = AxisFields /\ DOMAIN Returned(s) = AxisFields
    BY <2>1 DEF Uncorrected, Returned, AxisFields
  <2> QED BY <1>0, <2>3, <2>4 DEF AxisFields
<1>5. CASE a.run = "over"
  <2> DEFINE s == StopAxis(a, "STOP")
  <2>1. DOMAIN s = AxisFields
    BY <1>0 DEF StopAxis, Flagged, Flushed, AxisFields
  <2>2. b \in IsOver(a) BY <1>5 DEF TaskSteps
  <2>3. \/ b = [a EXCEPT !.slewState = "NOT_SLEWING"]
        \/ b = [a EXCEPT !.run = "correct"]
        \/ b = [Returned(a) EXCEPT !.status = "STOPPED"]
        \/ b = [Returned(s) EXCEPT !.status = "STOPPED",
                                  !.result = "EMERG_STOPPED"]
    BY <2>2 DEF IsOver
  <2> HIDE DEF s
  <2>4. DOMAIN Returned(a) = AxisFields /\ DOMAIN Returned(s) = AxisFields
    BY <1>0, <2>1 DEF Returned, AxisFields
  <2> QED BY <1>0, <1>5, <2>3, <2>4 DEF AxisFields
<1>6. CASE a.run = "track_end"
  <2>1. b = [Returned(a) EXCEPT !.status = "STOPPED"]
    BY <1>6 DEF TaskSteps
  <2>2. DOMAIN Returned(a) = AxisFields BY <1>0 DEF Returned, AxisFields
  <2> QED BY <2>1, <2>2 DEF AxisFields
<1> QED BY <1>1, <1>2, <1>3, <1>4, <1>5, <1>6 DEF AxisShape, Runs

LEMMA UprightStep ==
  ASSUME NEW a, AxisShape(a), Upright(a), NEW b \in TaskSteps(a)
  PROVE  Upright(b)
<1>1. TaskMoves(a, b) BY TaskStepMoves
<1>2. b.run \in {"fetch", "begin"} => b.status \in {"STOPPED", "INERTIAL"}
  BY StatusBetween
<1>3. \A i \in 1..Len(<<>>) : FALSE OBVIOUS
<1>4. CASE Inner(a, b)
  <2>1. Plain(b.cmd) BY <1>4 DEF Inner, Upright, Plain, IsGoto
  <2> QED BY <1>2, <1>4, <2>1 DEF Inner, Upright
<1>5. CASE Ended(a, b)
  <2>1. Plain(b.cmd) BY <1>5 DEF Ended, Plain, Nothing
  <2> QED BY <1>2, <1>3, <1>5, <2>1 DEF Ended, Upright
<1>6. CASE Fetched(a, b)
  <2> DEFINE q == a.queue
  <2>1. Messages(q) BY DEF AxisShape
  <2>2. q # <<>> BY <1>6 DEF Fetched
  <2> HIDE DEF q
  <2>3. /\ Len(q) \in Nat \ {0}
        /\ Len(Tail(q)) = Len(q) - 1 /\ Head(q) = q[1]
        /\ \A i \in 1..(Len(q) - 1) : Tail(q)[i] = q[i + 1]
    BY <2>1, <2>2, TailMessages
  <2>4. \A i \in 1..(Len(q) - 1) : i + 1 \in 1..Len(q) BY <2>3
  <2> USE DEF q
  <2>5. b.cmd = q[1] /\ b.queue = Tail(q) /\ 1 \in 1..Len(q)
    BY <1>6, <2>3 DEF Fetched
  <2>6. \A i \in 1..Len(q) : Plain(q[i]) BY DEF Upright
  <2> HIDE DEF q
  <2> QED BY <1>2, <2>3, <2>4, <2>5, <2>6 DEF Upright
<1> QED BY <1>1, <1>4, <1>5, <1>6 DEF TaskMoves

\* What is queued stays queued, if the command in hand is not a goto.
LEMMA NothingFlushed ==
  ASSUME NEW a, AxisShape(a), a.run # "fetch", a.cmd.withCorrection = FALSE,
         NEW b \in TaskSteps(a)
  PROVE  b.queue = a.queue
<1>1. TaskMoves(a, b) BY TaskStepMoves
<1>2. CASE Inner(a, b) BY <1>2 DEF Inner
<1>3. CASE Ended(a, b)
  <2>0. DOMAIN a = AxisFields BY DEF AxisShape
  <2>1. \A c : DOMAIN c = AxisFields =>
          /\ Returned(c).queue = c.queue /\ DOMAIN Returned(c) = AxisFields
          /\ Uncorrected(c).queue = c.queue
          /\ DOMAIN Uncorrected(c) = AxisFields
    BY DEF Returned, Uncorrected, AxisFields
  <2>2. CASE a.run = "begin"
    <3>1. CASE b = Returned(a) BY <2>0, <2>1, <3>1
    <3>2. CASE b \in TrackBegins(a)
      BY <2>0, <3>2 DEF TrackBegins, AxisFields
    <3>3. CASE b \in SlewBegins(a)
      BY <2>0, <3>3 DEF SlewBegins, AxisFields
    <3> QED BY <2>2, <3>1, <3>2, <3>3 DEF TaskSteps, Begins
  <2>3. CASE a.run = "decel"
    <3> DEFINE s == [a EXCEPT !.flags = @ \ {"EMERGE_STOP", "STOP_KEEPSPEED"}]
    <3>1. DOMAIN s = AxisFields /\ s.queue = a.queue
      BY <2>0 DEF AxisFields
    <3>2. b \in Decelerates(a) BY <2>3 DEF TaskSteps
    <3>3. \/ b = [Uncorrected(s) EXCEPT !.result = "EMERG_STOPPED",
                                       !.run = "over"]
          \/ b = [Returned(s) EXCEPT !.status = "INERTIAL",
                                    !.slewState = "NOT_SLEWING"]
          \/ b = [a EXCEPT !.run = "over"]
      BY <3>2 DEF Decelerates
    <3> HIDE DEF s
    <3> QED BY <2>0, <2>1, <3>1, <3>3 DEF AxisFields
  <2>4. CASE a.run = "over"
    <3>1. \/ b = [a EXCEPT !.slewState = "NOT_SLEWING"]
          \/ b = [Returned(a) EXCEPT !.status = "STOPPED"]
      BY <2>4 DEF TaskSteps, IsOver
    <3> QED BY <2>0, <2>1, <3>1 DEF AxisFields
  <2>5. CASE a.run = "track_end"
    BY <2>0, <2>1, <2>5 DEF TaskSteps, AxisFields
  <2>6. CASE a.run \in {"slew", "stop", "correct", "track"}
    <3>1. b \in Slews(a) \cup StopsRunning(a) \cup Corrects(a) \cup TracksOn(a)
      BY <2>6 DEF TaskSteps
    <3>2. b.run \in {"stop", "over", "decel", "track_end"}
      BY <2>0, <2>1, <3>1
         DEF Slews, StopsRunning, Corrects, TracksOn, AxisFields
    <3> QED BY <1>3, <3>2 DEF Ended
  <2> QED BY <2>2, <2>3, <2>4, <2>5, <2>6 DEF AxisShape, Runs
<1> QED BY <1>1, <1>2, <1>3 DEF TaskMoves, Fetched

\* The last message stays the last.
LEMMA TailStaysLast ==
  ASSUME NEW q, Messages(q), q # <<>>, Len(q) # 1
  PROVE  LET r == Tail(q) IN r # <<>> /\ r[Len(r)] = q[Len(q)]
<1>1. /\ Len(q) \in Nat \ {0} /\ Len(Tail(q)) = Len(q) - 1
      /\ Tail(q) # <<>>
      /\ \A i \in 1..(Len(q) - 1) : Tail(q)[i] = q[i + 1]
  BY TailMessages
<1>2. Len(q) - 1 \in 1..(Len(q) - 1) BY <1>1
<1> QED BY <1>1, <1>2

LEMMA ReadyStep ==
  ASSUME NEW a, AxisShape(a), Upright(a), Clear(a), Ready(a),
         NEW b \in TaskSteps(a)
  PROVE  Ready(b)
<1>0. DOMAIN a = AxisFields BY DEF AxisShape
<1>1. TaskMoves(a, b) BY TaskStepMoves
<1>2. a.cmd.withCorrection = FALSE BY DEF Clear, Upright, Plain
<1>3. CASE a.queue # <<>> /\ a.queue[Len(a.queue)].signal = "TRACK"
  <2>1. CASE a.run # "fetch"
    BY <1>2, <1>3, <2>1, NothingFlushed DEF Ready
  <2>2. CASE a.run = "fetch"
    <3> DEFINE q == a.queue
    <3>1. Fetched(a, b)
      BY <1>1, <2>2 DEF TaskMoves, Inner, Ended
    <3>2. Messages(q) BY DEF AxisShape
    <3>3. q # <<>> /\ q[Len(q)].signal = "TRACK" BY <1>3
    <3>4. b.cmd = Head(q) /\ b.queue = Tail(q) /\ b.run = "begin"
      BY <3>1 DEF Fetched
    <3> HIDE DEF q
    <3>7. /\ Head(q) = q[1] /\ Len(q) \in Nat \ {0}
          /\ Tail(q) = <<>> <=> Len(q) = 1
      BY <3>2, <3>3, TailMessages
    <3>5. CASE Len(q) = 1
      BY <3>3, <3>4, <3>5, <3>7 DEF Ready
    <3>6. CASE Len(q) # 1
      BY <3>2, <3>3, <3>4, <3>6, TailStaysLast DEF Ready
    <3> QED BY <3>5, <3>6
  <2> QED BY <2>1, <2>2
<1>4. CASE a.queue = <<>> /\ a.run = "begin" /\ a.cmd.signal = "TRACK"
  <2>1. CASE Refused(a)
    <3>1. b = Returned(a) BY <1>4, <2>1 DEF TaskSteps, Begins
    <3>2. a.status = "INERTIAL"
      BY <1>4, <2>1 DEF Refused, Upright
    <3>3. b.queue = <<>> /\ b.run = "fetch" /\ b.status = "INERTIAL"
      BY <1>0, <1>4, <3>1, <3>2 DEF Returned, AxisFields
    <3> QED BY <3>3 DEF Ready
  <2>2. CASE ~Refused(a)
    <3>1. b \in TrackBegins(a) BY <1>4, <2>2 DEF TaskSteps, Begins
    <3>2. b.run = "track" /\ b.flags = a.flags \ Stops
      BY <1>0, <3>1 DEF TrackBegins, AxisFields
    <3> QED BY <3>2 DEF Ready
  <2> QED BY <2>1, <2>2
<1>5. CASE a.run = "track" /\ a.flags \cap Stops = {}
  BY <1>5 DEF TaskSteps, TracksOn
<1>6. CASE a.queue = <<>> /\ a.run = "fetch" /\ a.status = "INERTIAL"
  BY <1>6 DEF TaskSteps, Fetches
<1> QED BY <1>3, <1>4, <1>5, <1>6 DEF Ready

-----------------------------------------------------------------------------
(* Steps of the callers' threads.                                          *)

\* What a caller may do to the axis RA.
Handled(a, b) ==
  \/ b \in {a, [a EXCEPT !.sem = 0]}
  \/ a.queue # <<>> /\ b = Shorter(a)
  \/ \E f : b = Flagged(a, f)
  \/ \E m : /\ DOMAIN m = MsgFields /\ Plain(m)
            /\ b \in {Posted(a, m), SlewPosted(a, m)}

LEMMA HandledKeeps ==
  ASSUME NEW a, AxisShape(a), Upright(a), NEW b, Handled(a, b)
  PROVE  Upright(b)
<1>0. DOMAIN a = AxisFields /\ Messages(a.queue) BY DEF AxisShape
<1>1. CASE a.queue # <<>> /\ b = Shorter(a)
  <2> DEFINE q == a.queue
  <2>1. /\ b.queue = Tail(q) /\ b.cmd = a.cmd /\ b.run = a.run
        /\ b.status = a.status
    BY <1>0, <1>1 DEF Shorter, AxisFields
  <2>2. Messages(q) /\ q # <<>> /\ \A i \in 1..Len(q) : Plain(q[i])
    BY <1>0, <1>1 DEF Upright
  <2> HIDE DEF q
  <2>3. \A i \in 1..Len(Tail(q)) : Plain(Tail(q)[i])
    BY <2>2, TailMessages
  <2> QED BY <2>1, <2>3 DEF Upright
<1>2. CASE b \in {a, [a EXCEPT !.sem = 0]} \/ \E f : b = Flagged(a, f)
  <2>1. /\ b.queue = a.queue /\ b.cmd = a.cmd /\ b.run = a.run
        /\ b.status = a.status
    BY <1>0, <1>2 DEF Flagged, AxisFields
  <2> QED BY <2>1 DEF Upright
<1>3. ASSUME NEW m, DOMAIN m = MsgFields, Plain(m),
             b \in {Posted(a, m), SlewPosted(a, m)}
      PROVE  Upright(b)
  <2> DEFINE q == Append(a.queue, m)
  <2>1. /\ b.queue = q /\ b.cmd = a.cmd /\ b.run = a.run
        /\ b.status = a.status
    BY <1>0, <1>3 DEF Posted, SlewPosted, AxisFields
  <2>2. /\ Len(q) = Len(a.queue) + 1 /\ Len(a.queue) \in Nat
        /\ q[Len(a.queue) + 1] = m
        /\ \A i \in 1..Len(a.queue) : q[i] = a.queue[i]
    BY <1>0, <1>3, AppendMessages
  <2> HIDE DEF q
  <2>3. \A i \in 1..Len(q) : i \in 1..Len(a.queue) \/ i = Len(a.queue) + 1
    BY <2>2
  <2>4. \A i \in 1..Len(q) : Plain(q[i]) BY <1>3, <2>2, <2>3 DEF Upright
  <2> QED BY <2>1, <2>4 DEF Upright
<1> QED BY <1>1, <1>2, <1>3 DEF Handled

LEMMA PlainMessages ==
  ASSUME NEW d, NEW c
  PROVE  /\ DOMAIN SlewTo(d, c) = MsgFields /\ Plain(SlewTo(d, c))
         /\ DOMAIN Track(d) = MsgFields /\ Plain(Track(d))
         /\ DOMAIN Indefinite(d) = MsgFields /\ Plain(Indefinite(d))
  BY DEF SlewTo, Track, Indefinite, MsgFields, Plain, IsGoto

\* A step that leaves the mount settled, when it is no tracking, comes from a
\* settled mount and leaves RA alone.
Unsettles(t) ==
  \/ status' # Tracking
  \/ status' = status /\ th'[t].pc \in Disturbing
  \/ /\ status' = status /\ th[t].pc \notin Disturbing
     /\ ax'.ra \in {ax.ra, [ax.ra EXCEPT !.sem = 0]}

LEMMA GotoEffects ==
  ASSUME Shape, DOMAIN ax = Axes, NEW t \in Threads,
         \/ GoTo(t) \/ StopSync(t) \/ SlewRa(t) \/ SlewDec(t) \/ WaitRa(t)
         \/ WaitDec(t) \/ Leg(t)
  PROVE  Unsettles(t) /\ Handled(ax.ra, ax'.ra)
<1>0. \A q : Goto(t, q) => th'[t].pc = q BY DEF Goto, Shape, Fields
<1>1. CASE GoTo(t) \/ Leg(t)
  BY <1>1 DEF GoTo, Leg, At, axisVars, Unsettles, Handled, Disturbing
<1>2. CASE StopSync(t)
  <2>1. \/ status' = {}
        \/ status' = status /\ th'[t].pc = "sync_stop"
    BY <1>0, <1>2 DEF StopSync
  <2>2. ax'.ra = ax.ra BY <1>2 DEF StopSync, axisVars
  <2> QED BY <2>1, <2>2 DEF Unsettles, Handled, Disturbing, Tracking
<1>3. CASE SlewRa(t)
  <2>1. PICK d, c : ax' = [ax EXCEPT !.ra = SlewPosted(@, SlewTo(d, c))]
    BY <1>3 DEF SlewRa
  <2>2. ax'.ra = SlewPosted(ax.ra, SlewTo(d, c)) BY <2>1 DEF Axes
  <2>3. status' # Tracking BY <1>3 DEF SlewRa, Tracking
  <2> QED BY <2>2, <2>3, PlainMessages DEF Unsettles, Handled
<1>4. CASE SlewDec(t)
  <2>1. ax'.ra = ax.ra BY <1>4 DEF SlewDec
  <2> QED BY <1>4, <2>1 DEF SlewDec, At, Unsettles, Handled, Disturbing
<1>5. CASE WaitRa(t)
  <2>1. ax'.ra = [ax.ra EXCEPT !.sem = 0] BY <1>5 DEF WaitRa, Axes
  <2> QED BY <1>5, <2>1 DEF WaitRa, At, Unsettles, Handled, Disturbing
<1>6. CASE WaitDec(t)
  <2>1. ax'.ra = ax.ra BY <1>6 DEF WaitDec
  <2> QED BY <1>6, <2>1 DEF WaitDec, Unsettles, Handled, Tracking
<1> QED BY <1>1, <1>2, <1>3, <1>4, <1>5, <1>6

LEMMA StopEffects ==
  ASSUME Shape, DOMAIN ax = Axes, NEW t \in Threads,
         \/ Flush(t) \/ Flag(t)
         \/ StartTracking(t) \/ TrackDec(t)
         \/ StopTracking(t) \/ StopTrackingLocked(t) \/ Untrack(t)
         \/ StopAsyncStatus(t) \/ EmergencyStopStatus(t)
         \/ SetSlewSpeed(t) \/ SetSlewSpeedDec(t) \/ Guide(t)
         \/ Ask(t) \/ Answer(t)
  PROVE  Unsettles(t) /\ Handled(ax.ra, ax'.ra)
<1>0. \A q : Goto(t, q) => th'[t].pc = q BY DEF Goto, Shape, Fields
<1>1. CASE StartTracking(t) \/ StopTracking(t)
  BY <1>1 DEF StartTracking, StopTracking, At, axisVars, Unsettles, Handled,
              Disturbing
<1>7. CASE TrackDec(t)
  <2>1. ax'.ra = ax.ra BY <1>7 DEF TrackDec
  <2> QED BY <1>7, <2>1 DEF TrackDec, At, Unsettles, Handled, Disturbing
<1>5. CASE StopAsyncStatus(t)
  BY <1>5 DEF StopAsyncStatus, axisVars, Unsettles, Handled, Tracking
<1>6. CASE StopTrackingLocked(t) \/ Untrack(t)
  <2>1. status' = status \/ status' = {"NUDGING"}
    BY <1>6 DEF StopTrackingLocked, Untrack
  <2>2. {"NUDGING"} # Tracking BY DEF Tracking
  <2>3. th[t].pc \notin Disturbing /\ ax' = ax
    BY <1>6 DEF StopTrackingLocked, Untrack, At, axisVars, Disturbing
  <2> QED BY <2>1, <2>2, <2>3 DEF Unsettles, Handled
<1>2. CASE Flush(t)
  <2>1. \/ UNCHANGED ax
        \/ \E x \in Axes : /\ ax[x].queue # <<>>
                           /\ ax' = [ax EXCEPT ![x] = Shorter(@)]
    BY <1>2 DEF Flush, Shape, Shorter
  <2>2. Handled(ax.ra, ax'.ra) BY <2>1 DEF Handled, Axes
  <2>3. status' = status /\ th'[t].pc = th[t].pc /\ th[t].pc \in StopPoints
    BY <1>2 DEF Flush, At, Shape, Fields
  <2> QED BY <2>2, <2>3 DEF Unsettles, Disturbing, StopPoints
<1>8. CASE Flag(t)
  <2>1. \E f : ax' = [ax EXCEPT ![th[t].axis] = Flagged(@, f)]
    BY <1>8 DEF Flag
  <2>2. Handled(ax.ra, ax'.ra) BY <2>1 DEF Handled, Axes, Shape
  <2>3. /\ status' = status
        /\ \E p \in StopPoints : th'[t].pc = AfterStop(p, th[t].axis)
    BY <1>8 DEF Flag, At, Shape, Fields
  <2>4. th'[t].pc \in Disturbing
    BY <2>3, AfterStops DEF Shape, Disturbing, StopPoints
  <2> QED BY <2>2, <2>3, <2>4 DEF Unsettles
<1>3. CASE EmergencyStopStatus(t) \/ SetSlewSpeed(t) \/ SetSlewSpeedDec(t)
           \/ Guide(t)
  BY <1>3 DEF EmergencyStopStatus, SetSlewSpeed, SetSlewSpeedDec, Guide, At,
              axisVars, Unsettles, Handled, Disturbing, Tracking
<1>4. CASE Ask(t) \/ Answer(t)
  BY <1>4 DEF Ask, Answer, AlignOps, At, Unsettles, Handled, Disturbing
<1> QED BY <1>1, <1>2, <1>3, <1>4, <1>5, <1>6, <1>7, <1>8

LEMMA NudgeEffects ==
  ASSUME Shape, DOMAIN ax = Axes, NEW t \in Threads,
         \/ Nudge(t) \/ StopNudge(t) \/ ResumeTracking(t) \/ Leave(t)
         \/ StartNudge(t) \/ NudgeDec(t) \/ SeeStatus(t) \/ NudgeRa(t)
         \/ NudgeStatus(t) \/ \E x \in Axes : Look(t, x) \/ Keep(t, x)
  PROVE  Unsettles(t) /\ Handled(ax.ra, ax'.ra)
<1>0. \A q : Goto(t, q) => th'[t].pc = q BY DEF Goto, Shape, Fields
<1>1. CASE Nudge(t) \/ StopNudge(t) \/ ResumeTracking(t) \/ Leave(t)
           \/ StartNudge(t)
  BY <1>1 DEF Nudge, StopNudge, ResumeTracking, Leave, StartNudge, At,
              axisVars, Unsettles, Handled, Disturbing
<1>6. CASE SeeStatus(t)
  <2>1. /\ UNCHANGED <<status, ax>>
        /\ th'[t].pc \in {"start_ra", "nudge_status"}
    BY <1>6 DEF SeeStatus, axisVars, Shape, Fields
  <2> QED BY <2>1 DEF Unsettles, Handled, Disturbing
<1>2. CASE NudgeDec(t)
  <2>1. ax'.ra = ax.ra BY <1>2 DEF NudgeDec
  <2>2. status' = status /\ th'[t].pc \in Disturbing
    BY <1>0, <1>2 DEF NudgeDec, Disturbing
  <2> QED BY <2>1, <2>2 DEF Unsettles, Handled
<1>3. CASE NudgeRa(t)
  <2>1. \/ ax' = ax
        \/ \E m : /\ DOMAIN m = MsgFields /\ Plain(m)
                  /\ ax' = [ax EXCEPT !.ra = Posted(@, m)]
    BY <1>3, PlainMessages DEF NudgeRa, RaPost, axisVars
  <2>2. Handled(ax.ra, ax'.ra) BY <2>1 DEF Handled, Axes
  <2>3. status' = status /\ th'[t].pc \in Disturbing
    BY <1>0, <1>3 DEF NudgeRa, Disturbing
  <2> QED BY <2>2, <2>3 DEF Unsettles
<1>4. CASE NudgeStatus(t)
  <2>1. "NUDGING" \in status' BY <1>4 DEF NudgeStatus
  <2> QED BY <1>4, <2>1 DEF NudgeStatus, axisVars, Unsettles, Handled, Tracking
<1>5. ASSUME NEW x \in Axes, Look(t, x) \/ Keep(t, x)
      PROVE  Unsettles(t) /\ Handled(ax.ra, ax'.ra)
  <2>1. \/ ax' = ax
        \/ ax[x].queue # <<>> /\ ax' = [ax EXCEPT ![x] = Shorter(@)]
        \/ ax' = [ax EXCEPT ![x] = Flagged(@, "STOP_KEEPSPEED")]
    BY <1>5 DEF Look, Keep, Shorter
  <2>2. Handled(ax.ra, ax'.ra) BY <2>1 DEF Handled, Axes
  <2>3. /\ th[t].pc \in {"look_ra", "look_dec", "keep_ra", "keep_dec"}
        /\ th' = th \/ th'[t].pc \in {"keep_ra", "keep_dec", "act_ra",
                                      "act_dec", "look_dec", "start_dec"}
    BY <1>0, <1>5 DEF Look, Keep, At, Shape, Fields, Axes
  <2>4. status' = status BY <1>5 DEF Look, Keep
  <2> QED BY <2>2, <2>3, <2>4 DEF Unsettles, Disturbing
<1> QED BY <1>1, <1>2, <1>3, <1>4, <1>5, <1>6

LEMMA Effects ==
  ASSUME GotoInv, NEW t \in Threads, ThreadStep(t) \/ Ask(t) \/ Answer(t)
  PROVE  /\ Unsettles(t) \/ TrackRa(t)
         /\ Handled(ax.ra, ax'.ra)
<1>1. Shape /\ DOMAIN ax = Axes BY DEF GotoInv, IInv, AxesTyped
<1>2. CASE TrackRa(t)
  <2>1. ax'.ra = Posted(ax.ra, Track("POSITIVE"))
    BY <1>1, <1>2 DEF TrackRa, Axes
  <2> QED BY <1>2, <2>1, PlainMessages DEF Handled
<1> QED BY <1>1, <1>2, GotoEffects, StopEffects, NudgeEffects DEF ThreadStep

\* Tracking posted is tracking to come.
LEMMA TrackingPosted ==
  ASSUME GotoInv, NEW t \in Threads, TrackRa(t)
  PROVE  Ready(ax'.ra)
<1> DEFINE q == Append(ax.ra.queue, Track("POSITIVE"))
<1>1. DOMAIN ax = Axes /\ AxisShape(ax.ra) BY DEF GotoInv, AxesTyped, Axes
<1>2. ax'.ra.queue = q
  BY <1>1 DEF TrackRa, Axes, Posted, AxisShape, AxisFields
<1>3. q # <<>> /\ q[Len(q)] = Track("POSITIVE")
  <2>1. Messages(ax.ra.queue) BY <1>1 DEF AxisShape
  <2>2. DOMAIN Track("POSITIVE") = MsgFields BY OtherMessages
  <2>3. /\ q # <<>> /\ Len(q) = Len(ax.ra.queue) + 1
        /\ q[Len(ax.ra.queue) + 1] = Track("POSITIVE")
    BY <2>1, <2>2, AppendMessages
  <2> HIDE DEF q
  <2> QED BY <2>3
<1>4. Track("POSITIVE").signal = "TRACK" BY DEF Track
<1> QED BY <1>2, <1>3, <1>4 DEF Ready

\* No goto begins or goes on with a mount that tracks.
LEMMA GotosDoNotTrack ==
  ASSUME GotoInv, NoTrackingInGoto, NEW t \in Threads,
         ThreadStep(t) \/ Ask(t) \/ Answer(t)
  PROVE  NoTrackingInGoto'
<1>0. IInv /\ Shape BY DEF GotoInv, IInv
<1>1. CASE SlewRa(t) \/ WaitDec(t)
  <2>1. status' # Tracking BY <1>1 DEF SlewRa, WaitDec, Tracking
  <2> QED BY <2>1 DEF NoTrackingInGoto
<1>2. CASE SlewDec(t) \/ WaitRa(t)
  <2>1. th[t].pc \in SlewPoints /\ status' = status
    BY <1>2 DEF SlewDec, WaitRa, At, SlewPoints
  <2>2. status # Tracking BY <2>1 DEF NoTrackingInGoto
  <2> QED BY <2>1, <2>2 DEF NoTrackingInGoto
<1>3. CASE ~SlewRa(t) /\ ~SlewDec(t) /\ ~WaitRa(t) /\ ~WaitDec(t)
  <2>1. PendingPcs(t) BY <1>3, OutsidePcs
  <2>2. \A u \in Threads : th'[u].pc \in SlewPoints =>
          th[u].pc \in SlewPoints /\ u # t
    BY <2>1 DEF PendingPcs
  <2>3. CASE Unsettles(t)
    <3>1. status' = Tracking => status = Tracking BY <2>3 DEF Unsettles
    <3> QED BY <2>2, <3>1 DEF NoTrackingInGoto
  <2>4. CASE TrackRa(t)
    <3>1. Free(t) BY <2>4 DEF TrackRa
    <3>2. \A u \in Threads : th[u].pc \in SlewPoints => u = t
      BY <1>0, <3>1, OneGoto
    <3> QED BY <2>2, <3>2 DEF NoTrackingInGoto
  <2> QED BY <2>3, <2>4, Effects
<1> QED BY <1>1, <1>2, <1>3

LEMMA ThreadSteps ==
  ASSUME TrackInv, GotoInv', NEW t \in Threads,
         ThreadStep(t) \/ Ask(t) \/ Answer(t)
  PROVE  TrackInv'
<1>1. GotoInv /\ NoTrackingInGoto /\ Upright(ax.ra) BY DEF TrackInv
<1>2. AxisShape(ax.ra) BY <1>1 DEF GotoInv, AxesTyped, Axes
<1>3. (Unsettles(t) \/ TrackRa(t)) /\ Handled(ax.ra, ax'.ra)
  BY <1>1, Effects
<1>4. Upright(ax'.ra) BY <1>1, <1>2, <1>3, HandledKeeps
<1>5. Settled' => Ready(ax'.ra)
  <2>1. CASE TrackRa(t) BY <1>1, <2>1, TrackingPosted
  <2>2. ASSUME Unsettles(t), Settled' PROVE Ready(ax'.ra)
    <3>1. /\ status = Tracking /\ th[t].pc \notin Disturbing
          /\ ax'.ra \in {ax.ra, [ax.ra EXCEPT !.sem = 0]}
      BY <2>2 DEF Unsettles, Settled
    <3>2. \A u \in Threads \ {t} : th'[u] = th[u]
      BY <1>1, OthersStay
    <3>3. Settled BY <2>2, <3>1, <3>2 DEF Settled
    <3>4. Ready(ax.ra) BY <3>3 DEF TrackInv
    <3>5. Ready([ax.ra EXCEPT !.sem = 0])
      BY <1>2, <3>4 DEF Ready, AxisShape, AxisFields
    <3> QED BY <3>1, <3>4, <3>5
  <2> QED BY <1>3, <2>1, <2>2
<1> QED BY <1>1, <1>4, <1>5, GotosDoNotTrack DEF TrackInv

-----------------------------------------------------------------------------
(* Steps of the axes and of the servers.                                   *)

LEMMA AxisTracks ==
  ASSUME TrackInv, GotoInv', NEW y \in Axes, AxisStep(y)
  PROVE  TrackInv'
<1>1. UNCHANGED <<status, th>> BY DEF AxisStep
<1>2. PICK b \in TaskSteps(ax[y]) : ax' = [ax EXCEPT ![y] = b]
  BY DEF AxisStep
<1>3. GotoInv /\ Upright(ax.ra) /\ NoTrackingInGoto BY DEF TrackInv
<1>4. DOMAIN ax = Axes /\ AxisShape(ax.ra)
  BY <1>3 DEF GotoInv, AxesTyped, Axes
<1>5. ax'.ra = ax.ra \/ ax'.ra \in TaskSteps(ax.ra)
  BY <1>2, <1>4 DEF Axes
<1>6. Upright(ax'.ra) BY <1>3, <1>4, <1>5, UprightStep
<1>7. NoTrackingInGoto' BY <1>1, <1>3 DEF NoTrackingInGoto
<1>8. Settled' => Ready(ax'.ra)
  <2> SUFFICES ASSUME Settled' PROVE Ready(ax'.ra)
    OBVIOUS
  <2>1. Settled BY <1>1 DEF Settled
  <2>2. Ready(ax.ra) BY <2>1 DEF TrackInv
  <2>3. Clear(ax.ra)
    <3>1. \A t \in Threads : th[t].pc \notin SlewPoints
      BY <1>3, <2>1 DEF NoTrackingInGoto, Settled
    <3>2. ~Pending("ra") BY <3>1 DEF Pending, PendingPoints, SlewPoints
    <3> QED BY <1>3, <3>2 DEF GotoInv, SlewsOnce, Axes
  <2> QED BY <1>3, <1>4, <1>5, <2>2, <2>3, ReadyStep
<1> QED BY <1>6, <1>7, <1>8 DEF TrackInv

LEMMA ServerTracks ==
  ASSUME TrackInv, GotoInv', NEW s \in Servers,
         Read(s) \/ Call(s) \/ Dispatch(s)
  PROVE  TrackInv'
<1>1. UNCHANGED <<ax, status>> BY DEF Read, Call, Dispatch
<1>2. PICK t \in Threads : PendingPcs(t) /\ th[t].pc \in {"idle", "call"}
  BY ServerPcs DEF TrackInv, GotoInv
<1>3. NoTrackingInGoto'
  <2>1. \A u \in Threads : th'[u].pc \in SlewPoints => th[u].pc \in SlewPoints
    BY <1>2 DEF PendingPcs
  <2> QED BY <1>1, <2>1 DEF TrackInv, NoTrackingInGoto
<1>4. Settled' => Settled
  <2>1. th[t].pc \notin Disturbing BY <1>2 DEF Disturbing
  <2> QED BY <1>1, <1>2, <2>1 DEF Settled, PendingPcs
<1> QED BY <1>1, <1>3, <1>4 DEF TrackInv

-----------------------------------------------------------------------------
(* The invariant of tracking.                                              *)

LEMMA TrackInit == Init => TrackInv
<1> SUFFICES ASSUME Init PROVE TrackInv
  OBVIOUS
<1>1. GotoInv BY GotoInit
<1>2. \A t \in Threads : th[t].pc = "idle"
  BY IdleWork DEF Init, MountInit
<1>3. NoTrackingInGoto BY <1>2 DEF NoTrackingInGoto, SlewPoints
<1>4. ASSUME NEW a, a = [Rest EXCEPT !.status = "TRACKING", !.run = "track",
                                     !.cmd = Track("POSITIVE")]
      PROVE  Upright(a) /\ Ready(a)
  <2>1. /\ a.cmd = Track("POSITIVE") /\ a.run = "track" /\ a.queue = <<>>
        /\ a.flags = {}
    BY <1>4 DEF Rest
  <2>2. \A i \in 1..Len(<<>>) : FALSE OBVIOUS
  <2> QED BY <2>1, <2>2, PlainMessages DEF Upright, Ready
<1>5. Upright(ax.ra) /\ Ready(ax.ra) BY <1>4 DEF Init, MountInit, Axes
<1> QED BY <1>1, <1>3, <1>5 DEF TrackInv

LEMMA TrackNext == TrackInv /\ [Next]_vars => TrackInv'
<1> SUFFICES ASSUME TrackInv, [Next]_vars PROVE TrackInv'
  OBVIOUS
<1>1. GotoInv' BY GotoNext DEF TrackInv
<1>2. CASE UNCHANGED vars
  <2>1. UNCHANGED <<ax, th, status>> BY <1>2 DEF vars, mountVars
  <2> QED BY <1>1, <2>1 DEF TrackInv, NoTrackingInGoto, Settled
<1>3. ASSUME NEW t \in Threads, ThreadStep(t) \/ Ask(t) \/ Answer(t)
      PROVE  TrackInv'
  BY <1>1, <1>3, ThreadSteps
<1>4. ASSUME NEW x \in Axes, AxisStep(x) PROVE TrackInv'
  BY <1>1, <1>4, AxisTracks
<1>5. ASSUME NEW s \in Servers, Read(s) \/ Call(s) \/ Dispatch(s)
      PROVE  TrackInv'
  BY <1>1, <1>5, ServerTracks
<1> QED BY <1>2, <1>3, <1>4, <1>5 DEF Next, Mount

LEMMA AlwaysTrackInv == Spec => []TrackInv
  BY TrackInit, TrackNext, PTL DEF Spec

\* A mount that says it is tracking, with nobody about to change that, has its
\* RA axis tracking or about to, for any callers, unless the axis was left
\* inertial (EquatorialMount.cpp:122-141, 229-325 and 386-411).
THEOREM TrackingIsTrue == Spec => []TrackingIsReal
<1>1. TrackInv => TrackingIsReal
  <2> SUFFICES ASSUME TrackInv, AllIdle, MayRun, status = Tracking
               PROVE  \/ ax.ra.run = "track"
                      \/ \E i \in DOMAIN ax.ra.queue :
                           ax.ra.queue[i].signal = "TRACK"
                      \/ ax.ra.status = "INERTIAL"
    BY DEF TrackingIsReal, Tracking
  <2>1. Settled BY DEF Settled, AllIdle, Disturbing
  <2>2. Ready(ax.ra) BY <2>1 DEF TrackInv
  <2>3. ax.ra.run # "begin" BY DEF MayRun, Axes, Waiting
  <2>4. ASSUME ax.ra.queue # <<>>
        PROVE  Len(ax.ra.queue) \in DOMAIN ax.ra.queue
    <3>1. PICK S : ax.ra.queue \in Seq(S)
      BY DEF TrackInv, GotoInv, AxesTyped, AxisShape, Messages, Axes
    <3> QED BY <2>4, <3>1
  <2> QED BY <2>2, <2>3, <2>4 DEF Ready
<1> QED BY <1>1, AlwaysTrackInv, PTL

-----------------------------------------------------------------------------
(* The queues of the axes: what an axis is between steps.                  *)

AllFlags == Stops \cup {"STOP_KEEPSPEED"}

\* An axis has the status of a movement while it is in a command.
Stands(a) ==
  /\ a.flags \subseteq AllFlags /\ a.sem \in {0, 1}
  /\ a.status \in IF a.run \in {"fetch", "begin"} THEN {"STOPPED", "INERTIAL"}
                  ELSE {"SLEWING", "TRACKING"}

LEMMA ReturnStands ==
  ASSUME NEW a, DOMAIN a = AxisFields, a.flags \subseteq AllFlags,
         a.sem \in {0, 1}
  PROVE  LET b == Returned(a)
         IN  /\ DOMAIN b = AxisFields /\ b.flags = a.flags /\ b.sem \in {0, 1}
             /\ b.run = "fetch" /\ b.status = a.status
  BY DEF Returned, AxisFields

LEMMA TaskStands ==
  ASSUME NEW a, AxisShape(a), Stands(a), NEW b \in TaskSteps(a)
  PROVE  Stands(b)
<1>0. /\ DOMAIN a = AxisFields /\ a.flags \subseteq AllFlags
      /\ a.sem \in {0, 1}
  BY DEF AxisShape, Stands
<1>1. CASE a.run = "fetch"
  BY <1>0, <1>1 DEF TaskSteps, Fetches, AxisFields, Stands
<1>2. CASE a.run = "begin"
  <2>1. CASE b = Returned(a)
    BY <1>0, <1>2, <2>1, ReturnStands DEF Stands
  <2>2. CASE b \in TrackBegins(a)
    <3>1. /\ b.flags = a.flags \ Stops /\ b.sem = a.sem
          /\ b.status = "TRACKING" /\ b.run = "track"
      BY <1>0, <2>2 DEF TrackBegins, AxisFields
    <3> QED BY <1>0, <3>1 DEF Stands
  <2>3. CASE b \in SlewBegins(a)
    <3>1. /\ b.flags = a.flags \ Stops /\ b.sem = a.sem
          /\ b.status = "SLEWING" /\ b.run \in {"slew", "over"}
      BY <1>0, <2>3 DEF SlewBegins, AxisFields
    <3> QED BY <1>0, <3>1 DEF Stands
  <2> QED BY <1>2, <2>1, <2>2, <2>3 DEF TaskSteps, Begins
<1>3. CASE a.run \in {"slew", "stop", "correct", "track"}
  <2>1. b \in Slews(a) \cup StopsRunning(a) \cup Corrects(a) \cup TracksOn(a)
    BY <1>3 DEF TaskSteps
  <2>2. LET u == Uncorrected(a)
        IN  /\ DOMAIN u = AxisFields /\ u.flags = a.flags /\ u.sem = a.sem
            /\ u.status = a.status
    BY <1>0 DEF Uncorrected, AxisFields
  <2>3. /\ b.run \in {"stop", "over", "decel", "track_end"}
        /\ b.flags \subseteq a.flags /\ b.sem = a.sem /\ b.status = a.status
    <3>1. CASE b \in Slews(a)
      <4>1. \/ b = [a EXCEPT !.run = "stop"]
            \/ \E r, p : /\ p \in {"stop", "over"}
                         /\ b = [Uncorrected(a) EXCEPT !.flags = @ \ Stops,
                                                      !.result = r, !.run = p]
        BY <3>1 DEF Slews
      <4>2. CASE b = [a EXCEPT !.run = "stop"]
        BY <1>0, <4>2 DEF AxisFields
      <4>3. ASSUME NEW r, NEW p \in {"stop", "over"},
                   b = [Uncorrected(a) EXCEPT !.flags = @ \ Stops,
                                             !.result = r, !.run = p]
            PROVE  /\ b.run = p /\ b.flags = a.flags \ Stops
                   /\ b.sem = a.sem /\ b.status = a.status
        BY <2>2, <4>3 DEF AxisFields
      <4> QED BY <4>1, <4>2, <4>3
    <3>2. CASE b \in StopsRunning(a)
      BY <1>0, <3>2 DEF StopsRunning, AxisFields
    <3>3. CASE b \in Corrects(a)
      <4>1. \/ b = [a EXCEPT !.run = "over"]
            \/ b = [a EXCEPT !.flags = @ \ {"EMERGE_STOP"},
                            !.result = "EMERG_STOPPED", !.run = "over"]
        BY <3>3 DEF Corrects
      <4>2. CASE b = [a EXCEPT !.run = "over"]
        BY <1>0, <4>2 DEF AxisFields
      <4>3. CASE b = [a EXCEPT !.flags = @ \ {"EMERGE_STOP"},
                              !.result = "EMERG_STOPPED", !.run = "over"]
        <5>1. /\ b.flags = a.flags \ {"EMERGE_STOP"} /\ b.sem = a.sem
              /\ b.status = a.status /\ b.run = "over"
          BY <1>0, <4>3 DEF AxisFields
        <5> QED BY <5>1
      <4> QED BY <4>1, <4>2, <4>3
    <3>4. CASE b \in TracksOn(a) BY <1>0, <3>4 DEF TracksOn, AxisFields
    <3> QED BY <2>1, <3>1, <3>2, <3>3, <3>4
  <2> QED BY <1>0, <1>3, <2>3 DEF Stands
<1>4. CASE a.run = "decel"
  <2> DEFINE s == [a EXCEPT !.flags = @ \ {"EMERGE_STOP", "STOP_KEEPSPEED"}]
  <2>1. /\ DOMAIN s = AxisFields /\ s.flags \subseteq AllFlags
        /\ s.sem \in {0, 1} /\ s.status = a.status
    BY <1>0 DEF AxisFields
  <2>2. b \in Decelerates(a) BY <1>4 DEF TaskSteps
  <2>3. \/ b = [Uncorrected(s) EXCEPT !.result = "EMERG_STOPPED",
                                     !.run = "over"]
        \/ b = [Returned(s) EXCEPT !.status = "INERTIAL",
                                  !.slewState = "NOT_SLEWING"]
        \/ b = [a EXCEPT !.run = "over"]
    BY <2>2 DEF Decelerates
  <2> HIDE DEF s
  <2>4. LET u == Uncorrected(s)
        IN  /\ DOMAIN u = AxisFields /\ u.flags = s.flags /\ u.sem = s.sem
            /\ u.status = s.status
    BY <2>1 DEF Uncorrected, AxisFields
  <2>5. LET r == Returned(s)
        IN  /\ DOMAIN r = AxisFields /\ r.flags = s.flags /\ r.sem \in {0, 1}
            /\ r.run = "fetch"
    BY <2>1, ReturnStands
  <2> QED BY <1>0, <1>4, <2>1, <2>3, <2>4, <2>5 DEF AxisFields, Stands
<1>5. CASE a.run = "over"
  <2> DEFINE s == StopAxis(a, "STOP")
  <2>1. /\ DOMAIN s = AxisFields /\ s.flags \subseteq AllFlags
        /\ s.sem \in {0, 1}
    BY <1>0 DEF StopAxis, Flagged, Flushed, AxisFields, AllFlags, Stops
  <2>2. b \in IsOver(a) BY <1>5 DEF TaskSteps
  <2>3. \/ b = [a EXCEPT !.slewState = "NOT_SLEWING"]
        \/ b = [a EXCEPT !.run = "correct"]
        \/ b = [Returned(a) EXCEPT !.status = "STOPPED"]
        \/ b = [Returned(s) EXCEPT !.status = "STOPPED",
                                  !.result = "EMERG_STOPPED"]
    BY <2>2 DEF IsOver
  <2> HIDE DEF s
  <2>4. LET r == Returned(a)
        IN  /\ DOMAIN r = AxisFields /\ r.flags = a.flags /\ r.sem \in {0, 1}
            /\ r.run = "fetch"
    BY <1>0, ReturnStands
  <2>5. LET r == Returned(s)
        IN  /\ DOMAIN r = AxisFields /\ r.flags = s.flags /\ r.sem \in {0, 1}
            /\ r.run = "fetch"
    BY <2>1, ReturnStands
  <2> QED BY <1>0, <1>5, <2>1, <2>3, <2>4, <2>5 DEF AxisFields, Stands
<1>6. CASE a.run = "track_end"
  <2>1. b = [Returned(a) EXCEPT !.status = "STOPPED"]
    BY <1>6 DEF TaskSteps
  <2> QED BY <1>0, <2>1, ReturnStands DEF AxisFields, Stands
<1> QED BY <1>1, <1>2, <1>3, <1>4, <1>5, <1>6 DEF AxisShape, Runs

\* What a call may do to an axis, with nothing posted,
Touches(a, b) ==
  \/ b \in {a, [a EXCEPT !.sem = 0]}
  \/ a.queue # <<>> /\ b = Shorter(a)
  \/ \E f \in AllFlags : b = Flagged(a, f)

\* and with a command.
Posts(a, b) ==
  \E m : DOMAIN m = MsgFields /\ b \in {Posted(a, m), SlewPosted(a, m)}

LEMMA TouchStands ==
  ASSUME NEW a, AxisShape(a), Stands(a), NEW b, Touches(a, b)
  PROVE  /\ Stands(b) /\ Len(b.queue) \in Nat
         /\ Len(b.queue) <= Len(a.queue)
         /\ a.queue = <<>> => b.queue = <<>>
<1>0. DOMAIN a = AxisFields /\ Messages(a.queue) BY DEF AxisShape
<1>1. Len(a.queue) \in Nat
  <2>1. PICK S : a.queue \in Seq(S) BY <1>0 DEF Messages
  <2> QED BY <2>1
<1>2. CASE b \in {a, [a EXCEPT !.sem = 0]}
  <2>1. Stands(b) /\ b.queue = a.queue
    BY <1>0, <1>2 DEF AxisFields, Stands
  <2> QED BY <1>1, <2>1
<1>3. CASE a.queue # <<>> /\ b = Shorter(a)
  <2>1. Stands(b) /\ b.queue = Tail(a.queue)
    BY <1>0, <1>3 DEF Shorter, AxisFields, Stands
  <2>2. Len(a.queue) \in Nat \ {0} /\ Len(Tail(a.queue)) = Len(a.queue) - 1
    BY <1>0, <1>3, TailMessages
  <2> QED BY <1>3, <2>1, <2>2
<1>4. ASSUME NEW f \in AllFlags, b = Flagged(a, f)
      PROVE  Stands(b) /\ b.queue = a.queue
  BY <1>0, <1>4 DEF Flagged, AxisFields, Stands
<1> QED BY <1>1, <1>2, <1>3, <1>4 DEF Touches

LEMMA PostStands ==
  ASSUME NEW a, AxisShape(a), Stands(a), NEW b, Posts(a, b)
  PROVE  Stands(b) /\ Len(b.queue) = Len(a.queue) + 1
<1>0. DOMAIN a = AxisFields /\ Messages(a.queue) BY DEF AxisShape
<1>1. PICK m : DOMAIN m = MsgFields /\ b \in {Posted(a, m), SlewPosted(a, m)}
  BY DEF Posts
<1>2. Len(Append(a.queue, m)) = Len(a.queue) + 1
  BY <1>0, <1>1, AppendMessages
<1>3. b.queue = Append(a.queue, m)
  BY <1>0, <1>1 DEF Posted, SlewPosted, AxisFields
<1>4. Stands(b)
  BY <1>0, <1>1 DEF Posted, SlewPosted, AxisFields, Stands
<1> QED BY <1>2, <1>3, <1>4

-----------------------------------------------------------------------------
(* What the steps of a caller's thread mean for the queues.                *)

Standing == \A x \in Axes : Stands(ax[x])

\* A stop will set the status to stopped,
Stopping == {"stop", "estop", "stop_status", "estop_status"}

\* and has found the queue of axis x empty: the thread, at w, is asleep for x.
Asleep(w, x) ==
  \/ w.pc \in {"stop_status", "estop_status"}
  \/ /\ w.pc \in {"stop", "estop"}
     /\ (w.empty /\ w.axis = x) \/ (w.axis = "dec" /\ x = "ra")

\* A thread that found the mount stopped, and is about to post to RA,
Entered == {"track_lock", "slew"}

\* and then to DEC, whatever the status has become.
Second == {"track_dec", "slew_dec"}

Apart == Stopping \cup Entered \cup Second

Clears(t) == \A x \in Axes : Touches(ax[x], ax'[x]) /\ ax'[x].queue = <<>>

Dozes(t) ==
  /\ th[t].pc \in Stopping /\ th'[t].pc \in Stopping /\ status' = status
  /\ \A x \in Axes :
       /\ Touches(ax[x], ax'[x])
       /\ Asleep(th[t], x) => Asleep(th'[t], x)
       /\ Asleep(th'[t], x) => Asleep(th[t], x) \/ ax'[x].queue = <<>>

Frees(t) ==
  /\ th[t].pc \in {"stop_status", "estop_status"} /\ th'[t].pc \notin Apart
  /\ status' = {} /\ UNCHANGED ax

Admits(t) ==
  /\ th[t].pc \notin Apart /\ th'[t].pc \in Entered
  /\ status = {} /\ UNCHANGED <<status, ax>>

PostsFirst(t) ==
  /\ th[t].pc \in Entered /\ th'[t].pc \in Second
  /\ status' # {} /\ Posts(ax.ra, ax'.ra) /\ ax'.dec = ax.dec

PostsSecond(t) ==
  /\ th[t].pc \in Second /\ th'[t].pc \notin Apart
  /\ status' = status /\ ax'.ra = ax.ra /\ Posts(ax.dec, ax'.dec)

PostsNudge(t, y) ==
  /\ th[t].pc = IF y = "ra" THEN "start_ra" ELSE "start_dec"
  /\ th'[t].pc \notin Apart /\ status' = status
  /\ th[t].dir[y] # "same" /\ Posts(ax[y], ax'[y])
  /\ \A x \in Axes \ {y} : ax'[x] = ax[x]

\* A stop begins with RA.
Beginning(w) ==
  w.pc \in {"stop", "estop"} /\ w.axis = "ra" /\ ~w.empty

PassesBy(t) ==
  /\ th[t].pc \notin Apart
  /\ th'[t].pc \notin Apart \/ Beginning(th'[t])
  /\ status' = {} => status = {}
  /\ \A x \in Axes : Touches(ax[x], ax'[x])

Kinds(t) ==
  \/ Clears(t) \/ Dozes(t) \/ Frees(t) \/ Admits(t) \/ PostsFirst(t)
  \/ PostsSecond(t)
  \/ \E y \in Axes : PostsNudge(t, y)
  \/ PassesBy(t)

\* What a thread has in hand where it does not use it: it begins a stop with RA,
\* and comes to start RA when the nudge changes that axis.
Poised ==
  \A t \in Threads :
    /\ th[t].pc \notin StopPoints => ~th[t].empty
    /\ th[t].pc \notin StopPoints \cup {"keep_ra", "keep_dec"} =>
         th[t].axis = "ra"
    /\ th[t].pc \in {"see_ra", "start_ra"} => th[t].dir.ra # "same"

LEMMA GotoKinds ==
  ASSUME GotoInv, Standing, NEW t \in Threads,
         \/ GoTo(t) \/ StopSync(t) \/ SlewRa(t) \/ SlewDec(t) \/ WaitRa(t)
         \/ WaitDec(t) \/ Leg(t)
  PROVE  Kinds(t)
<1>0. /\ Shape /\ DOMAIN ax = Axes
      /\ \A q : Goto(t, q) => th'[t].pc = q
      /\ \A r : Done(t, r) => th'[t].pc = "done"
      /\ \A x \in Axes : Touches(ax[x], ax[x])
  BY DEF GotoInv, IInv, Shape, AxesTyped, Goto, Done, Fields, Touches
<1>1. CASE GoTo(t)
  <2>1. th[t].pc = "goto" /\ UNCHANGED <<status, ax>>
    BY <1>1 DEF GoTo, At, axisVars
  <2>2. \/ status = {} /\ th'[t].pc = "slew"
        \/ th'[t].pc \in {"sync", "done"}
    BY <1>0, <1>1 DEF GoTo, Shape, Fields
  <2>3. Admits(t) \/ PassesBy(t)
    BY <1>0, <2>1, <2>2
       DEF Admits, PassesBy, Apart, Stopping, Entered, Second
  <2> QED BY <2>3 DEF Kinds
<1>2. CASE StopSync(t)
  <2>0. th[t].pc = "sync" /\ MayRun BY <1>2 DEF StopSync, At
  <2>1. CASE \A x \in Axes : ax[x].status = "STOPPED"
    <3>1. UNCHANGED ax BY <1>2, <2>1 DEF StopSync, axisVars
    <3>2. \A x \in Axes : ax[x].queue = <<>>
      BY <2>0, <2>1 DEF MayRun, Waiting, Standing, Stands
    <3>3. Clears(t) BY <1>0, <3>1, <3>2 DEF Clears
    <3> QED BY <3>3 DEF Kinds
  <2>2. CASE ~\A x \in Axes : ax[x].status = "STOPPED"
    <3>1. UNCHANGED <<status, ax>> /\ th'[t].pc = "sync_stop"
      BY <1>0, <1>2, <2>2 DEF StopSync, axisVars
    <3>2. PassesBy(t)
      BY <1>0, <2>0, <3>1 DEF PassesBy, Apart, Stopping, Entered, Second
    <3> QED BY <3>2 DEF Kinds
  <2> QED BY <2>1, <2>2
<1>3. CASE SlewRa(t)
  <2>1. PICK d, c : ax' = [ax EXCEPT !.ra = SlewPosted(@, SlewTo(d, c))]
    BY <1>3 DEF SlewRa
  <2>2. ax'.ra = SlewPosted(ax.ra, SlewTo(d, c)) /\ ax'.dec = ax.dec
    BY <1>0, <2>1 DEF Axes
  <2>3. Posts(ax.ra, ax'.ra) BY <2>2, GotoMessages DEF Posts
  <2>4. PostsFirst(t)
    BY <1>0, <1>3, <2>2, <2>3 DEF SlewRa, At, PostsFirst, Entered, Second
  <2> QED BY <2>4 DEF Kinds
<1>4. CASE SlewDec(t)
  <2>1. PICK d, c : ax' = [ax EXCEPT !.dec = SlewPosted(@, SlewTo(d, c))]
    BY <1>4 DEF SlewDec
  <2>2. ax'.dec = SlewPosted(ax.dec, SlewTo(d, c)) /\ ax'.ra = ax.ra
    BY <1>0, <2>1 DEF Axes
  <2>3. Posts(ax.dec, ax'.dec) BY <2>2, GotoMessages DEF Posts
  <2>4. PostsSecond(t)
    BY <1>0, <1>4, <2>2, <2>3
       DEF SlewDec, At, PostsSecond, Second, Apart, Stopping, Entered
  <2> QED BY <2>4 DEF Kinds
<1>5. CASE WaitRa(t)
  <2>1. /\ th[t].pc = "wait_ra" /\ th'[t].pc = "wait_dec"
        /\ UNCHANGED status
    BY <1>0, <1>5 DEF WaitRa, At, Shape, Fields
  <2>2. ax'.ra = [ax.ra EXCEPT !.sem = 0] /\ ax'.dec = ax.dec
    BY <1>0, <1>5 DEF WaitRa, Axes
  <2>3. \A x \in Axes : Touches(ax[x], ax'[x])
    BY <2>2 DEF Touches, Axes
  <2>4. PassesBy(t)
    BY <2>1, <2>3 DEF PassesBy, Apart, Stopping, Entered, Second
  <2> QED BY <2>4 DEF Kinds
<1>6. CASE WaitDec(t)
  <2>1. th[t].pc = "wait_dec" /\ ax.dec.sem = 1 BY <1>6 DEF WaitDec, At
  <2>2. ax'.dec = [ax.dec EXCEPT !.sem = 0] /\ ax'.ra = ax.ra
    BY <1>0, <1>6 DEF WaitDec, Axes
  <2>3. Pending("dec") BY <2>1 DEF Pending, PendingPoints
  <2>4. AxisShape(ax.dec) /\ Slewing(ax.dec)
    BY <2>3 DEF GotoInv, AxesTyped, SlewsOnce, Axes
  <2>5. ax'.dec.queue = <<>> BY <2>1, <2>2, <2>4, FreeSemaphore
  <2>6. ax.ra.queue = <<>> BY <2>1 DEF GotoInv, RaIsOver
  <2>7. Clears(t) BY <2>2, <2>5, <2>6 DEF Clears, Touches, Axes
  <2> QED BY <2>7 DEF Kinds
<1>7. CASE Leg(t)
  <2>1. /\ th[t].pc = "leg" /\ th'[t].pc \in {"goto", "done"}
        /\ UNCHANGED <<status, ax>>
    BY <1>0, <1>7 DEF Leg, At, axisVars, Shape, Fields
  <2>2. PassesBy(t)
    BY <1>0, <2>1 DEF PassesBy, Apart, Stopping, Entered, Second
  <2> QED BY <2>2 DEF Kinds
<1> QED BY <1>1, <1>2, <1>3, <1>4, <1>5, <1>6, <1>7

LEMMA StopKinds ==
  ASSUME GotoInv, NEW t \in Threads,
         \/ Flush(t) \/ Flag(t)
         \/ StartTracking(t) \/ TrackRa(t) \/ TrackDec(t)
         \/ StopTracking(t) \/ StopTrackingLocked(t) \/ Untrack(t)
         \/ StopAsyncStatus(t) \/ EmergencyStopStatus(t)
         \/ SetSlewSpeed(t) \/ SetSlewSpeedDec(t) \/ Guide(t)
         \/ Ask(t) \/ Answer(t)
  PROVE  Kinds(t)
<1>0. /\ Shape /\ DOMAIN ax = Axes
      /\ \A q : Goto(t, q) => th'[t].pc = q
      /\ \A r : Done(t, r) => th'[t].pc = "done"
      /\ \A x \in Axes : Touches(ax[x], ax[x])
  BY DEF GotoInv, IInv, Shape, AxesTyped, Goto, Done, Fields, Touches
<1>1. PathAt(th[t].pc, th[t].next, th[t].job.op)
  BY DEF GotoInv, IInv, Paths
<1>2. CASE StartTracking(t)
  <2>1. th[t].pc = "track" /\ UNCHANGED <<status, ax>>
    BY <1>2 DEF StartTracking, At, axisVars
  <2>2. th[t].next \in {"done", "leg", "leave"}
    BY <1>1, <2>1 DEF PathAt, TrackPoints
  <2>3. \/ status = {} /\ th'[t].pc = "track_lock"
        \/ th'[t].pc \in {"done", "leg", "leave"}
    BY <1>0, <1>2, <2>2 DEF StartTracking
  <2>4. Admits(t) \/ PassesBy(t)
    BY <1>0, <2>1, <2>3
       DEF Admits, PassesBy, Apart, Stopping, Entered, Second
  <2> QED BY <2>4 DEF Kinds
<1>3. CASE TrackRa(t)
  <2>1. ax'.ra = Posted(ax.ra, Track("POSITIVE")) /\ ax'.dec = ax.dec
    BY <1>0, <1>3 DEF TrackRa, Axes
  <2>2. Posts(ax.ra, ax'.ra) BY <2>1, OtherMessages DEF Posts
  <2>3. PostsFirst(t)
    BY <1>0, <1>3, <2>1, <2>2 DEF TrackRa, At, PostsFirst, Entered, Second
  <2> QED BY <2>3 DEF Kinds
<1>4. CASE TrackDec(t)
  <2>1. ax'.dec = Posted(ax.dec, Track("STOP")) /\ ax'.ra = ax.ra
    BY <1>0, <1>4 DEF TrackDec, Axes
  <2>2. Posts(ax.dec, ax'.dec) BY <2>1, OtherMessages DEF Posts
  <2>3. th[t].pc = "track_dec" /\ th'[t].pc \in {"done", "leg", "leave"}
    BY <1>0, <1>1, <1>4 DEF TrackDec, At, PathAt, TrackPoints
  <2>4. PostsSecond(t)
    BY <1>4, <2>1, <2>2, <2>3
       DEF TrackDec, PostsSecond, Second, Apart, Stopping, Entered
  <2> QED BY <2>4 DEF Kinds
<1>5. CASE Flush(t)
  <2>0. PICK p \in StopPoints : th[t].pc = p BY <1>5 DEF Flush, At
  <2> DEFINE y == th[t].axis
  <2>1. y \in Axes BY <1>0 DEF Shape
  <2>2. /\ th'[t].pc = th[t].pc /\ th'[t].axis = y /\ UNCHANGED status
        /\ \/ ax[y].queue = <<>> /\ UNCHANGED ax
           \/ /\ ax[y].queue # <<>> /\ ax' = [ax EXCEPT ![y] = Shorter(@)]
              /\ UNCHANGED th
    BY <1>0, <1>5 DEF Flush, Shape, Fields, Shorter
  <2> HIDE DEF y
  <2>3. \A x \in Axes : Touches(ax[x], ax'[x])
    BY <1>0, <2>1, <2>2 DEF Touches
  <2>4. \A x \in Axes :
          /\ Asleep(th[t], x) => Asleep(th'[t], x)
          /\ Asleep(th'[t], x) => Asleep(th[t], x) \/ ax'[x].queue = <<>>
    <3>1. CASE ax[y].queue = <<>> /\ UNCHANGED ax
      <4>1. th'[t].empty
        BY <1>0, <1>5, <3>1 DEF Flush, Shape, Fields, y
      <4> QED BY <2>1, <2>2, <3>1, <4>1 DEF Asleep, y, Axes
    <3>2. CASE UNCHANGED th BY <3>2
    <3> QED BY <2>2, <3>1, <3>2
  <2>5. CASE p \in {"stop", "estop"}
    <3>1. Dozes(t)
      BY <2>0, <2>2, <2>3, <2>4, <2>5 DEF Dozes, Stopping
    <3> QED BY <3>1 DEF Kinds
  <2>6. CASE p \notin {"stop", "estop"}
    <3>1. PassesBy(t)
      BY <2>0, <2>2, <2>3, <2>6
         DEF PassesBy, StopPoints, Apart, Stopping, Entered, Second
    <3> QED BY <3>1 DEF Kinds
  <2> QED BY <2>5, <2>6
<1>10. CASE Flag(t)
  <2>0. PICK p \in StopPoints : th[t].pc = p BY <1>10 DEF Flag, At
  <2> DEFINE y == th[t].axis
  <2>1. y \in Axes BY <1>0 DEF Shape
  <2>2. /\ th'[t].pc = AfterStop(p, y) /\ ~th'[t].empty /\ UNCHANGED status
        /\ th'[t].axis = IF th'[t].pc = p THEN "dec" ELSE "ra"
        /\ \E f \in AllFlags : ax' = [ax EXCEPT ![y] = Flagged(@, f)]
        /\ th[t].empty
    BY <1>0, <1>10, <2>0
       DEF Flag, Shape, Fields, AllFlags, Stops
  <2>3. \A x \in Axes : Touches(ax[x], ax'[x])
    BY <1>0, <2>1, <2>2 DEF Touches
  <2>4. CASE p \in {"stop", "estop"}
    <3>1. CASE y = "ra"
      <4>1. th'[t].pc = p BY <2>2, <2>4, <3>1 DEF AfterStop
      <4>2. th'[t].axis = "dec" BY <2>2, <4>1
      <4>3. \A x \in Axes : Asleep(th[t], x) <=> Asleep(th'[t], x)
        BY <2>0, <2>2, <2>4, <3>1, <4>1, <4>2 DEF Asleep, Axes
      <4>4. Dozes(t)
        BY <2>0, <2>2, <2>3, <2>4, <4>1, <4>3 DEF Dozes, Stopping
      <4> QED BY <4>4 DEF Kinds
    <3>2. CASE y = "dec"
      <4>1. th'[t].pc \in {"stop_status", "estop_status"}
        BY <2>2, <2>4, <3>2 DEF AfterStop
      <4>2. \A x \in Axes : Asleep(th[t], x) /\ Asleep(th'[t], x)
        BY <2>0, <2>2, <2>4, <3>2, <4>1 DEF Asleep, Axes
      <4>3. Dozes(t)
        BY <2>0, <2>2, <2>3, <2>4, <4>1, <4>2 DEF Dozes, Stopping
      <4> QED BY <4>3 DEF Kinds
    <3> QED BY <2>1, <3>1, <3>2 DEF Axes
  <2>5. CASE p \notin {"stop", "estop"}
    <3>1. th'[t].pc \in {"sync_stop", "look_dec", "start_dec", "sync"}
      BY <2>1, <2>2, <2>5 DEF AfterStop, StopPoints, Axes
    <3>2. PassesBy(t)
      BY <2>0, <2>2, <2>3, <2>5, <3>1
         DEF PassesBy, StopPoints, Apart, Stopping, Entered, Second
    <3> QED BY <3>2 DEF Kinds
  <2> QED BY <2>4, <2>5
<1>6. CASE StopAsyncStatus(t) \/ EmergencyStopStatus(t)
  <2>1. /\ th[t].pc \in {"stop_status", "estop_status"} /\ status' = {}
        /\ UNCHANGED ax
    BY <1>6 DEF StopAsyncStatus, EmergencyStopStatus, At, axisVars
  <2>2. th'[t].pc \in {"done", "resume", "leave"}
    BY <1>0, <1>1, <1>6 DEF StopAsyncStatus, EmergencyStopStatus, At, PathAt
  <2>3. Frees(t)
    BY <2>1, <2>2 DEF Frees, Apart, Stopping, Entered, Second
  <2> QED BY <2>3 DEF Kinds
<1>7. CASE StopTracking(t) \/ StopTrackingLocked(t) \/ Untrack(t)
  <2>1. /\ th[t].pc \in {"stop_track", "stop_track_lock", "untrack"}
        /\ th'[t].pc \in {"stop_track_lock", "sync", "untrack", "done"}
    BY <1>0, <1>7
       DEF StopTracking, StopTrackingLocked, Untrack, At, Shape, Fields
  <2>2. UNCHANGED ax /\ (status' = {} => status = {})
    BY <1>7 DEF StopTracking, StopTrackingLocked, Untrack, axisVars
  <2>3. PassesBy(t)
    BY <1>0, <2>1, <2>2 DEF PassesBy, Apart, Stopping, Entered, Second
  <2> QED BY <2>3 DEF Kinds
<1>8. CASE SetSlewSpeed(t) \/ SetSlewSpeedDec(t) \/ Guide(t)
  <2>1. /\ th[t].pc \in {"speed", "speed_dec", "guide"}
        /\ th'[t].pc \in {"speed_dec", "done"} /\ UNCHANGED <<status, ax>>
    BY <1>0, <1>8 DEF SetSlewSpeed, SetSlewSpeedDec, Guide, At, axisVars
  <2>2. PassesBy(t)
    BY <1>0, <2>1 DEF PassesBy, Apart, Stopping, Entered, Second
  <2> QED BY <2>2 DEF Kinds
<1>9. CASE Ask(t) \/ Answer(t)
  <2>1. /\ th[t].pc \in AlignOps \cup {"ask", "done"}
        /\ th'[t].pc \in {"done", "idle"} /\ UNCHANGED <<status, ax>>
    BY <1>0, <1>9, IdleWork DEF Ask, Answer, At, Shape
  <2>2. PassesBy(t)
    BY <1>0, <2>1 DEF PassesBy, Apart, Stopping, Entered, Second, AlignOps
  <2> QED BY <2>2 DEF Kinds
<1> QED
  BY <1>2, <1>3, <1>4, <1>5, <1>6, <1>7, <1>8, <1>9, <1>10

LEMMA NudgeKinds ==
  ASSUME GotoInv, Poised, NEW t \in Threads,
         \/ Nudge(t) \/ StopNudge(t) \/ ResumeTracking(t) \/ Leave(t)
         \/ StartNudge(t) \/ NudgeDec(t) \/ SeeStatus(t) \/ NudgeRa(t)
         \/ NudgeStatus(t) \/ \E x \in Axes : Look(t, x) \/ Keep(t, x)
  PROVE  Kinds(t)
<1>0. /\ Shape /\ DOMAIN ax = Axes
      /\ \A q : Goto(t, q) => th'[t].pc = q
      /\ \A r : Done(t, r) => th'[t].pc = "done"
      /\ \A x \in Axes : Touches(ax[x], ax[x])
  BY DEF GotoInv, IInv, Shape, AxesTyped, Goto, Done, Fields, Touches
<1>1. CASE Nudge(t) \/ StopNudge(t) \/ StartNudge(t)
  <2>1. /\ th[t].pc \in {"nudge", "nudge_lock"}
        /\ th'[t].pc \in {"nudge_lock", "stop", "look_ra", "done"}
        /\ UNCHANGED <<status, ax>>
        /\ th'[t].axis = th[t].axis /\ th'[t].empty = th[t].empty
    BY <1>0, <1>1
       DEF Nudge, StopNudge, StartNudge, At, axisVars, Shape, Fields, Goto,
           Done
  <2>2. th[t].axis = "ra" /\ ~th[t].empty
    BY <2>1 DEF Poised, StopPoints
  <2>3. th'[t].pc \notin Apart \/ Beginning(th'[t])
    BY <2>1, <2>2 DEF Beginning, Apart, Stopping, Entered, Second
  <2>4. PassesBy(t)
    BY <1>0, <2>1, <2>3 DEF PassesBy, Apart, Stopping, Entered, Second
  <2> QED BY <2>4 DEF Kinds
<1>2. CASE ResumeTracking(t) \/ Leave(t) \/ NudgeStatus(t)
  <2>1. /\ th[t].pc \in {"resume", "leave", "nudge_status"}
        /\ th'[t].pc \in {"track", "done"} /\ UNCHANGED ax
        /\ status' = {} => status = {}
    BY <1>0, <1>2
       DEF ResumeTracking, Leave, NudgeStatus, At, axisVars, Shape, Fields
  <2>2. PassesBy(t)
    BY <1>0, <2>1 DEF PassesBy, Apart, Stopping, Entered, Second
  <2> QED BY <2>2 DEF Kinds
<1>3. CASE NudgeDec(t)
  <2>1. /\ th[t].pc = "start_dec" /\ th'[t].pc \in {"see_ra", "see_status"}
        /\ UNCHANGED status
    BY <1>0, <1>3 DEF NudgeDec, At
  <2>2. CASE th[t].dir.dec \in {"same", "STOP"}
    <3>1. UNCHANGED ax BY <1>3, <2>2 DEF NudgeDec
    <3>2. PassesBy(t)
      BY <1>0, <2>1, <3>1 DEF PassesBy, Apart, Stopping, Entered, Second
    <3> QED BY <3>2 DEF Kinds
  <2>3. CASE th[t].dir.dec \notin {"same", "STOP"}
    <3>1. /\ ax'.dec = Posted(ax.dec, Indefinite(th[t].dir.dec))
          /\ ax'.ra = ax.ra
      BY <1>0, <1>3, <2>3 DEF NudgeDec, Axes
    <3>2. Posts(ax.dec, ax'.dec) BY <3>1, OtherMessages DEF Posts
    <3>3. PostsNudge(t, "dec")
      BY <2>1, <2>3, <3>1, <3>2
         DEF PostsNudge, Axes, Apart, Stopping, Entered, Second
    <3> QED BY <3>3 DEF Kinds, Axes
  <2> QED BY <2>2, <2>3
<1>4. CASE NudgeRa(t)
  <2>1. /\ th[t].pc = "start_ra" /\ th'[t].pc = "see_status"
        /\ UNCHANGED status /\ th[t].dir.ra # "same"
    BY <1>0, <1>4 DEF NudgeRa, At, Poised
  <2>2. \/ UNCHANGED ax
        \/ \E m : /\ DOMAIN m = MsgFields
                  /\ ax' = [ax EXCEPT !.ra = Posted(@, m)]
    BY <1>4, OtherMessages DEF NudgeRa, RaPost, axisVars
  <2>3. CASE UNCHANGED ax
    <3>1. PassesBy(t)
      BY <1>0, <2>1, <2>3 DEF PassesBy, Apart, Stopping, Entered, Second
    <3> QED BY <3>1 DEF Kinds
  <2>4. ASSUME NEW m, DOMAIN m = MsgFields,
               ax' = [ax EXCEPT !.ra = Posted(@, m)]
        PROVE  Kinds(t)
    <3>1. ax'.ra = Posted(ax.ra, m) /\ ax'.dec = ax.dec
      BY <1>0, <2>4 DEF Axes
    <3>2. Posts(ax.ra, ax'.ra) BY <2>4, <3>1 DEF Posts
    <3>3. PostsNudge(t, "ra")
      BY <2>1, <2>4, <3>1, <3>2
         DEF PostsNudge, Axes, Apart, Stopping, Entered, Second
    <3> QED BY <3>3 DEF Kinds, Axes
  <2> QED BY <2>2, <2>3, <2>4
<1>5. ASSUME NEW x \in Axes, Look(t, x) \/ Keep(t, x)
      PROVE  Kinds(t)
  <2>1. \/ ax' = ax
        \/ ax[x].queue # <<>> /\ ax' = [ax EXCEPT ![x] = Shorter(@)]
        \/ ax' = [ax EXCEPT ![x] = Flagged(@, "STOP_KEEPSPEED")]
    BY <1>5 DEF Look, Keep, Shorter
  <2>2. \A y \in Axes : Touches(ax[y], ax'[y])
    BY <1>0, <2>1 DEF Touches, AllFlags
  <2>3. /\ th[t].pc \in {"look_ra", "look_dec", "keep_ra", "keep_dec"}
        /\ th'[t].pc \in {"look_ra", "keep_ra", "act_ra", "look_dec",
                          "keep_dec", "act_dec", "start_dec"}
        /\ UNCHANGED status
    BY <1>0, <1>5 DEF Look, Keep, At, Shape, Fields, Axes
  <2>4. PassesBy(t)
    BY <2>2, <2>3 DEF PassesBy, Apart, Stopping, Entered, Second
  <2> QED BY <2>4 DEF Kinds
<1>6. CASE SeeStatus(t)
  <2>1. /\ th[t].pc \in {"see_ra", "see_status"}
        /\ th'[t].pc \in {"start_ra", "nudge_status"}
        /\ UNCHANGED <<status, ax>>
    BY <1>0, <1>6 DEF SeeStatus, At, axisVars, Shape, Fields
  <2>2. PassesBy(t)
    BY <1>0, <2>1 DEF PassesBy, Apart, Stopping, Entered, Second
  <2> QED BY <2>2 DEF Kinds
<1> QED BY <1>1, <1>2, <1>3, <1>4, <1>5, <1>6

LEMMA EachKind ==
  ASSUME GotoInv, Standing, Poised, NEW t \in Threads,
         ThreadStep(t) \/ Ask(t) \/ Answer(t)
  PROVE  Kinds(t)
  BY GotoKinds, StopKinds, NudgeKinds DEF ThreadStep

-----------------------------------------------------------------------------
(* Room in the queues.  Of f threads that are awake each may be about to   *)
(* post one command more, and one of them two.  A thread that stops the    *)
(* axes falls asleep when it finds the queue empty.  When it has set the   *)
(* status it wakes up, and f + 1 threads may find the mount stopped again: *)
(* with the commands of all the wakings before, a queue has                *)
(* f + (f - 1) + ... + 1 commands and one.                                 *)

LatePoints(x) == IF x = "ra" THEN Entered ELSE Entered \cup Second

\* With the threads at h: those that will post to axis x whatever the status
\* becomes, those that may find the mount stopped while the status is s, and
\* those that are not about to set it to stopped again.
Late(h, x) == {t \in Threads : h[t].pc \in LatePoints(x)}
Early(h, s, x) ==
  {t \in Threads : s = {} /\ ~Asleep(h[t], x) /\ h[t].pc \notin Entered}
Awake(h, x) == {t \in Threads : ~Asleep(h[t], x)}

Fit(n, l, e, f) == 2 * (n + l + e) <= f * (f + 1) + 2

Room ==
  \A x \in Axes :
    Fit(Len(ax[x].queue), Cardinality(Late(th, x)),
        Cardinality(Early(th, status, x)), Cardinality(Awake(th, x)))

\* A nudge posts to an axis whose queue it has flushed.
NudgePoints == {"keep_ra", "act_ra", "look_dec", "keep_dec", "act_dec",
                "start_dec", "see_ra", "start_ra"}

FlushedPoints(x) ==
  IF x = "ra" THEN NudgePoints ELSE {"keep_dec", "act_dec", "start_dec"}

FlushedFirst ==
  \A t \in Threads, x \in Axes :
    th[t].pc \in FlushedPoints(x) /\ th[t].dir[x] # "same" =>
      ax[x].queue = <<>>

QueueInv == GotoInv /\ Standing /\ Poised /\ FlushedFirst /\ Room

LEMMA Triangle ==
  ASSUME NEW f \in Nat
  PROVE  2 * (f + 1) <= f * (f + 1) + 2
<1>1. CASE f = 0 BY <1>1
<1>2. CASE f # 0
  <2>1. f * (f + 1) >= f * 2 BY <1>2
  <2> QED BY <2>1
<1> QED BY <1>1, <1>2

LEMMA Overlap ==
  ASSUME NEW A, IsFiniteSet(A), NEW L \in SUBSET A, NEW E \in SUBSET A,
         \A u, v \in L \cap E : u = v
  PROVE  /\ Cardinality(L) \in Nat /\ Cardinality(E) \in Nat
         /\ Cardinality(A) \in Nat
         /\ Cardinality(L) + Cardinality(E) <= Cardinality(A) + 1
         /\ L \cap E = {} =>
              Cardinality(L) + Cardinality(E) <= Cardinality(A)
<1>1. /\ IsFiniteSet(L) /\ IsFiniteSet(E) /\ IsFiniteSet(L \cap E)
  BY FS_Subset
<1>2. /\ Cardinality(L) \in Nat /\ Cardinality(E) \in Nat
      /\ Cardinality(A) \in Nat /\ Cardinality(L \cap E) \in Nat
  BY <1>1, FS_CardinalityType
<1>3. /\ IsFiniteSet(L \cup E)
      /\ Cardinality(L \cup E) =
           Cardinality(L) + Cardinality(E) - Cardinality(L \cap E)
  BY <1>1, FS_Union
<1>4. Cardinality(L \cup E) <= Cardinality(A) /\ Cardinality(L \cup E) \in Nat
  <2>1. L \cup E \subseteq A OBVIOUS
  <2> QED BY <1>3, <2>1, FS_Subset, FS_CardinalityType
<1>5. L \cap E = {} => Cardinality(L \cap E) = 0 BY FS_EmptySet
<1>6. L \cap E # {} => Cardinality(L \cap E) = 1
  <2>1. ASSUME NEW u \in L \cap E PROVE Cardinality(L \cap E) = 1
    <3>1. L \cap E = {u} BY <2>1
    <3> QED BY <3>1, FS_Singleton
  <2> QED BY <2>1
<1> QED BY <1>2, <1>3, <1>4, <1>5, <1>6

\* Threads and mutex agree.
HeldIn(h, m) ==
  \A t \in Threads :
    DepthAt(h[t].pc, h[t].next) = IF m.owner = t THEN m.count ELSE 0

LEMMA OneInside ==
  ASSUME NEW h, NEW m, HeldIn(h, m), NEW u \in Threads, NEW v \in Threads,
         h[u].pc \in Inside \cup Second, h[v].pc \in Inside \cup Second
  PROVE  u = v
<1>1. \A w \in {u, v} : DepthAt(h[w].pc, h[w].next) # 0
  BY DEF DepthAt, Inside, Second, Nested
<1>2. m.owner = u /\ m.owner = v BY <1>1 DEF HeldIn
<1> QED BY <1>2

\* Whoever is late is awake, and who has yet to find the mount stopped is too;
\* a thread that has posted to RA and not to DEC may be both.
LEMMA Crowd ==
  ASSUME IsFiniteSet(Threads), NEW h, NEW s, NEW m, HeldIn(h, m),
         NEW x \in Axes
  PROVE  LET l == Cardinality(Late(h, x))
             e == Cardinality(Early(h, s, x))
             f == Cardinality(Awake(h, x))
         IN  /\ l \in Nat /\ e \in Nat /\ f \in Nat
             /\ IsFiniteSet(Late(h, x)) /\ IsFiniteSet(Early(h, s, x))
             /\ IsFiniteSet(Awake(h, x))
             /\ l + e <= f + 1 /\ e <= f
             /\ (\A t \in Threads : h[t].pc \notin Second) => l + e <= f
<1>1. /\ Late(h, x) \subseteq Awake(h, x) /\ Early(h, s, x) \subseteq Awake(h, x)
      /\ Awake(h, x) \subseteq Threads
  BY DEF Late, Early, Awake, LatePoints, Entered, Second, Asleep
<1>2. IsFiniteSet(Awake(h, x)) BY <1>1, FS_Subset
<1>3. \A t \in Late(h, x) \cap Early(h, s, x) :
        t \in Threads /\ h[t].pc \in Second
  BY DEF Late, Early, LatePoints, Entered, Second
<1>4. \A u, v \in Late(h, x) \cap Early(h, s, x) : u = v
  BY <1>3, OneInside
<1>5. (\A t \in Threads : h[t].pc \notin Second) =>
        Late(h, x) \cap Early(h, s, x) = {}
  BY <1>3
<1>6. /\ Cardinality(Late(h, x)) \in Nat /\ Cardinality(Early(h, s, x)) \in Nat
      /\ Cardinality(Awake(h, x)) \in Nat
      /\ Cardinality(Late(h, x)) + Cardinality(Early(h, s, x))
           <= Cardinality(Awake(h, x)) + 1
      /\ Late(h, x) \cap Early(h, s, x) = {} =>
           Cardinality(Late(h, x)) + Cardinality(Early(h, s, x))
             <= Cardinality(Awake(h, x))
  BY <1>1, <1>2, <1>4, Overlap
<1>7. /\ IsFiniteSet(Late(h, x)) /\ IsFiniteSet(Early(h, s, x))
      /\ Cardinality(Early(h, s, x)) <= Cardinality(Awake(h, x))
  BY <1>1, <1>2, FS_Subset
<1> QED BY <1>2, <1>5, <1>6, <1>7

\* What a step of thread t makes of the sets.
CrowdMoves(h, g, s, r, t, x) ==
  /\ (Asleep(h[t], x) <=> Asleep(g[t], x)) => Awake(g, x) = Awake(h, x)
  /\ h[t].pc \in LatePoints(x) /\ g[t].pc \in LatePoints(x) =>
       Late(g, x) = Late(h, x)
  /\ h[t].pc \notin LatePoints(x) /\ g[t].pc \notin LatePoints(x) =>
       Late(g, x) = Late(h, x)
  /\ h[t].pc \in LatePoints(x) /\ g[t].pc \notin LatePoints(x) =>
       Late(g, x) = Late(h, x) \ {t} /\ t \in Late(h, x)
  /\ h[t].pc \notin LatePoints(x) /\ g[t].pc \in LatePoints(x) =>
       Late(g, x) = Late(h, x) \cup {t} /\ t \notin Late(h, x)
  /\ (/\ Asleep(h[t], x) => Asleep(g[t], x)
      /\ h[t].pc \notin Entered /\ (r = {} => s = {}))
       => Early(g, r, x) \subseteq Early(h, s, x)
  /\ (/\ ~Asleep(h[t], x) /\ h[t].pc \notin Entered
      /\ g[t].pc \in Entered /\ r = {} /\ s = {})
       => Early(g, r, x) = Early(h, s, x) \ {t} /\ t \in Early(h, s, x)
  /\ r # {} => Early(g, r, x) = {}

LEMMA CrowdSteps ==
  ASSUME NEW h, NEW g, NEW s, NEW r, NEW t \in Threads,
         \A u \in Threads \ {t} : g[u] = h[u], NEW x \in Axes
  PROVE  CrowdMoves(h, g, s, r, t, x)
<1>1. (Asleep(h[t], x) <=> Asleep(g[t], x)) => Awake(g, x) = Awake(h, x)
  BY DEF Awake
<1>2. \A u \in Threads \ {t} :
        u \in Late(g, x) <=> u \in Late(h, x)
  BY DEF Late
<1>3. /\ t \in Late(g, x) <=> g[t].pc \in LatePoints(x)
      /\ t \in Late(h, x) <=> h[t].pc \in LatePoints(x)
      /\ Late(g, x) \subseteq Threads /\ Late(h, x) \subseteq Threads
  BY DEF Late
<1>4. (/\ Asleep(h[t], x) => Asleep(g[t], x)
       /\ h[t].pc \notin Entered /\ (r = {} => s = {}))
        => Early(g, r, x) \subseteq Early(h, s, x)
  BY DEF Early
<1>5. (/\ ~Asleep(h[t], x) /\ h[t].pc \notin Entered
       /\ g[t].pc \in Entered /\ r = {} /\ s = {})
        => Early(g, r, x) = Early(h, s, x) \ {t} /\ t \in Early(h, s, x)
  BY DEF Early
<1>6. r # {} => Early(g, r, x) = {} BY DEF Early
<1>7. (h[t].pc \in LatePoints(x) <=> g[t].pc \in LatePoints(x)) =>
        Late(g, x) = Late(h, x)
  BY <1>2, <1>3
<1>8. h[t].pc \in LatePoints(x) /\ g[t].pc \notin LatePoints(x) =>
        Late(g, x) = Late(h, x) \ {t} /\ t \in Late(h, x)
  BY <1>2, <1>3
<1>9. h[t].pc \notin LatePoints(x) /\ g[t].pc \in LatePoints(x) =>
        Late(g, x) = Late(h, x) \cup {t} /\ t \notin Late(h, x)
  BY <1>2, <1>3
<1> QED BY <1>1, <1>4, <1>5, <1>6, <1>7, <1>8, <1>9 DEF CrowdMoves

LEMMA QueueLen ==
  ASSUME AxesTyped, NEW x \in Axes
  PROVE  /\ Len(ax[x].queue) \in Nat /\ Len(<<>>) = 0
         /\ ax[x].queue # <<>> =>
              Len(Tail(ax[x].queue)) = Len(ax[x].queue) - 1
<1>1. PICK S : ax[x].queue \in Seq(S)
  BY DEF AxesTyped, AxisShape, Messages
<1> QED BY <1>1

LEMMA KeepsRoom ==
  ASSUME IsFiniteSet(Threads), GotoInv, GotoInv', Standing, FlushedFirst,
         Room, NEW t \in Threads, \A u \in Threads \ {t} : th'[u] = th[u], Kinds(t)
  PROVE  Room'
<1> SUFFICES ASSUME NEW x \in Axes
             PROVE  Fit(Len(ax'[x].queue), Cardinality(Late(th', x)),
                        Cardinality(Early(th', status', x)),
                        Cardinality(Awake(th', x)))
  BY DEF Room
<1> DEFINE n == Len(ax[x].queue)
           l == Cardinality(Late(th, x))
           e == Cardinality(Early(th, status, x))
           f == Cardinality(Awake(th, x))
           nn == Len(ax'[x].queue)
           ll == Cardinality(Late(th', x))
           ee == Cardinality(Early(th', status', x))
           ff == Cardinality(Awake(th', x))
<1> SUFFICES Fit(nn, ll, ee, ff)
  OBVIOUS
<1>0. \A w : w.pc \notin Stopping => ~Asleep(w, x)
  BY DEF Asleep, Stopping
<1>1. Fit(n, l, e, f) BY DEF Room
<1>2. /\ l \in Nat /\ e \in Nat /\ f \in Nat /\ IsFiniteSet(Late(th, x))
      /\ IsFiniteSet(Early(th, status, x)) /\ IsFiniteSet(Awake(th, x))
      /\ (\A u \in Threads : th[u].pc \notin Second) => l + e <= f
  <2>1. HeldIn(th, mutex) BY DEF GotoInv, IInv, Held, HeldIn
  <2> QED BY <2>1, Crowd
<1>3. /\ ll \in Nat /\ ee \in Nat /\ ff \in Nat /\ ll + ee <= ff + 1
      /\ ee <= ff
  <2>1. HeldIn(th', mutex') BY DEF GotoInv, IInv, Held, HeldIn
  <2> QED BY <2>1, Crowd
<1>4. n \in Nat /\ nn \in Nat /\ Len(<<>>) = 0
  BY QueueLen DEF GotoInv, AxesTyped, AxisShape, Messages
<1>5. AxisShape(ax[x]) /\ Stands(ax[x]) BY DEF GotoInv, AxesTyped, Standing
<1>6. Touches(ax[x], ax'[x]) => nn <= n
  BY <1>4, <1>5, TouchStands
<1>7. Posts(ax[x], ax'[x]) => nn = n + 1 BY <1>5, PostStands
<1>8. ax'[x] = ax[x] => nn = n OBVIOUS
<1>9. CrowdMoves(th, th', status, status', t, x) BY CrowdSteps
<1>10. Early(th', status', x) \subseteq Early(th, status, x) => ee <= e
  BY <1>2, FS_Subset
<1>11. t \in Late(th, x) => Cardinality(Late(th, x) \ {t}) = l - 1
  BY <1>2, FS_RemoveElement
<1>12. t \notin Late(th, x) => Cardinality(Late(th, x) \cup {t}) = l + 1
  BY <1>2, FS_AddElement
<1>13. t \in Early(th, status, x) => Cardinality(Early(th, status, x) \ {t}) = e - 1
  BY <1>2, FS_RemoveElement
<1>14. Cardinality({}) = 0 BY FS_EmptySet
<1>15. 2 * (f + 1) <= f * (f + 1) + 2 BY <1>2, Triangle
<1>16. 2 * (ff + 1) <= ff * (ff + 1) + 2 BY <1>3, Triangle
<1>17. CASE Clears(t)
  <2>1. nn = 0 BY <1>4, <1>17 DEF Clears
  <2> HIDE DEF nn, ll, ee, ff
  <2>2. 2 * (nn + ll + ee) <= 2 * (ff + 1) BY <1>3, <2>1
  <2> QED BY <1>3, <1>16, <2>1, <2>2 DEF Fit
<1>24. CASE Dozes(t)
  <2>1. /\ th[t].pc \notin LatePoints(x) /\ th'[t].pc \notin LatePoints(x)
        /\ th[t].pc \notin Entered
    BY <1>24 DEF Dozes, LatePoints, Stopping, Entered, Second
  <2>2. CASE ax'[x].queue = <<>>
    <3>1. nn = 0 BY <1>4, <2>2
    <3> HIDE DEF nn, ll, ee, ff
    <3>2. 2 * (nn + ll + ee) <= 2 * (ff + 1) BY <1>3, <3>1
    <3> QED BY <1>3, <1>16, <3>1, <3>2 DEF Fit
  <2>3. CASE Asleep(th[t], x) <=> Asleep(th'[t], x)
    <3>1. nn <= n /\ ee <= e /\ ff = f /\ ll = l
      BY <1>6, <1>9, <1>10, <1>24, <2>1, <2>3 DEF CrowdMoves, Dozes
    <3> HIDE DEF n, l, e, f, nn, ll, ee, ff
    <3> QED BY <1>1, <1>2, <1>3, <1>4, <3>1 DEF Fit
  <2> QED BY <1>24, <2>2, <2>3 DEF Dozes
<1>18. CASE Frees(t)
  <2>1. /\ th[t].pc \notin LatePoints(x) /\ th'[t].pc \notin LatePoints(x)
        /\ Asleep(th[t], x) /\ ~Asleep(th'[t], x)
    BY <1>18
       DEF Frees, LatePoints, Stopping, Entered, Second, Apart, Asleep
  <2>2. nn = n /\ ll = l BY <1>8, <1>9, <1>18, <2>1 DEF CrowdMoves, Frees
  <2>3. Awake(th', x) = Awake(th, x) \cup {t} /\ t \notin Awake(th, x)
    BY <2>1 DEF Awake
  <2>4. ff = f + 1 BY <1>2, <2>3, FS_AddElement
  <2> HIDE DEF n, l, e, f, nn, ll, ee, ff
  <2>5. ff * (ff + 1) = f * (f + 1) + 2 * (f + 1) BY <1>2, <2>4
  <2>6. 2 * (n + l) <= f * (f + 1) + 2 BY <1>1, <1>2, <1>4 DEF Fit
  <2>7. 2 * (nn + ll + ee) <= 2 * (n + l) + 2 * (f + 1)
    BY <1>2, <1>3, <1>4, <2>2, <2>4
  <2> QED BY <1>2, <1>3, <1>4, <2>5, <2>6, <2>7 DEF Fit
<1>19. CASE Admits(t)
  <2>1. /\ th[t].pc \notin Entered /\ th'[t].pc \in Entered
        /\ th[t].pc \notin LatePoints(x) /\ th'[t].pc \in LatePoints(x)
        /\ ~Asleep(th[t], x) /\ ~Asleep(th'[t], x)
    BY <1>0, <1>19
       DEF Admits, LatePoints, Stopping, Entered, Second, Apart
  <2>2. nn = n /\ ll = l + 1 /\ ee = e - 1 /\ ff = f
    BY <1>8, <1>9, <1>12, <1>13, <1>19, <2>1 DEF CrowdMoves, Admits
  <2> HIDE DEF n, l, e, f, nn, ll, ee, ff
  <2> QED BY <1>1, <1>2, <1>4, <2>2 DEF Fit
<1>20. CASE PostsFirst(t)
  <2>1. /\ th[t].pc \in LatePoints("ra") /\ th'[t].pc \notin LatePoints("ra")
        /\ th[t].pc \in LatePoints("dec") /\ th'[t].pc \in LatePoints("dec")
        /\ ~Asleep(th[t], x) /\ ~Asleep(th'[t], x)
    BY <1>0, <1>20 DEF PostsFirst, LatePoints, Stopping, Entered, Second
  <2>2. ee = 0 /\ ff = f BY <1>9, <1>14, <1>20, <2>1 DEF CrowdMoves, PostsFirst
  <2>3. nn + ll = n + l
    <3>1. CASE x = "ra"
      <4>1. nn = n + 1 /\ ll = l - 1
        BY <1>7, <1>9, <1>11, <1>20, <2>1, <3>1 DEF CrowdMoves, PostsFirst
      <4> HIDE DEF n, l, nn, ll
      <4> QED BY <1>2, <1>4, <4>1
    <3>2. CASE x = "dec"
      BY <1>8, <1>9, <1>20, <2>1, <3>2 DEF CrowdMoves, PostsFirst
    <3> QED BY <3>1, <3>2 DEF Axes
  <2> HIDE DEF n, l, e, f, nn, ll, ee, ff
  <2> QED BY <1>1, <1>2, <1>3, <1>4, <2>2, <2>3 DEF Fit
<1>21. CASE PostsSecond(t)
  <2>1. /\ th[t].pc \notin LatePoints("ra") /\ th'[t].pc \notin LatePoints("ra")
        /\ th[t].pc \in LatePoints("dec")
        /\ th'[t].pc \notin LatePoints("dec") /\ th[t].pc \notin Entered
        /\ ~Asleep(th[t], x) /\ ~Asleep(th'[t], x)
    BY <1>0, <1>21 DEF PostsSecond, LatePoints, Stopping, Entered, Second, Apart
  <2>2. ee <= e /\ ff = f
    BY <1>9, <1>10, <1>21, <2>1 DEF CrowdMoves, PostsSecond
  <2>3. nn + ll = n + l
    <3>1. CASE x = "dec"
      <4>1. nn = n + 1 /\ ll = l - 1
        BY <1>7, <1>9, <1>11, <1>21, <2>1, <3>1 DEF CrowdMoves, PostsSecond
      <4> HIDE DEF n, l, nn, ll
      <4> QED BY <1>2, <1>4, <4>1
    <3>2. CASE x = "ra"
      BY <1>8, <1>9, <1>21, <2>1, <3>2 DEF CrowdMoves, PostsSecond
    <3> QED BY <3>1, <3>2 DEF Axes
  <2> HIDE DEF n, l, e, f, nn, ll, ee, ff
  <2> QED BY <1>1, <1>2, <1>3, <1>4, <2>2, <2>3 DEF Fit
<1>22. ASSUME NEW y \in Axes, PostsNudge(t, y)
       PROVE  Fit(nn, ll, ee, ff)
  <2>1. /\ th[t].pc \in Inside /\ th[t].pc \notin Apart
        /\ th'[t].pc \notin Apart /\ th[t].pc \in FlushedPoints(y)
    BY <1>22
       DEF PostsNudge, Axes, Inside, Stopping, Entered, Second, Apart,
           FlushedPoints, NudgePoints
  <2>2. /\ th[t].pc \notin LatePoints(x) /\ th'[t].pc \notin LatePoints(x)
        /\ th[t].pc \notin Entered
        /\ ~Asleep(th[t], x) /\ ~Asleep(th'[t], x)
    BY <1>0, <2>1 DEF LatePoints, Stopping, Entered, Second, Apart
  <2>3. ee <= e /\ ff = f /\ ll = l
    BY <1>9, <1>10, <1>22, <2>2 DEF CrowdMoves, PostsNudge
  <2>4. CASE x = y
    <3>1. n = 0 BY <1>4, <1>22, <2>1, <2>4 DEF FlushedFirst, PostsNudge
    <3>2. nn = 1 BY <1>4, <1>7, <1>22, <2>4, <3>1 DEF PostsNudge
    <3>3. \A u \in Threads : th[u].pc \notin Second
      <4>1. HeldIn(th, mutex) BY DEF GotoInv, IInv, Held, HeldIn
      <4> QED BY <2>1, <4>1, OneInside DEF Apart
    <3>4. l + e <= f BY <1>2, <3>3
    <3> HIDE DEF n, l, e, f, nn, ll, ee, ff
    <3>5. 2 * (nn + ll + ee) <= 2 * (f + 1)
      BY <1>2, <1>3, <1>4, <2>3, <3>2, <3>4
    <3> QED BY <1>2, <1>3, <1>4, <1>15, <2>3, <3>5 DEF Fit
  <2>5. CASE x # y
    <3>1. nn = n BY <1>8, <1>22, <2>5 DEF PostsNudge
    <3> HIDE DEF n, l, e, f, nn, ll, ee, ff
    <3> QED BY <1>1, <1>2, <1>3, <1>4, <2>3, <3>1 DEF Fit
  <2> QED BY <2>4, <2>5
<1>23. CASE PassesBy(t)
  <2>1. /\ th[t].pc \notin LatePoints(x) /\ th'[t].pc \notin LatePoints(x)
        /\ th[t].pc \notin Entered
        /\ ~Asleep(th[t], x) /\ ~Asleep(th'[t], x)
    <3>1. ~Asleep(th'[t], x)
      BY <1>0, <1>23 DEF PassesBy, Apart, Beginning, Asleep
    <3> QED
      BY <1>0, <1>23, <3>1
         DEF PassesBy, LatePoints, Stopping, Entered, Second, Apart, Beginning
  <2>2. nn <= n /\ ee <= e /\ ff = f /\ ll = l
    BY <1>6, <1>9, <1>10, <1>23, <2>1 DEF CrowdMoves, PassesBy
  <2> HIDE DEF n, l, e, f, nn, ll, ee, ff
  <2> QED BY <1>1, <1>2, <1>3, <1>4, <2>2 DEF Fit
<1> QED
  BY <1>17, <1>18, <1>19, <1>20, <1>21, <1>22, <1>23, <1>24 DEF Kinds

-----------------------------------------------------------------------------
(* Steps of the servers, which do not touch the axes.                      *)

LEMMA WorkPc ==
  ASSUME NEW job, job.op \in Ops
  PROVE  /\ Work(job).pc \in Ops /\ Work(job).job = job
         /\ Work(job).axis = "ra" /\ ~Work(job).empty
<1>1. /\ Work(job).job = job /\ Work(job).axis = "ra" /\ ~Work(job).empty
      /\ Work(job).pc = IF job.op = "gotoMount" THEN "goto" ELSE job.op
  BY DEF Work, NoWork
<1> QED BY <1>1 DEF Ops

LEMMA ServerKinds ==
  ASSUME GotoInv, Poised, NEW s \in Servers,
         Read(s) \/ Call(s) \/ Dispatch(s)
  PROVE  \E t \in Threads :
           /\ \A u \in Threads \ {t} : th'[u] = th[u]
           /\ PassesBy(t) /\ th'[t].pc \notin NudgePoints /\ UNCHANGED ax
           /\ th'[t].axis = "ra" /\ ~th'[t].empty
<1>1. UNCHANGED <<ax, status>> BY DEF Read, Call, Dispatch
<1>2. \A x \in Axes : Touches(ax[x], ax'[x]) BY <1>1 DEF Touches
<1>3. PICK t \in Threads :
        /\ th[t].pc \in {"idle", "call"}
        /\ th'[t].pc \in Ops \cup {"idle", "call"}
        /\ \A u \in Threads \ {t} : th'[u] = th[u]
        /\ th'[t].axis = "ra" /\ ~th'[t].empty
  <2>0. Shape /\ Called BY DEF GotoInv, IInv
  <2>1. Reader(s) \in Threads /\ Worker(s) \in Threads BY ServerThreads
  <2>2. CASE Read(s)
    <3>1. \A u \in Threads \ {Reader(s)} : th'[u] = th[u]
      BY <2>0, <2>2 DEF Read, Shape
    <3>2. \/ th' = th
          \/ \E line : \/ th'[Reader(s)] = Work(JobOf(line))
                       \/ /\ th'[Reader(s)].pc = "call"
                          /\ th'[Reader(s)].axis = "ra"
                          /\ ~th'[Reader(s)].empty
      <4>1. \A job : LET w == [NoWork EXCEPT !.pc = "call", !.job = job]
                     IN  w.pc = "call" /\ w.axis = "ra" /\ ~w.empty
        BY DEF NoWork
      <4>2. \/ UNCHANGED th
            \/ \E line :
                 \/ th' = [th EXCEPT ![Reader(s)] = Work(JobOf(line))]
                 \/ th' = [th EXCEPT ![Reader(s)] =
                            [NoWork EXCEPT !.pc = "call", !.job = JobOf(line)]]
        BY <2>2 DEF Read
      <4>3. \/ UNCHANGED th
            \/ \E line : th'[Reader(s)] = Work(JobOf(line))
            \/ \E job : th'[Reader(s)] =
                          [NoWork EXCEPT !.pc = "call", !.job = job]
        BY <2>0, <2>1, <4>2 DEF Shape
      <4> QED BY <4>1, <4>3
    <3>3. \A line : /\ Work(JobOf(line)).pc \in Ops
                     /\ Work(JobOf(line)).axis = "ra"
                     /\ ~Work(JobOf(line)).empty
      BY JobOps, WorkPc
    <3>4. /\ th[Reader(s)].pc = "idle" /\ th[Reader(s)].axis = "ra"
          /\ ~th[Reader(s)].empty
      BY <2>1, <2>2 DEF Read, At, Poised, StopPoints
    <3> QED BY <2>1, <3>1, <3>2, <3>3, <3>4
  <2>3. CASE Call(s)
    <3>1. /\ th[Reader(s)].pc = "call" /\ th'[Reader(s)] = NoWork
          /\ \A u \in Threads \ {Reader(s)} : th'[u] = th[u]
      BY <2>0, <2>1, <2>3 DEF Call, At, Shape
    <3>2. NoWork.pc = "idle" /\ NoWork.axis = "ra" /\ ~NoWork.empty
      BY DEF NoWork
    <3> QED BY <2>1, <3>1, <3>2
  <2>4. CASE Dispatch(s)
    <3>1. /\ th[Worker(s)].pc = "idle"
          /\ th'[Worker(s)] = Work(Head(evq[s]))
          /\ \A u \in Threads \ {Worker(s)} : th'[u] = th[u]
      BY <2>0, <2>1, <2>4 DEF Dispatch, At, Shape
    <3>2. Head(evq[s]) \in JobSet
      <4>1. evq[s] \in Seq(JobSet) /\ evq[s] # <<>>
        BY <2>0, <2>4 DEF Called, Dispatch
      <4> QED BY <4>1
    <3>3. LET w == Work(Head(evq[s]))
          IN  w.pc \in Ops /\ w.axis = "ra" /\ ~w.empty
      BY <3>2, JobOps, WorkPc DEF JobSet
    <3> QED BY <2>1, <3>1, <3>3
  <2> QED BY <2>2, <2>3, <2>4
<1>4. /\ th[t].pc \notin Apart /\ th'[t].pc \notin NudgePoints
      /\ th'[t].pc \notin Apart \/ Beginning(th'[t])
  BY <1>3
     DEF Apart, Stopping, Entered, Second, Ops, AlignOps, NudgePoints,
         Beginning
<1> QED BY <1>1, <1>2, <1>3, <1>4 DEF PassesBy

-----------------------------------------------------------------------------
(* A nudge finds the queues it flushed as it left them.                    *)

\* Only the steps of a nudge between its looks and its posts lead there.
LEMMA OnlyNudges ==
  ASSUME GotoInv, NEW t \in Threads, ThreadStep(t) \/ Ask(t) \/ Answer(t),
         th'[t].pc \in NudgePoints
  PROVE  \/ Flush(t) \/ Flag(t) \/ NudgeDec(t) \/ SeeStatus(t)
         \/ \E x \in Axes : Look(t, x) \/ Keep(t, x)
<1>0. /\ Shape
      /\ \A q : Goto(t, q) => th'[t].pc = q
      /\ \A r : Done(t, r) => th'[t].pc = "done"
      /\ PathAt(th[t].pc, th[t].next, th[t].job.op)
  BY DEF GotoInv, IInv, Shape, Goto, Done, Fields, Paths
<1>1. CASE \/ GoTo(t) \/ SlewRa(t) \/ SlewDec(t) \/ WaitRa(t)
           \/ WaitDec(t) \/ Leg(t) \/ TrackRa(t)
  BY <1>0, <1>1
     DEF GoTo, SlewRa, SlewDec, WaitRa, WaitDec, Leg, TrackRa, Shape, Fields,
         NudgePoints
<1>2. CASE \/ StopSync(t) \/ StartTracking(t) \/ TrackDec(t)
           \/ StopAsyncStatus(t)
  BY <1>0, <1>2
     DEF StopSync, StartTracking, TrackDec, StopAsyncStatus, At, PathAt,
         TrackPoints, NudgePoints
<1>3. CASE \/ StopTracking(t) \/ StopTrackingLocked(t) \/ Untrack(t)
           \/ EmergencyStopStatus(t)
           \/ SetSlewSpeed(t) \/ SetSlewSpeedDec(t) \/ Guide(t)
  BY <1>0, <1>3
     DEF StopTracking, StopTrackingLocked, Untrack,
         EmergencyStopStatus, SetSlewSpeed, SetSlewSpeedDec, Guide, Shape,
         Fields, NudgePoints
<1>4. CASE \/ Nudge(t) \/ StopNudge(t) \/ ResumeTracking(t) \/ Leave(t)
           \/ StartNudge(t) \/ NudgeRa(t) \/ NudgeStatus(t)
  BY <1>0, <1>4
     DEF Nudge, StopNudge, ResumeTracking, Leave, StartNudge, NudgeRa,
         NudgeStatus, Shape, Fields, NudgePoints
<1>5. CASE Ask(t) \/ Answer(t)
  BY <1>0, <1>5, IdleWork DEF Ask, Answer, Shape, NudgePoints
<1> QED BY <1>1, <1>2, <1>3, <1>4, <1>5 DEF ThreadStep

\* What a nudge has flushed stays empty through its own steps,
LEMMA FlushesItself ==
  ASSUME GotoInv, Standing, FlushedFirst, NEW t \in Threads,
         ThreadStep(t) \/ Ask(t) \/ Answer(t), NEW x \in Axes,
         th'[t].pc \in FlushedPoints(x), th'[t].dir[x] # "same"
  PROVE  ax'[x].queue = <<>>
<1>0. /\ Shape /\ DOMAIN ax = Axes /\ AxisShape(ax[x]) /\ Stands(ax[x])
      /\ \A q : Goto(t, q) => th'[t].pc = q /\ th'[t].dir = th[t].dir
  BY DEF GotoInv, IInv, Shape, AxesTyped, Goto, Fields, Standing
<1>1. FlushedPoints(x) \subseteq NudgePoints
  BY DEF FlushedPoints, NudgePoints
<1>2. ax[x].queue = <<>> /\ Touches(ax[x], ax'[x]) => ax'[x].queue = <<>>
  BY <1>0, TouchStands
<1>3. CASE NudgeDec(t)
  <2>1. th[t].pc = "start_dec" /\ th'[t].pc \in {"see_ra", "see_status"}
    BY <1>0, <1>3 DEF NudgeDec, At
  <2>2. x = "ra" BY <2>1 DEF FlushedPoints, Axes
  <2>3. th'[t].dir = th[t].dir /\ ax'.ra = ax.ra
    BY <1>0, <1>3 DEF NudgeDec, Axes
  <2>4. ax[x].queue = <<>>
    BY <2>1, <2>2, <2>3 DEF FlushedFirst, FlushedPoints, NudgePoints
  <2> QED BY <2>2, <2>3, <2>4
<1>4. ASSUME th'[t].dir = th[t].dir, Touches(ax[x], ax'[x]),
             th[t].pc \in FlushedPoints(x)
      PROVE  ax'[x].queue = <<>>
  <2>1. ax[x].queue = <<>> BY <1>4 DEF FlushedFirst
  <2> QED BY <1>2, <1>4, <2>1
<1>5. CASE SeeStatus(t)
  <2>1. /\ th'[t].dir = th[t].dir /\ UNCHANGED ax
        /\ th[t].pc = "see_ra" \/ th'[t].pc = "nudge_status"
    BY <1>0, <1>5 DEF SeeStatus, At, axisVars, Shape, Fields
  <2>2. x = "ra" /\ th[t].pc = "see_ra"
    <3>1. /\ th'[t].pc \in {"start_ra", "nudge_status"}
      BY <1>0, <1>5 DEF SeeStatus, Shape, Fields
    <3> QED BY <2>1, <3>1 DEF FlushedPoints, NudgePoints, Axes
  <2>3. th[t].pc \in FlushedPoints(x)
    BY <2>2 DEF FlushedPoints, NudgePoints
  <2> QED BY <1>4, <2>1, <2>3 DEF Touches
<1>6. CASE Flush(t)
  <2>1. /\ th'[t].dir = th[t].dir /\ th'[t].pc = th[t].pc
        /\ \/ UNCHANGED ax
           \/ \E y \in Axes : /\ ax[y].queue # <<>>
                              /\ ax' = [ax EXCEPT ![y] = Shorter(@)]
    BY <1>0, <1>6 DEF Flush, Shape, Fields, Shorter
  <2>2. Touches(ax[x], ax'[x]) BY <1>0, <2>1 DEF Touches
  <2> QED BY <1>4, <2>1, <2>2
<1>7. CASE Flag(t)
  <2>1. /\ th'[t].dir = th[t].dir
        /\ \E f \in AllFlags : ax' = [ax EXCEPT ![th[t].axis] = Flagged(@, f)]
        /\ th[t].pc \in StopPoints
        /\ th'[t].pc = AfterStop(th[t].pc, th[t].axis)
    BY <1>0, <1>7 DEF Flag, At, Shape, Fields, AllFlags, Stops
  <2>2. Touches(ax[x], ax'[x]) BY <1>0, <2>1 DEF Touches, Shape
  <2>3. th[t].pc \in FlushedPoints(x)
    BY <1>0, <2>1
       DEF AfterStop, StopPoints, Shape, Axes, FlushedPoints, NudgePoints
  <2> QED BY <1>4, <2>1, <2>2, <2>3
<1>8. ASSUME NEW y \in Axes, Keep(t, y)
      PROVE  ax'[x].queue = <<>>
  <2>1. /\ th[t].pc = IF y = "ra" THEN "keep_ra" ELSE "keep_dec"
        /\ th'[t].pc = IF y = "ra" THEN "look_dec" ELSE "start_dec"
        /\ th'[t].dir = th[t].dir
        /\ ax' = [ax EXCEPT ![y] = Flagged(@, "STOP_KEEPSPEED")]
    BY <1>0, <1>8 DEF Keep, At, Shape, Fields
  <2>2. th[t].pc \in FlushedPoints(x)
    BY <2>1 DEF FlushedPoints, NudgePoints, Axes
  <2>3. Touches(ax[x], ax'[x]) BY <1>0, <2>1 DEF Touches, AllFlags
  <2> QED BY <1>4, <2>1, <2>2, <2>3
<1>9. ASSUME NEW y \in Axes, Look(t, y)
      PROVE  ax'[x].queue = <<>>
  <2>1. th[t].pc = IF y = "ra" THEN "look_ra" ELSE "look_dec"
    BY <1>9 DEF Look, At
  <2>2. /\ th'[t].dir = th[t].dir
        /\ \/ /\ th[t].dir[y] = "same" /\ UNCHANGED ax
              /\ th'[t].pc = IF y = "ra" THEN "look_dec" ELSE "start_dec"
           \/ /\ ax[y].queue # <<>> /\ ax' = [ax EXCEPT ![y] = Shorter(@)]
              /\ th'[t].pc = th[t].pc
           \/ /\ ax[y].queue = <<>> /\ UNCHANGED ax
              /\ th'[t].pc \in IF y = "ra" THEN {"keep_ra", "act_ra"}
                               ELSE {"keep_dec", "act_dec"}
    BY <1>0, <1>9 DEF Look, Shape, Fields, Shorter, Axes
  <2>3. Touches(ax[x], ax'[x]) BY <1>0, <2>2 DEF Touches
  <2>4. CASE y = x
    <3>1. ax[x].queue = <<>> /\ UNCHANGED ax
      BY <2>1, <2>2, <2>4 DEF FlushedPoints, NudgePoints, Axes
    <3> QED BY <3>1
  <2>5. CASE y # x
    <3>1. x = "ra" /\ y = "dec"
      BY <2>1, <2>2, <2>5 DEF Axes, FlushedPoints
    <3>2. th[t].pc \in FlushedPoints(x)
      BY <2>1, <3>1 DEF FlushedPoints, NudgePoints
    <3> QED BY <1>4, <2>2, <2>3, <3>2
  <2> QED BY <2>4, <2>5
<1> QED BY <1>1, <1>3, <1>5, <1>6, <1>7, <1>8, <1>9, OnlyNudges

\* and through those of others, which post with the mutex.
LEMMA FlushesLast ==
  ASSUME GotoInv, GotoInv', Standing, FlushedFirst, NEW t \in Threads,
         Kinds(t), NEW u \in Threads, u # t, th'[u] = th[u], NEW x \in Axes,
         th[u].pc \in FlushedPoints(x), th[u].dir[x] # "same"
  PROVE  ax'[x].queue = <<>>
<1>1. ax[x].queue = <<>> BY DEF FlushedFirst
<1>2. HeldIn(th, mutex) /\ HeldIn(th', mutex')
  BY DEF GotoInv, IInv, Held, HeldIn
<1>3. th[u].pc \in Inside
  BY DEF FlushedPoints, NudgePoints, Inside
<1>4. th[t].pc \notin Inside \cup Second BY <1>2, <1>3, OneInside
<1>5. th'[t].pc \notin Inside \cup Second BY <1>2, <1>3, OneInside
<1>6. ~PostsFirst(t) /\ ~PostsSecond(t)
  BY <1>4, <1>5 DEF PostsFirst, PostsSecond
<1>7. \A y \in Axes : ~PostsNudge(t, y)
  BY <1>4 DEF PostsNudge, Inside
<1>8. Touches(ax[x], ax'[x]) => ax'[x].queue = <<>>
  BY <1>1, TouchStands DEF GotoInv, AxesTyped, Standing
<1> QED
  BY <1>1, <1>6, <1>7, <1>8
     DEF Kinds, Clears, Dozes, Frees, Admits, PassesBy

\* A step leaves alone what is in hand, but for those that are about it.
LEMMA KeepsWork ==
  ASSUME GotoInv, NEW t \in Threads, ThreadStep(t) \/ Ask(t)
  PROVE  /\ th'[t].job = th[t].job
         /\ \/ Flush(t) \/ Flag(t) \/ \E x \in Axes : Look(t, x) \/ Keep(t, x)
            \/ /\ th[t].pc \notin StopPoints \cup {"keep_ra", "keep_dec"}
               /\ th'[t].axis = th[t].axis /\ th'[t].empty = th[t].empty
<1> DEFINE Kept == /\ th'[t].job = th[t].job /\ th'[t].axis = th[t].axis
                   /\ th'[t].empty = th[t].empty
           Elsewhere == th[t].pc \notin StopPoints \cup {"keep_ra", "keep_dec"}
<1>0. /\ Shape
      /\ \A q : Goto(t, q) => Kept
      /\ \A r : Done(t, r) => Kept
  BY DEF GotoInv, IInv, Shape, Goto, Done, Fields
<1>1. CASE \/ GoTo(t) \/ StopSync(t) \/ SlewRa(t) \/ SlewDec(t) \/ WaitRa(t)
           \/ WaitDec(t) \/ Leg(t)
  <2>1. Kept
    BY <1>0, <1>1
       DEF GoTo, StopSync, SlewRa, SlewDec, WaitRa, WaitDec, Leg, Shape, Fields
  <2>2. Elsewhere
    BY <1>1
       DEF GoTo, StopSync, SlewRa, SlewDec, WaitRa, WaitDec, Leg, At,
           StopPoints
  <2> QED BY <2>1, <2>2
<1>2. CASE \/ StartTracking(t) \/ TrackRa(t) \/ TrackDec(t)
           \/ StopTracking(t) \/ StopTrackingLocked(t) \/ Untrack(t)
           \/ StopAsyncStatus(t) \/ EmergencyStopStatus(t)
           \/ SetSlewSpeed(t) \/ SetSlewSpeedDec(t) \/ Guide(t) \/ Ask(t)
  <2>1. Kept
    BY <1>0, <1>2
       DEF StartTracking, TrackRa, TrackDec, StopTracking, StopTrackingLocked,
           Untrack, StopAsyncStatus, EmergencyStopStatus, SetSlewSpeed,
           SetSlewSpeedDec, Guide, Ask, Shape, Fields
  <2>2. Elsewhere
    BY <1>2
       DEF StartTracking, TrackRa, TrackDec, StopTracking, StopTrackingLocked,
           Untrack, StopAsyncStatus, EmergencyStopStatus, SetSlewSpeed,
           SetSlewSpeedDec, Guide, Ask, At, StopPoints, AlignOps
  <2> QED BY <2>1, <2>2
<1>3. CASE \/ Nudge(t) \/ StopNudge(t) \/ ResumeTracking(t) \/ Leave(t)
           \/ StartNudge(t) \/ NudgeDec(t) \/ SeeStatus(t) \/ NudgeRa(t)
           \/ NudgeStatus(t)
  <2>1. Kept
    BY <1>0, <1>3
       DEF Nudge, StopNudge, ResumeTracking, Leave, StartNudge, NudgeDec,
           SeeStatus, NudgeRa, NudgeStatus, Shape, Fields
  <2>2. Elsewhere
    BY <1>3
       DEF Nudge, StopNudge, ResumeTracking, Leave, StartNudge, NudgeDec,
           SeeStatus, NudgeRa, NudgeStatus, At, StopPoints
  <2> QED BY <2>1, <2>2
<1>4. CASE Flush(t) \/ Flag(t)
  <2>1. th'[t].job = th[t].job BY <1>0, <1>4 DEF Flush, Flag, Shape, Fields
  <2> QED BY <1>4, <2>1
<1>5. ASSUME NEW x \in Axes, Look(t, x) \/ Keep(t, x)
      PROVE  th'[t].job = th[t].job
  BY <1>0, <1>5 DEF Look, Keep, Shape, Fields
<1> QED BY <1>1, <1>2, <1>3, <1>4, <1>5 DEF ThreadStep

LEMMA StaysPoised ==
  ASSUME GotoInv, Poised, NEW t \in Threads,
         ThreadStep(t) \/ Ask(t) \/ Answer(t)
  PROVE  Poised'
<1>0. Shape /\ \A u \in Threads \ {t} : th'[u] = th[u]
  BY OthersStay DEF GotoInv, IInv
<1>1. th[t].axis \in Axes BY <1>0 DEF Shape
<1>2. /\ th'[t].pc \notin StopPoints => ~th'[t].empty
      /\ th'[t].pc \notin StopPoints \cup {"keep_ra", "keep_dec"} =>
           th'[t].axis = "ra"
  <2>1. CASE Answer(t)
    <3>1. th'[t] = NoWork BY <1>0, <2>1 DEF Answer, Shape
    <3> QED BY <3>1 DEF NoWork
  <2>2. CASE Flush(t)
    <3>1. th'[t].pc = th[t].pc /\ th[t].pc \in StopPoints
      BY <1>0, <2>2 DEF Flush, At, Shape, Fields
    <3> QED BY <3>1
  <2>3. CASE Flag(t)
    <3>1. /\ th[t].pc \in StopPoints /\ ~th'[t].empty
          /\ th'[t].axis = IF th'[t].pc = th[t].pc THEN "dec" ELSE "ra"
      BY <1>0, <2>3 DEF Flag, At, Shape, Fields
    <3> QED BY <3>1
  <2>4. ASSUME NEW x \in Axes, Look(t, x) \/ Keep(t, x)
        PROVE  /\ th'[t].pc \notin StopPoints => ~th'[t].empty
               /\ th'[t].pc \notin StopPoints \cup {"keep_ra", "keep_dec"} =>
                    th'[t].axis = "ra"
    <3>1. /\ th[t].pc \in {"look_ra", "look_dec", "keep_ra", "keep_dec"}
          /\ Look(t, x) => th[t].pc \in {"look_ra", "look_dec"}
      BY <2>4 DEF Look, Keep, At
    <3>2. ~th[t].empty /\ (Look(t, x) => th[t].axis = "ra")
      BY <3>1 DEF Poised, StopPoints
    <3>3. /\ th'[t].empty = th[t].empty
          /\ \/ th'[t].axis = "ra"
             \/ th'[t].pc \in {"keep_ra", "keep_dec", "act_ra", "act_dec"}
      BY <1>0, <2>4, <3>2 DEF Look, Keep, Shape, Fields, Goto, Axes
    <3> QED BY <3>2, <3>3 DEF StopPoints
  <2>5. CASE /\ th[t].pc \notin StopPoints \cup {"keep_ra", "keep_dec"}
             /\ th'[t].axis = th[t].axis /\ th'[t].empty = th[t].empty
    BY <2>5 DEF Poised
  <2> QED BY <2>1, <2>2, <2>3, <2>4, <2>5, KeepsWork
<1>3. th'[t].pc \in {"see_ra", "start_ra"} => th'[t].dir.ra # "same"
  <2> SUFFICES ASSUME th'[t].pc \in {"see_ra", "start_ra"}
               PROVE  th'[t].dir.ra # "same"
    OBVIOUS
  <2>1. th'[t].pc \in NudgePoints BY DEF NudgePoints
  <2>2. CASE NudgeDec(t)
    BY <1>0, <2>2 DEF NudgeDec, Goto, Shape, Fields
  <2>3. CASE SeeStatus(t)
    <3>1. /\ th[t].pc \in {"see_ra", "see_status"} /\ th'[t].dir = th[t].dir
          /\ th[t].pc = "see_status" => th'[t].pc = "nudge_status"
      BY <1>0, <2>3 DEF SeeStatus, At, Shape, Fields
    <3> QED BY <3>1 DEF Poised
  <2>4. CASE Flush(t)
    <3>1. th'[t].pc = th[t].pc /\ th[t].pc \in StopPoints
      BY <1>0, <2>4 DEF Flush, At, Shape, Fields
    <3> QED BY <3>1 DEF StopPoints
  <2>5. CASE Flag(t)
    <3>1. PICK p \in StopPoints : th'[t].pc = AfterStop(p, th[t].axis)
      BY <1>0, <2>5 DEF Flag, At, Shape, Fields
    <3> QED BY <1>1, <3>1, AfterStops DEF StopPoints
  <2>6. ASSUME NEW x \in Axes, Look(t, x) \/ Keep(t, x)
        PROVE  FALSE
    <3>1. th'[t].pc \in {"look_ra", "look_dec", "keep_ra", "keep_dec",
                         "act_ra", "act_dec", "start_dec"}
      BY <1>0, <2>6 DEF Look, Keep, At, Goto, Shape, Fields, Axes
    <3> QED BY <3>1
  <2> QED BY <2>1, <2>2, <2>3, <2>4, <2>5, <2>6, OnlyNudges
<1> QED BY <1>0, <1>2, <1>3 DEF Poised

-----------------------------------------------------------------------------
(* The invariant of the queues.                                            *)

LEMMA ThreadQueues ==
  ASSUME IsFiniteSet(Threads), QueueInv, GotoInv', NEW t \in Threads,
         ThreadStep(t) \/ Ask(t) \/ Answer(t)
  PROVE  QueueInv'
<1>1. GotoInv /\ Standing /\ Poised /\ FlushedFirst /\ Room
  BY DEF QueueInv
<1>2. Kinds(t) BY <1>1, EachKind
<1>3. \A u \in Threads \ {t} : th'[u] = th[u] BY <1>1, OthersStay
<1>4. Room' BY <1>1, <1>2, <1>3, KeepsRoom
<1>5. Standing'
  <2> SUFFICES ASSUME NEW x \in Axes PROVE Stands(ax'[x])
    BY DEF Standing
  <2>1. Touches(ax[x], ax'[x]) \/ Posts(ax[x], ax'[x]) \/ ax'[x] = ax[x]
    <3>1. CASE PostsFirst(t) BY <3>1 DEF PostsFirst, Axes
    <3>2. CASE PostsSecond(t) BY <3>2 DEF PostsSecond, Axes
    <3>3. ASSUME NEW y \in Axes, PostsNudge(t, y)
          PROVE  Posts(ax[x], ax'[x]) \/ ax'[x] = ax[x]
      BY <3>3 DEF PostsNudge
    <3> QED
      BY <1>2, <3>1, <3>2, <3>3
         DEF Kinds, Clears, Dozes, Frees, Admits, PassesBy
  <2>2. AxisShape(ax[x]) /\ Stands(ax[x])
    BY <1>1 DEF GotoInv, AxesTyped, Standing
  <2> QED BY <2>1, <2>2, TouchStands, PostStands
<1>6. FlushedFirst'
  <2> SUFFICES ASSUME NEW u \in Threads, NEW x \in Axes,
                      th'[u].pc \in FlushedPoints(x), th'[u].dir[x] # "same"
               PROVE  ax'[x].queue = <<>>
    BY DEF FlushedFirst
  <2>1. CASE u = t BY <1>1, <2>1, FlushesItself
  <2>2. CASE u # t BY <1>1, <1>2, <1>3, <2>2, FlushesLast
  <2> QED BY <2>1, <2>2
<1>7. Poised' BY <1>1, StaysPoised
<1> QED BY <1>4, <1>5, <1>6, <1>7 DEF QueueInv

LEMMA ServerQueues ==
  ASSUME IsFiniteSet(Threads), QueueInv, GotoInv', NEW s \in Servers,
         Read(s) \/ Call(s) \/ Dispatch(s)
  PROVE  QueueInv'
<1>1. GotoInv /\ Standing /\ Poised /\ FlushedFirst /\ Room
  BY DEF QueueInv
<1>2. PICK t \in Threads :
        /\ \A u \in Threads \ {t} : th'[u] = th[u]
        /\ PassesBy(t) /\ th'[t].pc \notin NudgePoints /\ UNCHANGED ax
        /\ th'[t].axis = "ra" /\ ~th'[t].empty
  BY <1>1, ServerKinds
<1>3. Room' BY <1>1, <1>2, KeepsRoom DEF Kinds
<1>4. Standing' BY <1>1, <1>2 DEF Standing
<1>5. FlushedFirst'
  <2>1. \A x \in Axes : FlushedPoints(x) \subseteq NudgePoints
    BY DEF FlushedPoints, NudgePoints
  <2> QED BY <1>1, <1>2, <2>1 DEF FlushedFirst
<1>6. Poised' BY <1>1, <1>2 DEF Poised, NudgePoints
<1> QED BY <1>3, <1>4, <1>5, <1>6 DEF QueueInv

LEMMA AxisQueues ==
  ASSUME IsFiniteSet(Threads), QueueInv, GotoInv', NEW x \in Axes, AxisStep(x)
  PROVE  QueueInv'
<1>1. GotoInv /\ Standing /\ Poised /\ FlushedFirst /\ Room
  BY DEF QueueInv
<1>2. PICK b \in TaskSteps(ax[x]) : ax' = [ax EXCEPT ![x] = b]
  BY DEF AxisStep
<1>3. UNCHANGED <<th, status>> BY DEF AxisStep
<1>4. /\ DOMAIN ax = Axes /\ AxisShape(ax[x]) /\ Stands(ax[x])
      /\ ax'[x] = b /\ \A y \in Axes \ {x} : ax'[y] = ax[y]
  BY <1>1, <1>2 DEF GotoInv, AxesTyped, Standing
<1>5. TaskMoves(ax[x], b) BY <1>4, TaskStepMoves
<1>6. \/ b.queue \in {ax[x].queue, <<>>}
      \/ ax[x].queue # <<>> /\ b.queue = Tail(ax[x].queue)
  BY <1>5 DEF TaskMoves, Inner, Fetched, Ended
<1>7. /\ Len(ax[x].queue) \in Nat /\ Len(<<>>) = 0
      /\ ax[x].queue # <<>> =>
           Len(Tail(ax[x].queue)) = Len(ax[x].queue) - 1
  BY <1>1, QueueLen DEF GotoInv
<1>8. \A y \in Axes :
        /\ Len(ax'[y].queue) \in Nat /\ Len(ax[y].queue) \in Nat
        /\ Len(ax'[y].queue) <= Len(ax[y].queue)
        /\ ax[y].queue = <<>> => ax'[y].queue = <<>>
  <2> SUFFICES ASSUME NEW y \in Axes
               PROVE  /\ Len(ax'[y].queue) \in Nat /\ Len(ax[y].queue) \in Nat
                      /\ Len(ax'[y].queue) <= Len(ax[y].queue)
                      /\ ax[y].queue = <<>> => ax'[y].queue = <<>>
    OBVIOUS
  <2>1. CASE y # x
    <3>1. Len(ax[y].queue) \in Nat BY <1>1, QueueLen DEF GotoInv
    <3> QED BY <1>4, <2>1, <3>1
  <2>2. CASE y = x
    <3>1. CASE b.queue = ax[x].queue BY <1>4, <1>7, <2>2, <3>1
    <3>2. CASE b.queue = <<>> BY <1>4, <1>7, <2>2, <3>2
    <3>3. CASE ax[x].queue # <<>> /\ b.queue = Tail(ax[x].queue)
      <4>1. Len(Tail(ax[x].queue)) \in Nat
        <5>1. PICK S : ax[x].queue \in Seq(S)
          BY <1>4 DEF AxisShape, Messages
        <5>2. Tail(ax[x].queue) \in Seq(S) BY <3>3, <5>1
        <5> QED BY <5>2
      <4>2. /\ ax'[y].queue = Tail(ax[x].queue)
            /\ ax[y].queue = ax[x].queue
        BY <1>4, <2>2, <3>3
      <4> QED BY <1>7, <3>3, <4>1, <4>2
    <3> QED BY <1>6, <3>1, <3>2, <3>3
  <2> QED BY <2>1, <2>2
<1>9. Standing' BY <1>1, <1>4, TaskStands DEF Standing
<1>10. FlushedFirst' BY <1>1, <1>3, <1>8 DEF FlushedFirst
<1>12. Poised' BY <1>1, <1>3 DEF Poised
<1>11. Room'
  <2> SUFFICES ASSUME NEW y \in Axes
               PROVE  Fit(Len(ax'[y].queue), Cardinality(Late(th, y)),
                          Cardinality(Early(th, status, y)),
                          Cardinality(Awake(th, y)))
    BY <1>3 DEF Room
  <2> DEFINE l == Cardinality(Late(th, y))
             e == Cardinality(Early(th, status, y))
             f == Cardinality(Awake(th, y))
             n == Len(ax[y].queue)
             nn == Len(ax'[y].queue)
  <2> SUFFICES Fit(nn, l, e, f)
    OBVIOUS
  <2>1. HeldIn(th, mutex) BY <1>1 DEF GotoInv, IInv, Held, HeldIn
  <2>2. l \in Nat /\ e \in Nat /\ f \in Nat BY <2>1, Crowd
  <2>3. Fit(n, l, e, f) BY <1>1 DEF Room
  <2>4. nn \in Nat /\ n \in Nat /\ nn <= n BY <1>8
  <2> HIDE DEF n, l, e, f, nn
  <2> QED BY <2>2, <2>3, <2>4 DEF Fit
<1> QED BY <1>9, <1>10, <1>11, <1>12 DEF QueueInv

LEMMA QueueInit == ASSUME IsFiniteSet(Threads) PROVE Init => QueueInv
<1> SUFFICES ASSUME Init PROVE QueueInv
  OBVIOUS
<1>1. GotoInv BY GotoInit
<1>2. ASSUME NEW d, NEW a, a = [Rest EXCEPT !.status = "TRACKING",
                                           !.run = "track", !.cmd = Track(d)]
      PROVE  Stands(a) /\ a.queue = <<>>
  <2>1. /\ a.flags = {} /\ a.sem = 0 /\ a.status = "TRACKING"
        /\ a.run = "track" /\ a.queue = <<>>
    BY <1>2 DEF Rest
  <2> QED BY <2>1 DEF Stands
<1>3. \A x \in Axes : Stands(ax[x]) /\ ax[x].queue = <<>>
  BY <1>2 DEF Init, MountInit
<1>4. Standing BY <1>3 DEF Standing
<1>5. FlushedFirst BY <1>3 DEF FlushedFirst
<1>6. Room
  <2>1. \A t \in Threads : th[t].pc \notin Second
    BY IdleWork DEF Init, MountInit, Second
  <2>2. HeldIn(th, mutex) BY <1>1 DEF GotoInv, IInv, Held, HeldIn
  <2> SUFFICES ASSUME NEW x \in Axes
               PROVE  Fit(Len(ax[x].queue), Cardinality(Late(th, x)),
                          Cardinality(Early(th, status, x)),
                          Cardinality(Awake(th, x)))
    BY DEF Room
  <2> DEFINE l == Cardinality(Late(th, x))
             e == Cardinality(Early(th, status, x))
             f == Cardinality(Awake(th, x))
             n == Len(ax[x].queue)
  <2> SUFFICES Fit(n, l, e, f)
    OBVIOUS
  <2>3. n = 0 BY <1>3
  <2>4. l \in Nat /\ e \in Nat /\ f \in Nat /\ l + e <= f
    BY <2>1, <2>2, Crowd
  <2>5. 2 * (f + 1) <= f * (f + 1) + 2 BY <2>4, Triangle
  <2> HIDE DEF n, l, e, f
  <2>6. 2 * (n + l + e) <= 2 * (f + 1) BY <2>3, <2>4
  <2> QED BY <2>3, <2>4, <2>5, <2>6 DEF Fit
<1>7. Poised BY DEF Init, MountInit, NoWork, Poised
<1> QED BY <1>1, <1>4, <1>5, <1>6, <1>7 DEF QueueInv

LEMMA QueueNext ==
  ASSUME IsFiniteSet(Threads)
  PROVE  QueueInv /\ [Next]_vars => QueueInv'
<1> SUFFICES ASSUME QueueInv, [Next]_vars PROVE QueueInv'
  OBVIOUS
<1>1. GotoInv' BY GotoNext DEF QueueInv
<1>2. CASE UNCHANGED vars
  <2>1. UNCHANGED <<ax, th, status>> BY <1>2 DEF vars, mountVars
  <2> QED
    BY <1>1, <2>1 DEF QueueInv, Standing, Poised, FlushedFirst, Room
<1>3. ASSUME NEW t \in Threads, ThreadStep(t) \/ Ask(t) \/ Answer(t)
      PROVE  QueueInv'
  BY <1>1, <1>3, ThreadQueues
<1>4. ASSUME NEW x \in Axes, AxisStep(x) PROVE QueueInv'
  BY <1>1, <1>4, AxisQueues
<1>5. ASSUME NEW s \in Servers, Read(s) \/ Call(s) \/ Dispatch(s)
      PROVE  QueueInv'
  BY <1>1, <1>5, ServerQueues
<1> QED BY <1>2, <1>3, <1>4, <1>5 DEF Next, Mount

\* Each server has its reader and its worker.
LEMMA ThreadCount ==
  ASSUME IsFiniteSet(Servers)
  PROVE  /\ IsFiniteSet(Threads)
         /\ Cardinality(Threads) = 2 * Cardinality(Servers)
         /\ Cardinality(Servers) \in Nat
<1>1. /\ IsFiniteSet({"reader", "worker"})
      /\ Cardinality({"reader", "worker"}) = 2
  <2>1. /\ IsFiniteSet({"reader"}) /\ Cardinality({"reader"}) = 1
        /\ "worker" \notin {"reader"}
    BY FS_Singleton
  <2>2. /\ IsFiniteSet({"reader"} \cup {"worker"})
        /\ Cardinality({"reader"} \cup {"worker"}) = 1 + 1
    BY <2>1, FS_AddElement
  <2>3. {"reader", "worker"} = {"reader"} \cup {"worker"} OBVIOUS
  <2> QED BY <2>2, <2>3
<1>2. /\ IsFiniteSet(Servers \X {"reader", "worker"})
      /\ Cardinality(Servers \X {"reader", "worker"}) =
           Cardinality(Servers) * Cardinality({"reader", "worker"})
  BY <1>1, FS_Product
<1>3. Cardinality(Servers) \in Nat BY FS_CardinalityType
<1> QED BY <1>1, <1>2, <1>3, ServerAssumption

LEMMA AlwaysQueueInv ==
  ASSUME IsFiniteSet(Servers) PROVE Spec => []QueueInv
<1>1. IsFiniteSet(Threads) BY ThreadCount
<1>2. Init => QueueInv BY <1>1, QueueInit
<1>3. QueueInv /\ [Next]_vars => QueueInv' BY <1>1, QueueNext
<1> QED BY <1>2, <1>3, PTL DEF Spec

\* What N threads can have posted to an axis, see Room.
QueuesFit ==
  LET N == Cardinality(Threads)
  IN  \A x \in Axes : 2 * Len(ax[x].queue) <= N * (N + 1) + 2

\* What callers post to an axis is bounded by their number, however often each
\* posts, stops and posts again, and however long the axis takes: a goto and a
\* tracking look at the status first, a nudge flushes the queue it posts to
\* (EquatorialMount.cpp:56-117, 122-141 and 229-298).
THEOREM QueuesAreBounded ==
  ASSUME IsFiniteSet(Servers)
  PROVE  Spec => []QueuesFit
<1>1. QueueInv => QueuesFit
  <2> SUFFICES ASSUME QueueInv, NEW x \in Axes
               PROVE  2 * Len(ax[x].queue)
                        <= Cardinality(Threads) * (Cardinality(Threads) + 1) + 2
    BY DEF QueuesFit
  <2> DEFINE l == Cardinality(Late(th, x))
             e == Cardinality(Early(th, status, x))
             f == Cardinality(Awake(th, x))
             n == Len(ax[x].queue)
             N == Cardinality(Threads)
  <2> SUFFICES 2 * n <= N * (N + 1) + 2
    OBVIOUS
  <2>1. GotoInv /\ Room BY DEF QueueInv
  <2>2. IsFiniteSet(Threads) /\ N \in Nat
    BY ThreadCount, FS_CardinalityType
  <2>3. HeldIn(th, mutex) BY <2>1 DEF GotoInv, IInv, Held, HeldIn
  <2>4. l \in Nat /\ e \in Nat /\ f \in Nat BY <2>2, <2>3, Crowd
  <2>5. n \in Nat BY <2>1, QueueLen DEF GotoInv
  <2>6. Fit(n, l, e, f) BY <2>1 DEF Room
  <2>7. f <= N
    <3>1. Awake(th, x) \subseteq Threads BY DEF Awake
    <3> QED BY <2>2, <3>1, FS_Subset
  <2> HIDE DEF n, l, e, f, N
  <2>8. f * (f + 1) <= N * (N + 1)
    <3>1. f * (f + 1) <= N * (f + 1) BY <2>2, <2>4, <2>7
    <3>2. N * (f + 1) <= N * (N + 1) BY <2>2, <2>4, <2>7
    <3> QED BY <2>2, <2>4, <3>1, <3>2
  <2>9. 2 * n <= f * (f + 1) + 2 BY <2>4, <2>5, <2>6 DEF Fit
  <2> QED BY <2>2, <2>4, <2>5, <2>8, <2>9
<1> QED BY <1>1, AlwaysQueueInv, PTL

-----------------------------------------------------------------------------
(* What the mount and the servers keep.                                    *)

Statuses ==
  {{}, {"SLEWING"}, {"TRACKING"}, {"NUDGING"}, {"TRACKING", "NUDGING"}}

Nudges == RaNudges \cup DecNudges

JobTyped(job) == job.speed \in Nat /\ job.dirs \subseteq Nudges

Speeds == nudgeSpeed \in Nat /\ slewSpeed \in [Axes -> Nat]

ValueInv ==
  /\ GotoInv
  /\ status \in Statuses /\ curr_nudge_dir \subseteq Nudges /\ Speeds
  /\ \A t \in Threads : JobTyped(th[t].job)
  /\ \A s \in Servers : Places(s) <= EvqSize

LEMMA JobIsTyped == ASSUME NEW line PROVE JobTyped(JobOf(line))
<1> DEFINE a == line.args
<1>1. \A op : JobTyped(Job(op)) BY DEF JobTyped, Job, NoJob
<1>2. \A c : JobTyped(Answered(c))
  <2> SUFFICES ASSUME NEW c PROVE JobTyped(Answered(c))
    OBVIOUS
  <2>1. Answered(c).speed = 0 /\ Answered(c).dirs = {}
    BY DEF Answered, Reply, Job, NoJob
  <2> QED BY <2>1 DEF JobTyped
<1>3. JobTyped(Reply) /\ JobTyped(WrongNumber) /\ JobTyped(OutOfRange)
  BY <1>1, <1>2 DEF Reply, WrongNumber, OutOfRange
<1>4. /\ JobTyped(StopJob(a)) /\ JobTyped(GotoJob(a)) /\ JobTyped(TrackJob(a))
      /\ JobTyped(GuideJob(a)) /\ JobTyped(AlignJob(a))
  BY <1>1, <1>3 DEF StopJob, GotoJob, TrackJob, GuideJob, AlignJob
<1>5. /\ JobTyped(ReadJob(a)) /\ JobTyped(StateJob(a))
      /\ JobTyped(TimeJob(a)) /\ JobTyped(SettimeJob(a))
  BY <1>3 DEF ReadJob, StateJob, TimeJob, SettimeJob
<1>6. JobTyped(SpeedJob(a))
  <2>1. CASE /\ a[1] = "slew" /\ IsNumber(a[2]) /\ Value[a[2]] > 0
             /\ SpeedJob(a) = [Job("speed") EXCEPT !.speed = Value[a[2]]]
    <3>1. Value[a[2]] \in Nat BY <2>1, NumberAssumption DEF IsNumber
    <3>2. /\ SpeedJob(a).speed = Value[a[2]] /\ SpeedJob(a).dirs = {}
      BY <2>1 DEF Job, NoJob
    <3> QED BY <3>1, <3>2 DEF JobTyped
  <2>2. CASE SpeedJob(a) \in {Reply, WrongNumber, OutOfRange}
    BY <1>3, <2>2
  <2>3. \/ SpeedJob(a) \in {Reply, WrongNumber, OutOfRange}
        \/ /\ a[1] = "slew" /\ IsNumber(a[2]) /\ Value[a[2]] > 0
           /\ SpeedJob(a) = [Job("speed") EXCEPT !.speed = Value[a[2]]]
    BY DEF SpeedJob, SpeedNames
  <2> QED BY <2>1, <2>2, <2>3
<1>7. JobTyped(NudgeJob(a))
  <2>1. CASE /\ \A i \in DOMAIN a : a[i] \in DOMAIN NudgeBit
             /\ NudgeJob(a) = [Job("nudge") EXCEPT
                                 !.dirs = {NudgeBit[a[i]] : i \in DOMAIN a}]
    <3>1. \A w \in DOMAIN NudgeBit : NudgeBit[w] \in Nudges
      BY DEF NudgeBit, Nudges, RaNudges, DecNudges
    <3>2. {NudgeBit[a[i]] : i \in DOMAIN a} \subseteq Nudges BY <2>1, <3>1
    <3>3. /\ NudgeJob(a).speed = 0
          /\ NudgeJob(a).dirs = {NudgeBit[a[i]] : i \in DOMAIN a}
      BY <2>1 DEF Job, NoJob
    <3> QED BY <3>2, <3>3 DEF JobTyped
  <2>2. CASE NudgeJob(a) \in {Job("nudge"), WrongNumber, OutOfRange}
    BY <1>1, <1>3, <2>2
  <2>3. \/ NudgeJob(a) \in {Job("nudge"), WrongNumber, OutOfRange}
        \/ /\ \A i \in DOMAIN a : a[i] \in DOMAIN NudgeBit
           /\ NudgeJob(a) = [Job("nudge") EXCEPT
                               !.dirs = {NudgeBit[a[i]] : i \in DOMAIN a}]
    BY DEF NudgeJob
  <2> QED BY <2>1, <2>2, <2>3
<1> HIDE DEF a
<1> QED BY <1>1, <1>3, <1>4, <1>5, <1>6, <1>7 DEF JobOf, a

LEMMA WorkIsTyped ==
  /\ JobTyped(NoWork.job)
  /\ \A line : /\ JobTyped(Work(JobOf(line)).job)
               /\ \A p : JobTyped([NoWork EXCEPT !.pc = p,
                                                 !.job = JobOf(line)].job)
<1>1. JobTyped(NoWork.job) BY DEF NoWork, NoJob, JobTyped
<1>2. \A job : Work(job).job = job BY DEF Work, NoWork
<1>3. \A job, p : [NoWork EXCEPT !.pc = p, !.job = job].job = job
  BY DEF NoWork
<1> QED BY <1>1, <1>2, <1>3, JobIsTyped

-----------------------------------------------------------------------------
(* Steps of the callers' threads.                                          *)

LEMMA SpeedsKept ==
  ASSUME Speeds, NEW t \in Threads, JobTyped(th[t].job),
         ThreadStep(t) \/ Ask(t) \/ Answer(t)
  PROVE  Speeds'
<1>1. CASE \/ GoTo(t) \/ StopSync(t) \/ SlewRa(t) \/ SlewDec(t) \/ WaitRa(t)
           \/ WaitDec(t) \/ Leg(t) \/ StartTracking(t) \/ TrackRa(t)
           \/ TrackDec(t) \/ StopTracking(t) \/ StopTrackingLocked(t)
           \/ Untrack(t) \/ StopAsyncStatus(t)
  <2>1. UNCHANGED <<nudgeSpeed, slewSpeed>>
    BY <1>1
       DEF GoTo, StopSync, SlewRa, SlewDec, WaitRa, WaitDec, Leg,
           StartTracking, TrackRa, TrackDec, StopTracking, StopTrackingLocked,
           Untrack, StopAsyncStatus, axisVars, nudgeVars
  <2> QED BY <2>1 DEF Speeds
<1>2. CASE \/ Flush(t) \/ Flag(t) \/ EmergencyStopStatus(t) \/ Guide(t)
           \/ Nudge(t) \/ StopNudge(t) \/ Leave(t) \/ NudgeDec(t)
           \/ SeeStatus(t) \/ NudgeStatus(t) \/ Ask(t) \/ Answer(t)
  <2>1. UNCHANGED <<nudgeSpeed, slewSpeed>>
    BY <1>2
       DEF Flush, Flag, EmergencyStopStatus, Guide, Nudge, StopNudge,
           Leave, NudgeDec, SeeStatus, NudgeStatus, Ask, Answer, axisVars,
           nudgeVars
  <2> QED BY <2>1 DEF Speeds
<1>3. ASSUME NEW x \in Axes, Look(t, x) \/ Keep(t, x)
      PROVE  Speeds'
  <2>1. UNCHANGED <<nudgeSpeed, slewSpeed>>
    BY <1>3 DEF Look, Keep, nudgeVars
  <2> QED BY <2>1 DEF Speeds
<1>4. CASE SetSlewSpeed(t)
  BY <1>4 DEF SetSlewSpeed, JobTyped, Speeds, nudgeVars
<1>5. CASE SetSlewSpeedDec(t)
  BY <1>5 DEF SetSlewSpeedDec, JobTyped, Speeds
<1>6. CASE ResumeTracking(t)
  BY <1>6 DEF ResumeTracking, Speeds, nudgeVars
<1>7. CASE StartNudge(t)
  BY <1>7 DEF StartNudge, Speeds, axisVars, Axes
<1>8. CASE NudgeRa(t)
  <2>1. \A d : RaSpeed(d) \in Nat
    BY SpeedAssumption DEF Speeds, RaSpeed
  <2>2. slewSpeed.ra \in Nat BY DEF Speeds, Axes
  <2>3. /\ UNCHANGED nudgeSpeed
        /\ \/ UNCHANGED slewSpeed
           \/ \E v \in Nat : slewSpeed' = [slewSpeed EXCEPT !.ra = v]
    BY <1>8, <2>1, <2>2 DEF NudgeRa, RaPost, axisVars, nudgeVars
  <2> QED BY <2>3 DEF Speeds
<1> QED
  BY <1>1, <1>2, <1>3, <1>4, <1>5, <1>6, <1>7, <1>8 DEF ThreadStep

LEMMA StatusKept ==
  ASSUME status \in Statuses, curr_nudge_dir \subseteq Nudges,
         NEW t \in Threads, JobTyped(th[t].job),
         ThreadStep(t) \/ Ask(t) \/ Answer(t)
  PROVE  status' \in Statuses /\ curr_nudge_dir' \subseteq Nudges
<1>1. CASE \/ GoTo(t) \/ StopSync(t) \/ SlewRa(t) \/ SlewDec(t) \/ WaitRa(t)
           \/ WaitDec(t) \/ Leg(t) \/ StartTracking(t) \/ TrackRa(t)
           \/ TrackDec(t) \/ StopTracking(t) \/ StopTrackingLocked(t)
           \/ Untrack(t) \/ StopAsyncStatus(t)
  <2>1. UNCHANGED curr_nudge_dir
    BY <1>1
       DEF GoTo, StopSync, SlewRa, SlewDec, WaitRa, WaitDec, Leg,
           StartTracking, TrackRa, TrackDec, StopTracking, StopTrackingLocked,
           Untrack, StopAsyncStatus, nudgeVars
  <2>2. status' \in {status, {}, {"SLEWING"}, {"TRACKING"}, {"NUDGING"}}
    BY <1>1
       DEF GoTo, StopSync, SlewRa, SlewDec, WaitRa, WaitDec, Leg,
           StartTracking, TrackRa, TrackDec, StopTracking, StopTrackingLocked,
           Untrack, StopAsyncStatus
  <2> QED BY <2>1, <2>2 DEF Statuses
<1>2. CASE \/ Flush(t) \/ Flag(t) \/ EmergencyStopStatus(t) \/ Guide(t)
           \/ Nudge(t) \/ StopNudge(t) \/ Leave(t) \/ NudgeDec(t) \/ NudgeRa(t)
           \/ SeeStatus(t) \/ SetSlewSpeed(t) \/ SetSlewSpeedDec(t) \/ ResumeTracking(t)
           \/ Ask(t) \/ Answer(t)
  <2>1. /\ curr_nudge_dir' \in {curr_nudge_dir, {}}
        /\ status' \in {status, {}}
    BY <1>2
       DEF Flush, Flag, EmergencyStopStatus, Guide, Nudge, StopNudge,
           Leave, NudgeDec, NudgeRa, SeeStatus, SetSlewSpeed,
           SetSlewSpeedDec, ResumeTracking, Ask, Answer, axisVars, nudgeVars
  <2> QED BY <2>1 DEF Statuses
<1>3. CASE StartNudge(t)
  BY <1>3 DEF StartNudge, JobTyped
<1>4. CASE NudgeStatus(t)
  <2>1. UNCHANGED curr_nudge_dir BY <1>4 DEF NudgeStatus, nudgeVars
  <2>3. status' \in {{"NUDGING"}, {"TRACKING", "NUDGING"}}
    BY <1>4 DEF NudgeStatus
  <2> QED BY <2>1, <2>3 DEF Statuses
<1>5. ASSUME NEW x \in Axes, Look(t, x) \/ Keep(t, x)
      PROVE  status' \in Statuses /\ curr_nudge_dir' \subseteq Nudges
  BY <1>5 DEF Look, Keep, nudgeVars
<1> QED BY <1>1, <1>2, <1>3, <1>4, <1>5 DEF ThreadStep

-----------------------------------------------------------------------------
(* Places in the event queues.                                             *)

PlacesFit == \A s \in Servers : Places(s) <= EvqSize

LEMMA PlaceIs ==
  ASSUME IInv, NEW s \in Servers
  PROVE  /\ Places(s) = Len(evq[s]) + Busy(Worker(s))
         /\ Len(evq[s]) \in Nat /\ Busy(Worker(s)) \in {0, 1}
<1>1. evq[s] \in Seq(JobSet) BY DEF IInv, Called
<1> QED BY <1>1 DEF Places, Busy

\* An operation goes on until it is answered.
LEMMA StaysBusy ==
  ASSUME GotoInv, IInv', NEW t \in Threads, ThreadStep(t) \/ Ask(t),
         UNCHANGED callVars, NEW s \in Servers
  PROVE  Busy(Worker(s))' = Busy(Worker(s))
<1>0. IInv BY DEF GotoInv
<1>1. \A u \in Threads \ {t} : th'[u] = th[u] BY OthersStay
<1>2. /\ Worker(s) \in Threads /\ Reader(s) \in Threads
      /\ Worker(s) # Reader(s)
  BY ServerThreads
<1>3. CASE t # Worker(s) BY <1>1, <1>2, <1>3 DEF Busy
<1>4. CASE t = Worker(s)
  <2>1. Busy(Reader(s))' = Busy(Reader(s)) BY <1>1, <1>2, <1>4 DEF Busy
  <2>2. /\ accepted[s] = answered[s] + Len(evq[s]) + Busy(Reader(s))
                           + Busy(Worker(s))
        /\ accepted[s] = answered[s] + Len(evq[s]) + Busy(Reader(s))'
                           + Busy(Worker(s))'
    BY <1>0 DEF IInv, Accounted, callVars
  <2>3. /\ answered[s] \in Nat /\ Len(evq[s]) \in Nat
        /\ Busy(Reader(s)) \in {0, 1} /\ Busy(Worker(s)) \in {0, 1}
        /\ Busy(Worker(s))' \in {0, 1}
    BY <1>0, PlaceIs DEF IInv, Called, Busy
  <2> QED BY <2>1, <2>2, <2>3
<1> QED BY <1>3, <1>4

LEMMA ThreadPlaces ==
  ASSUME GotoInv, IInv', PlacesFit, NEW t \in Threads,
         \/ ThreadStep(t) /\ UNCHANGED callVars
         \/ Ask(t) \/ Answer(t)
  PROVE  PlacesFit'
<1>0. IInv BY DEF GotoInv
<1>1. CASE (ThreadStep(t) /\ UNCHANGED callVars) \/ Ask(t)
  <2>1. UNCHANGED callVars BY <1>1 DEF Ask, serverVars
  <2> SUFFICES ASSUME NEW s \in Servers PROVE Places(s)' <= EvqSize
    BY DEF PlacesFit
  <2>2. Busy(Worker(s))' = Busy(Worker(s)) BY <1>1, <2>1, StaysBusy
  <2>3. Places(s)' = Places(s) BY <2>1, <2>2 DEF Places, Busy, callVars
  <2> QED BY <2>3 DEF PlacesFit
<1>2. CASE Answer(t)
  <2> SUFFICES ASSUME NEW s \in Servers PROVE Places(s)' <= EvqSize
    BY DEF PlacesFit
  <2>1. /\ UNCHANGED evq
        /\ \A u \in Threads : th'[u] = th[u] \/ th'[u].pc = "idle"
    BY <1>0, <1>2, IdleWork DEF Answer, IInv, Shape
  <2>2. Worker(s) \in Threads BY ServerThreads
  <2>3. Places(s)' \in {Places(s), Len(evq[s])}
    <3>1. Len(evq[s]) \in Nat BY <1>0, PlaceIs
    <3>2. Len(evq[s]) + 0 = Len(evq[s]) BY <3>1
    <3> QED BY <2>1, <2>2, <3>2 DEF Places
  <2>4. Len(evq[s]) <= Places(s) /\ Places(s) <= EvqSize
    BY <1>0, PlaceIs DEF PlacesFit
  <2>5. Places(s) \in Nat /\ Len(evq[s]) \in Nat BY <1>0, PlaceIs
  <2> QED BY <2>3, <2>4, <2>5, ServerAssumption
<1> QED BY <1>1, <1>2

LEMMA ServerPlaces ==
  ASSUME IInv, PlacesFit, NEW r \in Servers, Read(r) \/ Call(r) \/ Dispatch(r)
  PROVE  PlacesFit'
<1> SUFFICES ASSUME NEW s \in Servers PROVE Places(s)' <= EvqSize
  BY DEF PlacesFit
<1>0. /\ Shape /\ evq \in [Servers -> Seq(JobSet)] /\ Places(s) <= EvqSize
      /\ \A u \in Servers : th[Reader(u)].pc = "call" =>
           th[Reader(u)].job \in JobSet
  BY ServerThreads DEF IInv, Called, PlacesFit
<1>1. /\ \A u \in Servers : Worker(u) \in Threads /\ Reader(u) \in Threads
      /\ Worker(s) # Reader(r)
      /\ s # r => Worker(s) # Worker(r)
  BY ServerThreads
<1>2. CASE Read(r)
  <2>1. UNCHANGED evq /\ th'[Worker(s)] = th[Worker(s)]
    BY <1>0, <1>1, <1>2 DEF Read, Shape
  <2> QED BY <1>0, <2>1 DEF Places
<1>3. CASE Call(r)
  <2>1. th'[Worker(s)] = th[Worker(s)]
    BY <1>0, <1>1, <1>3 DEF Call, Shape
  <2>2. CASE s # r
    <3>1. evq'[s] = evq[s] BY <1>0, <1>3, <2>2 DEF Call
    <3> QED BY <1>0, <2>1, <3>1 DEF Places
  <2>3. CASE s = r
    <3>1. /\ evq'[s] = Append(evq[s], th[Reader(s)].job)
          /\ th[Reader(s)].job \in JobSet /\ Places(s) < EvqSize
      BY <1>0, <1>3, <2>3 DEF Call, At
    <3>2. evq[s] \in Seq(JobSet) BY <1>0
    <3>3. Len(evq'[s]) = Len(evq[s]) + 1 /\ Len(evq[s]) \in Nat
      BY <3>1, <3>2
    <3>4. Places(s)' = Len(evq'[s]) + Busy(Worker(s))
      BY <2>1 DEF Places, Busy
    <3>5. /\ Places(s) = Len(evq[s]) + Busy(Worker(s))
          /\ Busy(Worker(s)) \in {0, 1}
      BY PlaceIs
    <3> QED BY <3>1, <3>3, <3>4, <3>5, ServerAssumption
  <2> QED BY <2>2, <2>3
<1>4. CASE Dispatch(r)
  <2>1. CASE s # r
    <3>1. evq'[s] = evq[s] /\ th'[Worker(s)] = th[Worker(s)]
      BY <1>0, <1>1, <1>4, <2>1 DEF Dispatch, Shape
    <3> QED BY <1>0, <3>1 DEF Places
  <2>2. CASE s = r
    <3>1. /\ evq'[s] = Tail(evq[s]) /\ evq[s] # <<>>
          /\ th[Worker(s)].pc = "idle"
      BY <1>0, <1>4, <2>2 DEF Dispatch, At
    <3>2. evq[s] \in Seq(JobSet) BY <1>0
    <3>3. Len(evq'[s]) = Len(evq[s]) - 1 /\ Len(evq[s]) \in Nat
      BY <3>1, <3>2
    <3>4. Places(s) = Len(evq[s]) BY <3>1, <3>3 DEF Places
    <3>5. Places(s)' = Len(evq'[s]) + Busy(Worker(s))'
          /\ Busy(Worker(s))' \in {0, 1}
      BY DEF Places, Busy
    <3> QED BY <1>0, <3>3, <3>4, <3>5, ServerAssumption
  <2> QED BY <2>1, <2>2
<1> QED BY <1>2, <1>3, <1>4

-----------------------------------------------------------------------------
LEMMA ValueInit == Init => ValueInv
<1> SUFFICES ASSUME Init PROVE ValueInv
  OBVIOUS
<1>1. GotoInv BY GotoInit
<1>2. status \in Statuses /\ curr_nudge_dir \subseteq Nudges /\ Speeds
  BY SpeedAssumption DEF Init, MountInit, Statuses, Speeds
<1>3. \A t \in Threads : th[t] = NoWork BY DEF Init, MountInit
<1>4. \A t \in Threads : JobTyped(th[t].job) BY <1>3, WorkIsTyped
<1>5. \A s \in Servers : Places(s) <= EvqSize
  <2> SUFFICES ASSUME NEW s \in Servers PROVE Places(s) <= EvqSize
    OBVIOUS
  <2>1. th[Worker(s)].pc = "idle" BY <1>3, ServerThreads, IdleWork
  <2>2. evq[s] = <<>> BY DEF Init
  <2>3. Places(s) = 0 BY <2>1, <2>2 DEF Places
  <2> QED BY <2>3, ServerAssumption
<1> QED BY <1>1, <1>2, <1>4, <1>5 DEF ValueInv

LEMMA ThreadValues ==
  ASSUME ValueInv, GotoInv', NEW t \in Threads,
         \/ ThreadStep(t) /\ UNCHANGED callVars
         \/ Ask(t) \/ Answer(t)
  PROVE  ValueInv'
<1>1. /\ GotoInv /\ JobTyped(th[t].job) /\ PlacesFit /\ IInv'
  BY DEF ValueInv, PlacesFit, GotoInv
<1>2. Speeds' BY <1>1, SpeedsKept DEF ValueInv
<1>3. status' \in Statuses /\ curr_nudge_dir' \subseteq Nudges
  BY <1>1, StatusKept DEF ValueInv
<1>4. PlacesFit' BY <1>1, ThreadPlaces
<1>5. \A u \in Threads \ {t} : th'[u] = th[u] BY <1>1, OthersStay
<1>6. JobTyped(th'[t].job)
  <2>1. CASE ThreadStep(t) \/ Ask(t)
    <3>1. th'[t].job = th[t].job BY <1>1, <2>1, KeepsWork
    <3> QED BY <1>1, <3>1
  <2>2. CASE Answer(t)
    <3>1. th'[t] = NoWork BY <1>1, <2>2 DEF Answer, GotoInv, IInv, Shape
    <3> QED BY <3>1, WorkIsTyped
  <2> QED BY <2>1, <2>2
<1>7. \A u \in Threads : JobTyped(th'[u].job)
  BY <1>5, <1>6 DEF ValueInv
<1> QED BY <1>2, <1>3, <1>4, <1>7 DEF ValueInv, PlacesFit

LEMMA ServerValues ==
  ASSUME ValueInv, GotoInv', NEW s \in Servers,
         Read(s) \/ Call(s) \/ Dispatch(s)
  PROVE  ValueInv'
<1>1. /\ GotoInv /\ IInv /\ Shape /\ Called /\ PlacesFit
  BY DEF ValueInv, PlacesFit, GotoInv, IInv
<1>2. UNCHANGED <<status, curr_nudge_dir, nudgeSpeed, slewSpeed>>
  BY DEF Read, Call, Dispatch
<1>3. PlacesFit' BY <1>1, ServerPlaces
<1>4. \A t \in Threads : JobTyped(th'[t].job)
  <2>0. Reader(s) \in Threads /\ Worker(s) \in Threads BY ServerThreads
  <2>1. CASE Read(s)
    <3>1. PICK line \in Lines[s] :
            \/ UNCHANGED th
            \/ th' = [th EXCEPT ![Reader(s)] = Work(JobOf(line))]
            \/ th' = [th EXCEPT ![Reader(s)] =
                        [NoWork EXCEPT !.pc = "call", !.job = JobOf(line)]]
      BY <2>1 DEF Read
    <3>2. /\ JobTyped(Work(JobOf(line)).job)
          /\ JobTyped([NoWork EXCEPT !.pc = "call", !.job = JobOf(line)].job)
      BY WorkIsTyped
    <3> DEFINE w == [NoWork EXCEPT !.pc = "call", !.job = JobOf(line)]
               v == Work(JobOf(line))
    <3>3. \/ UNCHANGED th
          \/ th' = [th EXCEPT ![Reader(s)] = v]
          \/ th' = [th EXCEPT ![Reader(s)] = w]
      BY <3>1
    <3>4. JobTyped(v.job) /\ JobTyped(w.job) BY <3>2
    <3> HIDE DEF w, v
    <3> QED BY <1>1, <2>0, <3>3, <3>4 DEF ValueInv, Shape
  <2>2. CASE Call(s)
    <3>1. th' = [th EXCEPT ![Reader(s)] = NoWork] BY <2>2 DEF Call
    <3> QED BY <1>1, <2>0, <3>1, WorkIsTyped DEF ValueInv, Shape
  <2>3. CASE Dispatch(s)
    <3>1. evq[s] \in Seq(JobSet) /\ evq[s] # <<>>
      BY <1>1, <2>3 DEF Called, Dispatch
    <3>2. Head(evq[s]) \in JobSet BY <3>1
    <3>3. JobTyped(Work(Head(evq[s])).job)
      BY <3>2, WorkIsTyped DEF JobSet
    <3>4. th' = [th EXCEPT ![Worker(s)] = Work(Head(evq[s]))]
      BY <2>3 DEF Dispatch
    <3> QED BY <1>1, <2>0, <3>3, <3>4 DEF ValueInv, Shape
  <2> QED BY <2>1, <2>2, <2>3
<1> QED BY <1>2, <1>3, <1>4 DEF ValueInv, Speeds, PlacesFit

LEMMA ValueNext == ValueInv /\ [Next]_vars => ValueInv'
<1> SUFFICES ASSUME ValueInv, [Next]_vars PROVE ValueInv'
  OBVIOUS
<1>1. GotoInv' BY GotoNext DEF ValueInv
<1>2. CASE UNCHANGED vars
  <2>1. /\ UNCHANGED <<status, curr_nudge_dir, nudgeSpeed, slewSpeed, th>>
        /\ UNCHANGED evq
    BY <1>2 DEF vars, mountVars, serverVars, callVars
  <2> QED BY <1>1, <2>1 DEF ValueInv, Speeds, Places
<1>3. ASSUME NEW x \in Axes, AxisStep(x), UNCHANGED callVars
      PROVE  ValueInv'
  <2>1. /\ UNCHANGED <<status, curr_nudge_dir, nudgeSpeed, slewSpeed, th>>
        /\ UNCHANGED evq
    BY <1>3 DEF AxisStep, nudgeVars, callVars
  <2> QED BY <1>1, <2>1 DEF ValueInv, Speeds, Places
<1>4. ASSUME NEW t \in Threads,
             \/ ThreadStep(t) /\ UNCHANGED callVars
             \/ Ask(t) \/ Answer(t)
      PROVE  ValueInv'
  BY <1>1, <1>4, ThreadValues
<1>5. ASSUME NEW s \in Servers, Read(s) \/ Call(s) \/ Dispatch(s)
      PROVE  ValueInv'
  BY <1>1, <1>5, ServerValues
<1> QED BY <1>2, <1>3, <1>4, <1>5 DEF Next, Mount

LEMMA AlwaysValueInv == Spec => []ValueInv
  BY ValueInit, ValueNext, PTL DEF Spec

\* The types of the mount and of the servers, the room in their queues included.
\* With the two servers of telescope_hardware.cpp, four threads, an axis has at
\* most eleven commands in its queue, and a task_pool holds sixteen
\* (Axis.h:366); an EventQueue holds what has a place in it.
THEOREM MountIsTyped ==
  ASSUME IsFiniteSet(Servers), Cardinality(Servers) <= 2
  PROVE  Spec => []MountTypeOK
<1>1. ValueInv /\ QueueInv /\ QueuesFit => MountTypeOK
  <2> SUFFICES ASSUME ValueInv, QueueInv, QueuesFit PROVE MountTypeOK
    OBVIOUS
  <2>1. IInv /\ GotoInv /\ Standing BY DEF QueueInv, GotoInv
  <2>2. ASSUME NEW x \in Axes
        PROVE  /\ ax[x].flags \subseteq Stops \cup {"STOP_KEEPSPEED"}
               /\ ax[x].status \in
                    {"STOPPED", "SLEWING", "TRACKING", "INERTIAL"}
               /\ ax[x].sem \in {0, 1} /\ Len(ax[x].queue) <= 16
    <3>1. Stands(ax[x]) BY <2>1 DEF Standing
    <3>2. Len(ax[x].queue) <= 16
      <4> DEFINE N == Cardinality(Threads)
                 n == Len(ax[x].queue)
      <4>1. 2 * n <= N * (N + 1) + 2 BY DEF QueuesFit
      <4>2. N \in 0..4
        BY ThreadCount
      <4>3. n \in Nat BY <2>1, QueueLen DEF GotoInv
      <4> HIDE DEF N, n
      <4>4. N * (N + 1) <= 20
        <5>1. N \in {0, 1, 2, 3, 4} BY <4>2
        <5> QED BY <5>1
      <4>5. N * (N + 1) \in Nat BY <4>2
      <4>6. n <= 16 BY <4>1, <4>3, <4>4, <4>5
      <4> QED BY <4>6 DEF n
    <3> QED BY <3>1, <3>2 DEF Stands, AllFlags
  <2>3. /\ status \subseteq Bits
        /\ status \in {{}, {"SLEWING"}, {"TRACKING"}, {"NUDGING"},
                       {"TRACKING", "NUDGING"}}
    BY DEF ValueInv, Statuses, Bits
  <2>4. mutex.owner \in Threads \cup {NoThread} /\ mutex.count \in Nat
    BY <2>1 DEF IInv, MutexOK
  <2>5. ASSUME NEW s \in Servers PROVE Len(evq[s]) <= EvqSize
    <3>1. Places(s) <= EvqSize BY DEF ValueInv
    <3> QED BY <2>1, <3>1, PlaceIs, ServerAssumption
  <2> QED
    BY <2>2, <2>3, <2>4, <2>5 DEF MountTypeOK, ValueInv, Speeds, Nudges
<1> QED
  BY <1>1, AlwaysValueInv, AlwaysQueueInv, QueuesAreBounded, PTL
=============================================================================
