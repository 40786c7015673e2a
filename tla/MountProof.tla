----------------------------- MODULE MountProof ----------------------------
(***************************************************************************)
(* Theorems about the mount and its servers, for any number of servers,    *)
(* any lines and any size of the event queues.                             *)
(*                                                                         *)
(* That the mutex is given back on every path is about one thread at a     *)
(* time: how deep it is inside at a point depends on where it will return  *)
(* to, and not every return is possible at every point (PathAt).           *)
(* MutexDiscipline then tells whose turn it is in every later argument.    *)
(***************************************************************************)
EXTENDS EqMountServer, FiniteSetTheorems, TLAPS

Fields == {"pc", "job", "leg", "was", "ret", "next", "dir", "axis", "empty"}

Ops == {"ask", "stop", "stop_track", "estop", "speed", "goto", "gotoMount",
        "nudge", "track", "guide"} \cup AlignOps

JobSet == {JobOf(line) : line \in UNION {Lines[s] : s \in Servers}}

-----------------------------------------------------------------------------
(* The strengthening.                                                      *)

Shape ==
  /\ DOMAIN th = Threads
  /\ \A t \in Threads : DOMAIN th[t] = Fields /\ th[t].axis \in Axes

TrackPoints == {"track", "track_lock", "track_dec"}

\* Where an operation may go on after the point it is at.  A thread whose job
\* is to track is inside nothing else, so that it may give up at once.
PathAt(p, n, op) ==
  /\ p \in {"sync", "sync_stop"} => n \in {"slew", "leave"}
  /\ p \in TrackPoints => n \in {"done", "leg", "leave"}
  /\ p \in {"stop", "stop_status"} => n \in {"done", "resume", "leave"}
  /\ op = "track" => /\ p \in TrackPoints \cup {"done", "call"}
                     /\ n = "done"

Paths == \A t \in Threads : PathAt(th[t].pc, th[t].next, th[t].job.op)

Inside == {"sync", "sync_stop", "slew", "slew_dec", "wait_ra", "wait_dec",
           "look_ra", "keep_ra", "act_ra", "look_dec", "keep_dec", "act_dec",
           "start_dec", "see_ra", "start_ra", "see_status", "nudge_status",
           "resume", "leave", "untrack"}

Nested(n) == IF n \in {"resume", "leave"} THEN 1 ELSE 0

DepthAt(p, n) ==
  IF p \in Inside THEN 1
  ELSE IF p \in {"stop", "stop_status", "track", "track_lock"} THEN Nested(n)
  ELSE IF p = "track_dec" THEN Nested(n) + 1 ELSE 0

MutexOK ==
  /\ DOMAIN mutex = {"owner", "count"}
  /\ mutex.owner \in Threads \cup {NoThread} /\ mutex.count \in Nat
  /\ mutex.owner = NoThread <=> mutex.count = 0

Held ==
  \A t \in Threads :
    DepthAt(th[t].pc, th[t].next) = IF mutex.owner = t THEN mutex.count ELSE 0

\* What is called is what a line can ask for.
Called ==
  /\ evq \in [Servers -> Seq(JobSet)]
  /\ \A t \in Threads : th[t].pc = "call" => th[t].job \in JobSet
  /\ accepted \in [Servers -> Nat] /\ answered \in [Servers -> Nat]

Busy(t) == IF th[t].pc = "idle" THEN 0 ELSE 1

Accounted ==
  \A s \in Servers :
    accepted[s] = answered[s] + Len(evq[s]) + Busy(Reader(s)) + Busy(Worker(s))

IInv == Shape /\ Paths /\ MutexOK /\ Held /\ Called /\ Accounted

-----------------------------------------------------------------------------
(* Jobs.                                                                   *)

LEMMA JobOps == ASSUME NEW line PROVE JobOf(line).op \in Ops
<1> DEFINE a == line.args
<1>1. \A op \in Ops : Job(op).op = op
  BY DEF Job, NoJob
<1>2. \A c : Answered(c).op = "ask"
  BY DEF Answered, Reply, Job, NoJob
<1>3. /\ Reply.op \in Ops /\ WrongNumber.op \in Ops /\ OutOfRange.op \in Ops
  BY <1>1, <1>2 DEF Reply, WrongNumber, OutOfRange, Ops
<1>4. StopJob(a).op \in Ops BY <1>1, <1>3 DEF StopJob, Ops
<1>5. GotoJob(a).op \in Ops BY <1>1, <1>3 DEF GotoJob, Ops
<1>6. SpeedJob(a).op \in Ops
  <2>1. \A v : [Job("speed") EXCEPT !.speed = v].op = "speed"
    BY DEF Job, NoJob
  <2> QED BY <1>3, <2>1 DEF SpeedJob, Ops
<1>7. NudgeJob(a).op \in Ops
  <2>1. \A v : [Job("nudge") EXCEPT !.dirs = v].op = "nudge"
    BY DEF Job, NoJob
  <2> QED BY <1>1, <1>3, <2>1 DEF NudgeJob, Ops
<1>8. TrackJob(a).op \in Ops BY <1>1, <1>3 DEF TrackJob, Ops
<1>9. GuideJob(a).op \in Ops BY <1>1, <1>3 DEF GuideJob, Ops
<1>10. /\ ReadJob(a).op \in Ops /\ StateJob(a).op \in Ops
       /\ TimeJob(a).op \in Ops /\ SettimeJob(a).op \in Ops
  BY <1>3 DEF ReadJob, StateJob, TimeJob, SettimeJob
<1>11. AlignJob(a).op \in Ops BY <1>1, <1>3 DEF AlignJob, Ops, AlignOps
<1>12. Job("estop").op \in Ops BY <1>1 DEF Ops
<1> HIDE DEF a
<1> QED
  BY <1>3, <1>4, <1>5, <1>6, <1>7, <1>8, <1>9, <1>10, <1>11, <1>12
     DEF JobOf, a

\* A job begins outside of everything.
LEMMA WorkBegins ==
  ASSUME NEW job \in JobSet
  PROVE  /\ DOMAIN Work(job) = Fields
         /\ Work(job).pc \notin {"idle", "call"}
         /\ Work(job).axis \in Axes
         /\ PathAt(Work(job).pc, Work(job).next, Work(job).job.op)
         /\ DepthAt(Work(job).pc, Work(job).next) = 0
<1>1. job.op \in Ops BY JobOps DEF JobSet
<1>2. /\ DOMAIN Work(job) = Fields
      /\ Work(job).next = "done" /\ Work(job).job = job
      /\ Work(job).axis \in Axes
      /\ Work(job).pc = IF job.op = "gotoMount" THEN "goto" ELSE job.op
  BY DEF Work, NoWork, Fields, Axes
<1> QED
  BY <1>1, <1>2 DEF Ops, AlignOps, PathAt, DepthAt, TrackPoints, Inside, Nested

-----------------------------------------------------------------------------
(* What a step of a thread does.                                           *)

\* Thread t goes to point p, from where it will return to n.
Moved(t, p, n) ==
  /\ DOMAIN th' = Threads /\ DOMAIN th'[t] = Fields
  /\ th'[t].pc = p /\ th'[t].next = n /\ th'[t].job = th[t].job
  /\ th'[t].axis \in Axes
  /\ \A u \in Threads \ {t} : th'[u] = th[u]

LEMMA GotoMoves ==
  ASSUME Shape, NEW t \in Threads, NEW p, Goto(t, p)
  PROVE  Moved(t, p, th[t].next)
  BY DEF Shape, Goto, Moved, Fields

LEMMA DoneMoves ==
  ASSUME Shape, NEW t \in Threads, NEW r, Done(t, r)
  PROVE  Moved(t, "done", th[t].next)
  BY DEF Shape, Done, Moved, Fields

\* A thread that is inside holds the mutex, as often as it is deep.
LEMMA Owner ==
  ASSUME IInv, NEW t \in Threads, DepthAt(th[t].pc, th[t].next) # 0
  PROVE  /\ mutex.owner = t
         /\ mutex.count = DepthAt(th[t].pc, th[t].next)
  BY DEF IInv, Held

\* The mutex is left alone, taken or given back, as the two points say.
MutexMoves(t, p, n) ==
  \/ /\ UNCHANGED mutex
     /\ DepthAt(p, n) = DepthAt(th[t].pc, th[t].next)
  \/ /\ Free(t) /\ Lock(t)
     /\ DepthAt(p, n) = DepthAt(th[t].pc, th[t].next) + 1
  \/ /\ DepthAt(th[t].pc, th[t].next) # 0 /\ Unlock
     /\ DepthAt(p, n) = DepthAt(th[t].pc, th[t].next) - 1

LEMMA MutexKept ==
  ASSUME IInv, NEW t \in Threads, NEW p, NEW n, MutexMoves(t, p, n),
         Moved(t, p, n)
  PROVE  MutexOK' /\ Held'
<1> DEFINE D(u) == DepthAt(th[u].pc, th[u].next)
<1>1. /\ MutexOK
      /\ \A u \in Threads : D(u) = IF mutex.owner = u THEN mutex.count ELSE 0
  BY DEF IInv, Held
<1>2. /\ D(t)' = DepthAt(p, n)
      /\ \A u \in Threads \ {t} : D(u)' = D(u)
  BY DEF Moved
<1>3. SUFFICES /\ MutexOK'
               /\ \A u \in Threads :
                    D(u)' = IF mutex'.owner = u THEN mutex'.count ELSE 0
  BY DEF Held
<1>4. NoThread \notin Threads BY ThreadAssumption
<1>5. D(t) = DepthAt(th[t].pc, th[t].next) OBVIOUS
<1> HIDE DEF D
<1>6. CASE UNCHANGED mutex /\ DepthAt(p, n) = D(t)
  BY <1>1, <1>2, <1>6 DEF MutexOK
<1>7. CASE Free(t) /\ Lock(t) /\ DepthAt(p, n) = D(t) + 1
  <2>1. mutex' = [owner |-> t, count |-> mutex.count + 1]
    BY <1>7 DEF Lock
  <2>2. MutexOK' BY <1>1, <1>4, <2>1 DEF MutexOK
  <2>3. D(t)' = mutex.count + 1
    BY <1>1, <1>2, <1>4, <1>7 DEF Free, MutexOK
  <2>4. \A u \in Threads \ {t} : D(u)' = 0
    BY <1>1, <1>2, <1>4, <1>7 DEF Free, MutexOK
  <2> QED BY <2>1, <2>2, <2>3, <2>4
<1>8. CASE D(t) # 0 /\ Unlock /\ DepthAt(p, n) = D(t) - 1
  <2>1. mutex.owner = t /\ D(t) = mutex.count
    BY <1>1, <1>8
  <2>2. \A u \in Threads \ {t} : D(u)' = 0
    BY <1>1, <1>2, <2>1
  <2>3. CASE mutex.count = 1
    <3>1. mutex' = [owner |-> NoThread, count |-> 0]
      BY <1>8, <2>3 DEF Unlock
    <3> QED BY <1>1, <1>2, <1>4, <1>8, <2>1, <2>2, <2>3, <3>1 DEF MutexOK
  <2>4. CASE mutex.count # 1
    <3>1. /\ DOMAIN mutex' = {"owner", "count"}
          /\ mutex'.owner = t /\ mutex'.count = mutex.count - 1
      BY <1>1, <1>8, <2>1, <2>4 DEF Unlock, MutexOK
    <3> QED BY <1>1, <1>2, <1>4, <1>8, <2>1, <2>2, <2>4, <3>1 DEF MutexOK
  <2> QED BY <2>3, <2>4
<1> QED BY <1>5, <1>6, <1>7, <1>8 DEF MutexMoves

\* Steps of a thread in an operation, which the servers do not see.
LEMMA InsideStep ==
  ASSUME IInv, NEW t \in Threads, NEW p, NEW n, MutexMoves(t, p, n),
         Moved(t, p, n), th[t].pc # "idle", p \notin {"idle", "call"},
         PathAt(p, n, th[t].job.op), UNCHANGED callVars
  PROVE  IInv'
<1>1. Shape' BY DEF IInv, Shape, Moved
<1>2. Paths' BY DEF IInv, Paths, Moved
<1>3. MutexOK' /\ Held' BY MutexKept
<1>4. Called'
  BY DEF IInv, Called, Moved, callVars
<1>5. \A u \in Threads : Busy(u)' = Busy(u)
  BY DEF Moved, Busy
<1>6. \A s \in Servers : Reader(s) \in Threads /\ Worker(s) \in Threads
  BY ServerAssumption DEF Reader, Worker
<1>7. Accounted'
  BY <1>5, <1>6 DEF IInv, Accounted, callVars
<1> QED BY <1>1, <1>2, <1>3, <1>4, <1>7 DEF IInv

-----------------------------------------------------------------------------
(* The actions of the mount.                                               *)

\* Points at which the thread holds nothing.
Outside == {"goto", "leg", "done", "stop_track", "stop_track_lock", "estop",
            "estop_status", "speed", "speed_dec", "guide", "nudge",
            "nudge_lock", "ask"} \cup AlignOps

\* From one point to another that is as deep inside.
LEMMA Along ==
  ASSUME IInv, NEW t \in Threads, NEW p, NEW q, th[t].pc = p,
         Moved(t, q, th[t].next), UNCHANGED mutex, UNCHANGED callVars,
         \/ /\ p \in Inside \ {"sync", "sync_stop"}
            /\ q \in Inside \ {"sync", "sync_stop"}
         \/ p \in Outside \ {"done"} /\ q \in Outside
  PROVE  IInv'
<1>1. /\ p \notin {"idle", "call"} /\ q \notin {"idle", "call"}
      /\ p \notin TrackPoints \cup {"done", "call"}
      /\ q \notin TrackPoints \cup {"sync", "sync_stop", "stop", "stop_status"}
      /\ \A n : DepthAt(p, n) = DepthAt(q, n)
  BY DEF Inside, Outside, AlignOps, TrackPoints, DepthAt
<1>2. PathAt(q, th[t].next, th[t].job.op)
  BY <1>1 DEF IInv, Paths, PathAt, TrackPoints
<1>3. MutexMoves(t, q, th[t].next) BY <1>1 DEF MutexMoves
<1> QED BY <1>1, <1>2, <1>3, InsideStep

\* The steps that stay as deep inside.
LEMMA GotoAlong ==
  ASSUME IInv, NEW t \in Threads, NEW p, NEW q, th[t].pc = p, Goto(t, q),
         UNCHANGED mutex, UNCHANGED callVars,
         \/ /\ p \in Inside \ {"sync", "sync_stop"}
            /\ q \in Inside \ {"sync", "sync_stop"}
         \/ p \in Outside \ {"done"} /\ q \in Outside
  PROVE  IInv'
<1>1. Moved(t, q, th[t].next) BY GotoMoves DEF IInv
<1> QED BY <1>1, Along

LEMMA DoneAlong ==
  ASSUME IInv, NEW t \in Threads, NEW r, th[t].pc \in Outside \ {"done"},
         Done(t, r), UNCHANGED mutex, UNCHANGED callVars
  PROVE  IInv'
<1>1. Moved(t, "done", th[t].next) BY DoneMoves DEF IInv
<1>2. "done" \in Outside BY DEF Outside
<1> QED BY <1>1, <1>2, Along

LEMMA PlainSteps ==
  ASSUME IInv, NEW t \in Threads, UNCHANGED callVars,
         \/ SlewRa(t) \/ SlewDec(t) \/ NudgeDec(t) \/ SeeStatus(t)
         \/ NudgeRa(t) \/ StopTracking(t) \/ EmergencyStopStatus(t)
         \/ SetSlewSpeed(t) \/ SetSlewSpeedDec(t) \/ Guide(t) \/ Nudge(t)
  PROVE  IInv'
<1>1. CASE SlewRa(t)
  BY <1>1, GotoAlong DEF SlewRa, At, Inside
<1>2. CASE SlewDec(t)
  BY <1>2, GotoAlong DEF SlewDec, At, Inside
<1>3. CASE NudgeDec(t)
  BY <1>3, GotoAlong DEF NudgeDec, At, Inside
<1>4. CASE NudgeRa(t)
  BY <1>4, GotoAlong DEF NudgeRa, At, Inside
<1>5. CASE StopTracking(t)
  BY <1>5, GotoAlong, DoneAlong DEF StopTracking, At, Outside
<1>6. CASE SeeStatus(t)
  <2>1. PICK p \in {"see_ra", "see_status"} : th[t].pc = p
    BY <1>6 DEF SeeStatus, At
  <2>2. PICK q \in {"start_ra", "nudge_status"} : Moved(t, q, th[t].next)
    BY <1>6 DEF SeeStatus, Moved, IInv, Shape, Fields
  <2>3. UNCHANGED mutex BY <1>6 DEF SeeStatus
  <2> QED BY <2>1, <2>2, <2>3, Along DEF Inside
<1>7. CASE EmergencyStopStatus(t)
  BY <1>7, DoneAlong DEF EmergencyStopStatus, At, Outside
<1>8. CASE SetSlewSpeed(t)
  BY <1>8, GotoAlong DEF SetSlewSpeed, At, Outside
<1>9. CASE SetSlewSpeedDec(t)
  BY <1>9, DoneAlong DEF SetSlewSpeedDec, At, Outside
<1>10. CASE Guide(t)
  BY <1>10, DoneAlong DEF Guide, At, Outside
<1>11. CASE Nudge(t)
  BY <1>11, GotoAlong, DoneAlong DEF Nudge, At, Outside
<1> QED
  BY <1>1, <1>2, <1>3, <1>4, <1>5, <1>6, <1>7, <1>8, <1>9, <1>10, <1>11

\* A thread that stays where it is.
LEMMA Stays ==
  ASSUME IInv, NEW t \in Threads, UNCHANGED <<mutex, callVars>>,
         th[t].pc \notin {"idle", "call"}, Moved(t, th[t].pc, th[t].next)
  PROVE  IInv'
<1>1. MutexMoves(t, th[t].pc, th[t].next) BY DEF MutexMoves
<1>2. PathAt(th[t].pc, th[t].next, th[t].job.op) BY DEF IInv, Paths
<1> QED BY <1>1, <1>2, InsideStep

LEMMA LookSteps ==
  ASSUME IInv, NEW t \in Threads, UNCHANGED callVars, NEW x \in Axes,
         Look(t, x) \/ Keep(t, x)
  PROVE  IInv'
<1>1. x = "ra" \/ x = "dec" BY DEF Axes
<1>2. CASE Look(t, x)
  <2>1. PICK p \in {"look_ra", "look_dec"} : th[t].pc = p
    BY <1>1, <1>2 DEF Look, At
  <2>2. UNCHANGED mutex BY <1>2 DEF Look
  <2>3. CASE Goto(t, IF x = "ra" THEN "look_dec" ELSE "start_dec")
    <3>1. PICK q \in {"look_dec", "start_dec"} : Goto(t, q)
      BY <2>3
    <3> QED BY <2>1, <2>2, <3>1, GotoAlong DEF Inside
  <2>4. CASE UNCHANGED th
    <3>1. Moved(t, th[t].pc, th[t].next)
      BY <2>4 DEF Moved, IInv, Shape
    <3> QED BY <2>1, <2>2, <3>1, Stays
  <2>5. ASSUME NEW q \in {"act_ra", "act_dec", "keep_ra", "keep_dec"},
               th' = [th EXCEPT ![t].axis = x, ![t].pc = q]
        PROVE  IInv'
    <3>1. Moved(t, q, th[t].next)
      BY <2>5 DEF Moved, IInv, Shape, Fields
    <3> QED BY <2>1, <2>2, <3>1, Along DEF Inside
  <2> QED BY <1>1, <1>2, <2>3, <2>4, <2>5 DEF Look
<1>3. CASE Keep(t, x)
  <2>1. PICK p \in {"keep_ra", "keep_dec"} : th[t].pc = p
    BY <1>1, <1>3 DEF Keep, At
  <2>2. PICK q \in {"look_dec", "start_dec"} :
          th' = [th EXCEPT ![t].axis = "ra", ![t].pc = q]
    BY <1>3 DEF Keep
  <2>3. Moved(t, q, th[t].next)
    BY <2>2 DEF Moved, IInv, Shape, Fields, Axes
  <2>4. UNCHANGED mutex BY <1>3 DEF Keep
  <2> QED BY <2>1, <2>3, <2>4, Along DEF Inside
<1> QED BY <1>2, <1>3

\* Goto.
LEMMA GotoSteps ==
  ASSUME IInv, NEW t \in Threads, UNCHANGED callVars,
         GoTo(t) \/ WaitRa(t) \/ WaitDec(t) \/ Leg(t)
  PROVE  IInv'
<1>1. CASE GoTo(t)
  <2>1. th[t].pc = "goto" /\ Free(t) BY <1>1 DEF GoTo, At
  <2>2. th[t].job.op # "track"
    BY <2>1 DEF IInv, Paths, PathAt, TrackPoints
  <2>3. CASE Lock(t) /\ th' = [th EXCEPT ![t].pc = "slew", ![t].was = FALSE]
    <3>1. Moved(t, "slew", th[t].next)
      BY <2>3 DEF Moved, IInv, Shape, Fields
    <3>2. MutexMoves(t, "slew", th[t].next)
      BY <2>1, <2>3 DEF MutexMoves, DepthAt, Inside
    <3>3. PathAt("slew", th[t].next, th[t].job.op)
      BY <2>2 DEF PathAt, TrackPoints
    <3> QED BY <2>1, <3>1, <3>2, <3>3, InsideStep
  <2>4. CASE Lock(t) /\ th' = [th EXCEPT ![t].pc = "sync", ![t].was = TRUE,
                                         ![t].next = "slew"]
    <3>1. Moved(t, "sync", "slew")
      BY <2>4 DEF Moved, IInv, Shape, Fields
    <3>2. MutexMoves(t, "sync", "slew")
      BY <2>1, <2>4 DEF MutexMoves, DepthAt, Inside
    <3>3. PathAt("sync", "slew", th[t].job.op)
      BY <2>2 DEF PathAt, TrackPoints
    <3> QED BY <2>1, <3>1, <3>2, <3>3, InsideStep
  <2>5. CASE UNCHANGED mutex /\ Done(t, Error)
    BY <2>1, <2>5, DoneAlong DEF Outside
  <2> QED BY <1>1, <2>3, <2>4, <2>5 DEF GoTo
<1>2. CASE WaitRa(t)
  <2>1. th[t].pc = "wait_ra" /\ UNCHANGED mutex BY <1>2 DEF WaitRa, At
  <2>2. Moved(t, "wait_dec", th[t].next)
    BY <1>2 DEF WaitRa, Moved, IInv, Shape, Fields
  <2> QED BY <2>1, <2>2, Along DEF Inside
<1>3. CASE WaitDec(t)
  <2>1. th[t].pc = "wait_dec" /\ Unlock BY <1>3 DEF WaitDec, At
  <2>2. PICK q \in {"track", "leg"} : Moved(t, q, "leg")
    BY <1>3 DEF WaitDec, Moved, IInv, Shape, Fields
  <2>3. th[t].job.op # "track"
    BY <2>1 DEF IInv, Paths, PathAt, TrackPoints
  <2>4. MutexMoves(t, q, "leg")
    BY <2>1 DEF MutexMoves, DepthAt, Inside, Nested
  <2>5. PathAt(q, "leg", th[t].job.op)
    BY <2>3 DEF PathAt, TrackPoints
  <2> QED BY <2>1, <2>2, <2>4, <2>5, InsideStep
<1>4. CASE Leg(t)
  <2>1. th[t].pc = "leg" /\ UNCHANGED mutex BY <1>4 DEF Leg, At
  <2>2. CASE th' = [th EXCEPT ![t].pc = "goto", ![t].leg = 2]
    <3>1. Moved(t, "goto", th[t].next)
      BY <2>2 DEF Moved, IInv, Shape, Fields
    <3> QED BY <2>1, <3>1, Along DEF Outside
  <2>3. CASE Done(t, th[t].ret)
    BY <2>1, <2>3, DoneAlong DEF Outside
  <2> QED BY <1>4, <2>2, <2>3 DEF Leg
<1> QED BY <1>1, <1>2, <1>3, <1>4

\* A thread that goes where it was to return to, as deep as it is.
LEMMA Returns ==
  ASSUME IInv, NEW t \in Threads, UNCHANGED callVars, Goto(t, th[t].next),
         \/ th[t].pc \in {"sync", "track", "stop_status"} /\ UNCHANGED mutex
         \/ th[t].pc = "track_dec" /\ Unlock
  PROVE  IInv'
<1> DEFINE n == th[t].next
<1>1. Moved(t, n, n) BY GotoMoves DEF IInv
<1>2. PathAt(th[t].pc, n, th[t].job.op) BY DEF IInv, Paths
<1>3. n \in {"slew", "leave", "done", "leg", "resume"}
  BY <1>2 DEF PathAt, TrackPoints
<1>4. PathAt(n, n, th[t].job.op)
  BY <1>2, <1>3 DEF PathAt, TrackPoints
<1>5. MutexMoves(t, n, n)
  BY <1>2 DEF PathAt, TrackPoints, MutexMoves, DepthAt, Inside, Nested
<1> QED BY <1>1, <1>3, <1>4, <1>5, InsideStep

\* Stops.
LEMMA FlushSteps ==
  ASSUME IInv, NEW t \in Threads, UNCHANGED callVars, Flush(t) \/ Flag(t)
  PROVE  IInv'
<1>1. th[t].pc \in StopPoints /\ UNCHANGED mutex
  BY DEF Flush, Flag, At
<1>2. CASE Flush(t)
  <2>1. Moved(t, th[t].pc, th[t].next)
    BY <1>2 DEF Flush, Moved, IInv, Shape, Fields
  <2> QED BY <1>1, <2>1, Stays DEF StopPoints
<1>3. CASE Flag(t)
  <2> DEFINE q == AfterStop(th[t].pc, th[t].axis)
  <2>1. th' = [th EXCEPT ![t].pc = q, ![t].empty = FALSE,
                 ![t].axis = IF q = th[t].pc THEN "dec" ELSE "ra"]
    BY <1>3 DEF Flag
  <2>2. th[t].axis = "ra" \/ th[t].axis = "dec" BY DEF IInv, Shape, Axes
  <2>3. \/ q = th[t].pc
        \/ th[t].pc = "act_ra" /\ q = "look_dec"
        \/ th[t].pc = "act_dec" /\ q = "start_dec"
        \/ th[t].pc = "sync_stop" /\ q = "sync"
        \/ th[t].pc = "stop" /\ q = "stop_status"
        \/ th[t].pc = "estop" /\ q = "estop_status"
    BY <1>1, <2>2 DEF AfterStop, StopPoints
  <2> HIDE DEF q
  <2>4. Moved(t, q, th[t].next)
    BY <2>1 DEF Moved, IInv, Shape, Fields, Axes
  <2>5. PathAt(th[t].pc, th[t].next, th[t].job.op) BY DEF IInv, Paths
  <2>6. PathAt(q, th[t].next, th[t].job.op)
    BY <2>3, <2>5 DEF PathAt, TrackPoints
  <2>7. DepthAt(q, th[t].next) = DepthAt(th[t].pc, th[t].next)
    BY <2>3 DEF DepthAt, Inside
  <2>8. MutexMoves(t, q, th[t].next) BY <1>1, <2>7 DEF MutexMoves
  <2>9. th[t].pc \notin {"idle", "call"} /\ q \notin {"idle", "call"}
    BY <1>1, <2>3 DEF StopPoints
  <2> QED BY <2>4, <2>6, <2>8, <2>9, InsideStep
<1> QED BY <1>2, <1>3

LEMMA StopSteps ==
  ASSUME IInv, NEW t \in Threads, UNCHANGED callVars,
         StopSync(t) \/ StopAsyncStatus(t) \/ StopTrackingLocked(t)
  PROVE  IInv'
<1>1. CASE StopSync(t) /\ Goto(t, th[t].next)
  BY <1>1, Returns DEF StopSync, At
<1>2. CASE StopSync(t) /\ Goto(t, "sync_stop")
  <2>1. Moved(t, "sync_stop", th[t].next)
    BY <1>2, GotoMoves DEF IInv
  <2>2. th[t].pc = "sync" /\ UNCHANGED mutex BY <1>2 DEF StopSync, At
  <2>3. MutexMoves(t, "sync_stop", th[t].next)
    BY <2>2 DEF MutexMoves, DepthAt, Inside
  <2>4. PathAt("sync_stop", th[t].next, th[t].job.op)
    BY <2>2 DEF IInv, Paths, PathAt, TrackPoints
  <2> QED BY <2>1, <2>2, <2>3, <2>4, InsideStep
<1>3. CASE StopAsyncStatus(t)
  BY <1>3, Returns DEF StopAsyncStatus, At
<1>4. CASE StopTrackingLocked(t)
  <2>1. th[t].pc = "stop_track_lock" /\ Free(t)
    BY <1>4 DEF StopTrackingLocked, At
  <2>2. CASE Lock(t) /\ th' = [th EXCEPT ![t].pc = "sync", ![t].next = "leave"]
    <3>1. Moved(t, "sync", "leave")
      BY <2>2 DEF Moved, IInv, Shape, Fields
    <3>2. MutexMoves(t, "sync", "leave")
      BY <2>1, <2>2 DEF MutexMoves, DepthAt, Inside
    <3>3. PathAt("sync", "leave", th[t].job.op)
      BY <2>1 DEF IInv, Paths, PathAt, TrackPoints
    <3> QED BY <2>1, <3>1, <3>2, <3>3, InsideStep
  <2>3. CASE Lock(t) /\ Goto(t, "untrack")
    <3>1. Moved(t, "untrack", th[t].next)
      BY <2>3, GotoMoves DEF IInv
    <3>2. MutexMoves(t, "untrack", th[t].next)
      BY <2>1, <2>3 DEF MutexMoves, DepthAt, Inside
    <3>3. PathAt("untrack", th[t].next, th[t].job.op)
      BY <2>1 DEF IInv, Paths, PathAt, TrackPoints
    <3> QED BY <2>1, <3>1, <3>2, <3>3, InsideStep
  <2>4. CASE Done(t, {}) /\ UNCHANGED mutex
    BY <2>1, <2>4, DoneAlong DEF Outside
  <2> QED BY <1>4, <2>2, <2>3, <2>4 DEF StopTrackingLocked
<1> QED BY <1>1, <1>2, <1>3, <1>4 DEF StopSync

\* Tracking.
LEMMA TrackSteps ==
  ASSUME IInv, NEW t \in Threads, UNCHANGED callVars,
         StartTracking(t) \/ TrackRa(t) \/ TrackDec(t)
  PROVE  IInv'
<1>0. PathAt(th[t].pc, th[t].next, th[t].job.op) BY DEF IInv, Paths
<1>1. CASE StartTracking(t)
  <2>1. th[t].pc = "track" /\ UNCHANGED mutex BY <1>1 DEF StartTracking, At
  <2>2. CASE Goto(t, "track_lock")
    <3>1. Moved(t, "track_lock", th[t].next)
      BY <2>2, GotoMoves DEF IInv
    <3>2. PathAt("track_lock", th[t].next, th[t].job.op)
      BY <1>0, <2>1 DEF PathAt, TrackPoints
    <3>3. MutexMoves(t, "track_lock", th[t].next)
      BY <2>1 DEF MutexMoves, DepthAt, Inside
    <3> QED BY <2>1, <3>1, <3>2, <3>3, InsideStep
  <2>3. CASE th[t].job.op = "track" /\ Done(t, Error)
    <3>1. Moved(t, "done", th[t].next)
      BY <2>3, DoneMoves DEF IInv
    <3>2. PathAt("done", th[t].next, th[t].job.op)
      BY <1>0, <2>1 DEF PathAt, TrackPoints
    <3>3. MutexMoves(t, "done", th[t].next)
      BY <1>0, <2>1, <2>3 DEF PathAt, MutexMoves, DepthAt, Inside, Nested
    <3> QED BY <2>1, <3>1, <3>2, <3>3, InsideStep
  <2>4. CASE Goto(t, th[t].next) BY <2>1, <2>4, Returns
  <2> QED BY <1>1, <2>2, <2>3, <2>4 DEF StartTracking
<1>2. CASE TrackRa(t)
  <2>1. th[t].pc = "track_lock" /\ Free(t) /\ Lock(t) BY <1>2 DEF TrackRa, At
  <2>2. Moved(t, "track_dec", th[t].next)
    BY <1>2, GotoMoves DEF TrackRa, IInv
  <2>3. PathAt("track_dec", th[t].next, th[t].job.op)
    BY <1>0, <2>1 DEF PathAt, TrackPoints
  <2>4. MutexMoves(t, "track_dec", th[t].next)
    BY <2>1 DEF MutexMoves, DepthAt, Inside, Nested
  <2> QED BY <2>1, <2>2, <2>3, <2>4, InsideStep
<1>3. CASE TrackDec(t) BY <1>3, Returns DEF TrackDec, At
<1> QED BY <1>1, <1>2, <1>3

\* Where nudges take and give back the mutex.
LEMMA NudgeSteps ==
  ASSUME IInv, NEW t \in Threads, UNCHANGED callVars,
         StopNudge(t) \/ ResumeTracking(t) \/ Leave(t) \/ StartNudge(t)
         \/ NudgeStatus(t) \/ Untrack(t)
  PROVE  IInv'
<1>0. PathAt(th[t].pc, th[t].next, th[t].job.op) BY DEF IInv, Paths
<1>1. CASE StopNudge(t)
  <2>1. th[t].pc = "nudge_lock" /\ Free(t) BY <1>1 DEF StopNudge, At
  <2>2. CASE Done(t, {}) /\ UNCHANGED mutex
    BY <2>1, <2>2, DoneAlong DEF Outside
  <2>3. ASSUME Lock(t), NEW n \in {"resume", "leave"},
               th' = [th EXCEPT ![t].pc = "stop", ![t].next = n]
        PROVE  IInv'
    <3>1. Moved(t, "stop", n)
      BY <2>3 DEF Moved, IInv, Shape, Fields
    <3>2. MutexMoves(t, "stop", n)
      BY <2>1, <2>3 DEF MutexMoves, DepthAt, Inside, Nested
    <3>3. PathAt("stop", n, th[t].job.op)
      BY <1>0, <2>1 DEF PathAt, TrackPoints
    <3> QED BY <2>1, <3>1, <3>2, <3>3, InsideStep
  <2> QED BY <1>1, <2>2, <2>3 DEF StopNudge
<1>2. CASE ResumeTracking(t)
  <2>1. th[t].pc = "resume" /\ UNCHANGED mutex BY <1>2 DEF ResumeTracking, At
  <2>2. Moved(t, "track", "leave")
    BY <1>2 DEF ResumeTracking, Moved, IInv, Shape, Fields
  <2>3. PathAt("track", "leave", th[t].job.op)
    BY <1>0, <2>1 DEF PathAt, TrackPoints
  <2>4. MutexMoves(t, "track", "leave")
    BY <2>1 DEF MutexMoves, DepthAt, Inside, Nested
  <2> QED BY <2>1, <2>2, <2>3, <2>4, InsideStep
<1>3. ASSUME Unlock, Done(t, {}), th[t].pc \in {"leave", "nudge_status", "untrack"}
      PROVE  IInv'
  <2>1. Moved(t, "done", th[t].next) BY <1>3, DoneMoves DEF IInv
  <2>2. PathAt("done", th[t].next, th[t].job.op)
    BY <1>0, <1>3 DEF PathAt, TrackPoints
  <2>3. MutexMoves(t, "done", th[t].next)
    BY <1>3 DEF MutexMoves, DepthAt, Inside
  <2> QED BY <1>3, <2>1, <2>2, <2>3, InsideStep
<1>4. CASE Leave(t) BY <1>3, <1>4 DEF Leave, At
<1>5. CASE NudgeStatus(t) BY <1>3, <1>5 DEF NudgeStatus, At
<1>6. CASE StartNudge(t)
  <2>1. th[t].pc = "nudge_lock" /\ Free(t) /\ Lock(t)
    BY <1>6 DEF StartNudge, At
  <2>2. Moved(t, "look_ra", th[t].next)
    BY <1>6 DEF StartNudge, Moved, IInv, Shape, Fields
  <2>3. PathAt("look_ra", th[t].next, th[t].job.op)
    BY <1>0, <2>1 DEF PathAt, TrackPoints
  <2>4. MutexMoves(t, "look_ra", th[t].next)
    BY <2>1 DEF MutexMoves, DepthAt, Inside
  <2> QED BY <2>1, <2>2, <2>3, <2>4, InsideStep
<1>7. CASE Untrack(t) BY <1>3, <1>7 DEF Untrack, At
<1> QED BY <1>1, <1>2, <1>4, <1>5, <1>6, <1>7

LEMMA ThreadStepInv ==
  ASSUME IInv, NEW t \in Threads, UNCHANGED callVars, ThreadStep(t)
  PROVE  IInv'
  BY PlainSteps, LookSteps, GotoSteps, FlushSteps, StopSteps, TrackSteps,
     NudgeSteps DEF ThreadStep

-----------------------------------------------------------------------------
(* The actions of the servers.                                             *)

LEMMA ServerThreads ==
  /\ \A s \in Servers : /\ Reader(s) \in Threads /\ Worker(s) \in Threads
                        /\ Reader(s) # Worker(s)
  /\ \A s, r \in Servers : s # r => /\ Reader(s) # Reader(r)
                                    /\ Worker(s) # Worker(r)
                                    /\ Reader(s) # Worker(r)
  /\ \A t \in Threads : \E s \in Servers : t = Reader(s) \/ t = Worker(s)
  BY ServerAssumption DEF Reader, Worker

\* A thread gets work, or is idle, outside of everything.
LEMMA Enters ==
  ASSUME IInv, NEW t \in Threads, NEW w, th' = [th EXCEPT ![t] = w],
         DOMAIN w = Fields, w.axis \in Axes, UNCHANGED mutex,
         DepthAt(th[t].pc, th[t].next) = 0, DepthAt(w.pc, w.next) = 0,
         PathAt(w.pc, w.next, w.job.op)
  PROVE  /\ Shape' /\ Paths' /\ MutexOK' /\ Held'
         /\ th'[t] = w /\ \A u \in Threads \ {t} : th'[u] = th[u]
<1>1. th'[t] = w /\ \A u \in Threads \ {t} : th'[u] = th[u]
  BY DEF IInv, Shape
<1>2. Shape' BY <1>1 DEF IInv, Shape
<1>3. Paths' BY <1>1 DEF IInv, Paths
<1>4. MutexOK' BY DEF IInv, MutexOK
<1>5. Held' BY <1>1 DEF IInv, Held
<1> QED BY <1>1, <1>2, <1>3, <1>4, <1>5

LEMMA IdleWork ==
  /\ DOMAIN NoWork = Fields /\ NoWork.pc = "idle" /\ NoWork.axis \in Axes
  /\ DepthAt(NoWork.pc, NoWork.next) = 0
  /\ PathAt(NoWork.pc, NoWork.next, NoWork.job.op)
  BY DEF NoWork, NoJob, Fields, Axes, DepthAt, PathAt, Inside, TrackPoints

LEMMA CallWork ==
  ASSUME NEW job \in JobSet
  PROVE  LET w == [NoWork EXCEPT !.pc = "call", !.job = job]
         IN  /\ DOMAIN w = Fields /\ w.axis \in Axes
             /\ w.pc = "call" /\ w.job = job
             /\ DepthAt(w.pc, w.next) = 0 /\ PathAt(w.pc, w.next, w.job.op)
<1> DEFINE w == [NoWork EXCEPT !.pc = "call", !.job = job]
<1>1. /\ DOMAIN w = Fields /\ w.axis \in Axes
      /\ w.pc = "call" /\ w.next = "done" /\ w.job = job
  BY DEF NoWork, Fields, Axes
<1> HIDE DEF w
<1>2. DepthAt(w.pc, w.next) = 0 /\ PathAt(w.pc, w.next, w.job.op)
  BY <1>1 DEF DepthAt, PathAt, Inside, TrackPoints
<1> QED BY <1>1, <1>2 DEF w

LEMMA ReadInv == ASSUME IInv, NEW s \in Servers, Read(s) PROVE IInv'
<1> DEFINE t == Reader(s)
<1>1. t \in Threads BY ServerThreads
<1>2. th[t].pc = "idle" BY DEF Read, At
<1>3. DepthAt(th[t].pc, th[t].next) = 0
  BY <1>2 DEF DepthAt, Inside
<1>4. UNCHANGED <<mutex, evq, answered>> BY DEF Read
<1>5. PICK line \in Lines[s] :
        \/ UNCHANGED <<th, accepted>>
        \/ /\ accepted' = [accepted EXCEPT ![s] = @ + 1]
           /\ th' = [th EXCEPT ![t] =
                IF line.cmd \in Immediate THEN Work(JobOf(line))
                ELSE [NoWork EXCEPT !.pc = "call", !.job = JobOf(line)]]
  BY DEF Read
<1>6. JobOf(line) \in JobSet BY DEF JobSet
<1>7. CASE UNCHANGED <<th, accepted>>
  BY <1>4, <1>7
     DEF IInv, Shape, Paths, MutexOK, Held, Called, Accounted, Busy
<1>8. ASSUME NEW w, th' = [th EXCEPT ![t] = w],
             accepted' = [accepted EXCEPT ![s] = @ + 1],
             DOMAIN w = Fields, w.axis \in Axes, w.pc # "idle",
             w.pc = "call" => w.job \in JobSet,
             DepthAt(w.pc, w.next) = 0, PathAt(w.pc, w.next, w.job.op)
      PROVE  IInv'
  <2>1. /\ Shape' /\ Paths' /\ MutexOK' /\ Held'
        /\ th'[t] = w /\ \A u \in Threads \ {t} : th'[u] = th[u]
    BY <1>1, <1>3, <1>4, <1>8, Enters
  <2>2. Called' BY <1>4, <1>8, <2>1 DEF IInv, Called
  <2>3. Accounted'
    <3>1. SUFFICES ASSUME NEW r \in Servers
                   PROVE  accepted'[r] = answered[r] + Len(evq[r])
                            + Busy(Reader(r))' + Busy(Worker(r))'
      BY <1>4 DEF Accounted
    <3>2. accepted[r] = answered[r] + Len(evq[r])
            + Busy(Reader(r)) + Busy(Worker(r))
      BY DEF IInv, Accounted
    <3>3. accepted \in [Servers -> Nat] /\ answered[r] \in Nat
          /\ evq[r] \in Seq(JobSet)
      BY DEF IInv, Called
    <3>4. Len(evq[r]) \in Nat BY <3>3
    <3>5. Busy(Worker(r))' = Busy(Worker(r))
      BY <2>1, ServerThreads DEF Busy
    <3>6. CASE r = s
      <4>1. Busy(Reader(r)) = 0 /\ Busy(Reader(r))' = 1
        BY <1>2, <1>8, <2>1, <3>6 DEF Busy
      <4>2. accepted'[r] = accepted[r] + 1 BY <1>8, <3>3, <3>6
      <4>3. Busy(Worker(r)) \in Nat BY DEF Busy
      <4> QED BY <3>2, <3>3, <3>4, <3>5, <4>1, <4>2, <4>3
    <3>7. CASE r # s
      <4>1. Busy(Reader(r))' = Busy(Reader(r))
        BY <2>1, <3>7, ServerThreads DEF Busy
      <4>2. accepted'[r] = accepted[r] BY <1>8, <3>3, <3>7
      <4> QED BY <3>2, <3>5, <4>1, <4>2
    <3> QED BY <3>6, <3>7
  <2> QED BY <2>1, <2>2, <2>3 DEF IInv
<1>9. CASE /\ accepted' = [accepted EXCEPT ![s] = @ + 1]
           /\ th' = [th EXCEPT ![t] = Work(JobOf(line))]
  BY <1>6, <1>8, <1>9, WorkBegins
<1>10. CASE /\ accepted' = [accepted EXCEPT ![s] = @ + 1]
            /\ th' = [th EXCEPT ![t] =
                  [NoWork EXCEPT !.pc = "call", !.job = JobOf(line)]]
  <2> DEFINE w == [NoWork EXCEPT !.pc = "call", !.job = JobOf(line)]
  <2>1. /\ DOMAIN w = Fields /\ w.axis \in Axes
        /\ w.pc = "call" /\ w.job = JobOf(line)
        /\ DepthAt(w.pc, w.next) = 0 /\ PathAt(w.pc, w.next, w.job.op)
    BY <1>6, CallWork
  <2>2. th' = [th EXCEPT ![t] = w] BY <1>10
  <2> HIDE DEF w, t
  <2> QED BY <1>6, <1>8, <1>10, <2>1, <2>2
<1> QED BY <1>5, <1>7, <1>9, <1>10

LEMMA CallInv == ASSUME IInv, NEW s \in Servers, Call(s) PROVE IInv'
<1> DEFINE t == Reader(s)
<1>1. t \in Threads BY ServerThreads
<1>2. th[t].pc = "call" /\ th[t].job \in JobSet
  BY <1>1 DEF Call, At, IInv, Called
<1>3. DepthAt(th[t].pc, th[t].next) = 0
  BY <1>2 DEF DepthAt, Inside
<1>4. /\ th' = [th EXCEPT ![t] = NoWork]
      /\ evq' = [evq EXCEPT ![s] = Append(@, th[t].job)]
      /\ UNCHANGED <<mutex, accepted, answered>>
  BY DEF Call
<1>5. /\ Shape' /\ Paths' /\ MutexOK' /\ Held'
      /\ th'[t] = NoWork /\ \A u \in Threads \ {t} : th'[u] = th[u]
  BY <1>1, <1>3, <1>4, Enters, IdleWork
<1>6. evq \in [Servers -> Seq(JobSet)] BY DEF IInv, Called
<1>7. /\ evq' \in [Servers -> Seq(JobSet)]
      /\ Len(evq'[s]) = Len(evq[s]) + 1
      /\ \A r \in Servers \ {s} : evq'[r] = evq[r]
  BY <1>2, <1>4, <1>6
<1>8. Called'
  BY <1>4, <1>5, <1>7, IdleWork DEF IInv, Called
<1>9. Accounted'
  <2>1. SUFFICES ASSUME NEW r \in Servers
                 PROVE  accepted[r] = answered[r] + Len(evq'[r])
                          + Busy(Reader(r))' + Busy(Worker(r))'
    BY <1>4 DEF Accounted
  <2>2. accepted[r] = answered[r] + Len(evq[r])
          + Busy(Reader(r)) + Busy(Worker(r))
    BY DEF IInv, Accounted
  <2>3. answered[r] \in Nat /\ Len(evq[r]) \in Nat
    BY <1>6 DEF IInv, Called
  <2>4. Busy(Worker(r))' = Busy(Worker(r)) /\ Busy(Worker(r)) \in Nat
    BY <1>5, ServerThreads DEF Busy
  <2>5. CASE r = s
    <3>1. Busy(Reader(r)) = 1 /\ Busy(Reader(r))' = 0
      BY <1>2, <1>5, <2>5, IdleWork DEF Busy
    <3>2. Len(evq'[r]) = Len(evq[r]) + 1 BY <1>7, <2>5
    <3> QED BY <2>2, <2>3, <2>4, <3>1, <3>2
  <2>6. CASE r # s
    <3>1. Busy(Reader(r))' = Busy(Reader(r))
      BY <1>5, <2>6, ServerThreads DEF Busy
    <3> QED BY <1>7, <2>2, <2>4, <2>6, <3>1
  <2> QED BY <2>5, <2>6
<1> QED BY <1>5, <1>8, <1>9 DEF IInv

LEMMA DispatchInv == ASSUME IInv, NEW s \in Servers, Dispatch(s) PROVE IInv'
<1> DEFINE t == Worker(s)
           w == Work(Head(evq[s]))
<1>1. t \in Threads BY ServerThreads
<1>2. th[t].pc = "idle" /\ evq[s] # <<>> BY DEF Dispatch, At
<1>3. DepthAt(th[t].pc, th[t].next) = 0
  BY <1>2 DEF DepthAt, Inside
<1>4. /\ th' = [th EXCEPT ![t] = w]
      /\ evq' = [evq EXCEPT ![s] = Tail(@)]
      /\ UNCHANGED <<mutex, accepted, answered>>
  BY DEF Dispatch
<1>5. evq \in [Servers -> Seq(JobSet)] BY DEF IInv, Called
<1>6. Head(evq[s]) \in JobSet BY <1>2, <1>5
<1>7. /\ DOMAIN w = Fields /\ w.axis \in Axes
      /\ w.pc \notin {"idle", "call"}
      /\ PathAt(w.pc, w.next, w.job.op) /\ DepthAt(w.pc, w.next) = 0
  BY <1>6, WorkBegins
<1> HIDE DEF w, t
<1>8. /\ Shape' /\ Paths' /\ MutexOK' /\ Held'
      /\ th'[t] = w /\ \A u \in Threads \ {t} : th'[u] = th[u]
  BY <1>1, <1>3, <1>4, <1>7, Enters
<1>9. /\ evq' \in [Servers -> Seq(JobSet)]
      /\ Len(evq'[s]) = Len(evq[s]) - 1
      /\ \A r \in Servers \ {s} : evq'[r] = evq[r]
  BY <1>2, <1>4, <1>5
<1>10. Called'
  BY <1>4, <1>7, <1>8, <1>9 DEF IInv, Called
<1>11. Accounted'
  <2>1. SUFFICES ASSUME NEW r \in Servers
                 PROVE  accepted[r] = answered[r] + Len(evq'[r])
                          + Busy(Reader(r))' + Busy(Worker(r))'
    BY <1>4 DEF Accounted
  <2>2. accepted[r] = answered[r] + Len(evq[r])
          + Busy(Reader(r)) + Busy(Worker(r))
    BY DEF IInv, Accounted
  <2>3. answered[r] \in Nat /\ Len(evq[r]) \in Nat
    BY <1>5 DEF IInv, Called
  <2>4. Busy(Reader(r))' = Busy(Reader(r)) /\ Busy(Reader(r)) \in Nat
    BY <1>8, ServerThreads DEF Busy, t
  <2>5. CASE r = s
    <3>1. Busy(Worker(r)) = 0 /\ Busy(Worker(r))' = 1
      BY <1>2, <1>7, <1>8, <2>5 DEF Busy, t
    <3>2. Len(evq'[r]) = Len(evq[r]) - 1 BY <1>9, <2>5
    <3> QED BY <2>2, <2>3, <2>4, <3>1, <3>2
  <2>6. CASE r # s
    <3>1. Busy(Worker(r))' = Busy(Worker(r))
      BY <1>8, <2>6, ServerThreads DEF Busy, t
    <3> QED BY <1>9, <2>2, <2>4, <2>6, <3>1
  <2> QED BY <2>5, <2>6
<1> QED BY <1>8, <1>10, <1>11 DEF IInv

LEMMA AskInv == ASSUME IInv, NEW t \in Threads, Ask(t) PROVE IInv'
<1>1. /\ th[t].pc \in AlignOps \cup {"ask"} /\ Done(t, th[t].job.ret)
      /\ UNCHANGED <<mutex, serverVars>>
  BY DEF Ask, At
<1>2. th[t].pc \in Outside \ {"done"}
  BY <1>1 DEF Outside, AlignOps
<1> QED BY <1>1, <1>2, DoneAlong DEF serverVars

LEMMA AnswerInv == ASSUME IInv, NEW t \in Threads, Answer(t) PROVE IInv'
<1>1. th[t].pc = "done" BY DEF Answer, At
<1>2. DepthAt(th[t].pc, th[t].next) = 0
  BY <1>1 DEF DepthAt, Inside
<1>3. /\ th' = [th EXCEPT ![t] = NoWork]
      /\ answered' = [answered EXCEPT ![t[1]] = @ + 1]
      /\ UNCHANGED <<mutex, accepted, evq>>
  BY DEF Answer
<1>4. /\ Shape' /\ Paths' /\ MutexOK' /\ Held'
      /\ th'[t] = NoWork /\ \A u \in Threads \ {t} : th'[u] = th[u]
  BY <1>2, <1>3, Enters, IdleWork
<1>5. PICK s \in Servers : t = Reader(s) \/ t = Worker(s)
  BY ServerThreads
<1>6. t[1] = s BY <1>5 DEF Reader, Worker
<1>7. answered \in [Servers -> Nat] BY DEF IInv, Called
<1>8. /\ answered' \in [Servers -> Nat] /\ answered'[s] = answered[s] + 1
      /\ \A r \in Servers \ {s} : answered'[r] = answered[r]
  BY <1>3, <1>6, <1>7
<1>9. Called'
  BY <1>3, <1>4, <1>8, IdleWork DEF IInv, Called
<1>10. Accounted'
  <2>1. SUFFICES ASSUME NEW r \in Servers
                 PROVE  accepted[r] = answered'[r] + Len(evq[r])
                          + Busy(Reader(r))' + Busy(Worker(r))'
    BY <1>3 DEF Accounted
  <2>2. accepted[r] = answered[r] + Len(evq[r])
          + Busy(Reader(r)) + Busy(Worker(r))
    BY DEF IInv, Accounted
  <2>3. answered[r] \in Nat /\ Len(evq[r]) \in Nat
    BY DEF IInv, Called
  <2>4. Busy(t) = 1 /\ Busy(t)' = 0
    BY <1>1, <1>4, IdleWork DEF Busy
  <2>5. \A u \in Threads \ {t} : Busy(u)' = Busy(u) /\ Busy(u) \in Nat
    BY <1>4 DEF Busy
  <2>6. CASE r = s /\ t = Reader(s)
    <3>1. Worker(r) \in Threads \ {t} BY <2>6, ServerThreads
    <3> QED BY <1>8, <2>2, <2>3, <2>4, <2>5, <2>6, <3>1
  <2>7. CASE r = s /\ t = Worker(s)
    <3>1. Reader(r) \in Threads \ {t} BY <2>7, ServerThreads
    <3> QED BY <1>8, <2>2, <2>3, <2>4, <2>5, <2>7, <3>1
  <2>8. CASE r # s
    <3>1. Reader(r) \in Threads \ {t} /\ Worker(r) \in Threads \ {t}
      BY <1>5, <2>8, ServerThreads
    <3> QED BY <1>8, <2>2, <2>5, <2>8, <3>1
  <2> QED BY <1>5, <2>6, <2>7, <2>8
<1> QED BY <1>4, <1>9, <1>10 DEF IInv

-----------------------------------------------------------------------------
(* The invariant holds of every behaviour.                                 *)

LEMMA InitInv == Init => IInv
<1> SUFFICES ASSUME Init PROVE IInv
  OBVIOUS
<1>1. /\ th = [t \in Threads |-> NoWork]
      /\ mutex = [owner |-> NoThread, count |-> 0]
      /\ evq = [s \in Servers |-> <<>>]
      /\ accepted = [s \in Servers |-> 0] /\ answered = [s \in Servers |-> 0]
  BY DEF Init, MountInit
<1>2. Shape /\ Paths BY <1>1, IdleWork DEF Shape, Paths
<1>3. MutexOK BY <1>1 DEF MutexOK
<1>4. Held BY <1>1, IdleWork DEF Held
<1>5. Called BY <1>1, IdleWork DEF Called
<1>6. Accounted
  BY <1>1, IdleWork, ServerThreads DEF Accounted, Busy
<1> QED BY <1>2, <1>3, <1>4, <1>5, <1>6 DEF IInv

LEMMA NextInv == IInv /\ [Next]_vars => IInv'
<1> SUFFICES ASSUME IInv, [Next]_vars PROVE IInv'
  OBVIOUS
<1>1. CASE Mount
  <2>1. ASSUME NEW x \in Axes, AxisStep(x) PROVE IInv'
    BY <1>1, <2>1
       DEF Mount, AxisStep, callVars, IInv, Shape, Paths, MutexOK, Held,
           Called, Accounted, Busy
  <2>2. ASSUME NEW t \in Threads, ThreadStep(t) PROVE IInv'
    BY <1>1, <2>2, ThreadStepInv DEF Mount
  <2> QED BY <1>1, <2>1, <2>2 DEF Mount
<1>2. CASE UNCHANGED vars
  BY <1>2
     DEF vars, mountVars, serverVars, callVars, IInv, Shape, Paths, MutexOK, Held,
         Called, Accounted, Busy
<1> QED
  BY <1>1, <1>2, ReadInv, CallInv, DispatchInv, AskInv, AnswerInv DEF Next

LEMMA AlwaysIInv == Spec => []IInv
  BY InitInv, NextInv, PTL DEF Spec

-----------------------------------------------------------------------------
(* Theorems                                                                *)

LEMMA DepthIs ==
  ASSUME NEW t \in Threads PROVE Depth(t) = DepthAt(th[t].pc, th[t].next)
  BY DEF Depth, DepthAt, Inside, Nested

\* Every operation of the mount gives mutex_execution back as often as it took
\* it, for any number of callers and whatever they ask for, so that at most
\* one thread is inside (EquatorialMount.cpp, every mutex_execution.lock).
THEOREM MutexIsGivenBack == Spec => []MutexDiscipline
<1>1. IInv => MutexDiscipline
  BY DepthIs DEF IInv, Held, MutexDiscipline
<1> QED BY <1>1, AlwaysIInv, PTL

\* Every command a server accepted is answered once, however many servers
\* there are and however full their queues (EqMountServer.cpp:148-229).
THEOREM CommandsAreAnsweredOnce == Spec => []EachAnsweredOnce
<1>1. ASSUME IInv, NEW s \in Servers
      PROVE  Cardinality({t \in {Reader(s), Worker(s)} : th[t].pc # "idle"})
               = Busy(Reader(s)) + Busy(Worker(s))
  <2> DEFINE B == {t \in {Reader(s), Worker(s)} : th[t].pc # "idle"}
             r == Reader(s)
             w == Worker(s)
  <2>1. r # w BY ServerThreads
  <2>2. CASE th[r].pc = "idle" /\ th[w].pc = "idle"
    <3>1. B = {} BY <2>2
    <3>2. Busy(r) = 0 /\ Busy(w) = 0 BY <2>2 DEF Busy
    <3> QED BY <3>1, <3>2, FS_EmptySet
  <2>3. CASE th[r].pc # "idle" /\ th[w].pc = "idle"
    <3>1. B = {r} BY <2>3
    <3>2. Busy(r) = 1 /\ Busy(w) = 0 BY <2>3 DEF Busy
    <3>3. Cardinality({r}) = 1 BY FS_Singleton
    <3> QED BY <3>1, <3>2, <3>3
  <2>4. CASE th[r].pc = "idle" /\ th[w].pc # "idle"
    <3>1. B = {w} BY <2>4
    <3>2. Busy(r) = 0 /\ Busy(w) = 1 BY <2>4 DEF Busy
    <3> QED BY <3>1, <3>2, FS_Singleton
  <2>5. CASE th[r].pc # "idle" /\ th[w].pc # "idle"
    <3>1. B = {r} \cup {w} BY <2>5
    <3>2. IsFiniteSet({r}) /\ Cardinality({r}) = 1 BY FS_Singleton
    <3>3. Cardinality({r} \cup {w}) = 2
      BY <2>1, <3>2, FS_AddElement
    <3>4. Busy(r) = 1 /\ Busy(w) = 1 BY <2>5 DEF Busy
    <3> QED BY <3>1, <3>3, <3>4
  <2> QED BY <2>2, <2>3, <2>4, <2>5
<1>2. IInv => EachAnsweredOnce
  <2> SUFFICES ASSUME IInv, NEW s \in Servers
               PROVE  accepted[s] = answered[s] + Len(evq[s])
                 + Cardinality({t \in {Reader(s), Worker(s)} :
                                  th[t].pc # "idle"})
    BY DEF EachAnsweredOnce
  <2>1. accepted[s] = answered[s] + Len(evq[s])
          + Busy(Reader(s)) + Busy(Worker(s))
    BY DEF IInv, Accounted
  <2>2. /\ answered[s] \in Nat /\ Len(evq[s]) \in Nat
        /\ Busy(Reader(s)) \in Nat /\ Busy(Worker(s)) \in Nat
    BY DEF IInv, Called, Busy
  <2> QED BY <1>1, <2>1, <2>2
<1> QED BY <1>2, AlwaysIInv, PTL
=============================================================================
