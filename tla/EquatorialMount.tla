-------------------------- MODULE EquatorialMount --------------------------
(***************************************************************************)
(* The mount: EquatorialMount.cpp and .h, two axes driven by the threads   *)
(* that call it.  An operation is a sequence of steps of the thread that   *)
(* runs it, from one access to what threads share to the next: the status, *)
(* the axes, the nudge, the speeds and mutex_execution, which is recursive *)
(* and which the stops do not take.  A chain of conditions on the status   *)
(* reads it once; what is read in one statement and written in another are *)
(* two steps.                                                              *)
(*                                                                         *)
(* An axis is a record of AxisContract.  Its task thread has a priority    *)
(* above the callers' (Axis.cpp:37, EqMountServer.cpp:28), so it runs to   *)
(* its next wait before a caller goes on.  What happens when it is held up *)
(* in debug() is left to module Axis.                                      *)
(*                                                                         *)
(* Coordinates are not modelled: which way the axes go in a goto is a      *)
(* choice.  The side of the pier that turns north into a direction of the  *)
(* axis is always east, see module Pointing.  Nor is a full task_pool      *)
(* modelled: the callers of two servers never post 16 commands to an axis, *)
(* see the theorem MountIsTyped of StatusProof.                            *)
(***************************************************************************)
EXTENDS AxisContract, Commands, FiniteSets

CONSTANTS
  Threads,       \* threads that call the mount
  NoThread,      \* owner of a free mutex
  GotoDirs,      \* directions of a goto
  TrackSpeed,    \* tracking speed of RA
  FirstSpeed     \* slewing speed the configuration gives both axes

ASSUME SpeedAssumption == TrackSpeed \in Nat /\ FirstSpeed \in Nat \ {0}
ASSUME ThreadAssumption == NoThread \notin Threads

VARIABLES
  ax,              \* the axes ra and dec
  status,          \* mountstatus_t, as the set of its bits
  curr_nudge_dir,  \* nudgedir_t, as the set of its bits
  nudgeSpeed,
  slewSpeed,       \* of each axis
  mutex,           \* mutex_execution: owner and how often it has it
  th               \* what each thread is doing

axisVars == <<ax, slewSpeed>>
mountVars == <<ax, status, curr_nudge_dir, nudgeSpeed, slewSpeed, mutex, th>>

Axes == {"ra", "dec"}

Bits == {"SLEWING", "TRACKING", "NUDGING"}   \* {} is MOUNT_STOPPED

RaNudges == {"EAST", "WEST"}
DecNudges == {"NORTH", "SOUTH"}

\* pc, the job, which goTo leg, what it read in the status, the result, where
\* to return to, the new directions of a nudge; and in a stop the axis it is at
\* and whether the queue of that axis was found empty.
NoWork ==
  [pc |-> "idle", job |-> NoJob, leg |-> 0, was |-> FALSE, ret |-> {},
   next |-> "done", dir |-> [x \in Axes |-> "same"], axis |-> "ra",
   empty |-> FALSE]

\* goTo is two legs; goToMount and goToIndex are the second alone.
Work(job) ==
  [NoWork EXCEPT
     !.job = job, !.leg = IF job.op = "goto" THEN 1 ELSE 2,
     !.pc = CASE job.op = "gotoMount" -> "goto" [] OTHER -> job.op]

-----------------------------------------------------------------------------
MayRun == \A x \in Axes : Waiting(ax[x])

At(t, point) == th[t].pc = point /\ MayRun

Goto(t, point) == th' = [th EXCEPT ![t].pc = point]

Done(t, ret) == th' = [th EXCEPT ![t].pc = "done", ![t].ret = ret]

Error == {"osErrorParameter"}

Free(t) == mutex.owner \in {t, NoThread}

Lock(t) == mutex' = [owner |-> t, count |-> mutex.count + 1]

Unlock ==
  mutex' = IF mutex.count = 1 THEN [owner |-> NoThread, count |-> 0]
           ELSE [mutex EXCEPT !.count = @ - 1]

SlewTo(d, c) ==
  [signal |-> "SLEW_TO", dir |-> d, withCorrection |-> c, valid |-> TRUE]

Indefinite(d) ==
  [signal |-> "SLEW_INDEFINITE", dir |-> d, withCorrection |-> FALSE,
   valid |-> TRUE]

Track(d) ==
  [signal |-> "TRACK", dir |-> d, withCorrection |-> FALSE, valid |-> TRUE]

nudgeVars == <<curr_nudge_dir, nudgeSpeed>>

-----------------------------------------------------------------------------
(* Axis::stop and emergency_stop, called by stopSync, stopAsync and        *)
(* emergencyStop for RA and then Dec, and by startNudge for one of them.   *)

StopPoints == {"sync_stop", "stop", "estop", "act_ra", "act_dec"}

\* flushCommandQueue: a message at a time, until the queue is found empty.
Flush(t) ==
  /\ \E point \in StopPoints : At(t, point)
  /\ ~th[t].empty
  /\ LET x == th[t].axis
     IN  IF ax[x].queue = <<>>
         THEN th' = [th EXCEPT ![t].empty = TRUE] /\ UNCHANGED ax
         ELSE ax' = [ax EXCEPT ![x].queue = Tail(@)] /\ UNCHANGED th
  /\ UNCHANGED <<slewSpeed, status, nudgeVars, mutex>>

\* Where a thread goes when it has stopped an axis.
AfterStop(point, x) ==
  CASE point = "act_ra" -> "look_dec"
    [] point = "act_dec" -> "start_dec"
    [] point \notin {"act_ra", "act_dec"} /\ x = "ra" -> point
    [] point = "sync_stop" /\ x = "dec" -> "sync"
    [] point = "stop" /\ x = "dec" -> "stop_status"
    [] point = "estop" /\ x = "dec" -> "estop_status"

\* signal_set
Flag(t) ==
  /\ \E point \in StopPoints : At(t, point)
  /\ th[t].empty
  /\ LET x == th[t].axis
         flag == IF th[t].pc = "estop" THEN "EMERGE_STOP" ELSE "STOP"
         point == AfterStop(th[t].pc, x)
     IN  /\ ax' = [ax EXCEPT ![x] = Flagged(@, flag)]
         /\ th' = [th EXCEPT ![t].pc = point, ![t].empty = FALSE,
              ![t].axis = IF point = th[t].pc THEN "dec" ELSE "ra"]
  /\ UNCHANGED <<slewSpeed, status, nudgeVars, mutex>>

-----------------------------------------------------------------------------
(* goTo, goToMount.                                                        *)

\* Fault: the mutex is not given back when the mount is busy.
GoToLeaks(t) ==
  /\ At(t, "goto") /\ Free(t) /\ Lock(t)
  /\ \/ /\ status = {}
        /\ th' = [th EXCEPT ![t].pc = "slew", ![t].was = FALSE]
     \/ /\ status = {"TRACKING"}
        /\ th' = [th EXCEPT ![t].pc = "sync", ![t].was = TRUE,
                            ![t].next = "slew"]
     \/ /\ status \notin {{}, {"TRACKING"}}
        /\ Done(t, Error)
  /\ UNCHANGED <<axisVars, status, nudgeVars>>

GoTo(t) ==
  /\ At(t, "goto") /\ Free(t)
  /\ \/ /\ status = {} /\ Lock(t)
        /\ th' = [th EXCEPT ![t].pc = "slew", ![t].was = FALSE]
     \/ /\ status = {"TRACKING"} /\ Lock(t)
        /\ th' = [th EXCEPT ![t].pc = "sync", ![t].was = TRUE,
                            ![t].next = "slew"]
     \/ /\ status \notin {{}, {"TRACKING"}} /\ UNCHANGED mutex
        /\ Done(t, Error)
  /\ UNCHANGED <<axisVars, status, nudgeVars>>

StopSync(t) ==
  /\ At(t, "sync")
  /\ IF \A x \in Axes : ax[x].status = "STOPPED"
     THEN status' = {} /\ Goto(t, th[t].next)
     ELSE Goto(t, "sync_stop") /\ UNCHANGED status
  /\ UNCHANGED <<axisVars, nudgeVars, mutex>>

SlewRa(t) ==
  /\ At(t, "slew")
  /\ status' = {"SLEWING"}
  /\ \E d \in GotoDirs :
       ax' = [ax EXCEPT !.ra = SlewPosted(@, SlewTo(d, th[t].leg = 2))]
  /\ Goto(t, "slew_dec")
  /\ UNCHANGED <<slewSpeed, nudgeVars, mutex>>

SlewDec(t) ==
  /\ At(t, "slew_dec")
  /\ \E d \in GotoDirs :
       ax' = [ax EXCEPT !.dec = SlewPosted(@, SlewTo(d, th[t].leg = 2))]
  /\ Goto(t, "wait_ra")
  /\ UNCHANGED <<slewSpeed, status, nudgeVars, mutex>>

\* waitForSlew: the semaphore, then the result.
Finished(a) == {a.result} \ {"COMPLETE"}

WaitRa(t) ==
  /\ At(t, "wait_ra") /\ ax.ra.sem = 1
  /\ ax' = [ax EXCEPT !.ra.sem = 0]
  /\ th' = [th EXCEPT ![t].pc = "wait_dec", ![t].ret = Finished(ax.ra)]
  /\ UNCHANGED <<slewSpeed, status, nudgeVars, mutex>>

\* Fault: the result of dec replaces that of ra.
LegResultOfDec(t) == Finished(ax.dec)

LegResult(t) == th[t].ret \cup Finished(ax.dec)

\* Tracking is taken up again unless the goto failed: also after a stop.  An
\* axis reports FINISH_ERROR only for a wait that timed out, and goToMount waits
\* for ever.
WaitDec(t) ==
  /\ At(t, "wait_dec") /\ ax.dec.sem = 1
  /\ ax' = [ax EXCEPT !.dec.sem = 0]
  /\ status' = {}
  /\ Unlock
  /\ LET ret == LegResult(t)
         resume == th[t].was /\ "EMERG_STOPPED" \notin ret
     IN  th' = [th EXCEPT ![t].ret = ret, ![t].next = "leg",
                          ![t].pc = IF resume THEN "track" ELSE "leg"]
  /\ UNCHANGED <<slewSpeed, nudgeVars>>

Leg(t) ==
  /\ At(t, "leg")
  /\ IF th[t].ret = {} /\ th[t].leg = 1
     THEN th' = [th EXCEPT ![t].pc = "goto", ![t].leg = 2]
     ELSE Done(t, th[t].ret)
  /\ UNCHANGED <<axisVars, status, nudgeVars, mutex>>

-----------------------------------------------------------------------------
(* startTracking: the status is looked at before the mutex is taken.  Its  *)
(* result counts only when it was asked for, not inside a goto or nudge.   *)

StartTracking(t) ==
  /\ At(t, "track")
  /\ IF status = {} THEN Goto(t, "track_lock")
     ELSE IF th[t].job.op = "track" THEN Done(t, Error)
     ELSE Goto(t, th[t].next)
  /\ UNCHANGED <<axisVars, status, nudgeVars, mutex>>

\* Fault: the mutex is not taken.
TrackRaUnlocked(t) ==
  /\ At(t, "track_lock")
  /\ Lock(t)
  /\ status' = {"TRACKING"}
  /\ ax' = [ax EXCEPT !.ra = Posted(@, Track("POSITIVE"))]
  /\ Goto(t, "track_dec")
  /\ UNCHANGED <<slewSpeed, nudgeVars>>

TrackRa(t) ==
  /\ At(t, "track_lock") /\ Free(t)
  /\ Lock(t)
  /\ status' = {"TRACKING"}
  /\ ax' = [ax EXCEPT !.ra = Posted(@, Track("POSITIVE"))]
  /\ Goto(t, "track_dec")
  /\ UNCHANGED <<slewSpeed, nudgeVars>>

TrackDec(t) ==
  /\ At(t, "track_dec")
  /\ ax' = [ax EXCEPT !.dec = Posted(@, Track("STOP"))]
  /\ Unlock
  /\ Goto(t, th[t].next)
  /\ UNCHANGED <<slewSpeed, status, nudgeVars>>

-----------------------------------------------------------------------------
(* stopTracking, stopAsync, emergencyStop, setSlewSpeed, guide.  What      *)
(* stopTracking returns the handler of `stop track` does not look at.      *)

StopTracking(t) ==
  /\ At(t, "stop_track")
  /\ IF "TRACKING" \in status THEN Goto(t, "stop_track_lock")
     ELSE Done(t, Error)
  /\ UNCHANGED <<axisVars, status, nudgeVars, mutex>>

StopTrackingLocked(t) ==
  /\ At(t, "stop_track_lock") /\ Free(t)
  /\ \/ /\ status = {"TRACKING"} /\ Lock(t)
        /\ th' = [th EXCEPT ![t].pc = "sync", ![t].next = "leave"]
     \/ status = {"TRACKING", "NUDGING"} /\ Lock(t) /\ Goto(t, "untrack")
     \/ /\ status \notin {{"TRACKING"}, {"TRACKING", "NUDGING"}}
        /\ Done(t, {}) /\ UNCHANGED mutex
  /\ UNCHANGED <<axisVars, status, nudgeVars>>

Untrack(t) ==
  /\ At(t, "untrack")
  /\ status' = {"NUDGING"}
  /\ Unlock
  /\ Done(t, {})
  /\ UNCHANGED <<axisVars, nudgeVars>>

StopAsyncStatus(t) ==
  /\ At(t, "stop_status")
  /\ status' = {}
  /\ Goto(t, th[t].next)
  /\ UNCHANGED <<axisVars, nudgeVars, mutex>>

\* Fault: the status is left as it was.
EmergencyStopStatusKept(t) ==
  /\ At(t, "estop_status")
  /\ curr_nudge_dir' = {}
  /\ Done(t, {})
  /\ UNCHANGED <<axisVars, status, nudgeSpeed, mutex>>

EmergencyStopStatus(t) ==
  /\ At(t, "estop_status")
  /\ status' = {} /\ curr_nudge_dir' = {}
  /\ Done(t, {})
  /\ UNCHANGED <<axisVars, nudgeSpeed, mutex>>

SetSlewSpeed(t) ==
  /\ At(t, "speed")
  /\ slewSpeed' = [slewSpeed EXCEPT !.ra = th[t].job.speed]
  /\ Goto(t, "speed_dec")
  /\ UNCHANGED <<ax, status, nudgeVars, mutex>>

SetSlewSpeedDec(t) ==
  /\ At(t, "speed_dec")
  /\ slewSpeed' = [slewSpeed EXCEPT !.dec = th[t].job.speed]
  /\ nudgeSpeed' = th[t].job.speed
  /\ Done(t, {})
  /\ UNCHANGED <<ax, status, curr_nudge_dir, mutex>>

\* The pulse goes to an axis; see module Axis.
Guide(t) ==
  /\ At(t, "guide")
  /\ Done(t, IF status = {"TRACKING"} THEN {} ELSE {"osErrorResource"})
  /\ UNCHANGED <<axisVars, status, nudgeVars, mutex>>

-----------------------------------------------------------------------------
(* startNudge.                                                             *)

Nudge(t) ==
  /\ At(t, "nudge")
  /\ IF "SLEWING" \in status THEN Done(t, Error) ELSE Goto(t, "nudge_lock")
  /\ UNCHANGED <<axisVars, status, nudgeVars, mutex>>

\* NUDGE_NONE: stopAsync, and back to tracking if that is where it began.
StopNudge(t) ==
  /\ At(t, "nudge_lock") /\ th[t].job.dirs = {} /\ Free(t)
  /\ \/ /\ "NUDGING" \notin status
        /\ Done(t, {}) /\ UNCHANGED mutex
     \/ /\ "NUDGING" \in status /\ Lock(t)
        /\ th' = [th EXCEPT ![t].pc = "stop",
             ![t].next = IF "TRACKING" \in status THEN "resume" ELSE "leave"]
  /\ UNCHANGED <<axisVars, status, nudgeVars>>

ResumeTracking(t) ==
  /\ At(t, "resume")
  /\ slewSpeed' = [slewSpeed EXCEPT !.ra = nudgeSpeed]
  /\ th' = [th EXCEPT ![t].pc = "track", ![t].next = "leave"]
  /\ UNCHANGED <<ax, status, nudgeVars, mutex>>

Leave(t) ==
  /\ At(t, "leave")
  /\ Unlock
  /\ Done(t, {})
  /\ UNCHANGED <<axisVars, status, nudgeVars>>

\* Direction of each axis: "same" when nothing has changed for it.
RaDir(old, new) ==
  CASE old \cap RaNudges = new \cap RaNudges -> "same"
    [] OTHER -> IF "EAST" \in new THEN "NEGATIVE"
                ELSE IF "WEST" \in new THEN "POSITIVE" ELSE "STOP"

DecDir(old, new) ==
  CASE old \cap DecNudges = new \cap DecNudges -> "same"
    [] OTHER -> IF "NORTH" \in new THEN "POSITIVE"
                ELSE IF "SOUTH" \in new THEN "NEGATIVE" ELSE "STOP"

StartNudge(t) ==
  /\ At(t, "nudge_lock") /\ th[t].job.dirs # {} /\ Free(t)
  /\ Lock(t)
  /\ LET old == IF "NUDGING" \in status THEN curr_nudge_dir ELSE {}
         new == th[t].job.dirs
     IN  th' = [th EXCEPT ![t].pc = "look_ra",
           ![t].dir = [ra |-> RaDir(old, new), dec |-> DecDir(old, new)]]
  /\ nudgeSpeed' = IF "NUDGING" \in status THEN nudgeSpeed ELSE slewSpeed.dec
  /\ curr_nudge_dir' = th[t].job.dirs
  /\ UNCHANGED <<axisVars, status>>

\* The queue of an axis for which something changes is emptied, and the axis is
\* looked at: one that slows down in the direction wanted keeps its speed, any
\* other is stopped.  Neither is waited for.
Look(t, x) ==
  LET dir == th[t].dir[x]
      keeps == ax[x].slewState = "DECELERATING" /\ ax[x].dir = dir
  IN  /\ At(t, IF x = "ra" THEN "look_ra" ELSE "look_dec")
      /\ \/ /\ dir = "same" /\ UNCHANGED ax
            /\ Goto(t, IF x = "ra" THEN "look_dec" ELSE "start_dec")
         \/ /\ dir # "same" /\ ax[x].queue # <<>>
            /\ ax' = [ax EXCEPT ![x].queue = Tail(@)]
            /\ UNCHANGED th
         \/ /\ dir # "same" /\ ax[x].queue = <<>> /\ UNCHANGED ax
            /\ th' = [th EXCEPT ![t].axis = x,
                 ![t].pc = CASE keeps /\ x = "ra" -> "keep_ra"
                             [] keeps /\ x = "dec" -> "keep_dec"
                             [] ~keeps /\ x = "ra" -> "act_ra"
                             [] ~keeps /\ x = "dec" -> "act_dec"]
      /\ UNCHANGED <<slewSpeed, status, nudgeVars, mutex>>

\* stopKeepSpeed
Keep(t, x) ==
  /\ At(t, IF x = "ra" THEN "keep_ra" ELSE "keep_dec")
  /\ ax' = [ax EXCEPT ![x] = Flagged(@, "STOP_KEEPSPEED")]
  /\ th' = [th EXCEPT ![t].axis = "ra",
                      ![t].pc = IF x = "ra" THEN "look_dec" ELSE "start_dec"]
  /\ UNCHANGED <<slewSpeed, status, nudgeVars, mutex>>

NudgeDec(t) ==
  /\ At(t, "start_dec")
  /\ ax' = IF th[t].dir.dec \in {"same", "STOP"} THEN ax
           ELSE [ax EXCEPT !.dec = Posted(@, Indefinite(th[t].dir.dec))]
  /\ Goto(t, IF th[t].dir.ra = "same" THEN "see_status" ELSE "see_ra")
  /\ UNCHANGED <<slewSpeed, status, nudgeVars, mutex>>

\* The status is looked at for RA, and once more for the status to come.
SeeStatus(t) ==
  /\ \E point \in {"see_ra", "see_status"} : At(t, point)
  /\ th' = [th EXCEPT ![t].was = "TRACKING" \in status,
       ![t].pc = IF th[t].pc = "see_ra" THEN "start_ra" ELSE "nudge_status"]
  /\ UNCHANGED <<axisVars, status, nudgeVars, mutex>>

\* The speed of RA that adds the nudge to the tracking, 0 when they cancel:
\* then RA is not started.
RaSpeed(d) ==
  IF d = "POSITIVE" THEN nudgeSpeed + TrackSpeed
  ELSE IF nudgeSpeed < TrackSpeed THEN TrackSpeed - nudgeSpeed
  ELSE nudgeSpeed - TrackSpeed

RaTurn(d) ==
  IF d = "NEGATIVE" /\ nudgeSpeed > TrackSpeed THEN "NEGATIVE" ELSE "POSITIVE"

RaPost(m, speed) ==
  /\ ax' = [ax EXCEPT !.ra = Posted(@, m)]
  /\ slewSpeed' = [slewSpeed EXCEPT !.ra = speed]

NudgeRa(t) ==
  LET d == th[t].dir.ra
  IN  /\ At(t, "start_ra")
      /\ \/ d # "STOP" /\ th[t].was /\ RaSpeed(d) # 0
              /\ RaPost(Indefinite(RaTurn(d)), RaSpeed(d))
         \/ d # "STOP" /\ th[t].was /\ RaSpeed(d) = 0 /\ UNCHANGED axisVars
         \/ d # "STOP" /\ ~th[t].was /\ RaPost(Indefinite(d), slewSpeed.ra)
         \/ d = "STOP" /\ th[t].was /\ RaPost(Track("POSITIVE"), slewSpeed.ra)
         \/ d = "STOP" /\ ~th[t].was /\ UNCHANGED axisVars
      /\ Goto(t, "see_status")
      /\ UNCHANGED <<status, nudgeVars, mutex>>

NudgeStatus(t) ==
  /\ At(t, "nudge_status")
  /\ status' = IF th[t].was THEN {"TRACKING", "NUDGING"} ELSE {"NUDGING"}
  /\ Unlock
  /\ Done(t, {})
  /\ UNCHANGED <<axisVars, nudgeVars>>

-----------------------------------------------------------------------------
AxisStep(x) ==
  /\ \E a \in TaskSteps(ax[x]) : ax' = [ax EXCEPT ![x] = a]
  /\ UNCHANGED <<slewSpeed, status, nudgeVars, mutex, th>>

ThreadStep(t) ==
  \/ Flush(t) \/ Flag(t)
  \/ GoTo(t) \/ StopSync(t) \/ SlewRa(t) \/ SlewDec(t) \/ WaitRa(t)
  \/ WaitDec(t) \/ Leg(t)
  \/ StartTracking(t) \/ TrackRa(t) \/ TrackDec(t)
  \/ StopTracking(t) \/ StopTrackingLocked(t) \/ Untrack(t)
  \/ StopAsyncStatus(t) \/ EmergencyStopStatus(t)
  \/ SetSlewSpeed(t) \/ SetSlewSpeedDec(t) \/ Guide(t)
  \/ Nudge(t) \/ StopNudge(t) \/ ResumeTracking(t) \/ Leave(t)
  \/ StartNudge(t) \/ NudgeDec(t) \/ SeeStatus(t) \/ NudgeRa(t)
  \/ NudgeStatus(t)
  \/ \E x \in Axes : Look(t, x) \/ Keep(t, x)

\* The constructor has started tracking.
MountInit ==
  /\ ax = [x \in Axes |-> [Rest EXCEPT !.status = "TRACKING", !.run = "track",
             !.cmd = Track(IF x = "ra" THEN "POSITIVE" ELSE "STOP")]]
  /\ status = {"TRACKING"} /\ curr_nudge_dir = {} /\ nudgeSpeed = 0
  /\ slewSpeed = [x \in Axes |-> FirstSpeed]
  /\ mutex = [owner |-> NoThread, count |-> 0]
  /\ th = [t \in Threads |-> NoWork]
=============================================================================
