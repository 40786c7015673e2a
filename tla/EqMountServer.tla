--------------------------- MODULE EqMountServer ---------------------------
(***************************************************************************)
(* The command servers: EqMountServer.cpp, one server a serial line        *)
(* (telescope_hardware.cpp), all bound to one mount.  A server is a reader *)
(* (task_thread), which takes a line at a time and runs the commands that  *)
(* "can return immediately" itself, and a worker, the dispatcher of its    *)
(* EventQueue, which runs the others in the order they were called.  When  *)
(* the queue is full the reader tries again every 100 ms, and reads        *)
(* nothing meanwhile.                                                      *)
(*                                                                         *)
(* A line that names no command is dropped without an answer; what the     *)
(* others ask for is in module Commands.  That the reader and the worker   *)
(* share the stream they write to is in module UsbSerial.                  *)
(***************************************************************************)
EXTENDS EquatorialMount

CONSTANTS
  Servers,
  Lines,         \* what each may be sent
  EvqSize,       \* events an EventQueue has room for
  MaxCommands    \* bound: lines that arrive

ASSUME ServerAssumption ==
  /\ EvqSize \in Nat \ {0} /\ MaxCommands \in Nat
  /\ Threads = Servers \X {"reader", "worker"}

VARIABLES
  evq,        \* called and not yet dispatched, by server
  lines,      \* lines read
  accepted,   \* commands found in the list, by server
  answered,   \* answers sent, by server
  estopped,   \* emergency stop answered, and no line read since
  cut         \* axes on which a stop has ended a slew of the goto under way

callVars == <<evq, lines, accepted, answered, estopped>>
serverVars == <<callVars, cut>>
vars == <<mountVars, serverVars>>

Reader(s) == <<s, "reader">>
Worker(s) == <<s, "worker">>

-----------------------------------------------------------------------------
\* A command that is not immediate waits for a place at "call".
Read(s) ==
  LET t == Reader(s)
  IN  /\ At(t, "idle") /\ lines < MaxCommands
      /\ lines' = lines + 1
      /\ \E line \in Lines[s] :
           \/ line.cmd \notin Known /\ UNCHANGED <<th, accepted>>
           \/ /\ line.cmd \in Known
              /\ accepted' = [accepted EXCEPT ![s] = @ + 1]
              /\ th' = [th EXCEPT ![t] =
                   IF line.cmd \in Immediate THEN Work(JobOf(line))
                   ELSE [NoWork EXCEPT !.pc = "call", !.job = JobOf(line)]]
      /\ estopped' = FALSE
      /\ UNCHANGED <<ax, status, curr_nudge_dir, nudgeSpeed, slewSpeed, mutex,
                     evq, answered, cut>>

\* An event keeps its place until it has been run.
Places(s) == Len(evq[s]) + (IF th[Worker(s)].pc = "idle" THEN 0 ELSE 1)

\* Fault: the command is given up when the queue is full.
CallOnce(s) ==
  /\ At(Reader(s), "call")
  /\ evq' = IF Places(s) < EvqSize
            THEN [evq EXCEPT ![s] = Append(@, th[Reader(s)].job)] ELSE evq
  /\ th' = [th EXCEPT ![Reader(s)] = NoWork]
  /\ UNCHANGED <<ax, status, curr_nudge_dir, nudgeSpeed, slewSpeed, mutex,
                 lines, accepted, answered, estopped, cut>>

\* Fault: one event too many.
CallOverfull(s) ==
  /\ At(Reader(s), "call")
  /\ Places(s) <= EvqSize
  /\ evq' = [evq EXCEPT ![s] = Append(@, th[Reader(s)].job)]
  /\ th' = [th EXCEPT ![Reader(s)] = NoWork]
  /\ UNCHANGED <<ax, status, curr_nudge_dir, nudgeSpeed, slewSpeed, mutex,
                 lines, accepted, answered, estopped, cut>>

\* queue.call, tried again until there is a place.
Call(s) ==
  /\ At(Reader(s), "call")
  /\ Places(s) < EvqSize
  /\ evq' = [evq EXCEPT ![s] = Append(@, th[Reader(s)].job)]
  /\ th' = [th EXCEPT ![Reader(s)] = NoWork]
  /\ UNCHANGED <<ax, status, curr_nudge_dir, nudgeSpeed, slewSpeed, mutex,
                 lines, accepted, answered, estopped, cut>>

Dispatch(s) ==
  /\ At(Worker(s), "idle") /\ evq[s] # <<>>
  /\ th' = [th EXCEPT ![Worker(s)] = Work(Head(evq[s]))]
  /\ evq' = [evq EXCEPT ![s] = Tail(@)]
  /\ UNCHANGED <<ax, status, curr_nudge_dir, nudgeSpeed, slewSpeed, mutex,
                 lines, accepted, answered, estopped, cut>>

\* Commands that do not touch the axes, and those that are refused.
Ask(t) ==
  /\ \E op \in AlignOps \cup {"ask"} : At(t, op)
  /\ Done(t, th[t].job.ret)
  /\ UNCHANGED <<ax, status, curr_nudge_dir, nudgeSpeed, slewSpeed, mutex,
                 serverVars>>

\* The return status goes back on the stream of the thread's server.
Answer(t) ==
  /\ At(t, "done")
  /\ answered' = [answered EXCEPT ![t[1]] = @ + 1]
  /\ estopped' = (th[t].job.op = "estop")
  /\ th' = [th EXCEPT ![t] = NoWork]
  /\ UNCHANGED <<ax, status, curr_nudge_dir, nudgeSpeed, slewSpeed, mutex,
                 evq, lines, accepted, cut>>

Init ==
  /\ MountInit
  /\ evq = [s \in Servers |-> <<>>] /\ lines = 0
  /\ accepted = [s \in Servers |-> 0] /\ answered = [s \in Servers |-> 0]
  /\ estopped = FALSE /\ cut = {}

\* The task takes a stop during the slew of a goto.
CutShort(a, b) ==
  /\ a.cmd.signal = "SLEW_TO" /\ a.run \in {"slew", "decel", "correct"}
  /\ (a.flags \ b.flags) \cap Stops # {}

LegEnds(t) == th[t].pc = "wait_dec" /\ th'[t].pc # "wait_dec"

Mount ==
  /\ (\E x \in Axes : AxisStep(x)) \/ (\E t \in Threads : ThreadStep(t))
  /\ cut' = IF \E t \in Threads : LegEnds(t) THEN {}
            ELSE cut \cup {x \in Axes : CutShort(ax[x], ax'[x])}
  /\ UNCHANGED callVars

Next ==
  \/ Mount
  \/ \E s \in Servers : Read(s) \/ Call(s) \/ Dispatch(s)
  \/ \E t \in Threads : Ask(t) \/ Answer(t)

Spec == Init /\ [][Next]_vars

-----------------------------------------------------------------------------
(* Properties.                                                             *)

\* Types of the mount and the servers.
MountTypeOK ==
  /\ \A x \in Axes :
       /\ ax[x].flags \subseteq Stops \cup {"STOP_KEEPSPEED"}
       /\ ax[x].status \in {"STOPPED", "SLEWING", "TRACKING", "INERTIAL"}
       /\ ax[x].sem \in {0, 1} /\ Len(ax[x].queue) <= 16
  /\ status \subseteq Bits /\ slewSpeed \in [Axes -> Nat]
  /\ status \in {{}, {"SLEWING"}, {"TRACKING"}, {"NUDGING"},
                 {"TRACKING", "NUDGING"}}
  /\ curr_nudge_dir \subseteq RaNudges \cup DecNudges
  /\ mutex.owner \in Threads \cup {NoThread} /\ mutex.count \in Nat
  /\ \A s \in Servers : Len(evq[s]) <= EvqSize

\* How often a thread has taken mutex_execution at the point it is at.
Depth(t) ==
  LET nested == IF th[t].next \in {"resume", "leave"} THEN 1 ELSE 0
  IN  CASE th[t].pc \in {"sync", "sync_stop", "slew", "slew_dec", "wait_ra",
                         "wait_dec", "look_ra", "keep_ra", "act_ra",
                         "look_dec", "keep_dec", "act_dec", "start_dec",
                         "see_ra", "start_ra", "see_status", "nudge_status",
                         "resume", "leave", "untrack"} -> 1
        [] th[t].pc \in {"stop", "stop_status", "track", "track_lock"}
             -> nested
        [] th[t].pc = "track_dec" -> nested + 1
        [] OTHER -> 0

\* Every path through an operation, early returns and nested calls included,
\* gives mutex_execution back as often as it took it: the mutex is held by the
\* thread that is inside and as deep as it is, so that at most one is inside.
MutexDiscipline ==
  \A t \in Threads :
    Depth(t) = IF mutex.owner = t THEN mutex.count ELSE 0

AllIdle == \A t \in Threads : th[t].pc = "idle"

\* A mount that says it is tracking, with nobody about to change that, has
\* its RA axis tracking, or about to: whatever stops, nudges and gotos went
\* before.  An axis left inertial, which refuses to track, is let out: see
\* the run axis_inertial_stop.
TrackingIsReal ==
  (AllIdle /\ MayRun /\ status = {"TRACKING"}) =>
    \/ ax.ra.run = "track"
    \/ \E i \in DOMAIN ax.ra.queue : ax.ra.queue[i].signal = "TRACK"
    \/ ax.ra.status = "INERTIAL"

\* While a goto waits for its slews nothing is behind them that would start
\* when they end: trackings and nudges wait for the mutex, and stops flush.
GotoIsLast ==
  (\E t \in Threads : th[t].pc \in {"wait_ra", "wait_dec"}) =>
    \A x \in Axes : ax[x].queue # <<>> =>
      ax[x].queue[Len(ax[x].queue)].signal = "SLEW_TO"

\* A leg of a goto is over when both slews are, with nothing left to run, and
\* counts as done only if neither slew took a stop: a stop of either axis, by
\* whichever thread, is the result of the goto (Axis.h:127-133,
\* EquatorialMount.cpp:88-101).  A slew that is refused or skipped takes none,
\* and leaves the result of the slew before it.
GotoEnds ==
  [][\A t \in Threads :
       LegEnds(t) =>
         /\ \A x \in Axes : ax[x].run = "fetch" /\ ax[x].queue = <<>>
         /\ th'[t].ret = {} => cut = {}
    ]_vars

\* Every command that was accepted is with exactly one thread or in the queue
\* until it is answered, and answered once.
EachAnsweredOnce ==
  \A s \in Servers :
    accepted[s] = answered[s] + Len(evq[s])
      + Cardinality({t \in {Reader(s), Worker(s)} : th[t].pc # "idle"})

\* emergencyStop is there "to perform a hard stop of the mount"
\* (EquatorialMount.h:201): once an emergency stop is answered, and no line has
\* been read since, no axis moves.
EstopHolds ==
  estopped => \A x \in Axes : ax[x].run \notin {"slew", "track", "correct"}
=============================================================================
