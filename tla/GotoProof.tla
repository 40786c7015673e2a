----------------------------- MODULE GotoProof -----------------------------
(***************************************************************************)
(* Theorems about gotos: what a thread that waits for its two slews may    *)
(* rely on.  It rests on MountProof: from its first slew to its last wait  *)
(* a goto holds the mutex, all that post to an axis hold it too, and the   *)
(* stops, which do not, only flush and set flags.  So the slew of a goto   *)
(* is the only one an axis knows of (Slewing), and nothing comes after it. *)
(***************************************************************************)
EXTENDS MountProof, SequenceTheorems

AxisFields == {"queue", "flags", "run", "cmd", "status", "dir", "slewState",
               "sem", "result"}

MsgFields == {"signal", "dir", "withCorrection", "valid"}

Runs == {"fetch", "begin", "slew", "stop", "decel", "over", "correct",
         "track", "track_end"}

Messages(q) ==
  /\ \E S : q \in Seq(S)
  /\ \A i \in 1..Len(q) : DOMAIN q[i] = MsgFields

AxisShape(a) ==
  /\ DOMAIN a = AxisFields /\ DOMAIN a.cmd = MsgFields
  /\ a.run \in Runs /\ Messages(a.queue)

IsGoto(m) == m.signal = "SLEW_TO"

\* No goto in the queue nor in hand.
Clear(a) ==
  ~IsGoto(a.cmd) /\ \A i \in 1..Len(a.queue) : ~IsGoto(a.queue[i])

Queued(a) ==
  /\ a.queue # <<>> /\ IsGoto(a.queue[Len(a.queue)])
  /\ \A i \in 1..(Len(a.queue) - 1) : ~IsGoto(a.queue[i])
  /\ ~IsGoto(a.cmd) /\ a.sem = 0

Doing(a) ==
  a.queue = <<>> /\ IsGoto(a.cmd) /\ a.run # "fetch" /\ a.sem = 0

SlewDone(a) ==
  a.queue = <<>> /\ ~IsGoto(a.cmd) /\ a.run = "fetch" /\ a.sem = 1

\* The slew was flushed: nobody will release the semaphore.
Lost(a) == a.queue = <<>> /\ ~IsGoto(a.cmd) /\ a.sem = 0

Slewing(a) == Queued(a) \/ Doing(a) \/ SlewDone(a) \/ Lost(a)

-----------------------------------------------------------------------------
(* What steps do to an axis.                                               *)

\* A flag, a message flushed, or nothing: all that a stop does in a step.
Quiet(a, b) ==
  /\ DOMAIN b = DOMAIN a /\ b.run = a.run /\ b.cmd = a.cmd /\ b.sem = a.sem
  /\ b.result = a.result /\ a.flags \subseteq b.flags
  /\ \/ b.queue = a.queue
     \/ a.queue # <<>> /\ b.queue = Tail(a.queue)

LEMMA EmptyMessages == Messages(<<>>)
<1>1. <<>> \in Seq({}) OBVIOUS
<1>2. Len(<<>>) = 0 OBVIOUS
<1>3. \A i \in 1..0 : FALSE OBVIOUS
<1> QED BY <1>1, <1>2, <1>3 DEF Messages

\* What is left of a queue when its first message goes.
LEMMA TailMessages ==
  ASSUME NEW q, Messages(q), q # <<>>
  PROVE  /\ Messages(Tail(q)) /\ Len(q) \in Nat \ {0}
         /\ Len(Tail(q)) = Len(q) - 1 /\ Head(q) = q[1]
         /\ \A i \in 1..(Len(q) - 1) :
              Tail(q)[i] = q[i + 1] /\ i + 1 \in 1..Len(q)
         /\ Tail(q) = <<>> <=> Len(q) = 1
<1>1. PICK S : q \in Seq(S) BY DEF Messages
<1>2. /\ Tail(q) \in Seq(S) /\ Len(q) \in Nat \ {0}
      /\ Len(Tail(q)) = Len(q) - 1 /\ Head(q) = q[1]
      /\ \A i \in 1..(Len(q) - 1) : Tail(q)[i] = q[i + 1]
  BY <1>1
<1>3. \A i \in 1..(Len(q) - 1) : i + 1 \in 1..Len(q) BY <1>2
<1>4. Messages(Tail(q)) BY <1>2, <1>3 DEF Messages
<1>5. Len(q) = 1 => Tail(q) = <<>>
  <2>1. ASSUME NEW r \in Seq(S), Len(r) = 0 PROVE r = <<>>
    <3>1. Len(r) \notin Nat \ {0} BY <2>1
    <3> QED BY <3>1, EmptySeq
  <2>2. Len(q) = 1 => Len(Tail(q)) = 0 BY <1>2
  <2> QED BY <1>2, <2>1, <2>2
<1>6. Len(q) # 1 => Tail(q) # <<>>
  <2>1. Len(<<>>) = 0 OBVIOUS
  <2> QED BY <1>2, <2>1
<1> QED BY <1>2, <1>3, <1>4, <1>5, <1>6

\* A goto that is the last stays the last.
LEMMA TailIsLast ==
  ASSUME NEW q, Messages(q), q # <<>>, IsGoto(q[Len(q)]),
         \A i \in 1..(Len(q) - 1) : ~IsGoto(q[i]), Len(q) # 1
  PROVE  LET r == Tail(q)
         IN  /\ r # <<>> /\ IsGoto(r[Len(r)])
             /\ \A i \in 1..(Len(r) - 1) : ~IsGoto(r[i])
<1>1. /\ Len(q) \in Nat \ {0} /\ Len(Tail(q)) = Len(q) - 1
      /\ Tail(q) # <<>>
      /\ \A i \in 1..(Len(q) - 1) : Tail(q)[i] = q[i + 1]
  BY TailMessages
<1>2. /\ Len(q) - 1 \in 1..(Len(q) - 1)
      /\ \A i \in 1..(Len(q) - 2) : /\ i + 1 \in 1..(Len(q) - 1)
                                     /\ i \in 1..(Len(q) - 1)
  BY <1>1
<1>3. Tail(q)[Len(q) - 1] = q[Len(q)] BY <1>1, <1>2
<1>4. \A i \in 1..(Len(q) - 2) : ~IsGoto(Tail(q)[i]) BY <1>1, <1>2
<1>5. Len(Tail(q)) - 1 = Len(q) - 2 BY <1>1
<1> QED BY <1>1, <1>3, <1>4, <1>5

LEMMA QuietKeeps ==
  ASSUME NEW a, NEW b, AxisShape(a), Quiet(a, b)
  PROVE  /\ AxisShape(b)
         /\ Clear(a) => Clear(b)
         /\ Slewing(a) => Slewing(b)
<1> DEFINE q == a.queue
<1>1. CASE b.queue = q
  <2>1. AxisShape(b) BY <1>1 DEF AxisShape, Quiet
  <2>2. Clear(a) => Clear(b) BY <1>1 DEF Clear, Quiet
  <2>3. Slewing(a) => Slewing(b)
    BY <1>1 DEF Slewing, Queued, Doing, SlewDone, Lost, Quiet
  <2> QED BY <2>1, <2>2, <2>3
<1>2. CASE q # <<>> /\ b.queue = Tail(q)
  <2>1. Messages(q) BY DEF AxisShape
  <2>2. b.cmd = a.cmd /\ b.sem = a.sem BY DEF Quiet
  <2>3. /\ IF Slewing(a)
           THEN /\ IsGoto(q[Len(q)]) /\ ~IsGoto(a.cmd) /\ a.sem = 0
                /\ \A i \in 1..(Len(q) - 1) : ~IsGoto(q[i])
           ELSE TRUE
        /\ Clear(a) => ~IsGoto(a.cmd) /\ \A i \in 1..Len(q) : ~IsGoto(q[i])
    BY <1>2 DEF Slewing, Queued, Doing, SlewDone, Lost, Clear
  <2>4. AxisShape(b)
    <3> HIDE DEF q
    <3>1. Messages(Tail(q)) BY <1>2, <2>1, TailMessages
    <3> QED BY <1>2, <3>1 DEF AxisShape, Quiet
  <2> HIDE DEF q
  <2>5. /\ Len(Tail(q)) = Len(q) - 1
        /\ \A i \in 1..(Len(q) - 1) :
             Tail(q)[i] = q[i + 1] /\ i + 1 \in 1..Len(q)
        /\ Tail(q) = <<>> <=> Len(q) = 1
    BY <1>2, <2>1, TailMessages
  <2>6. Clear(a) => Clear(b) BY <1>2, <2>2, <2>3, <2>5 DEF Clear
  <2>7. Slewing(a) => Slewing(b)
    <3> SUFFICES ASSUME Slewing(a) PROVE Slewing(b)
      OBVIOUS
    <3>1. CASE Len(q) = 1
      BY <1>2, <2>2, <2>3, <2>5, <3>1 DEF Lost, Slewing
    <3>2. CASE Len(q) # 1
      <4>1. /\ Tail(q) # <<>> /\ IsGoto(Tail(q)[Len(Tail(q))])
            /\ \A i \in 1..(Len(Tail(q)) - 1) : ~IsGoto(Tail(q)[i])
        BY <1>2, <2>1, <2>3, <3>2, TailIsLast
      <4> QED BY <1>2, <2>2, <2>3, <4>1 DEF Queued, Slewing
    <3> QED BY <3>1, <3>2
  <2> QED BY <2>4, <2>6, <2>7
<1> QED BY <1>1, <1>2 DEF Quiet

\* An axis whose first message is flushed.
Shorter(a) == [a EXCEPT !.queue = Tail(@)]

LEMMA StopsAreQuiet ==
  ASSUME NEW a, AxisShape(a), NEW f
  PROVE  /\ Quiet(a, a) /\ Quiet(a, Flagged(a, f))
         /\ a.queue # <<>> => Quiet(a, Shorter(a))
<1>0. DOMAIN a = AxisFields BY DEF AxisShape
<1>1. Quiet(a, a) BY DEF Quiet
<1>2. Quiet(a, Flagged(a, f))
  <2> DEFINE b == Flagged(a, f)
  <2>1. /\ DOMAIN b = AxisFields /\ b.run = a.run /\ b.cmd = a.cmd
        /\ b.sem = a.sem /\ b.result = a.result /\ b.queue = a.queue
        /\ b.flags = a.flags \cup {f}
    BY <1>0 DEF AxisFields, Flagged
  <2> HIDE DEF b
  <2>2. a.flags \subseteq b.flags BY <2>1
  <2> QED BY <1>0, <2>1, <2>2 DEF Quiet, b
<1>3. a.queue # <<>> => Quiet(a, Shorter(a))
  <2> DEFINE b == Shorter(a)
  <2>1. /\ DOMAIN b = AxisFields /\ b.run = a.run /\ b.cmd = a.cmd
        /\ b.sem = a.sem /\ b.result = a.result /\ b.flags = a.flags
        /\ b.queue = Tail(a.queue)
    BY <1>0 DEF AxisFields, Shorter
  <2> HIDE DEF b
  <2>2. a.flags \subseteq b.flags BY <2>1
  <2> QED BY <1>0, <2>1, <2>2 DEF Quiet, b
<1> QED BY <1>1, <1>2, <1>3

LEMMA AppendMessages ==
  ASSUME NEW q, Messages(q), NEW m, DOMAIN m = MsgFields
  PROVE  /\ Messages(Append(q, m)) /\ Append(q, m) # <<>>
         /\ Len(Append(q, m)) = Len(q) + 1 /\ Len(q) \in Nat
         /\ Append(q, m)[Len(q) + 1] = m
         /\ \A i \in 1..Len(q) : Append(q, m)[i] = q[i]
<1>1. PICK S : q \in Seq(S) BY DEF Messages
<1>2. q \in Seq(S \cup {m}) /\ m \in S \cup {m} BY <1>1
<1>3. Append(q, m) \in Seq(S \cup {m}) BY <1>2
<1>4. /\ Len(Append(q, m)) = Len(q) + 1 /\ Len(q) \in Nat
      /\ Append(q, m)[Len(q) + 1] = m
      /\ \A i \in 1..Len(q) : Append(q, m)[i] = q[i]
  BY <1>2
<1>5. Append(q, m) # <<>> BY <1>2
<1>6. \A i \in 1..(Len(q) + 1) : i \in 1..Len(q) \/ i = Len(q) + 1
  BY <1>4
<1>7. \A i \in 1..(Len(q) + 1) : DOMAIN Append(q, m)[i] = MsgFields
  BY <1>4, <1>6 DEF Messages
<1> QED BY <1>3, <1>4, <1>5, <1>7 DEF Messages

LEMMA PostKeepsClear ==
  ASSUME NEW a, AxisShape(a), Clear(a), NEW m, DOMAIN m = MsgFields, ~IsGoto(m)
  PROVE  AxisShape(Posted(a, m)) /\ Clear(Posted(a, m))
<1> DEFINE b == Posted(a, m)
<1>1. /\ DOMAIN b = AxisFields /\ b.cmd = a.cmd /\ b.run = a.run
      /\ b.queue = Append(a.queue, m)
  BY DEF Posted, AxisShape, AxisFields
<1> HIDE DEF b
<1> DEFINE q == Append(a.queue, m)
<1>0. /\ Messages(q) /\ q # <<>> /\ Len(q) = Len(a.queue) + 1
      /\ Len(a.queue) \in Nat /\ q[Len(a.queue) + 1] = m
      /\ \A i \in 1..Len(a.queue) : q[i] = a.queue[i]
  <2>1. Messages(a.queue) BY DEF AxisShape
  <2> QED BY <2>1, AppendMessages
<1> HIDE DEF q
<1>2. /\ Messages(b.queue) /\ Len(b.queue) = Len(a.queue) + 1
      /\ Len(a.queue) \in Nat /\ b.queue[Len(a.queue) + 1] = m
      /\ \A i \in 1..Len(a.queue) : b.queue[i] = a.queue[i]
  BY <1>0, <1>1 DEF q
<1>3. \A i \in 1..Len(b.queue) : i \in 1..Len(a.queue) \/ i = Len(a.queue) + 1
  BY <1>2
<1>4. AxisShape(b) BY <1>1, <1>2 DEF AxisShape
<1>5. Clear(b) BY <1>1, <1>2, <1>3 DEF Clear
<1> QED BY <1>4, <1>5 DEF b

LEMMA SlewIsQueued ==
  ASSUME NEW a, AxisShape(a), Clear(a), NEW m, DOMAIN m = MsgFields, IsGoto(m)
  PROVE  AxisShape(SlewPosted(a, m)) /\ Slewing(SlewPosted(a, m))
<1> DEFINE b == SlewPosted(a, m)
<1>1. /\ DOMAIN b = AxisFields /\ b.cmd = a.cmd /\ b.run = a.run /\ b.sem = 0
      /\ b.queue = Append(a.queue, m)
  BY DEF SlewPosted, Posted, AxisShape, AxisFields
<1> HIDE DEF b
<1> DEFINE q == Append(a.queue, m)
<1>0. /\ Messages(q) /\ q # <<>> /\ Len(q) = Len(a.queue) + 1
      /\ Len(a.queue) \in Nat /\ q[Len(a.queue) + 1] = m
      /\ \A i \in 1..Len(a.queue) : q[i] = a.queue[i]
  <2>1. Messages(a.queue) BY DEF AxisShape
  <2> QED BY <2>1, AppendMessages
<1> HIDE DEF q
<1>2. /\ Messages(b.queue) /\ Len(b.queue) = Len(a.queue) + 1
      /\ b.queue # <<>> /\ Len(a.queue) \in Nat
      /\ b.queue[Len(a.queue) + 1] = m
      /\ \A i \in 1..Len(a.queue) : b.queue[i] = a.queue[i]
  BY <1>0, <1>1 DEF q
<1>3. 1..(Len(b.queue) - 1) = 1..Len(a.queue) BY <1>2
<1>4. AxisShape(b) BY <1>1, <1>2 DEF AxisShape
<1>5. Queued(b) BY <1>1, <1>2, <1>3 DEF Queued, Clear
<1> QED BY <1>4, <1>5 DEF b, Slewing

\* The task thread goes on within a command,
Inner(a, b) ==
  /\ a.run # "fetch" /\ b.run # "fetch" /\ b.queue = a.queue
  /\ b.cmd.signal = a.cmd.signal /\ b.sem = a.sem
  /\ b.cmd.withCorrection \in {a.cmd.withCorrection, FALSE}

\* takes the next one,
Fetched(a, b) ==
  /\ a.run = "fetch" /\ b.run = "begin" /\ a.queue # <<>>
  /\ b.cmd = Head(a.queue) /\ b.queue = Tail(a.queue) /\ b.sem = a.sem

\* or ends one, with the queue flushed if it stops the axis itself.
Ended(a, b) ==
  /\ a.run # "fetch" /\ b.run = "fetch" /\ b.queue \in {a.queue, <<>>}
  /\ b.cmd = Nothing /\ b.sem = IF IsGoto(a.cmd) THEN 1 ELSE a.sem

TaskShape(a) ==
  DOMAIN a = AxisFields /\ DOMAIN a.cmd = MsgFields /\ a.run \in Runs

LEMMA ReturnEnds ==
  ASSUME NEW a, DOMAIN a = AxisFields, a.run # "fetch"
  PROVE  Ended(a, Returned(a)) /\ TaskShape(Returned(a))
<1>1. DOMAIN Nothing = MsgFields BY DEF Nothing, MsgFields
<1>2. /\ DOMAIN Returned(a) = AxisFields /\ Returned(a).run = "fetch"
      /\ Returned(a).cmd = Nothing /\ Returned(a).queue = a.queue
      /\ Returned(a).sem = IF IsGoto(a.cmd) THEN 1 ELSE a.sem
  BY DEF Returned, AxisFields, IsGoto
<1> QED BY <1>1, <1>2 DEF Ended, TaskShape, Runs

\* What comes after the return, or before, leaves queue, command and semaphore.
Beside(a, b) ==
  /\ DOMAIN b = AxisFields /\ b.queue \in {a.queue, <<>>} /\ b.sem = a.sem
  /\ b.cmd = a.cmd /\ b.run = a.run

LEMMA BesideEnds ==
  ASSUME NEW a, NEW b, NEW c, DOMAIN a = AxisFields, a.run # "fetch",
         \/ Beside(Returned(a), b) /\ c = b
         \/ Beside(a, b) /\ c = Returned(b)
         \/ Beside(a, b) /\ Beside(Returned(b), c)
  PROVE  Ended(a, c) /\ TaskShape(c)
<1>1. CASE Beside(Returned(a), b) /\ c = b
  BY <1>1, ReturnEnds DEF Beside, Ended, TaskShape
<1>2. CASE Beside(a, b) /\ c = Returned(b)
  BY <1>2, ReturnEnds DEF Beside, Ended, TaskShape
<1>3. CASE Beside(a, b) /\ Beside(Returned(b), c)
  BY <1>3, ReturnEnds DEF Beside, Ended, TaskShape
<1> QED BY <1>1, <1>2, <1>3

\* A change of flags, status, direction, slew state, result or run.
Touched(a, b) ==
  /\ DOMAIN b = AxisFields /\ b.queue = a.queue /\ b.sem = a.sem
  /\ b.cmd = a.cmd /\ b.run \in Runs \ {"fetch"}

LEMMA TouchedIsInner ==
  ASSUME NEW a, NEW b, TaskShape(a), a.run # "fetch", Touched(a, b)
  PROVE  Inner(a, b) /\ TaskShape(b)
  BY DEF TaskShape, Touched, Inner

LEMMA UncorrectedIs ==
  ASSUME NEW a, TaskShape(a)
  PROVE  LET b == Uncorrected(a)
         IN  /\ TaskShape(b) /\ b.cmd.signal = a.cmd.signal
             /\ b.cmd.withCorrection = FALSE
             /\ b.queue = a.queue /\ b.sem = a.sem /\ b.run = a.run
  BY DEF TaskShape, Uncorrected, AxisFields, MsgFields

\* Every step of the task thread is one of the three.
TaskMoves(a, b) ==
  TaskShape(b) /\ (Inner(a, b) \/ Fetched(a, b) \/ Ended(a, b))

LEMMA FetchMoves ==
  ASSUME NEW a, AxisShape(a), a.run = "fetch", NEW b \in Fetches(a)
  PROVE  TaskMoves(a, b)
<1>1. a.queue # <<>> BY DEF Fetches
<1>2. b = [a EXCEPT !.cmd = Head(a.queue), !.queue = Tail(a.queue),
                    !.run = "begin"]
  BY DEF Fetches
<1>3. /\ DOMAIN b = AxisFields /\ b.cmd = Head(a.queue)
      /\ b.queue = Tail(a.queue) /\ b.run = "begin" /\ b.sem = a.sem
  BY <1>2 DEF AxisShape, AxisFields
<1>4. DOMAIN Head(a.queue) = MsgFields
  <2>1. PICK S : a.queue \in Seq(S) BY DEF AxisShape, Messages
  <2>2. Head(a.queue) = a.queue[1] /\ 1 \in 1..Len(a.queue)
    BY <1>1, <2>1
  <2> QED BY <2>2 DEF AxisShape, Messages
<1> QED BY <1>1, <1>3, <1>4 DEF TaskMoves, TaskShape, Fetched, Runs

LEMMA BeginMoves ==
  ASSUME NEW a, AxisShape(a), a.run = "begin", NEW b \in Begins(a)
  PROVE  TaskMoves(a, b)
<1>1. TaskShape(a) /\ a.run # "fetch" BY DEF AxisShape, TaskShape
<1>2. CASE b = Returned(a)
  BY <1>1, <1>2, ReturnEnds DEF TaskMoves, TaskShape
<1>3. CASE b \in TrackBegins(a)
  <2>1. Touched(a, b)
    BY <1>1, <1>3 DEF TrackBegins, Touched, TaskShape, AxisFields, Runs
  <2> QED BY <1>1, <2>1, TouchedIsInner DEF TaskMoves
<1>4. CASE b \in SlewBegins(a)
  <2>1. Touched(a, b)
    BY <1>1, <1>4 DEF SlewBegins, Touched, TaskShape, AxisFields, Runs
  <2> QED BY <1>1, <2>1, TouchedIsInner DEF TaskMoves
<1> QED BY <1>2, <1>3, <1>4 DEF Begins

LEMMA SlewMoves ==
  ASSUME NEW a, AxisShape(a), a.run # "fetch",
         NEW b \in Slews(a) \cup StopsRunning(a) \cup Corrects(a)
                   \cup TracksOn(a)
  PROVE  TaskMoves(a, b)
<1>1. TaskShape(a) BY DEF AxisShape, TaskShape
<1>2. CASE Touched(a, b)
  BY <1>1, <1>2, TouchedIsInner DEF TaskMoves
<1>3. CASE Touched(Uncorrected(a), b)
  <2> DEFINE c == Uncorrected(a)
  <2>1. /\ TaskShape(c) /\ c.cmd.signal = a.cmd.signal
        /\ c.cmd.withCorrection = FALSE
        /\ c.queue = a.queue /\ c.sem = a.sem /\ c.run # "fetch"
    BY <1>1, UncorrectedIs
  <2>2. Touched(c, b) BY <1>3
  <2> HIDE DEF c
  <2>3. Inner(c, b) /\ TaskShape(b) BY <2>1, <2>2, TouchedIsInner
  <2>4. b.cmd.withCorrection = FALSE BY <2>1, <2>2 DEF Touched
  <2>5. Inner(a, b) BY <2>1, <2>3, <2>4 DEF Inner
  <2> QED BY <2>3, <2>5 DEF TaskMoves
<1>4. CASE b \in StopsRunning(a) \cup Corrects(a) \cup TracksOn(a)
  <2>1. ASSUME b \in StopsRunning(a) PROVE Touched(a, b)
    BY <1>1, <2>1 DEF StopsRunning, Touched, TaskShape, AxisFields, Runs
  <2>2. ASSUME b \in Corrects(a) PROVE Touched(a, b)
    BY <1>1, <2>2 DEF Corrects, Touched, TaskShape, AxisFields, Runs
  <2>3. ASSUME b \in TracksOn(a) PROVE Touched(a, b)
    BY <1>1, <2>3 DEF TracksOn, Touched, TaskShape, AxisFields, Runs
  <2>4. Touched(a, b) BY <1>4, <2>1, <2>2, <2>3
  <2> QED BY <1>2, <2>4
<1>5. CASE b \in Slews(a)
  <2>1. CASE b = [a EXCEPT !.run = "stop"]
    BY <1>1, <1>2, <2>1 DEF Touched, TaskShape, AxisFields, Runs
  <2>2. ASSUME NEW f, NEW r, NEW p \in {"stop", "over"},
               b = [Uncorrected(a) EXCEPT !.flags = f, !.result = r, !.run = p]
        PROVE  TaskMoves(a, b)
    <3> DEFINE c == Uncorrected(a)
    <3>1. DOMAIN c = AxisFields BY <1>1, UncorrectedIs DEF TaskShape
    <3>2. b = [c EXCEPT !.flags = f, !.result = r, !.run = p] BY <2>2
    <3> HIDE DEF c
    <3>3. Touched(c, b) BY <3>1, <3>2 DEF Touched, AxisFields, Runs
    <3> QED BY <1>3, <3>3 DEF c
  <2>3. \/ b = [a EXCEPT !.run = "stop"]
        \/ \E f, r, p : /\ p \in {"stop", "over"}
                        /\ b = [Uncorrected(a) EXCEPT !.flags = f, !.result = r,
                                                     !.run = p]
    BY <1>5 DEF Slews
  <2> QED BY <2>1, <2>2, <2>3
<1> QED BY <1>4, <1>5

LEMMA DecelMoves ==
  ASSUME NEW a, AxisShape(a), a.run = "decel", NEW b \in Decelerates(a)
  PROVE  TaskMoves(a, b)
<1> DEFINE s == [a EXCEPT !.flags = @ \ {"EMERGE_STOP", "STOP_KEEPSPEED"}]
           c == Uncorrected(s)
<1>1. TaskShape(a) /\ a.run # "fetch" BY DEF AxisShape, TaskShape
<1>2. Beside(a, s) BY <1>1 DEF Beside, TaskShape, AxisFields
<1>3. TaskShape(s) BY <1>1, <1>2 DEF TaskShape, Beside
<1>4. \/ b = [c EXCEPT !.result = "EMERG_STOPPED", !.run = "over"]
      \/ b = [Returned(s) EXCEPT !.status = "INERTIAL",
                                !.slewState = "NOT_SLEWING"]
      \/ b = [a EXCEPT !.run = "over"]
  BY DEF Decelerates
<1> HIDE DEF s
<1>5. /\ TaskShape(c) /\ c.cmd.signal = s.cmd.signal
      /\ c.cmd.withCorrection = FALSE
      /\ c.queue = s.queue /\ c.sem = s.sem /\ c.run = s.run
  BY <1>3, UncorrectedIs
<1> HIDE DEF c
<1>6. CASE b = [c EXCEPT !.result = "EMERG_STOPPED", !.run = "over"]
  <2>1. Touched(c, b)
    BY <1>5, <1>6 DEF Touched, TaskShape, AxisFields, Runs
  <2>2. c.run # "fetch" BY <1>1, <1>2, <1>5 DEF Beside
  <2>3. Inner(c, b) /\ TaskShape(b) BY <1>5, <2>1, <2>2, TouchedIsInner
  <2>4. s.queue = a.queue BY DEF s
  <2>5. Inner(a, b) BY <1>1, <1>2, <1>5, <2>3, <2>4 DEF Inner, Beside
  <2> QED BY <2>3, <2>5 DEF TaskMoves
<1>7. CASE b = [Returned(s) EXCEPT !.status = "INERTIAL",
                                   !.slewState = "NOT_SLEWING"]
  <2>1. TaskShape(Returned(s))
    BY <1>1, <1>2, <1>3, ReturnEnds DEF TaskShape, Beside
  <2>2. Beside(Returned(s), b)
    BY <1>7, <2>1 DEF Beside, TaskShape, AxisFields
  <2>3. Ended(a, b) /\ TaskShape(b)
    BY <1>1, <1>2, <2>2, BesideEnds DEF TaskShape
  <2> QED BY <2>3 DEF TaskMoves
<1>8. CASE b = [a EXCEPT !.run = "over"]
  <2>1. Touched(a, b) BY <1>1, <1>8 DEF Touched, TaskShape, AxisFields, Runs
  <2> QED BY <1>1, <2>1, TouchedIsInner DEF TaskMoves
<1> QED BY <1>4, <1>6, <1>7, <1>8

LEMMA OverMoves ==
  ASSUME NEW a, AxisShape(a), a.run = "over", NEW b \in IsOver(a)
  PROVE  TaskMoves(a, b)
<1> DEFINE s == StopAxis(a, "STOP")
<1>1. TaskShape(a) /\ a.run # "fetch" BY DEF AxisShape, TaskShape
<1>2. \/ b = [a EXCEPT !.slewState = "NOT_SLEWING"]
      \/ b = [a EXCEPT !.run = "correct"]
      \/ b = [Returned(a) EXCEPT !.status = "STOPPED"]
      \/ b = [Returned(s) EXCEPT !.status = "STOPPED",
                                !.result = "EMERG_STOPPED"]
  BY DEF IsOver
<1>3. Beside(a, s)
  BY <1>1 DEF StopAxis, Flagged, Flushed, Beside, TaskShape, AxisFields
<1> HIDE DEF s
<1>4. CASE b = [a EXCEPT !.slewState = "NOT_SLEWING"]
  <2>1. Touched(a, b) BY <1>1, <1>4 DEF Touched, TaskShape, AxisFields, Runs
  <2> QED BY <1>1, <2>1, TouchedIsInner DEF TaskMoves
<1>5. CASE b = [a EXCEPT !.run = "correct"]
  <2>1. Touched(a, b) BY <1>1, <1>5 DEF Touched, TaskShape, AxisFields, Runs
  <2> QED BY <1>1, <2>1, TouchedIsInner DEF TaskMoves
<1>6. CASE b = [Returned(a) EXCEPT !.status = "STOPPED"]
  <2>1. TaskShape(Returned(a)) BY <1>1, ReturnEnds DEF TaskShape
  <2>2. Beside(Returned(a), b)
    BY <1>6, <2>1 DEF Beside, TaskShape, AxisFields
  <2>3. Ended(a, b) /\ TaskShape(b) BY <1>1, <2>2, BesideEnds DEF TaskShape
  <2> QED BY <2>3 DEF TaskMoves
<1>7. CASE b = [Returned(s) EXCEPT !.status = "STOPPED",
                                   !.result = "EMERG_STOPPED"]
  <2>1. TaskShape(Returned(s))
    BY <1>1, <1>3, ReturnEnds DEF TaskShape, Beside
  <2>2. Beside(Returned(s), b)
    BY <1>7, <2>1 DEF Beside, TaskShape, AxisFields
  <2>3. Ended(a, b) /\ TaskShape(b)
    BY <1>1, <1>3, <2>2, BesideEnds DEF TaskShape
  <2> QED BY <2>3 DEF TaskMoves
<1> QED BY <1>2, <1>4, <1>5, <1>6, <1>7

LEMMA TaskStepMoves ==
  ASSUME NEW a, AxisShape(a), NEW b \in TaskSteps(a)
  PROVE  TaskMoves(a, b)
<1>1. CASE a.run = "track_end"
  <2>1. b = [Returned(a) EXCEPT !.status = "STOPPED"]
    BY <1>1 DEF TaskSteps
  <2>2. DOMAIN a = AxisFields /\ a.run # "fetch" BY <1>1 DEF AxisShape
  <2>3. TaskShape(Returned(a)) BY <2>2, ReturnEnds
  <2>4. Beside(Returned(a), b)
    BY <2>1, <2>3 DEF Beside, TaskShape, AxisFields
  <2>5. Ended(a, b) /\ TaskShape(b) BY <2>2, <2>4, BesideEnds
  <2> QED BY <2>5 DEF TaskMoves
<1>2. CASE a.run = "fetch" BY <1>2, FetchMoves DEF TaskSteps
<1>3. CASE a.run = "begin" BY <1>3, BeginMoves DEF TaskSteps
<1>4. CASE a.run = "decel" BY <1>4, DecelMoves DEF TaskSteps
<1>5. CASE a.run = "over" BY <1>5, OverMoves DEF TaskSteps
<1>6. CASE a.run \in {"slew", "stop", "correct", "track"}
  <2>1. b \in Slews(a) \cup StopsRunning(a) \cup Corrects(a) \cup TracksOn(a)
    BY <1>6 DEF TaskSteps
  <2> QED BY <1>6, <2>1, SlewMoves
<1> QED
  BY <1>1, <1>2, <1>3, <1>4, <1>5, <1>6 DEF AxisShape, Runs

\* A goto is fetched, done and its caller woken; nothing else wakes it.
LEMMA TaskKeeps ==
  ASSUME NEW a, AxisShape(a), NEW b \in TaskSteps(a)
  PROVE  /\ AxisShape(b)
         /\ Clear(a) => Clear(b)
         /\ Slewing(a) => Slewing(b)
         /\ ~(a.run = "fetch" /\ a.queue = <<>>)
<1>1. TaskMoves(a, b) BY TaskStepMoves
<1>2. /\ \A i \in 1..Len(<<>>) : FALSE
      /\ ~IsGoto(Nothing)
  BY DEF IsGoto, Nothing
<1>3. CASE Inner(a, b)
  BY <1>1, <1>3
     DEF TaskMoves, TaskShape, AxisShape, Inner, Clear, Slewing, Queued,
         Doing, SlewDone, Lost, IsGoto
<1>4. CASE Ended(a, b)
  <2>1. AxisShape(b)
    BY <1>1, <1>4, EmptyMessages DEF TaskMoves, TaskShape, AxisShape, Ended
  <2>2. Clear(a) => Clear(b) BY <1>2, <1>4 DEF Ended, Clear
  <2>3. Slewing(a) => Slewing(b)
    BY <1>2, <1>4 DEF Ended, Slewing, Queued, Doing, SlewDone, Lost
  <2> QED BY <1>4, <2>1, <2>2, <2>3 DEF Ended
<1>5. CASE Fetched(a, b)
  <2> DEFINE q == a.queue
  <2>1. Messages(q) /\ q # <<>> BY <1>5 DEF AxisShape, Fetched
  <2>2. /\ b.cmd = Head(q) /\ b.queue = Tail(q) /\ b.sem = a.sem
        /\ b.run # "fetch"
    BY <1>5 DEF Fetched
  <2>3. /\ Slewing(a) => /\ IsGoto(q[Len(q)]) /\ a.sem = 0
                         /\ \A i \in 1..(Len(q) - 1) : ~IsGoto(q[i])
        /\ Clear(a) => \A i \in 1..Len(q) : ~IsGoto(q[i])
    BY <2>1 DEF Slewing, Queued, Doing, SlewDone, Lost, Clear
  <2> HIDE DEF q
  <2>4. /\ Messages(Tail(q)) /\ Len(q) \in Nat \ {0}
        /\ Len(Tail(q)) = Len(q) - 1 /\ Head(q) = q[1]
        /\ \A i \in 1..(Len(q) - 1) :
             Tail(q)[i] = q[i + 1] /\ i + 1 \in 1..Len(q)
        /\ Tail(q) = <<>> <=> Len(q) = 1
    BY <2>1, TailMessages
  <2>5. 1 \in 1..Len(q) BY <2>4
  <2>7. AxisShape(b)
    BY <1>1, <2>2, <2>4 DEF AxisShape, TaskMoves, TaskShape
  <2>8. Clear(a) => Clear(b) BY <2>2, <2>3, <2>4, <2>5 DEF Clear
  <2>9. Slewing(a) => Slewing(b)
    <3> SUFFICES ASSUME Slewing(a) PROVE Slewing(b)
      OBVIOUS
    <3>1. CASE Len(q) = 1
      BY <2>2, <2>3, <2>4, <3>1 DEF Doing, Slewing
    <3>2. CASE Len(q) # 1
      <4>1. /\ Tail(q) # <<>> /\ IsGoto(Tail(q)[Len(Tail(q))])
            /\ \A i \in 1..(Len(Tail(q)) - 1) : ~IsGoto(Tail(q)[i])
        BY <2>1, <2>3, <3>2, TailIsLast
      <4>2. ~IsGoto(q[1]) BY <2>3, <2>4, <3>2
      <4> QED BY <2>2, <2>3, <2>4, <4>1, <4>2 DEF Queued, Slewing
    <3> QED BY <3>1, <3>2
  <2> QED BY <1>5, <2>7, <2>8, <2>9 DEF Fetched
<1> QED BY <1>1, <1>3, <1>4, <1>5 DEF TaskMoves

-----------------------------------------------------------------------------
(* The strengthening.                                                      *)

\* From the first slew of a goto to its last wait.
PendingPoints(x) ==
  IF x = "ra" THEN {"slew_dec", "wait_ra"} ELSE {"wait_ra", "wait_dec"}

SlewPoints == {"slew_dec", "wait_ra", "wait_dec"}

Pending(x) == \E t \in Threads : th[t].pc \in PendingPoints(x)

AxesTyped == DOMAIN ax = Axes /\ \A x \in Axes : AxisShape(ax[x])

SlewsOnce ==
  \A x \in Axes : IF Pending(x) THEN Slewing(ax[x]) ELSE Clear(ax[x])

\* RA has ended its slew, and waits with its result for DEC.
RaIsOver ==
  \A t \in Threads : th[t].pc = "wait_dec" =>
    /\ ax.ra.run = "fetch" /\ ax.ra.queue = <<>>
    /\ th[t].ret = Finished(ax.ra)

\* A slew that took a stop ends with the result of the stop, and the axis gets
\* no other command before the goto is over.
Stopped(a) == a.queue = <<>> /\ a.run # "begin" /\ a.result # "COMPLETE"

CutPoints(x) == IF x = "ra" THEN SlewPoints ELSE {"wait_ra", "wait_dec"}

Waited(x) == \E t \in Threads : th[t].pc \in CutPoints(x)

CutsAreStopped ==
  cut \subseteq Axes /\ \A x \in cut : Stopped(ax[x]) /\ Waited(x)

GotoInv == IInv /\ AxesTyped /\ SlewsOnce /\ RaIsOver /\ CutsAreStopped

\* Only the stops that an axis takes add to the cuts.
Cutting == cut' \subseteq cut \cup {x \in Axes : CutShort(ax[x], ax'[x])}

\* Only one thread is between its slews and its waits, the one that holds the
\* mutex.
LEMMA OneGoto ==
  ASSUME IInv, NEW t \in Threads, NEW u \in Threads,
         th[u].pc \in SlewPoints, Free(t) \/ th[t].pc \in Inside \/
         th[t].pc = "track_dec"
  PROVE  u = t
<1>1. DepthAt(th[u].pc, th[u].next) = 1
  BY DEF SlewPoints, DepthAt, Inside
<1>2. mutex.owner = u BY <1>1, Owner
<1>3. th[t].pc \in Inside \cup {"track_dec"} =>
        DepthAt(th[t].pc, th[t].next) # 0
  BY DEF DepthAt, Inside, Nested
<1>4. th[t].pc \in Inside \cup {"track_dec"} => mutex.owner = t
  BY <1>3, Owner
<1>5. u # NoThread BY ThreadAssumption
<1> QED BY <1>2, <1>4, <1>5 DEF Free

PendingPcs(t) ==
  /\ th'[t].pc \notin SlewPoints /\ th[t].pc \notin SlewPoints
  /\ \A u \in Threads \ {t} : th'[u] = th[u]

LEMMA SamePending ==
  ASSUME NEW t \in Threads, PendingPcs(t)
  PROVE  /\ \A x \in Axes : Pending(x)' <=> Pending(x)
         /\ \A x \in Axes : Waited(x)' <=> Waited(x)
         /\ \A u \in Threads : th'[u].pc = "wait_dec" =>
              th[u].pc = "wait_dec" /\ th'[u] = th[u]
<1>1. \A u \in Threads, x \in Axes :
        th'[u].pc \in PendingPoints(x) <=> th[u].pc \in PendingPoints(x)
  BY DEF PendingPcs, PendingPoints, SlewPoints
<1>2. \A x \in Axes : Pending(x)' <=> Pending(x) BY <1>1 DEF Pending
<1>3. \A u \in Threads, x \in Axes :
        th'[u].pc \in CutPoints(x) <=> th[u].pc \in CutPoints(x)
  BY DEF PendingPcs, CutPoints, SlewPoints
<1>4. \A x \in Axes : Waited(x)' <=> Waited(x) BY <1>3 DEF Waited
<1> QED BY <1>2, <1>4 DEF PendingPcs, SlewPoints

\* A step of a thread that is in no goto, and posts nothing.
LEMMA QuietStep ==
  ASSUME GotoInv, IInv', NEW t \in Threads, PendingPcs(t), Cutting,
         DOMAIN ax' = Axes, \A x \in Axes : Quiet(ax[x], ax'[x])
  PROVE  GotoInv'
<1>1. AxesTyped' /\ SlewsOnce'
  BY QuietKeeps, SamePending DEF GotoInv, AxesTyped, SlewsOnce
<1>2. RaIsOver'
  BY SamePending DEF GotoInv, RaIsOver, Quiet, Axes, Finished
<1>3. \A x \in Axes : ~CutShort(ax[x], ax'[x])
  BY DEF Quiet, CutShort
<1>4. \A x \in Axes : Stopped(ax[x]) => Stopped(ax'[x])
  BY DEF Quiet, Stopped
<1>5. CutsAreStopped'
  BY <1>3, <1>4, SamePending DEF GotoInv, CutsAreStopped, Cutting
<1> QED BY <1>1, <1>2, <1>5 DEF GotoInv

\* A step of the thread that holds the mutex, which may post what is no goto.
LEMMA PostStep ==
  ASSUME GotoInv, IInv', NEW t \in Threads, PendingPcs(t), Cutting,
         Free(t) \/ th[t].pc \in Inside \/ th[t].pc = "track_dec",
         DOMAIN ax' = Axes,
         \A x \in Axes :
           \/ ax'[x] = ax[x]
           \/ \E m : /\ DOMAIN m = MsgFields /\ ~IsGoto(m)
                    /\ ax'[x] = Posted(ax[x], m)
  PROVE  GotoInv'
<1>1. \A u \in Threads : th[u].pc \notin SlewPoints
  BY OneGoto DEF GotoInv, PendingPcs
<1>2. \A x \in Axes : ~Pending(x)
  BY <1>1 DEF Pending, PendingPoints, SlewPoints
<1>3. \A x \in Axes : AxisShape(ax[x]) /\ Clear(ax[x])
  BY <1>2 DEF GotoInv, AxesTyped, SlewsOnce
<1>4. \A x \in Axes : AxisShape(ax'[x]) /\ Clear(ax'[x])
  BY <1>3, PostKeepsClear
<1>5. AxesTyped' /\ SlewsOnce'
  BY <1>2, <1>4, SamePending DEF AxesTyped, SlewsOnce
<1>6. RaIsOver' BY <1>1, SamePending DEF RaIsOver, SlewPoints
<1>7. ASSUME NEW x \in Axes PROVE ~CutShort(ax[x], ax'[x])
  <2>1. \A m : Posted(ax[x], m).flags = ax[x].flags
    BY <1>3 DEF Posted, AxisShape, AxisFields
  <2> QED BY <2>1 DEF CutShort
<1>8. cut = {}
  BY <1>1 DEF GotoInv, CutsAreStopped, Waited, CutPoints, SlewPoints
<1>9. CutsAreStopped' BY <1>7, <1>8 DEF CutsAreStopped, Cutting
<1> QED BY <1>5, <1>6, <1>9 DEF GotoInv

-----------------------------------------------------------------------------
(* The actions.                                                            *)

LEMMA Stationary ==
  ASSUME GotoInv, IInv', NEW t \in Threads, PendingPcs(t), Cutting,
         UNCHANGED ax
  PROVE  GotoInv'
<1>1. \A x \in Axes : Quiet(ax[x], ax'[x])
  BY StopsAreQuiet DEF GotoInv, AxesTyped
<1> QED BY <1>1, QuietStep DEF GotoInv, AxesTyped

\* Where the threads go that were to return somewhere.
LEMMA ReturnsOutside ==
  ASSUME IInv, NEW t \in Threads,
         th[t].pc \in {"sync", "track", "track_dec", "stop_status"}
  PROVE  th[t].next \notin SlewPoints
  BY DEF IInv, Paths, PathAt, TrackPoints, SlewPoints

\* A thread that has stopped an axis stays, for the other axis, or goes on.
LEMMA AfterStops ==
  ASSUME NEW p \in StopPoints, NEW x \in Axes
  PROVE  AfterStop(p, x) \in {p, "look_dec", "start_dec", "sync",
                             "stop_status", "estop_status"}
<1>1. x = "ra" \/ x = "dec" BY DEF Axes
<1> QED BY <1>1 DEF AfterStop, StopPoints

\* Steps that are not of a goto.
LEMMA OutsidePcs ==
  ASSUME GotoInv, NEW t \in Threads, ThreadStep(t) \/ Ask(t) \/ Answer(t),
         ~SlewRa(t), ~SlewDec(t), ~WaitRa(t), ~WaitDec(t)
  PROVE  PendingPcs(t)
<1>0. Shape BY DEF GotoInv, IInv
<1>1. ASSUME GoTo(t) \/ Leg(t) \/ StopTracking(t) \/ StopTrackingLocked(t)
      PROVE  PendingPcs(t)
  BY <1>0, <1>1
     DEF GoTo, Leg, StopTracking, StopTrackingLocked, At, Goto, Done,
         PendingPcs, SlewPoints, Shape, Fields
<1>2. ASSUME EmergencyStopStatus(t) \/ Untrack(t) \/ SeeStatus(t)
      PROVE  PendingPcs(t)
  BY <1>0, <1>2
     DEF EmergencyStopStatus, Untrack, SeeStatus, At, Goto, Done,
         PendingPcs, SlewPoints, Shape, Fields
<1>3. ASSUME SetSlewSpeed(t) \/ SetSlewSpeedDec(t) \/ Guide(t) \/ Nudge(t)
             \/ StopNudge(t)
      PROVE  PendingPcs(t)
  BY <1>0, <1>3
     DEF SetSlewSpeed, SetSlewSpeedDec, Guide, Nudge, StopNudge, At, Goto,
         Done, PendingPcs, SlewPoints, Shape, Fields
<1>4. ASSUME ResumeTracking(t) \/ Leave(t) \/ StartNudge(t) \/ NudgeDec(t)
             \/ NudgeRa(t) \/ NudgeStatus(t)
      PROVE  PendingPcs(t)
  BY <1>0, <1>4
     DEF ResumeTracking, Leave, StartNudge, NudgeDec, NudgeRa, NudgeStatus,
         At, Goto, Done, PendingPcs, SlewPoints, Shape, Fields
<1>5. ASSUME StartTracking(t) \/ StopAsyncStatus(t) \/ StopSync(t) \/
             TrackDec(t)
      PROVE  PendingPcs(t)
  BY <1>0, <1>5, ReturnsOutside
     DEF StartTracking, StopAsyncStatus, StopSync, TrackDec, At, Goto, Done,
         PendingPcs, SlewPoints, Shape, Fields, GotoInv
<1>6. ASSUME TrackRa(t) \/ Ask(t) \/ Answer(t)
      PROVE  PendingPcs(t)
  BY <1>0, <1>6
     DEF TrackRa, Ask, Answer, At, Goto, Done, PendingPcs, SlewPoints, Shape,
         Fields, AlignOps, NoWork
<1>7. ASSUME NEW x \in Axes, Look(t, x) \/ Keep(t, x) PROVE PendingPcs(t)
  <2>1. x = "ra" \/ x = "dec" BY DEF Axes
  <2> QED
    BY <1>0, <1>7, <2>1
       DEF Look, Keep, At, Goto, PendingPcs, SlewPoints, Shape, Fields
<1>8. ASSUME Flush(t) PROVE PendingPcs(t)
  BY <1>0, <1>8
     DEF Flush, At, StopPoints, PendingPcs, SlewPoints, Shape, Fields
<1>9. ASSUME Flag(t) PROVE PendingPcs(t)
  BY <1>0, <1>9, AfterStops
     DEF Flag, At, StopPoints, PendingPcs, SlewPoints, Shape, Fields
<1> QED
  BY <1>1, <1>2, <1>3, <1>4, <1>5, <1>6, <1>7, <1>8, <1>9 DEF ThreadStep

\* Steps that leave the axes alone.
LEMMA StillSteps ==
  ASSUME GotoInv, IInv', NEW t \in Threads, Cutting,
         \/ GoTo(t) \/ Leg(t) \/ StopTracking(t) \/ StopTrackingLocked(t)
         \/ EmergencyStopStatus(t) \/ SetSlewSpeed(t) \/ SetSlewSpeedDec(t)
         \/ Guide(t) \/ Nudge(t) \/ StopNudge(t) \/ ResumeTracking(t)
         \/ Leave(t) \/ StartNudge(t) \/ NudgeStatus(t) \/ Ask(t)
         \/ Answer(t) \/ StartTracking(t) \/ StopAsyncStatus(t) \/ StopSync(t)
         \/ Untrack(t) \/ SeeStatus(t)
  PROVE  GotoInv'
<1>1. PendingPcs(t)
  <2>1. ~SlewRa(t) /\ ~SlewDec(t) /\ ~WaitRa(t) /\ ~WaitDec(t)
    BY DEF SlewRa, SlewDec, WaitRa, WaitDec, At, AlignOps, GoTo, Leg,
           StopTracking, StopTrackingLocked, EmergencyStopStatus,
           SetSlewSpeed, SetSlewSpeedDec, Guide, Nudge, StopNudge,
           ResumeTracking, Leave, StartNudge, NudgeStatus, Ask, Answer,
           StartTracking, StopAsyncStatus, StopSync, Untrack, SeeStatus
  <2> QED BY <2>1, OutsidePcs DEF ThreadStep
<1>2. UNCHANGED ax
  BY DEF GoTo, Leg, StopTracking, StopTrackingLocked, EmergencyStopStatus,
         SetSlewSpeed, SetSlewSpeedDec, Guide, Nudge, StopNudge,
         ResumeTracking, Leave, StartNudge, NudgeStatus, Ask, Answer,
         StartTracking, StopAsyncStatus, StopSync, Untrack, SeeStatus,
         axisVars
<1> QED BY <1>1, <1>2, Stationary

\* Steps that flush or flag an axis.
LEMMA StoppingSteps ==
  ASSUME GotoInv, IInv', NEW t \in Threads, Cutting,
         \/ Flush(t) \/ Flag(t)
         \/ \E x \in Axes : Look(t, x) \/ Keep(t, x)
  PROVE  GotoInv'
<1>0. /\ Shape /\ DOMAIN ax = Axes
      /\ \A x \in Axes : AxisShape(ax[x])
  BY DEF GotoInv, IInv, AxesTyped
<1>1. \A x \in Axes : \A f :
        /\ Quiet(ax[x], ax[x]) /\ Quiet(ax[x], Flagged(ax[x], f))
        /\ ax[x].queue # <<>> => Quiet(ax[x], Shorter(ax[x]))
  BY <1>0, StopsAreQuiet
<1>2. PendingPcs(t)
  <2>1. ~SlewRa(t) /\ ~SlewDec(t) /\ ~WaitRa(t) /\ ~WaitDec(t)
    BY DEF SlewRa, SlewDec, WaitRa, WaitDec, At, Flush, Flag, StopPoints,
           Look, Keep
  <2> QED BY <2>1, OutsidePcs DEF ThreadStep
<1>3. PICK y \in Axes :
        \/ ax' = ax
        \/ \E f : ax' = [ax EXCEPT ![y] = Flagged(@, f)]
        \/ ax[y].queue # <<>> /\ ax' = [ax EXCEPT ![y] = Shorter(@)]
  <2>1. th[t].axis \in Axes BY <1>0 DEF Shape
  <2>2. CASE Flush(t) BY <2>1, <2>2 DEF Flush, Shorter
  <2>3. CASE Flag(t) BY <2>1, <2>3 DEF Flag
  <2>4. ASSUME NEW y \in Axes, Look(t, y) \/ Keep(t, y)
        PROVE  \/ ax' = ax
               \/ \E f : ax' = [ax EXCEPT ![y] = Flagged(@, f)]
               \/ ax[y].queue # <<>> /\ ax' = [ax EXCEPT ![y] = Shorter(@)]
    BY <2>4 DEF Look, Keep, Shorter
  <2> QED BY <2>2, <2>3, <2>4
<1>4. DOMAIN ax' = Axes /\ \A x \in Axes : Quiet(ax[x], ax'[x])
  BY <1>0, <1>1, <1>3
<1> QED BY <1>2, <1>4, QuietStep

LEMMA OtherMessages ==
  ASSUME NEW d
  PROVE  /\ DOMAIN Track(d) = MsgFields /\ ~IsGoto(Track(d))
         /\ DOMAIN Indefinite(d) = MsgFields /\ ~IsGoto(Indefinite(d))
  BY DEF Track, Indefinite, MsgFields, IsGoto

\* Steps that post a tracking or a nudge.
LEMMA PostingSteps ==
  ASSUME GotoInv, IInv', NEW t \in Threads, Cutting,
         \/ TrackRa(t) \/ TrackDec(t) \/ NudgeDec(t) \/ NudgeRa(t)
  PROVE  GotoInv'
<1>0. DOMAIN ax = Axes BY DEF GotoInv, AxesTyped
<1>1. PendingPcs(t)
  <2>1. ~SlewRa(t) /\ ~SlewDec(t) /\ ~WaitRa(t) /\ ~WaitDec(t)
    BY DEF SlewRa, SlewDec, WaitRa, WaitDec, At, TrackRa, TrackDec, NudgeDec,
           NudgeRa
  <2> QED BY <2>1, OutsidePcs DEF ThreadStep
<1>2. Free(t) \/ th[t].pc \in Inside \/ th[t].pc = "track_dec"
  BY DEF TrackRa, TrackDec, NudgeDec, NudgeRa, At, Inside
<1>3. \/ ax' = ax
      \/ \E y \in Axes : \E m : /\ DOMAIN m = MsgFields /\ ~IsGoto(m)
                                /\ ax' = [ax EXCEPT ![y] = Posted(@, m)]
  <2>1. "ra" \in Axes /\ "dec" \in Axes BY DEF Axes
  <2>2. CASE TrackRa(t) BY <2>1, <2>2, OtherMessages DEF TrackRa
  <2>3. CASE TrackDec(t) BY <2>1, <2>3, OtherMessages DEF TrackDec
  <2>4. CASE NudgeDec(t) BY <2>1, <2>4, OtherMessages DEF NudgeDec
  <2>5. CASE NudgeRa(t)
    BY <2>1, <2>5, OtherMessages DEF NudgeRa, RaPost, axisVars
  <2> QED BY <2>2, <2>3, <2>4, <2>5
<1>4. /\ DOMAIN ax' = Axes
      /\ \A x \in Axes :
           \/ ax'[x] = ax[x]
           \/ \E m : /\ DOMAIN m = MsgFields /\ ~IsGoto(m)
                    /\ ax'[x] = Posted(ax[x], m)
  BY <1>0, <1>3
<1> QED BY <1>1, <1>2, <1>4, PostStep

LEMMA GotoMessages ==
  ASSUME NEW d, NEW c
  PROVE  DOMAIN SlewTo(d, c) = MsgFields /\ IsGoto(SlewTo(d, c))
  BY DEF SlewTo, MsgFields, IsGoto

\* Thread t, at p, goes on to q.
Goes(t, p, q) ==
  /\ th[t].pc = p /\ th'[t].pc = q
  /\ \A u \in Threads \ {t} : th'[u] = th[u]

\* Who is in a goto before and after a step of the thread that is.
LEMMA PendingGoes ==
  ASSUME IInv, NEW t \in Threads, NEW p, NEW q, Goes(t, p, q), p \in Inside
  PROVE  /\ IF p \in {"slew_dec", "wait_ra"} THEN Pending("ra")
            ELSE ~Pending("ra")
         /\ IF p \in {"wait_ra", "wait_dec"} THEN Pending("dec")
            ELSE ~Pending("dec")
         /\ IF q \in {"slew_dec", "wait_ra"} THEN Pending("ra")'
            ELSE ~Pending("ra")'
         /\ IF q \in {"wait_ra", "wait_dec"} THEN Pending("dec")'
            ELSE ~Pending("dec")'
<1>1. \A u \in Threads \ {t} : th[u].pc \notin SlewPoints
  BY OneGoto DEF Goes
<1> QED BY <1>1 DEF Pending, PendingPoints, SlewPoints, Goes

\* Posting a slew takes no flag, and taking the semaphore none either.
LEMMA NoCut ==
  ASSUME NEW a, NEW b, b.flags = a.flags PROVE ~CutShort(a, b)
  BY DEF CutShort

LEMMA SlewFlags ==
  ASSUME NEW a, AxisShape(a), NEW m
  PROVE  SlewPosted(a, m).flags = a.flags
  BY DEF AxisShape, AxisFields, SlewPosted, Posted

LEMMA SlewSteps ==
  ASSUME GotoInv, IInv', NEW t \in Threads, Cutting, SlewRa(t) \/ SlewDec(t)
  PROVE  GotoInv'
<1>0. /\ Shape /\ IInv /\ DOMAIN ax = Axes
      /\ \A x \in Axes : AxisShape(ax[x])
  BY DEF GotoInv, IInv, AxesTyped
<1>1. CASE SlewRa(t)
  <2>1. Goes(t, "slew", "slew_dec")
    BY <1>0, <1>1 DEF SlewRa, At, Goto, Goes, Shape, Fields
  <2>2. /\ ~Pending("ra") /\ ~Pending("dec")
        /\ Pending("ra")' /\ ~Pending("dec")'
    <3>1. "slew" \in Inside BY DEF Inside
    <3> QED BY <1>0, <2>1, <3>1, PendingGoes
  <2>3. PICK d, c : ax' = [ax EXCEPT !.ra = SlewPosted(@, SlewTo(d, c))]
    BY <1>1 DEF SlewRa
  <2>4. /\ DOMAIN ax' = Axes /\ ax'.dec = ax.dec
        /\ ax'.ra = SlewPosted(ax.ra, SlewTo(d, c))
    BY <1>0, <2>3 DEF Axes
  <2>5. Clear(ax.ra) /\ Clear(ax.dec)
    BY <2>2 DEF GotoInv, SlewsOnce, Axes
  <2>6. AxisShape(ax'.ra) /\ Slewing(ax'.ra)
    BY <1>0, <2>4, <2>5, SlewIsQueued, GotoMessages DEF Axes
  <2>7. AxesTyped' BY <1>0, <2>4, <2>6 DEF AxesTyped, Axes
  <2>8. SlewsOnce' BY <2>2, <2>4, <2>5, <2>6 DEF SlewsOnce, Axes
  <2>9. RaIsOver'
    <3>1. \A u \in Threads \ {t} : th[u].pc \notin SlewPoints
      BY <1>0, <2>1, OneGoto DEF Goes, Inside
    <3> QED BY <2>1, <3>1 DEF RaIsOver, Goes, SlewPoints
  <2>10. CutsAreStopped'
    <3>1. \A u \in Threads : th[u].pc \notin SlewPoints
      BY <1>0, <2>1, OneGoto DEF Goes, Inside, SlewPoints
    <3>2. cut = {}
      BY <3>1 DEF GotoInv, CutsAreStopped, Waited, CutPoints, SlewPoints
    <3>3. \A x \in Axes : ax'[x].flags = ax[x].flags
      BY <1>0, <2>4, SlewFlags DEF Axes
    <3> QED BY <3>2, <3>3, NoCut DEF Cutting, CutsAreStopped
  <2> QED BY <2>7, <2>8, <2>9, <2>10 DEF GotoInv
<1>2. CASE SlewDec(t)
  <2>1. Goes(t, "slew_dec", "wait_ra")
    BY <1>0, <1>2 DEF SlewDec, At, Goto, Goes, Shape, Fields
  <2>2. /\ Pending("ra") /\ ~Pending("dec")
        /\ Pending("ra")' /\ Pending("dec")'
    <3>1. "slew_dec" \in Inside BY DEF Inside
    <3> QED BY <1>0, <2>1, <3>1, PendingGoes
  <2>3. PICK d, c : ax' = [ax EXCEPT !.dec = SlewPosted(@, SlewTo(d, c))]
    BY <1>2 DEF SlewDec
  <2>4. /\ DOMAIN ax' = Axes /\ ax'.ra = ax.ra
        /\ ax'.dec = SlewPosted(ax.dec, SlewTo(d, c))
    BY <1>0, <2>3 DEF Axes
  <2>5. Slewing(ax.ra) /\ Clear(ax.dec)
    BY <2>2 DEF GotoInv, SlewsOnce, Axes
  <2>6. AxisShape(ax'.dec) /\ Slewing(ax'.dec)
    BY <1>0, <2>4, <2>5, SlewIsQueued, GotoMessages DEF Axes
  <2>7. AxesTyped' BY <1>0, <2>4, <2>6 DEF AxesTyped, Axes
  <2>8. SlewsOnce' BY <2>2, <2>4, <2>5, <2>6 DEF SlewsOnce, Axes
  <2>9. RaIsOver'
    <3>1. \A u \in Threads \ {t} : th[u].pc \notin SlewPoints
      BY <1>0, <2>1, OneGoto DEF Goes, Inside
    <3> QED BY <2>1, <3>1 DEF RaIsOver, Goes, SlewPoints
  <2>10. CutsAreStopped'
    <3>1. \A u \in Threads \ {t} : th[u].pc \notin SlewPoints
      BY <1>0, <2>1, OneGoto DEF Goes, Inside
    <3>2. ~Waited("dec")
      BY <2>1, <3>1 DEF Waited, CutPoints, SlewPoints, Goes
    <3>3. Waited("ra")' BY <2>1 DEF Waited, CutPoints, SlewPoints, Goes
    <3>4. \A x \in Axes : ax'[x].flags = ax[x].flags
      BY <1>0, <2>4, SlewFlags DEF Axes
    <3>5. cut' \subseteq cut BY <3>4, NoCut DEF Cutting
    <3> QED
      BY <2>4, <3>2, <3>3, <3>5 DEF GotoInv, CutsAreStopped, Axes
  <2> QED BY <2>7, <2>8, <2>9, <2>10 DEF GotoInv
<1> QED BY <1>1, <1>2

\* A semaphore that is free ends the slew: the axis is in its fetch.
LEMMA FreeSemaphore ==
  ASSUME NEW a, AxisShape(a), Slewing(a), a.sem = 1
  PROVE  /\ a.run = "fetch" /\ a.queue = <<>> /\ Clear(a)
         /\ LET b == [a EXCEPT !.sem = 0]
            IN  /\ AxisShape(b) /\ Clear(b) /\ b.run = "fetch"
                /\ b.queue = <<>> /\ b.result = a.result
<1>1. SlewDone(a) BY DEF Slewing, Queued, Doing, Lost
<1>2. \A i \in 1..Len(<<>>) : FALSE OBVIOUS
<1>3. Clear(a) BY <1>1, <1>2 DEF SlewDone, Clear
<1> DEFINE b == [a EXCEPT !.sem = 0]
<1>4. /\ DOMAIN b = AxisFields /\ b.cmd = a.cmd /\ b.run = a.run
      /\ b.queue = a.queue /\ b.result = a.result
  BY DEF AxisShape, AxisFields
<1> HIDE DEF b
<1>5. AxisShape(b) /\ Clear(b)
  BY <1>3, <1>4 DEF AxisShape, Clear
<1> QED BY <1>1, <1>3, <1>4, <1>5 DEF b, SlewDone

LEMMA WaitSteps ==
  ASSUME GotoInv, IInv', NEW t \in Threads, Cutting, WaitRa(t) \/ WaitDec(t),
         (\E u \in Threads : LegEnds(u)) => cut' = {}
  PROVE  GotoInv'
<1>0. /\ Shape /\ IInv /\ DOMAIN ax = Axes
      /\ \A x \in Axes : AxisShape(ax[x])
  BY DEF GotoInv, IInv, AxesTyped
<1>1. CASE WaitRa(t)
  <2>1. /\ Goes(t, "wait_ra", "wait_dec")
        /\ th'[t].ret = Finished(ax.ra)
    BY <1>0, <1>1 DEF WaitRa, At, Goes, Shape, Fields
  <2>2. /\ Pending("ra") /\ Pending("dec")
        /\ ~Pending("ra")' /\ Pending("dec")'
    <3>1. "wait_ra" \in Inside BY DEF Inside
    <3> QED BY <1>0, <2>1, <3>1, PendingGoes
  <2>3. Slewing(ax.ra) /\ Slewing(ax.dec) /\ ax.ra.sem = 1
    BY <1>1, <2>2 DEF GotoInv, SlewsOnce, Axes, WaitRa
  <2>4. /\ DOMAIN ax' = Axes /\ ax'.dec = ax.dec
        /\ ax'.ra = [ax.ra EXCEPT !.sem = 0]
    BY <1>0, <1>1 DEF Axes, WaitRa
  <2>5. /\ AxisShape(ax'.ra) /\ Clear(ax'.ra) /\ ax'.ra.run = "fetch"
        /\ ax'.ra.queue = <<>> /\ ax'.ra.result = ax.ra.result
    BY <1>0, <2>3, <2>4, FreeSemaphore DEF Axes
  <2>6. AxesTyped' BY <1>0, <2>4, <2>5 DEF AxesTyped, Axes
  <2>7. SlewsOnce' BY <2>2, <2>3, <2>4, <2>5 DEF SlewsOnce, Axes
  <2>8. RaIsOver'
    <3>1. \A u \in Threads \ {t} : th[u].pc \notin SlewPoints
      BY <1>0, <2>1, OneGoto DEF Goes, Inside
    <3> QED BY <2>1, <2>5, <3>1 DEF RaIsOver, Goes, SlewPoints, Finished
  <2>9. CutsAreStopped'
    <3>1. Waited("ra")' /\ Waited("dec")'
      BY <2>1 DEF Waited, CutPoints, SlewPoints, Goes
    <3>2. /\ \A x \in Axes : ax'[x].flags = ax[x].flags
          /\ \A x \in Axes : Stopped(ax[x]) => Stopped(ax'[x])
      BY <1>0, <2>4 DEF AxisShape, AxisFields, Axes, Stopped
    <3>3. cut' \subseteq cut BY <3>2, NoCut DEF Cutting
    <3> QED BY <3>1, <3>2, <3>3 DEF GotoInv, CutsAreStopped, Axes
  <2> QED BY <2>6, <2>7, <2>8, <2>9 DEF GotoInv
<1>2. CASE WaitDec(t)
  <2>1. PICK q \in {"track", "leg"} : Goes(t, "wait_dec", q)
    BY <1>0, <1>2 DEF WaitDec, At, Goes, Shape, Fields
  <2>2. /\ ~Pending("ra") /\ Pending("dec")
        /\ ~Pending("ra")' /\ ~Pending("dec")'
    <3>1. "wait_dec" \in Inside BY DEF Inside
    <3> QED BY <1>0, <2>1, <3>1, PendingGoes
  <2>3. Clear(ax.ra) /\ Slewing(ax.dec) /\ ax.dec.sem = 1
    BY <1>2, <2>2 DEF GotoInv, SlewsOnce, Axes, WaitDec
  <2>4. /\ DOMAIN ax' = Axes /\ ax'.ra = ax.ra
        /\ ax'.dec = [ax.dec EXCEPT !.sem = 0]
    BY <1>0, <1>2 DEF Axes, WaitDec
  <2>5. AxisShape(ax'.dec) /\ Clear(ax'.dec)
    BY <1>0, <2>3, <2>4, FreeSemaphore DEF Axes
  <2>6. AxesTyped' BY <1>0, <2>4, <2>5 DEF AxesTyped, Axes
  <2>7. SlewsOnce' BY <2>2, <2>3, <2>4, <2>5 DEF SlewsOnce, Axes
  <2>8. RaIsOver'
    <3>1. \A u \in Threads \ {t} : th[u].pc \notin SlewPoints
      BY <1>0, <2>1, OneGoto DEF Goes, Inside
    <3> QED BY <2>1, <3>1 DEF RaIsOver, Goes, SlewPoints
  <2>9. LegEnds(t) BY <2>1 DEF LegEnds, Goes
  <2>10. CutsAreStopped' BY <2>9 DEF CutsAreStopped
  <2> QED BY <2>6, <2>7, <2>8, <2>10 DEF GotoInv
<1> QED BY <1>1, <1>2

LEMMA DecelResults ==
  ASSUME NEW a, DOMAIN a = AxisFields, NEW b \in Decelerates(a)
  PROVE  /\ b.queue = a.queue /\ b.run # "begin"
         /\ \/ a.result # "COMPLETE"
            \/ (a.flags \ b.flags) \cap Stops # {}
            => b.result # "COMPLETE"
<1> DEFINE f == a.flags \ {"EMERGE_STOP", "STOP_KEEPSPEED"}
           s == [a EXCEPT !.flags = f]
<1>1. /\ DOMAIN s = AxisFields /\ s.queue = a.queue /\ s.flags = f
      /\ s.result = a.result /\ s.run = a.run
  BY DEF AxisFields
<1>2. \/ b = [a EXCEPT !.run = "over"]
      \/ b = [Uncorrected(s) EXCEPT !.result = "EMERG_STOPPED", !.run = "over"]
      \/ /\ "EMERGE_STOP" \notin a.flags
         /\ b = [Returned(s) EXCEPT !.status = "INERTIAL",
                                   !.slewState = "NOT_SLEWING"]
  BY DEF Decelerates
<1> HIDE DEF s
<1>3. CASE b = [a EXCEPT !.run = "over"]
  BY <1>3 DEF AxisFields
<1>4. CASE b = [Uncorrected(s) EXCEPT !.result = "EMERG_STOPPED",
                                     !.run = "over"]
  BY <1>1, <1>4 DEF Uncorrected, AxisFields
<1>5. CASE /\ "EMERGE_STOP" \notin a.flags
           /\ b = [Returned(s) EXCEPT !.status = "INERTIAL",
                                     !.slewState = "NOT_SLEWING"]
  <2>1. /\ b.queue = a.queue /\ b.run = "fetch" /\ b.result = a.result
        /\ b.flags = f
    BY <1>1, <1>5 DEF Returned, AxisFields
  <2>2. (a.flags \ f) \cap Stops = {} BY <1>5 DEF Stops
  <2> QED BY <2>1, <2>2
<1> QED BY <1>2, <1>3, <1>4, <1>5

\* An axis that has taken a stop keeps the result, and goes on to no command.
LEMMA StopIsKept ==
  ASSUME NEW a, AxisShape(a), Stopped(a), NEW b \in TaskSteps(a)
  PROVE  Stopped(b)
<1>0. DOMAIN a = AxisFields /\ a.run \in Runs BY DEF AxisShape
<1>1. a.run # "fetch" BY DEF Stopped, TaskSteps, Fetches
<1>2. CASE a.run = "slew"
  BY <1>0, <1>2 DEF TaskSteps, Slews, Uncorrected, Stopped, AxisFields
<1>3. CASE a.run \in {"stop", "correct", "track"}
  BY <1>0, <1>3
     DEF TaskSteps, StopsRunning, Corrects, TracksOn, Stopped, AxisFields
<1>4. CASE a.run = "decel"
  <2>1. b.queue = <<>> /\ b.run # "begin" /\ b.result # "COMPLETE"
    BY <1>0, <1>4, DecelResults DEF TaskSteps, Stopped
  <2> QED BY <2>1 DEF Stopped
<1>5. CASE a.run = "over"
  <2>1. \/ b = [a EXCEPT !.slewState = "NOT_SLEWING"]
        \/ b = [a EXCEPT !.run = "correct"]
        \/ b = [Returned(a) EXCEPT !.status = "STOPPED"]
        \/ b = [Returned(StopAxis(a, "STOP")) EXCEPT !.status = "STOPPED",
                                !.result = "EMERG_STOPPED"]
    BY <1>5 DEF TaskSteps, IsOver
  <2>2. CASE b = [Returned(StopAxis(a, "STOP")) EXCEPT !.status = "STOPPED",
                                !.result = "EMERG_STOPPED"]
    <3> DEFINE c == StopAxis(a, "STOP")
    <3>1. DOMAIN c = AxisFields /\ c.queue = <<>>
      BY <1>0 DEF StopAxis, Flagged, Flushed, AxisFields
    <3>2. b = [Returned(c) EXCEPT !.status = "STOPPED",
                                !.result = "EMERG_STOPPED"]
      BY <2>2
    <3> HIDE DEF c
    <3> QED BY <3>1, <3>2 DEF Returned, Stopped, AxisFields
  <2> QED BY <1>0, <1>5, <2>1, <2>2 DEF Returned, Stopped, AxisFields
<1>6. CASE a.run = "track_end"
  BY <1>0, <1>6 DEF TaskSteps, Returned, Stopped, AxisFields
<1> QED BY <1>0, <1>1, <1>2, <1>3, <1>4, <1>5, <1>6 DEF Runs, Stopped

\* It takes the stop in a goto that is all it has to do.
LEMMA StopIsTaken ==
  ASSUME NEW a, AxisShape(a), Slewing(a), NEW b \in TaskSteps(a),
         CutShort(a, b)
  PROVE  Stopped(b)
<1>0. DOMAIN a = AxisFields /\ DOMAIN a.cmd = MsgFields BY DEF AxisShape
<1>1. a.queue = <<>>
  BY DEF CutShort, Slewing, Queued, Doing, SlewDone, Lost, IsGoto
<1>2. CASE a.run = "slew"
  <2>1. \/ b = [a EXCEPT !.run = "stop"]
        \/ \E f, r, p : /\ r # "COMPLETE" /\ p \in {"stop", "over"}
                        /\ b = [Uncorrected(a) EXCEPT !.flags = f, !.result = r,
                                                     !.run = p]
    BY <1>2 DEF TaskSteps, Slews
  <2>2. CASE b = [a EXCEPT !.run = "stop"]
    BY <1>0, <2>2 DEF CutShort, AxisFields
  <2>3. ASSUME NEW f, NEW r, NEW p \in {"stop", "over"}, r # "COMPLETE",
               b = [Uncorrected(a) EXCEPT !.flags = f, !.result = r, !.run = p]
        PROVE  Stopped(b)
    BY <1>0, <1>1, <2>3 DEF Uncorrected, Stopped, AxisFields
  <2> QED BY <2>1, <2>2, <2>3
<1>3. CASE a.run = "decel"
  <2>1. b.queue = <<>> /\ b.run # "begin" /\ b.result # "COMPLETE"
    BY <1>0, <1>1, <1>3, DecelResults DEF TaskSteps, CutShort
  <2> QED BY <2>1 DEF Stopped
<1>4. CASE a.run = "correct"
  BY <1>0, <1>1, <1>4
     DEF TaskSteps, Corrects, CutShort, Stops, Stopped, AxisFields
<1> QED BY <1>2, <1>3, <1>4 DEF CutShort

LEMMA AxisSteps ==
  ASSUME GotoInv, IInv', NEW y \in Axes, Cutting, AxisStep(y)
  PROVE  GotoInv'
<1>1. PICK b \in TaskSteps(ax[y]) : ax' = [ax EXCEPT ![y] = b]
  BY DEF AxisStep
<1>2. UNCHANGED th BY DEF AxisStep
<1>3. DOMAIN ax = Axes /\ AxisShape(ax[y]) BY DEF GotoInv, AxesTyped
<1>4. /\ AxisShape(b)
      /\ Clear(ax[y]) => Clear(b)
      /\ Slewing(ax[y]) => Slewing(b)
      /\ ~(ax[y].run = "fetch" /\ ax[y].queue = <<>>)
  BY <1>3, TaskKeeps
<1>5. /\ DOMAIN ax' = Axes /\ ax'[y] = b
      /\ \A x \in Axes \ {y} : ax'[x] = ax[x]
  BY <1>1, <1>3
<1>6. \A x \in Axes : Pending(x)' <=> Pending(x)
  BY <1>2 DEF Pending
<1>7. AxesTyped'
  <2>1. \A x \in Axes \ {y} : AxisShape(ax[x]) BY DEF GotoInv, AxesTyped
  <2>2. ASSUME NEW x \in Axes PROVE AxisShape(ax'[x])
    <3>1. CASE x = y BY <1>4, <1>5, <3>1
    <3>2. CASE x # y BY <1>5, <2>1, <3>2
    <3> QED BY <3>1, <3>2
  <2> QED BY <1>5, <2>2 DEF AxesTyped
<1>8. SlewsOnce'
  <2>1. \A x \in Axes : IF Pending(x) THEN Slewing(ax[x]) ELSE Clear(ax[x])
    BY DEF GotoInv, SlewsOnce
  <2>2. ASSUME NEW x \in Axes
        PROVE  /\ Slewing(ax[x]) => Slewing(ax'[x])
               /\ Clear(ax[x]) => Clear(ax'[x])
    <3>1. CASE x = y BY <1>4, <1>5, <3>1
    <3>2. CASE x # y BY <1>5, <3>2
    <3> QED BY <3>1, <3>2
  <2>3. ASSUME NEW x \in Axes
        PROVE  IF Pending(x)' THEN Slewing(ax'[x]) ELSE Clear(ax'[x])
    BY <1>6, <2>1, <2>2
  <2> QED BY <2>3 DEF SlewsOnce
<1>9. RaIsOver'
  BY <1>2, <1>4, <1>5 DEF GotoInv, RaIsOver, Axes
<1>10. CutsAreStopped'
  <2>1. \A x \in Axes : Waited(x)' <=> Waited(x) BY <1>2 DEF Waited
  <2>2. cut \subseteq Axes /\ \A x \in cut : Stopped(ax[x]) /\ Waited(x)
    BY DEF GotoInv, CutsAreStopped
  <2>3. Stopped(ax[y]) => Stopped(ax'[y]) BY <1>1, <1>3, <1>5, StopIsKept
  <2>4. CutShort(ax[y], ax'[y]) => Stopped(ax'[y]) /\ Waited(y)
    <3> SUFFICES ASSUME CutShort(ax[y], ax'[y])
                 PROVE  Stopped(ax'[y]) /\ Waited(y)
      OBVIOUS
    <3>1. IsGoto(ax[y].cmd) BY DEF CutShort, IsGoto
    <3>2. Pending(y) BY <3>1 DEF GotoInv, SlewsOnce, Clear
    <3>3. Slewing(ax[y]) BY <3>2 DEF GotoInv, SlewsOnce
    <3>4. Stopped(ax'[y]) BY <1>1, <1>3, <1>5, <3>3, StopIsTaken
    <3>5. Waited(y)
      BY <3>2 DEF Pending, PendingPoints, Waited, CutPoints, SlewPoints
    <3> QED BY <3>4, <3>5
  <2>5. \A x \in Axes \ {y} : ~CutShort(ax[x], ax'[x])
    BY <1>5, NoCut
  <2>6. cut' \subseteq cut \cup {y}
        /\ (y \in cut' => y \in cut \/ CutShort(ax[y], ax'[y]))
    BY <2>5 DEF Cutting
  <2>7. ASSUME NEW x \in cut' PROVE Stopped(ax'[x]) /\ Waited(x)' /\ x \in Axes
    <3>1. CASE x = y BY <2>1, <2>2, <2>3, <2>4, <2>6, <2>7, <3>1
    <3>2. CASE x # y
      <4>1. x \in cut /\ x \in Axes \ {y} BY <2>2, <2>6, <2>7, <3>2
      <4>2. ax'[x] = ax[x] BY <1>5, <4>1
      <4> QED BY <2>1, <2>2, <4>1, <4>2
    <3> QED BY <3>1, <3>2
  <2> QED BY <2>7 DEF CutsAreStopped
<1> QED BY <1>7, <1>8, <1>9, <1>10 DEF GotoInv

\* A reader or a worker that begins something is in no goto.
LEMMA ServerPcs ==
  ASSUME IInv, IInv', NEW s \in Servers, Read(s) \/ Call(s) \/ Dispatch(s)
  PROVE  \E t \in Threads : PendingPcs(t) /\ th[t].pc \in {"idle", "call"}
<1>1. PICK t \in Threads :
        /\ th[t].pc \in {"idle", "call"}
        /\ \A u \in Threads \ {t} : th'[u] = th[u]
  BY ServerThreads DEF Read, Call, Dispatch, At, IInv, Shape
<1>2. UNCHANGED mutex BY DEF Read, Call, Dispatch
<1>3. th[t].pc \notin SlewPoints /\ DepthAt(th[t].pc, th[t].next) = 0
  BY <1>1 DEF SlewPoints, DepthAt, Inside
<1>4. th'[t].pc \notin SlewPoints
  <2>1. mutex.owner = t => mutex.count = 0
    BY <1>3 DEF IInv, Held
  <2>2. DepthAt(th'[t].pc, th'[t].next) = 0
    BY <1>2, <2>1 DEF IInv, Held
  <2> QED BY <2>2 DEF SlewPoints, DepthAt, Inside
<1> QED BY <1>1, <1>3, <1>4 DEF PendingPcs

LEMMA ServerSteps ==
  ASSUME GotoInv, IInv', NEW s \in Servers, Read(s) \/ Call(s) \/ Dispatch(s)
  PROVE  GotoInv'
<1>1. PICK t \in Threads : PendingPcs(t) BY ServerPcs DEF GotoInv
<1>2. UNCHANGED ax /\ Cutting BY DEF Read, Call, Dispatch, Cutting
<1> QED BY <1>1, <1>2, Stationary

-----------------------------------------------------------------------------
(* Theorems                                                                *)

LEMMA GotoInit == Init => GotoInv
<1> SUFFICES ASSUME Init PROVE GotoInv
  OBVIOUS
<1>1. IInv BY InitInv
<1>2. \A t \in Threads : th[t].pc = "idle"
  BY IdleWork DEF Init, MountInit
<1>3. \A x \in Axes : ~Pending(x)
  BY <1>2 DEF Pending, PendingPoints
<1>4. ASSUME NEW d, NEW a, a = [Rest EXCEPT !.status = "TRACKING",
                                           !.run = "track", !.cmd = Track(d)]
      PROVE  AxisShape(a) /\ Clear(a)
  <2>1. /\ DOMAIN a = AxisFields /\ a.cmd = Track(d) /\ a.run = "track"
        /\ a.queue = <<>>
    BY <1>4 DEF Rest, AxisFields
  <2>2. \A i \in 1..Len(<<>>) : FALSE OBVIOUS
  <2> QED
    BY <2>1, <2>2, OtherMessages, EmptyMessages DEF AxisShape, Clear, Runs
<1>5. DOMAIN ax = Axes /\ \A x \in Axes : AxisShape(ax[x]) /\ Clear(ax[x])
  BY <1>4 DEF Init, MountInit
<1>6. AxesTyped /\ SlewsOnce BY <1>3, <1>5 DEF AxesTyped, SlewsOnce
<1>7. RaIsOver BY <1>2 DEF RaIsOver
<1>8. CutsAreStopped BY DEF Init, CutsAreStopped
<1> QED BY <1>1, <1>6, <1>7, <1>8 DEF GotoInv

LEMMA GotoNext == GotoInv /\ [Next]_vars => GotoInv'
<1> SUFFICES ASSUME GotoInv, [Next]_vars PROVE GotoInv'
  OBVIOUS
<1>1. IInv' BY NextInv DEF GotoInv
<1>2. CASE UNCHANGED vars
  <2>1. UNCHANGED <<ax, th, cut>> BY <1>2 DEF vars, mountVars, serverVars
  <2> QED
    BY <1>1, <2>1 DEF GotoInv, AxesTyped, SlewsOnce, RaIsOver, Pending,
                      CutsAreStopped, Waited
<1>3. CASE Mount
  <2>1. Cutting BY <1>3 DEF Mount, Cutting
  <2>2. (\E u \in Threads : LegEnds(u)) => cut' = {} BY <1>3 DEF Mount
  <2>3. ASSUME NEW t \in Threads, ThreadStep(t) PROVE GotoInv'
    BY <1>1, <2>1, <2>2, <2>3, StillSteps, StoppingSteps, PostingSteps,
       SlewSteps, WaitSteps DEF ThreadStep
  <2>4. ASSUME NEW x \in Axes, AxisStep(x) PROVE GotoInv'
    BY <1>1, <2>1, <2>4, AxisSteps
  <2> QED BY <1>3, <2>3, <2>4 DEF Mount
<1>4. ASSUME NEW t \in Threads, Ask(t) \/ Answer(t) PROVE GotoInv'
  <2>1. Cutting BY <1>4 DEF Ask, Answer, serverVars, Cutting
  <2> QED BY <1>1, <1>4, <2>1, StillSteps
<1>5. ASSUME NEW s \in Servers, Read(s) \/ Call(s) \/ Dispatch(s)
      PROVE  GotoInv'
  BY <1>1, <1>5, ServerSteps
<1> QED BY <1>2, <1>3, <1>4, <1>5 DEF Next

LEMMA AlwaysGotoInv == Spec => []GotoInv
  BY GotoInit, GotoNext, PTL DEF Spec

\* While a goto waits for its slews nothing is behind them that would start
\* when they end, for any callers (EquatorialMount.cpp:85-109).
THEOREM GotoComesLast == Spec => []GotoIsLast
<1>1. GotoInv => GotoIsLast
  <2> SUFFICES ASSUME GotoInv, NEW t \in Threads,
                      th[t].pc \in {"wait_ra", "wait_dec"},
                      NEW x \in Axes, ax[x].queue # <<>>
               PROVE  ax[x].queue[Len(ax[x].queue)].signal = "SLEW_TO"
    BY DEF GotoIsLast
  <2>1. Pending(x)
    BY DEF Pending, PendingPoints, GotoInv, RaIsOver, Axes
  <2> QED
    BY <2>1 DEF GotoInv, SlewsOnce, Slewing, Queued, Doing, SlewDone, Lost,
                IsGoto
<1> QED BY <1>1, AlwaysGotoInv, PTL

\* A step of a thread leaves the other threads where they are.
LEMMA OthersStay ==
  ASSUME GotoInv, NEW u \in Threads, NEW t \in Threads, u # t,
         ThreadStep(u) \/ Ask(u) \/ Answer(u)
  PROVE  th'[t] = th[t]
<1>1. CASE SlewRa(u) \/ SlewDec(u) \/ WaitRa(u) \/ WaitDec(u)
  BY <1>1 DEF SlewRa, SlewDec, WaitRa, WaitDec, Goto, GotoInv, IInv, Shape
<1>2. CASE ~(SlewRa(u) \/ SlewDec(u) \/ WaitRa(u) \/ WaitDec(u))
  BY <1>2, OutsidePcs DEF PendingPcs
<1> QED BY <1>1, <1>2

\* A thread that waits for DEC can only end that wait.
LEMMA OnlyWaits ==
  ASSUME NEW t \in Threads, th[t].pc = "wait_dec",
         ThreadStep(t) \/ Ask(t) \/ Answer(t)
  PROVE  WaitDec(t)
  BY DEF ThreadStep, Ask, Answer, At, AlignOps, Look, Keep, Flush, Flag,
         StopPoints, GoTo, StopSync, SlewRa, SlewDec, WaitRa, Leg,
         StartTracking, TrackRa, TrackDec, StopTracking, StopTrackingLocked,
         Untrack, StopAsyncStatus, EmergencyStopStatus, SetSlewSpeed,
         SetSlewSpeedDec, Guide, Nudge, StopNudge, ResumeTracking, Leave,
         StartNudge, NudgeDec, SeeStatus, NudgeRa, NudgeStatus

\* A leg of a goto ends when both axes are at rest with nothing left to run,
\* and counts as done only if no slew of it has taken a stop, of whichever
\* thread and at whichever point: for any callers, with all their stops
\* flushing and flagging in between (EquatorialMount.cpp:88-101).
THEOREM NoGotoDoneIsCutShort == Spec => GotoEnds
<1>1. ASSUME GotoInv, [Next]_vars, NEW t \in Threads, LegEnds(t)
      PROVE  /\ \A x \in Axes : ax[x].run = "fetch" /\ ax[x].queue = <<>>
             /\ th'[t].ret = {} => cut = {}
  <2>0. /\ IInv /\ Shape /\ DOMAIN ax = Axes
        /\ th[t].pc = "wait_dec" /\ th'[t].pc # "wait_dec"
    BY <1>1 DEF GotoInv, IInv, AxesTyped, LegEnds
  <2>1. th' # th BY <2>0
  <2>2. WaitDec(t)
    <3>1. ASSUME NEW u \in Threads, ThreadStep(u) \/ Ask(u) \/ Answer(u)
          PROVE  WaitDec(t)
      BY <1>1, <2>0, <3>1, OthersStay, OnlyWaits
    <3>2. ASSUME NEW s \in Servers, Read(s) \/ Call(s) \/ Dispatch(s)
          PROVE  FALSE
      BY <2>0, <3>2 DEF Read, Call, Dispatch, At, Shape
    <3>3. ~UNCHANGED vars BY <2>1 DEF vars, mountVars
    <3>4. \A x \in Axes : ~AxisStep(x) BY <2>1 DEF AxisStep
    <3> QED BY <1>1, <3>1, <3>2, <3>3, <3>4 DEF Next, Mount
  <2>3. Pending("dec") BY <2>0 DEF Pending, PendingPoints
  <2>4. /\ ax.ra.run = "fetch" /\ ax.ra.queue = <<>>
        /\ th[t].ret = Finished(ax.ra)
    BY <1>1, <2>0 DEF GotoInv, RaIsOver
  <2>5. ax.dec.run = "fetch" /\ ax.dec.queue = <<>>
    BY <1>1, <2>2, <2>3, FreeSemaphore
       DEF GotoInv, AxesTyped, SlewsOnce, Axes, WaitDec
  <2>6. th'[t].ret = th[t].ret \cup Finished(ax.dec)
    BY <2>0, <2>2 DEF WaitDec, LegResult, Shape, Fields
  <2>7. th'[t].ret = {} => \A x \in Axes : ax[x].result = "COMPLETE"
    BY <2>4, <2>6 DEF Finished, Axes
  <2>8. cut \subseteq Axes /\ \A x \in cut : ax[x].result # "COMPLETE"
    BY <1>1 DEF GotoInv, CutsAreStopped, Stopped
  <2> QED BY <2>4, <2>5, <2>7, <2>8 DEF Axes
<1>2. GotoInv /\ [Next]_vars =>
        [\A t \in Threads :
           LegEnds(t) =>
             /\ \A x \in Axes : ax[x].run = "fetch" /\ ax[x].queue = <<>>
             /\ th'[t].ret = {} => cut = {}
        ]_vars
  BY <1>1
<1> QED BY <1>2, AlwaysGotoInv, PTL DEF GotoEnds, Spec
=============================================================================
