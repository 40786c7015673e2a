# PushToGo-F429 in TLA+

The firmware of an equatorial telescope mount (STM32F429, mbed OS 5): two stepper axes, a mount
that moves them together, command servers on two serial lines, one of them over USB, a
configuration on an SD card and a display.  This directory models its concurrent core and the
sequential parts that carry its logic, checks them with TLC and proves what matters most with TLAPS.

## The system

One core, preemptive priorities: the task threads of the axes are AboveNormal, the test and
blinker threads Normal, the command servers and their dispatchers BelowNormal, the display Low;
threads of one priority take turns.  `debug()` may block on the mutex of the display.

| Component | State | Operations | What makes it correct |
|---|---|---|---|
| **Axis** (`pushtogo/Axis.*`) | command queue and its memory pool, guide queue, thread flags, result semaphore, status, speeds, direction | start a goto, an indefinite slew, tracking; wait for a goto; guide; flush; stop, emergency stop, keep speed; set speeds | stops are obeyed; stopped means still; speed changes are gradual; guide pulses are undone; nobody is woken by another's slew; no message is lost |
| **AdaptiveAxis** | drive mode: microsteps, current | slew, track, correction, idle mode | switched only at rest, the driver divides counted pulses by the current microstep |
| **Stepper driver, StepOut** | idle/stepping, direction, step count, pulse timer | start (ignored while stepping), stop, set frequency, get/set count | a step is counted once |
| **EquatorialMount** | mount status, nudge direction, alignment stars and offsets, a recursive lock | goto (two slews of both axes), track, nudge, guide, stops, recalibrate | status agrees with the axes; a stop ends what is under way; no deadlock on the lock |
| **EqMountServer** | input line, event queue | commands run at once (stop, status, ...) or queued for the dispatcher | order, bounded queue, a stop is not delayed by a goto |
| **IOQueue, USBSerial** | rings of bytes, rings of waiting threads, transmit/receive state | put/get, callbacks of the USB interrupt | no byte lost or doubled, a waiter taken off the ring is woken |
| **USB device stack** | device and control-endpoint state, class handle | setup, data, reset, suspend | host and device keep in step; the class is loaded exactly while the device is configured |
| **LCDConsole** | text ring, its head, a lock | write, redraw | the text drawn is the text written |
| **TelescopeConfiguration** | table of typed entries, two files | read file, get, set, check limits, save | what was saved is read at the next boot |
| **CelestialMath** | none | coordinate transforms, alignment fit | a goto ends where it was sent; the rest is numerical |

Interactions: a server thread calls the mount, which locks itself and calls both axes; the axes'
task threads answer through a status they write and a semaphore.  Stops are called from any
thread and bypass the lock (`EquatorialMount.h:199-207`).  The USB interrupt wakes the server
through the queues.

Hard behaviour: flags set while a thread is between two waits; flags cleared too late or not at
all; a queue and a pool shared by posting, fetching and flushing threads; a semaphore shared by
successive slews; the status of one thread polled by another; check-then-act on an axis that has
a higher priority; timers.  `PROJECT.json` lists the hazards line by line.

## Modules

| Module | What it is |
|---|---|
| `Axis` | the axis in full, with its clients |
| `AxisContract` | what an axis is to the code that drives it, as operators on a record |
| `AxisPort` | `AxisContract` as a specification |
| `AxisImplements` | the refinement mapping from `Axis` to `AxisPort` |
| `Commands` | what a command line asks for: the handlers up to the call they make |
| `EquatorialMount` | the mount over two axes of `AxisContract`, thread by thread |
| `EqMountServer` | readers, event queues and dispatchers of the servers, extending the mount |
| `Alignment` | the list of alignment stars and its calibration |
| `Pointing` | the pier side, the index offset and the position read back |
| `StepCount` | the counters of the driver and of `StepOut` |
| `Configuration` | items, conversions, the file, boots and power failures |
| `LcdConsole` | the text ring and the thread that draws it |
| `UsbDevice` | the USB device library: control transfers and the life of the class |
| `UsbSerial` | the serial port over it: queues, waiting threads, bulk data |
| `SerialPipe` | what a direction of the port promises: a FIFO that loses only at the link's ends |
| `Devices` | the parts beside the axes and the mount, one of which a behaviour is about |
| `MCAxis`, `MCEqMountServer`, `MCUsbDevice`, `MCDevices` | instances for TLC |
| `AxisProof`, `AxisPortProof` | theorems about the axis, and its refinement of `AxisPort` |
| `UsbDeviceProof` | theorems about control transfers and the class |
| `SerialProof` | theorems about the serial port, upon those of the device |
| `DevicesProof` | theorems about the other parts of `Devices`, and the types of all |
| `MountProof` | theorems about the lock and the command servers |
| `GotoProof`, `StatusProof` | theorems about gotos, and about tracking and the room in the queues, each upon the module before |

`Axis` implements `AxisPort`, which has the same steps as the records of `EquatorialMount`, so what
holds of the mount over two abstract axes rests on the checked refinement.  `EqMountServer` extends
`EquatorialMount`, which extends `Commands`; `UsbSerial` extends `UsbDevice` and implements
`SerialPipe` twice.  `Devices` puts the serial port beside the display, the step counter, the
alignment, the configuration and the pointing; they share no state.

Definitions commented `Fault` are variants of the definition after them with a plausible mistake;
each makes TLC find the property violated that `PROJECT.json` pairs it with.

### How `Axis` corresponds to the code

*Grain.*  The task thread outranks every client, so its code from one blocking call to the next is
one step.  Labels (`stop`, `emerge_stop`, `emerge_stop2`) and the `debug` after a fetch, which may
block, are points of their own.  A client can be preempted anywhere: each access to shared state
is a step (`Alloc`, `ClearSem`, `Put`, `WaitForSlew` for `startSlewTo`/`waitForSlew`; `StartFlush`,
`FlushGet`, `FlushFree`, `FlushDone`, `Signal` for `stop`).  `ClientMayRun` says when: always, if
`Preemptible` (the task thread may block on the display at a `debug`), else only when the task
thread is blocked in a wait.

*State.*  `taskQueue`, `pool`, `guideQueue`, `flags` and `finishSem` are the RTOS objects;
`status`, `slewState`, `currentSpeed`, `currentDirection`, `slewSpeed`, `trackSpeed`,
`guideSpeed`, `finishState` the members; `motor` is the driver's state (idle or stepping, and
which way), `mode` the drive mode.  `pc` is the point of the task thread, `cmd` the message in
hand (`useCorrection` is its flag), `ramp` the ramp variables, `waitMs` and `nTry` the locals of
those names.  `cpc`, `held`, `after` say where each client is, the block in its hands, the flag its
call will set.  `lastCall` is history, for the liveness properties.

*Waits.*  `osThreadFlagsWait` returns all flags that are set and clears those in its mask; it times
out only if none in the mask is set (`Awaited`, `Woken`, `TimedOut`).  So a flag that is already
set is always seen before a timeout.

*Speeds* are in units of one acceleration step.  A ramp of *n* steps moves by one unit per step, or
goes to its end in one step when the code computes fewer than one.  The code's negative number of
steps converts to 0 and counts as 1.

*Angles* are abstract: how fast a goto may get, how long it runs at constant speed, what the
correction finds are choices.  `SLEW_TO` with an angle that is not a number is `valid = FALSE`.

*Assumed of callers*: `startSlewTo` is called by one thread at a time (`Slewers`; the mount holds
its lock).  The speeds of tracking and guiding may be set at any time: `Axis.h:300, 316` ask for a
stopped axis, but the code looks at the sign of the speed only, and `speed track` sets it while the
mount tracks (`EqMountServer.cpp:374-389`, `EquatorialMount.cpp:468-481`).

### The mount and its servers

*Grain.*  A thread in an operation of the mount is at a point (`pc`), and each access to what
threads share is a step: the status, which stops write without the lock; `mutex_execution`, taken
and given back as often as the code does, nested calls included (`Lock`, `Unlock`); the queue,
flags and semaphore of an axis.  A stop is such a sequence of its own, for RA and then for Dec: a
step for each message that it flushes, one that finds the queue empty (`Flush`), one that sets the
flag (`Flag`), and at the end one that writes the status.  A chain of conditions on the status reads
it once; where the code reads it in one statement and writes it in another, as at
`EquatorialMount.cpp:321-324` and `365-367`, these are two steps (`SeeStatus` and `NudgeStatus`,
`StopTrackingLocked` and `Untrack`), and a stop of another thread comes between.  A goto waits at
`wait_ra` and `wait_dec` for the semaphores.  `cut` is history for `GotoEnds`: the axes on which a
task thread took a stop during the slews of the goto under way.

*Axes.*  `MayRun`: a caller goes on only when both task threads are in a wait that nothing has
ended.  They are AboveNormal and the callers BelowNormal (`Axis.cpp:37`, `EqMountServer.cpp:28`).
That a task thread can be held up in `debug()` in between is studied in `Axis`, where it costs a
lost stop, and left out here: with it none of the mount's properties could hold.

*Servers.*  The reader runs the commands of `Immediate` itself and posts the others to its event
queue; the worker dispatches them.  `Places` counts the event being run.  A full queue holds the
reader at `call` until there is room.  `Lines` are words already cut apart; `Value` stands for
`strtod`, and is a whole number (`NumberAssumption`).

*Coordinates* are left out: the direction of a goto is a choice, "stop" included.  `Pointing` has
the one part of the geometry that is discrete.  It takes the polar axis as aligned and has no cone
error, and whole degrees.

### The devices

*USB.*  Everything in `UsbDevice` runs in one interrupt handler, so a packet on the bus and the
callback it causes are a step; each function of the library is an operator on the device handle.
The host and the controller are outside the repository and modelled from what the library expects
of them: a setup packet drops what endpoint 0 was programmed with and clears its stall, a closed
endpoint forgets its transfer, a full packet and the last byte asked for end a data stage, a
suspended bus has no interrupt pending.  The host may give up a transfer, reset, suspend and
unplug at any time.  Lengths count in units of which `MaxPacket` make a packet.
`wValue` has 16 bits, of which an address keeps 7 (`DevAddr`) and a configuration 8 (`Cfgidx`).
Requests are as USB defines them (`WellFormed`): a read comes from the device, with room for a
status; setting a feature or a configuration has no data.

*Serial port.*  A critical section is a step.  `ThreadQueue::qwait` runs outside the one it was
called in: the clearing of the signal, the look whether the ring is full, the store and the advance
of the tail are a step each (`Qwait`, `QwaitFails`), so that two threads may both find the last
place, or store into the same slot.  Before the class is loaded
`onotify` reads through a null pointer; what it finds is a choice.  Characters are numbered as they
are accepted, so that order, loss and duplication show.  The loops of one `put` per character are
one update of the queue (`PushAll`), as nothing comes between.

*Display.*  Mutex, semaphore and head as in the code; `page` is a terminal kept beside it, for the
property.  *Step counter.*  Time counts in pulses; a reading by another thread is several steps.
*Alignment.*  A calibration is the list it was fitted to, divergence a choice.  *Configuration.*
Numbers in tenths of the last digit printed, texts as a number and its spelling; a boot may come at
any moment, also while the file is written.

## Runs

| Run | Question | Bounds |
|---|---|---|
| `axis_slew` | Are slews legal, do gotos turn the right way, and are callers woken rightly, under stops, keep-speed and speed changes? Is it an `AxisPort`? | 2 clients, one of which waits for gotos; a queue of 2; slewing speeds 1 and 3, so that ramps up, down and of no step occur; waits of at most 1 ms, read up to 1 ms late |
| `axis_modes` | Do tracking, guiding and nudging undo what they do, and is every message kept? | 2 clients, queue of 1 and pool of 2, so that a post can be refused; track speeds 1 and 2 and guide speeds 1 and 3, set at any time, so that a pulse stops, reverses, slows down or speeds up the motor, and that the speeds change within it |
| `axis_live` | Do stops and gotos come to an end? Is it an `AxisPort` while it tracks too? | 2 clients, every command, one slot; track speeds 0 and 1; timer on time; task thread not preempted between waits |
| `mount` | Is the lock given back on every path; is a goto the last thing queued, and done only if nobody stopped one of its slews; does the status tell the truth; is every command answered once? | 2 servers of 2 threads, 14 lines for one and 2 for the other, 3 lines in a run, event queues of one place, so that a reader finds them full; a nudge slower than, as fast as and faster than tracking |
| `usb_control` | Do host and device keep in step, and does the class follow the device? | requests of every kind, known and refused, of lengths below, at and above a packet; configurations 1, 2 which is refused and 257 which is taken for 1, an address above 127; one descriptor a multiple of the packet |
| `devices` | Each of the parts beside the mount, one at a time (`unit`): FIFO of the serial port, display, step counter, alignment, configuration, pointing | see below |
| `axis_lost_stop` | Is a stop always obeyed if the task thread can be preempted? No | violation of `StopIsFinal` |
| `axis_inertial_stop` | Is an emergency stop obeyed after keep-speed? No | violation of `EmergencyStopIsFinal` |
| `axis_flushed_goto` | Does every caller of a goto come back? No | violation of `SlewToReturns` |
| `axis_late_timer` | Does a goto end if the timer is read late? No | violation of `SlewEnds` |
| `mount_estop` | Is the mount at rest once an emergency stop is answered? No | violation of `EstopHolds` |
| `pier_side` | Does a pulse to the north go north on both sides of the pier? No | violation of `NorthIsNorth` |

*Axis.*  Two clients are enough for the races here, which are between one caller and the task
thread, or between two callers over one queue or semaphore; the proofs of the safety properties hold
for any number, as do those of the mount.  `MotorFollowsGoto` speaks of gotos
only: an indefinite slew out of the inertial state may go the wrong way, see below.
`AxisLateTimer.cfg` turns the deadlock
check off: the endless wait it is about has no successor when nobody calls.  `axis_slew` and
`axis_live` together check the refinement for slews, keep-speed and tracking.

*Devices.*  The parts share no state, so a run takes one at a time and its states are the sum, not
the product.  Serial port: 1 reader, 2 writers, queues of 3 slots (2 usable) and packets of 2
characters, so that a packet does not fit beside a character; rings of 2 slots, so that the second
waiter finds them full; 3 characters; the two writers do the same and are symmetric (`Alike`).
Display: 2 writers, 2 by 2 cells and 6 characters, enough to scroll twice, within a frame and
between two.  Step counter: 3 starts and 3 pulses, either way. Alignment: 2 readers, 3 commands,
room for 2 stars, so that the list is full and that two find the last place.  Configuration: an item
of each type, one line that no item answers to, 2 typed values of 4, 2 boots.  Pointing: hour angles
and declinations at the meridian, the poles and beside them, and 9 offsets.  The deadlock check is
off there and for the mount: counters of characters, commands and lines run out.  The four largest
runs, `axis_slew`, `usb_control`, `mount` and `devices`, have one to two million states each and
take one to a few minutes.

*Fairness* (`LiveSpec`, the axis only).  The task thread is weakly fair: it has the highest priority
and its waits have timeouts.  A client that has begun a call is strongly fair in continuing it,
since it can run only while the task thread blocks, and threads of one priority take turns.  Calls
themselves are not fair: nobody has to call.  The other modules state safety only.

What the six violations show, with the lines, is under `findings` in `PROJECT.json`:
1. a stop that falls between the fetch of a command and `signal_clr` (`Axis.cpp:154, 538`) is erased;
2. in the inertial state no stop is read, though `Axis.h:236-247` promises it;
3. flushing a queued `SLEW_TO` leaves its caller waiting, in `goToMount` with the lock held;
4. `wait_ms` below 0 (`Axis.cpp:381`) is an endless wait;
5. an emergency stop does not reach a goto that has not posted its slews, or is still in the event
   queue (`EqMountServer.cpp:187`): it slews after the answer;
6. the mount never knows that it is on the west side of the pier (`EquatorialMount.cpp:377`): nudges
   and pulses in declination go the wrong way there.

Seen while modelling, and shown by no run of their own:
* A command that an axis refuses or skips changes nothing in its result: a goto whose slew an inertial
  axis refused returns `osOK` with no slew made (`Axis.cpp:99-109`, `Axis.h:121`).  `GotoEnds` says
  what an `osOK` does tell, that no slew was stopped.
* A nudge the other way from the inertial state goes on in the old direction, as `start` is ignored by
  a running motor (`AMIS30543StepperDriver.cpp:81`), though `Axis.h:141` calls `dir` the direction of
  the slew.  `startNudge` keeps the speed only to go on in the same direction, but a keep-speed flag
  taken late (`slew` does not clear it, `Axis.cpp:154`) or a nudge speed that has become less than
  that of tracking (`EquatorialMount.cpp:233-236`, `295-299`) brings it about.
* `speed track` sets the speed of a running axis, against the note at `Axis.h:300`; the motor takes it
  up at the end of the next guide pulse, or when tracking starts again.
* A character that arrives after a reader has looked at its queue and before it is in the ring of
  waiting threads wakes nobody: the reader waits for the next one (`IOQueue.h:67-70`), though
  `USBSerial.h:67` has read return at once when data is available.
* `stop` during a nudge while tracking leaves the slewing speed of RA at that of the nudge
  (`EquatorialMount.cpp:165`).
* A value typed with `config` is not held against the limits, the boot does it and halts
  (`TelescopeConfiguration.cpp:522`); `telescope.cfg` names items that no code reads.
* Two readers that `align` at a time may store behind the array (`EquatorialMount.h:130`).
* The minutes of a negative angle are added (`CelestialMath.cpp:987`).
* The ramp from the inertial state down to a lower slewing speed has one step (`Axis.cpp:249`).

What properties leave out, where the code does not do better: a slew may end inertial by a
keep-speed flag of any age (`IdleTaskStatus`, `SlewEndsStopped`); `AccelerationLimited` begins at
the first wait of a slew; `TrackingIsReal` lets an inertial axis out; `StepsCounted` speaks of
readings that nothing came into; `AlignedAlone` of aligns that do not overlap; `EachAnsweredOnce` of
how often, not in which order.

## Proofs

Every theorem is about the specification that the runs check, for every value of the constants
that meets the named assumptions.

**`AxisProof`** assumes finitely many clients, requests among the commands, sizes above 0, speeds
that are natural numbers, slewing, guiding and correction speeds above 0.  It proves `TypeOK`,
`StoppedMeansStill`, `IdleTaskStatus`, `PoolConserved`, `PutNeverFails`,
`NoLostGuidePulse` as invariants, and `AccelerationLimited`, `EmergencyStopIsImmediate`,
`SlewEndsStopped`, `ModeChangesAtRest` as action properties.

The argument: none of these is inductive alone, since what a step may assume about the motor
depends on where in `slew` or `track` the thread is.  `IInv` adds that: `RampInv` (at the points of a
ramp the current speed is that of a step of a unit ramp, and a deceleration starts from 0),
`MotionInv` (status, motor, mode, speed at each group of points; `Resting` in between) and
`ClientInv` (what a client holds at each point of a call).  `NextInv` has one case per action.
`RampSteps` collects what the six ramp actions do; type correctness and the limit on acceleration
both use it.  `PoolConserved` needs `ClientInv` and the cardinality of the set of clients that hold
a block.  `PutNeverFails` follows from it.

Four more properties have invariants of their own upon `IInv`.  `NoLostSpeedChange`: a ramp at
`accel` or `ramp` aims at the slewing speed, or a change of it is announced, by a flag that is set
or that the client which changed the speed is about to set (`SpeedInv`).  `NoEarlyWake`
(`WokenByOwnSlew`) holds when one thread slews (`OneSlewer`), which is how the mount uses an axis;
with two, one takes the semaphore of the other.  `WakeInv`: while its goto is queued or in hand it
waits with the semaphore down, and there is no second one.  `MotorFollowsGoto` (`FollowsGoto`) has no
condition: a goto is taken up only at rest (`Accepted`), so its motor is started by it, and the
direction is not touched until it pulls over.  `GuideRestoresTracking` (`GuidingUndone`) assumes
`MountUse`: where the tracking speed is set, it is never set to 0 and what tracks has a direction, as
the mount sees to; with it, a speed set during a pulse cannot make the end of the pulse start or stop
the motor wrongly (`GuideInv`: also during a pulse in the direction of tracking it turns that way).

**`AxisPortProof`** proves the refinement of `AxisPort` (`Implements`), so what the mount's proofs say
over two abstract axes holds over this one.  `PhaseInv` ties the point of the task thread to the
slewing state and to the correction still to come, which is what the port sees.  `Shown` is the
record the mapping computes; each action of the axis is shown to be one of the port or to leave
`Shown` as it is.

**`UsbDeviceProof`** proves `ClassFollowsState`, `NoTransferStalls`, `ReadDelivered`,
`HostReadsBack` and `TypeOK`.  It assumes that descriptors are not empty (`DescriptorAssumption`)
and that the host's requests are well formed (`RequestAssumption`).  The packet size is any number
above 0.  `IInv` joins four things: the shape of the device handle; that the class is loaded exactly
while the state, looked at through a suspension, is configured; that bus and device agree on whether
they are suspended; and `InStep`, which pairs each stage of the host's transfer with what endpoint 0
is programmed for and how much is left to send.  `SetupStage` is the long case: every handler ends
in one of the ways `Answers` lists, a reply, an acknowledgement or a stall.  `HostReadsBack` needs
to know what a transfer under way will change: `TalkInv` says that the configuration and the line
coding of the device are among those the host may believe in, or are those of a request of which
only the status is to come; that a reply under way holds one the host may believe in; and that the
class takes the data of a line coding for the request that announced it.

**`SerialProof`** proves `TransmitMatches`, `ClassFollowsState` for the device with its port, the
two refinements of `SerialPipe` (`ReceiveIsFifo`, `TransmitIsFifo`), `ReaderIsWoken` and
`SerialTypeOK`, for any threads and sizes.  The layers: `Moves`, a step of the device leaves the
bulk endpoints alone, or unloads the class, or loads it anew (`Quiet`, `Gone`, `Anew`); `LinkInv`,
from it, what class and endpoints have to do with each other; `DataInv`, that a packet is in `rxbuf`
only behind its interrupt, that it was asked for with room for it unless it is the first one, and
that what is sent is in `txbuf`. From `DataInv` each step is one of the pipe or a stutter:
`Contents` of a ring after a `Push`, `PushAll` or `Pop` is that of the sequence after `Append`,
concatenation or `Tail`.  `SerialInv` adds that the characters under way are in order and after the
last one delivered.  `ReaderIsWoken` (`WaitingReaderIsWoken`) holds when one thread reads the port
(`OneReader`; `task_thread` of the server does).  `WokenInv` follows the reader through `qwait`: the
slot of the tail is its own from the store on, since nobody else stores there, and an interrupt that
takes it off the ring sets its signal, which it has cleared before.  Two writers can store into one
slot, and one of them is forgotten.  The refinements and the types assume `MaxConfig = 1`, which is
what `usbd_conf.h:56` says: with two configurations a request could unload the class and load it in
one step, and the pipe would lose characters without its link going down.

**`DevicesProof`** has the other parts, each from its own specification:
* `StepsCounted`, `CountTypeOK`.  The driver adds what `StepOut` has counted to its own count when
  it starts and stops, so `CountInv` says that the sum of the two is at every moment the steps made
  since `resetCount` (`OutCount` is what `StepOut` would answer now), that `StepOut` steps only
  while the driver does (`OutFollowsDriver`), and what each step of a reading has in hand
  (`LookInv`).
* `DrawnIsWritten`, for any size of the display and any writers.  `LcdInv` compares ring and
  terminal cell by cell, and `Drawing` says that a writer gives the lock back only after it has
  signalled, so that a drawing thread that waits has drawn the ring as it is.  It assumes two rows
  at least (`ConsoleAssumption`; `main.cpp:84` makes more): with one, the row after the head is the
  head.
* `SavedIsRead`, for any table, original file and texts (`ConfigAssumption`: a text is what a line
  can hold, and the default of a Boolean item is one).  `ConfigInv`: every item is of the type its
  table or its line gives it (`ItemsSound`), every line is what its item was printed as
  (`FileSound`), and a boot has given back what the lines read so far were printed from
  (`ReadSoFar`).
* `AlignedAlone`, for any number of readers and stars: whoever is alone is the only one at work
  (`Solitude`), and at each of its points list and calibration are what it left (`Knows`).
* `PositionReadBack`, by arithmetic on angles that differ by whole turns (`SamePlace`), for every
  whole-degree place and any offsets, where the run looks at a few.
* `DevicesTypeOK`: a behaviour of `Devices` is one of each part (`PartsAreAlone`), so the theorems
  about the parts hold of what the run checks.

**`MountProof`** proves `MutexDiscipline` and `EachAnsweredOnce`, for any number of servers, lines of
any kind and event queues of any size; it assumes only that nobody is called `NoThread`.
`IInv` says where an operation may go back to (`Paths`: `sync`, `stop`, `track` are called from
several places), how deep the lock is taken at each point (`Held`, by `DepthAt`, which also sees the
return address), that the jobs in queues and hands are ones a line asks for (`Called`), and
that the accepted commands are those answered, queued or in a hand (`Accounted`).

**`GotoProof`** proves `GotoIsLast` and `GotoEnds` (`NoGotoDoneIsCutShort`).  From its first slew to
its last wait a goto holds the lock (`OneGoto`, from `Held`), whoever posts to an axis holds it too,
and the stops that do not take it only flush and set flags (`Quiet`).  So an axis that a goto waits
for is `Slewing`: the slew is last in the queue (`Queued`), in hand (`Doing`), over with the
semaphore free (`SlewDone`), or was flushed and nobody will free the semaphore (`Lost`, finding 3).
Any other axis knows of no goto (`Clear`).  `RaIsOver` carries the result of RA through the wait for
DEC, and a slew that took a stop is `Stopped`: its result is not that of a completed one, and no
later slew replaces it while the goto waits. `TaskMoves` sorts the steps of the task thread into
those within a command, those that fetch one and those that end one.

**`StatusProof`** proves what depends on the status.  `TrackingIsReal`: the status becomes that of
tracking in one action, which posts a tracking to RA.  Whatever ends it, a stop or a nudge, has a
point after that at which the thread will still write the status (`Disturbing`); so when nobody is at
one (`Settled`) a mount that says it is tracking has an RA axis that is `Ready`: a tracking is last in
the queue, about to begin, or running with no stop set; or the axis is inertial and has refused it.
The command in hand is then no goto, which could flush the queue at its end (`Upright`, `Plain`).

`QueuesAreBounded`: with N threads the queue of an axis has at most N(N+1)/2 + 1 commands, for any
finite set of servers.  The model has no full queue and lets a post always succeed, as
`startTracking` and `goToMount` need it to: the latter looks at no result and waits for the slew all
the same.  The status is what keeps the queue short.  A goto or a tracking is posted by a thread
that found the mount stopped, and the first one to post sets the status to something else; but
threads may have looked before that, and a stop sets the status to stopped some time after it has
flushed the queues, on top of what was posted in between.  The invariant `Room` counts, for an axis,
its commands, the threads that will post whatever the status becomes (`Late`: they looked already,
or they owe DEC its half of the operation), and those that may still find the mount stopped
(`Early`).  A thread that stops the axes is `Asleep` for an axis from the moment it finds the queue
of that axis empty until it writes the status; with *f* threads awake the sum is at most
*f*(*f*+1)/2 + 1.  Waking up adds one thread and lets at most all of the awake in again; falling
asleep needs an empty queue, so that nothing but the threads is left to count.  Only the thread that
holds the lock can be both late and early.  A nudge posts whatever the status, but to queues that it
flushed with the lock in its hands and to which nobody else has posted since (`FlushedFirst`).
`Kinds` sorts the actions of a thread into eight that the count tells apart.

`MountIsTyped`: `MountTypeOK`, for at most two servers, as `telescope_hardware.cpp:146-152` starts.
They have four threads, and so at most 11 commands wait where `task_pool` and `task_queue` have 16
places (`Axis.h:366-368`): no post is ever refused.  Three servers would be past what this bound
shows. `ValueInv` has the rest: the sets of bits the status can be, that jobs ask for speeds and
directions there are (from `NumberAssumption`), and that a command has its place in the event queue.

Only model-checked:
* `SlewEnds` and the other liveness properties: the prover has no rules for fairness.
* What the violations show to be false has no theorem, of course; `WokenByOwnSlew`, `GuidingUndone` and
  `WaitingReaderIsWoken` state under which use of a part a property holds that is false without.

## Not modelled

* Spherical geometry and the alignment fit (`CelestialMath`, beyond the pier side and the choice of
  the fit): floating point, its correctness is numerical.
* The cutting of lines, the parsing of angles, answers, help: texts that no property is about.
* The registers of the stepper chip over SPI, pins and clocks, the contents of USB descriptors,
  pixels: peripherals.
* `USBD_DeInit`, `USBD_Stop`, timeouts of the queues: nobody calls them.
* A failed mount of the SD card: then the table alone is the configuration, as if the file had no
  lines.
* Interfaces of clocks, location and encoders; `server_test`, load measurement: no logic of the
  program.

## Left to do

1. Liveness of the mount: that every accepted command is answered, which needs fairness of four
   threads and fails where `stopSync` meets an inertial axis.
2. The mount over the axes of `Axis` itself, callers preempted by the task threads and the other way
   round.  The records of `EquatorialMount` take the steps of `AxisPort`, and a post is one of them,
   where `Axis` takes a block and puts it in the queue in two; that this changes nothing for the mount
   rests on the priorities (`MayRun`).
