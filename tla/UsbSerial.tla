----------------------------- MODULE UsbSerial -----------------------------
(***************************************************************************)
(* The serial port over USB: USBSerial.cpp, its two queues and the threads *)
(* that wait on them (IOQueue.h) and the bulk data of the CDC class        *)
(* (usbd_cdc.c).  It extends UsbDevice: the host enumerates, resets,       *)
(* suspends and unplugs the device while data is in flight.                *)
(*                                                                         *)
(* Grain.  What a thread does in a critical section is one step, and so is *)
(* an interrupt.  ThreadQueue::qwait runs outside the critical section it  *)
(* was called in, so each of its accesses to the ring of waiting threads   *)
(* is a step, and interrupts and other threads run in between; the advance *)
(* of the index with its wrap counts as one.                               *)
(*                                                                         *)
(* Characters are numbered in the order they are accepted, in each         *)
(* direction.  All waits are for ever (osWaitForever, the default that     *)
(* read() and write() take), so the timeout of qwait never expires.        *)
(***************************************************************************)
EXTENDS UsbDevice, Sequences

CONSTANTS
  Readers,       \* threads in USBSerial::read
  Writers,       \* threads in USBSerial::write
  NoThread,      \* NULL, in a slot of ThreadQueue never used
  QueueSize,     \* USBSERIAL_QUEUE_SIZE, slots of a queue (one stays free)
  DataPacket,    \* CDC_DATA_FS_MAX_PACKET_SIZE
  WaitSlots,     \* MAX_THREAD_QUEUE
  MaxChars       \* bound on the characters received and written

ASSUME QueueAssumption ==
  /\ QueueSize \in Nat \ {0, 1} /\ DataPacket \in Nat \ {0}
  /\ WaitSlots \in Nat \ {0, 1} /\ MaxChars \in Nat
ASSUME ThreadAssumption == NoThread \notin Readers \cup Writers

Threads == Readers \cup Writers

VARIABLES
  rxq, txq,      \* InputQueue and OutputQueue: [buf, head, tail]
  rxthq, txthq,  \* their ThreadQueue: [slots, head, tail]
  rxbuf, txbuf,  \* the static buffers the endpoints work on
  tflags,        \* SIGNAL_QUEUE of each thread
  tpc,           \* where each thread is in put, get or qwait
  nrx, ntx,      \* characters the host has sent, threads have queued
  lastRead,      \* last character read
  lastSent       \* last character the host has got

queueVars == <<rxq, txq, rxthq, txthq, rxbuf, txbuf, tflags, tpc, nrx, ntx,
               lastRead, lastSent>>
serialVars == <<vars, queueVars>>

-----------------------------------------------------------------------------
(* The queues.                                                             *)

\* Fault: wraps one too late.
WrapLate(p, n) == IF p = n THEN 0 ELSE p + 1

Wrap(p, n) == IF p + 1 = n THEN 0 ELSE p + 1

Count(q) == (q.tail - q.head + QueueSize) % QueueSize

Capacity(q) == QueueSize - Count(q) - 1

Full(q) == q.tail - q.head = -1 \/ q.tail - q.head = QueueSize - 1

Empty(q) == q.head = q.tail

Push(q, c) ==
  [q EXCEPT !.buf[q.tail] = c, !.tail = Wrap(q.tail, QueueSize)]

\* One put for each of the characters s.
PushAll(q, s) ==
  LET slot(i) == 1 + ((i - q.tail + QueueSize) % QueueSize)
  IN  [q EXCEPT !.buf = [i \in DOMAIN q.buf |->
                           IF slot(i) <= Len(s) THEN s[slot(i)] ELSE q.buf[i]],
                !.tail = (@ + Len(s)) % QueueSize]

\* What is left in a slot that has been read is not looked at again.
Pop(q) ==
  [q EXCEPT !.buf[q.head] = 0, !.head = Wrap(q.head, QueueSize)]

Drained(q) == [q EXCEPT !.buf = [i \in DOMAIN @ |-> 0], !.head = q.tail]

\* Characters in the queue, oldest first.
Contents(q) == [i \in 1..Count(q) |-> q.buf[(q.head + i - 1) % QueueSize]]

ThqFull(w) == (w.tail - w.head + 1) % WaitSlots = 0

ThqStore(w, t) == [w EXCEPT !.slots[w.tail] = t]

ThqAdvance(w) == [w EXCEPT !.tail = Wrap(w.tail, WaitSlots)]

\* The threads woken when n characters have passed, one for each: the oldest
\* waiting ones.
Waiting(w) == (w.tail - w.head + WaitSlots) % WaitSlots

ThqGet(w, n) ==
  [w EXCEPT !.head = (w.head + MinOf(n, Waiting(w))) % WaitSlots]

Signalled(w, n) ==
  {w.slots[(w.head + i) % WaitSlots] : i \in 0..(MinOf(n, Waiting(w)) - 1)}
    \ {NoThread}

-----------------------------------------------------------------------------
(* The callbacks of USBSerial, on the device handle they are given.        *)

\* Fault: the transmitter is not asked whether it is busy.
TransmitUnchecked(d) == d.pClassData # "NULL"

\* USBD_CDC_TransmitPacket sends when the class is loaded and idle.
CanTransmit(d) == d.pClassData # "NULL" /\ d.TxState = 0

USBD_CDC_TransmitPacket(d) ==
  IF CanTransmit(d) THEN [d EXCEPT !.TxState = 1, !.in1 = "busy"] ELSE d

\* An endpoint that is armed again forgets a packet whose interrupt is
\* pending (HAL_PCD_EP_Receive counts it from zero).
USBD_CDC_ReceivePacket(d) ==
  IF d.pClassData # "NULL"
  THEN [d EXCEPT !.RxState = 1, !.out1 = "armed"] ELSE d

\* onotify, with q what is in txq.  Before the host has configured the device
\* TxState is read through a null pointer: whatever is found there, the queue
\* is either left alone or emptied into txbuf and not sent.
onotify(q, d) ==
  \E emptied \in
       IF d.pClassData = "NULL" THEN BOOLEAN ELSE {CanTransmit(d)} :
    IF emptied /\ Count(q) > 0
    THEN /\ txbuf' = IF d.pClassData = "NULL" THEN <<>> ELSE Contents(q)
         /\ txq' = Drained(q)
         /\ pdev' = USBD_CDC_TransmitPacket(d)
         /\ tflags' = [t \in Threads |->
              IF t \in Signalled(txthq, Count(q)) THEN 1 ELSE tflags[t]]
         /\ txthq' = ThqGet(txthq, Count(q))
    ELSE /\ txq' = q /\ pdev' = d
         /\ UNCHANGED <<txbuf, tflags, txthq>>

\* Fault: any free slot is taken for room for a packet.
RoomForOne(q) == Capacity(q) >= 1

RoomForPacket(q) == Capacity(q) >= DataPacket

\* inotify: arms the endpoint again once there is room for a packet.  When
\* the class is not loaded, arming it fails.
inotify(q, d) ==
  IF d.pClassData # "NULL" /\ d.RxState = 0 /\ RoomForPacket(q)
  THEN USBD_CDC_ReceivePacket(d) ELSE d

-----------------------------------------------------------------------------
(* Threads: USBSerial::write and read, a character at a time.              *)

Go(t, label) == tpc' = [tpc EXCEPT ![t] = label]

\* OutputQueue::put, from the start or after a wake-up.
Put(t) ==
  /\ tpc[t] \in {"idle", "retry"} /\ nrx + ntx < MaxChars
  /\ ~Full(txq)
  /\ ntx' = ntx + 1
  /\ onotify(Push(txq, ntx + 1), pdev)
  /\ Go(t, "idle")
  /\ UNCHANGED <<bus, host, view, rxq, rxthq, rxbuf, nrx, lastRead, lastSent>>

PutFull(t) ==
  /\ tpc[t] \in {"idle", "retry"}
  /\ Full(txq)
  /\ Go(t, "leave")
  /\ UNCHANGED <<vars, rxq, txq, rxthq, txthq, rxbuf, txbuf, tflags, nrx, ntx,
                 lastRead, lastSent>>

\* InputQueue::get.
Get(t) ==
  /\ tpc[t] \in {"idle", "retry"}
  /\ ~Empty(rxq)
  /\ lastRead' = rxq.buf[rxq.head]
  /\ rxq' = Pop(rxq)
  /\ pdev' = inotify(Pop(rxq), pdev)
  /\ rxbuf' = IF pdev'.out1 = "full" THEN rxbuf ELSE <<>>
  /\ Go(t, "idle")
  /\ UNCHANGED <<bus, host, view, txq, rxthq, txthq, txbuf, tflags, nrx, ntx,
                 lastSent>>

GetEmpty(t) ==
  /\ tpc[t] \in {"idle", "retry"}
  /\ Empty(rxq)
  /\ Go(t, "leave")
  /\ UNCHANGED <<vars, rxq, txq, rxthq, txthq, rxbuf, txbuf, tflags, nrx, ntx,
                 lastRead, lastSent>>

(* qwait, on the ring of the queue the thread waits on.                    *)

ThqOf(t) == IF t \in Readers THEN rxthq ELSE txthq

SetThq(t, w) ==
  IF t \in Readers THEN rxthq' = w /\ UNCHANGED txthq
  ELSE txthq' = w /\ UNCHANGED rxthq

\* A thread in qwait goes from one label to the next.
Passes(t, from, to) == tpc[t] = from /\ Go(t, to)

\* Fault: the signal is cleared after the thread is in the ring.
QwaitClearsLast(t) ==
  /\ \/ /\ Passes(t, "leave", "cleared") /\ ~ThqFull(ThqOf(t))
        /\ UNCHANGED <<rxthq, txthq, tflags>>
     \/ /\ Passes(t, "cleared", "room") /\ SetThq(t, ThqStore(ThqOf(t), t))
        /\ UNCHANGED tflags
     \/ /\ Passes(t, "room", "stored") /\ SetThq(t, ThqAdvance(ThqOf(t)))
        /\ UNCHANGED tflags
     \/ /\ Passes(t, "stored", "sleep") /\ tflags' = [tflags EXCEPT ![t] = 0]
        /\ UNCHANGED <<rxthq, txthq>>
  /\ UNCHANGED <<vars, rxq, txq, rxbuf, txbuf, nrx, ntx, lastRead, lastSent>>

\* signal_clr, full(), the store and the advance of ThreadQueue::put, after
\* which the thread waits.
Qwait(t) ==
  /\ \/ /\ Passes(t, "leave", "cleared") /\ tflags' = [tflags EXCEPT ![t] = 0]
        /\ UNCHANGED <<rxthq, txthq>>
     \/ /\ Passes(t, "cleared", "room") /\ ~ThqFull(ThqOf(t))
        /\ UNCHANGED <<rxthq, txthq, tflags>>
     \/ /\ Passes(t, "room", "stored") /\ SetThq(t, ThqStore(ThqOf(t), t))
        /\ UNCHANGED tflags
     \/ /\ Passes(t, "stored", "sleep") /\ SetThq(t, ThqAdvance(ThqOf(t)))
        /\ UNCHANGED tflags
  /\ UNCHANGED <<vars, rxq, txq, rxbuf, txbuf, nrx, ntx, lastRead, lastSent>>

\* "Queue full": put and get return osErrorTimeout, which read and write do
\* not look at, and the character is skipped.
QwaitFails(t) ==
  /\ Passes(t, "cleared", "idle") /\ ThqFull(ThqOf(t))
  /\ UNCHANGED <<vars, rxq, txq, rxthq, txthq, rxbuf, txbuf, tflags, nrx, ntx,
                 lastRead, lastSent>>

Wake(t) ==
  /\ tpc[t] = "sleep" /\ tflags[t] = 1
  /\ tflags' = [tflags EXCEPT ![t] = 0]
  /\ Go(t, "retry")
  /\ UNCHANGED <<vars, rxq, txq, rxthq, txthq, rxbuf, txbuf, nrx, ntx,
                 lastRead, lastSent>>

-----------------------------------------------------------------------------
(* Bulk data.                                                              *)

\* A packet of the host is in rxbuf; its interrupt is pending.
HostSends ==
  /\ bus = "active" /\ pdev.out1 = "armed" /\ "OUT1" \notin pdev.is_stall
  /\ \E n \in 1..DataPacket :
       /\ nrx + ntx + n <= MaxChars
       /\ rxbuf' = [i \in 1..n |-> nrx + i]
       /\ nrx' = nrx + n
  /\ pdev' = [pdev EXCEPT !.out1 = "full"]
  /\ UNCHANGED <<bus, host, view, rxq, txq, rxthq, txthq, txbuf, tflags, tpc,
                 ntx, lastRead, lastSent>>

\* USBD_LL_DataOutStage, USBD_CDC_DataOut and CDC_Received: as much as there
\* is room for goes to the queue, one InputQueue::put a character, and the
\* endpoint is armed again if a packet still fits.
DataOut ==
  /\ pdev.out1 = "full"
  /\ LET n == MinOf(Len(rxbuf), Capacity(rxq))
         q == PushAll(rxq, SubSeq(rxbuf, 1, n))
     IN  /\ rxq' = q
         /\ pdev' = inotify(q, [pdev EXCEPT !.out1 = "idle", !.RxState = 0])
         /\ tflags' = [t \in Threads |->
              IF t \in Signalled(rxthq, n) THEN 1 ELSE tflags[t]]
         /\ rxthq' = ThqGet(rxthq, n)
  /\ rxbuf' = <<>>
  /\ UNCHANGED <<bus, host, view, txq, txthq, txbuf, tpc, nrx, ntx, lastRead,
                 lastSent>>

\* The host takes a packet of what is being transmitted.
HostTakes ==
  /\ bus = "active" /\ pdev.in1 = "busy" /\ "IN1" \notin pdev.is_stall
  /\ LET n == MinOf(DataPacket, Len(txbuf))
     IN  /\ lastSent' = txbuf[n]
         /\ txbuf' = SubSeq(txbuf, n + 1, Len(txbuf))
         /\ pdev' = [pdev EXCEPT !.in1 = IF n = Len(txbuf) THEN "done" ELSE @]
  /\ UNCHANGED <<bus, host, view, rxq, txq, rxthq, txthq, rxbuf, tflags, tpc,
                 nrx, ntx, lastRead>>

\* Fault: the end of a transmission is not recorded.
TransmittedStaysBusy(d) == [d EXCEPT !.in1 = "idle"]

USBD_CDC_DataIn(d) == [d EXCEPT !.in1 = "idle", !.TxState = 0]

\* USBD_LL_DataInStage, USBD_CDC_DataIn and CDC_Transmitted.
DataIn ==
  /\ pdev.in1 = "done"
  /\ onotify(txq, USBD_CDC_DataIn(pdev))
  /\ UNCHANGED <<bus, host, view, rxq, rxthq, rxbuf, tpc, nrx, ntx, lastRead,
                 lastSent>>

\* The buffers of a closed endpoint are not looked at again.
Dropped ==
  /\ rxbuf' = IF pdev'.out1 = "full" THEN rxbuf ELSE <<>>
  /\ txbuf' = IF pdev'.in1 = "busy" THEN txbuf ELSE <<>>

\* The bus is suspended after 3 ms without traffic: no interrupt is pending.
Device ==
  /\ \/ ControlNext \/ BusReset \/ BusResume \/ BusDisconnect
     \/ BusSuspend /\ pdev.out1 # "full" /\ pdev.in1 # "done"
  /\ Dropped
  /\ UNCHANGED <<rxq, txq, rxthq, txthq, tflags, tpc, nrx, ntx, lastRead,
                 lastSent>>

-----------------------------------------------------------------------------
EmptyQueue == [buf |-> [i \in 0..(QueueSize - 1) |-> 0], head |-> 0, tail |-> 0]

EmptyThq ==
  [slots |-> [i \in 0..(WaitSlots - 1) |-> NoThread], head |-> 0, tail |-> 0]

SerialInit ==
  /\ Init
  /\ rxq = EmptyQueue /\ txq = EmptyQueue
  /\ rxthq = EmptyThq /\ txthq = EmptyThq
  /\ rxbuf = <<>> /\ txbuf = <<>>
  /\ tflags = [t \in Threads |-> 0] /\ tpc = [t \in Threads |-> "idle"]
  /\ nrx = 0 /\ ntx = 0 /\ lastRead = 0 /\ lastSent = 0

SerialNext ==
  \/ Device \/ HostSends \/ DataOut \/ HostTakes \/ DataIn
  \/ \E t \in Writers : Put(t) \/ PutFull(t)
  \/ \E t \in Readers : Get(t) \/ GetEmpty(t)
  \/ \E t \in Threads :
       Qwait(t) \/ QwaitFails(t) \/ Wake(t)

SerialSpec == SerialInit /\ [][SerialNext]_serialVars

-----------------------------------------------------------------------------
(* Properties.                                                             *)

SerialTypeOK ==
  /\ \A q \in {rxq, txq} :
       /\ q.head \in 0..(QueueSize - 1) /\ q.tail \in 0..(QueueSize - 1)
  /\ \A w \in {rxthq, txthq} :
       /\ w.head \in 0..(WaitSlots - 1) /\ w.tail \in 0..(WaitSlots - 1)
       /\ \A i \in DOMAIN w.slots : w.slots[i] \in Threads \cup {NoThread}
  /\ tflags \in [Threads -> {0, 1}]
  /\ tpc \in [Threads -> {"idle", "retry", "leave", "cleared", "room",
                       "stored", "sleep"}]
  /\ nrx \in Nat /\ ntx \in Nat /\ nrx + ntx <= MaxChars
  /\ lastRead \in 0..nrx /\ lastSent \in 0..ntx
  /\ Len(rxbuf) <= DataPacket /\ Len(txbuf) < QueueSize

\* The transmitter is taken for busy exactly while a transfer is under way,
\* whatever resets and disconnections happen under it (usbd_cdc.c:319, 639):
\* taken for idle, txbuf is overwritten under the controller; taken for busy,
\* nothing is sent any more.
TransmitMatches ==
  pdev.pClassData # "NULL" => (pdev.TxState = 1 <=> pdev.in1 # "idle")

InRing(w, t) ==
  \E i \in 0..(WaitSlots - 1) :
    i < Waiting(w) /\ w.slots[(w.head + i) % WaitSlots] = t

\* A reader that waits is woken by the next character: it is in the ring of
\* waiting threads, with no interrupt able to take it off unseen, or its flag
\* is set.  The signal is cleared before the thread enters the ring, the slot
\* is filled before it counts, and interrupts run between any two of these
\* steps (IOQueue.h:48-54, 67-70).  A character that arrives between the look
\* at the queue and the ring wakes nobody: that reader waits for the next one.
ReaderIsWoken ==
  \A r \in Readers : tpc[r] = "sleep" => tflags[r] = 1 \/ InRing(rxthq, r)

\* What the threads write reaches the host in order, each character once, and
\* is lost only when the class is unloaded or not loaded yet: the queue, the
\* buffer of the endpoint and the flag between them (USBSerial.cpp:102-122)
\* implement a FIFO.
TxPipe == INSTANCE SerialPipe WITH
  content  <- (IF pdev.in1 = "busy" THEN txbuf ELSE <<>>) \o Contents(txq),
  accepted <- ntx,
  last     <- lastSent,
  link     <- IF pdev.pClassData = "NULL" THEN "down" ELSE "up"

TransmitIsFifo == TxPipe!Spec

\* What the host sends reaches the readers in order, each character once; what
\* is lost is lost by a disconnection, or is the first packet after one, for
\* which the endpoint was armed without room in the queue (USBSerial.cpp:27).
\* After it the flow control of inotify keeps the queue from overflowing.
RxPipe == INSTANCE SerialPipe WITH
  content  <- Contents(rxq) \o rxbuf,
  accepted <- nrx,
  last     <- lastRead,
  link     <- IF pdev.pClassData = "NULL" THEN "down"
              ELSE IF pdev.RxState = 0 /\ pdev.out1 # "idle" THEN "fresh"
              ELSE "up"

ReceiveIsFifo == RxPipe!Spec
=============================================================================
