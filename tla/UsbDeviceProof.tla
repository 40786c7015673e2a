--------------------------- MODULE UsbDeviceProof ---------------------------
(***************************************************************************)
(* Theorems about UsbDevice, for any packet size, descriptor lengths and   *)
(* well-formed requests: the class follows the state of the device,        *)
(* control transfers keep host and device in step, and the host reads back *)
(* what it has set.                                                        *)
(***************************************************************************)
EXTENDS UsbDevice, TLAPS

(***************************************************************************)
(* Packets                                                                 *)
(***************************************************************************)
\* Remainders are unique.
LEMMA SameRemainder ==
  ASSUME NEW b \in Nat \ {0}, NEW q \in Int, NEW p \in Int,
         NEW r \in 0..(b - 1), NEW s \in 0..(b - 1), b * q + r = b * p + s
  PROVE  r = s
<1>1. b * (q - p) = s - r
  OBVIOUS
<1> DEFINE k == q - p
<1>2. k \in Int /\ b * k = s - r
  BY <1>1
<1>3. k >= 1 => q > p
  OBVIOUS
<1> HIDE DEF k
<1>4. CASE k >= 1
  <2>1. b * k >= b
    BY <1>2, <1>4
  <2> QED BY <1>2, <2>1
<1>5. CASE k <= -1
  <2>1. b * k <= -b
    BY <1>2, <1>5
  <2> QED BY <1>2, <2>1
<1>6. CASE k = 0
  BY <1>2, <1>6
<1> QED BY <1>2, <1>4, <1>5, <1>6

\* The remainder of packets and a rest is the rest.
LEMMA RestOf ==
  ASSUME NEW a \in Nat, NEW z \in Int, NEW rest \in 0..(MaxPacket - 1),
         a = MaxPacket * z + rest
  PROVE  a % MaxPacket = rest
<1> DEFINE p == a \div MaxPacket
           r == a % MaxPacket
<1>1. p \in Int /\ r \in 0..(MaxPacket - 1) /\ a = MaxPacket * p + r
  BY PacketAssumption
<1> HIDE DEF p, r
<1>2. MaxPacket * p + r = MaxPacket * z + rest
  BY <1>1
<1>3. r = rest
  BY <1>1, <1>2, SameRemainder, PacketAssumption
<1> QED BY <1>3 DEF r

\* After whole packets, what is left of a length is its last packet.
LEMMA LastPacket ==
  ASSUME NEW n \in Nat, NEW m \in Nat, n % MaxPacket = 0
  PROVE  /\ m < MaxPacket => (n + m) % MaxPacket = m
         /\ (n + MaxPacket) % MaxPacket = 0
<1> USE PacketAssumption
<1> DEFINE q == n \div MaxPacket
           z == q + 1
<1>1. q \in Int /\ z \in Int /\ n = MaxPacket * q
  OBVIOUS
<1>2. n + MaxPacket = MaxPacket * z + 0
  BY <1>1
<1> HIDE DEF q, z
<1>3. ASSUME m < MaxPacket PROVE (n + m) % MaxPacket = m
  <2>1. n + m = MaxPacket * q + m /\ m \in 0..(MaxPacket - 1)
    BY <1>1, <1>3
  <2> QED BY <1>1, <2>1, RestOf
<1>4. (n + MaxPacket) % MaxPacket = 0
  <2>1. n + MaxPacket \in Nat /\ 0 \in 0..(MaxPacket - 1)
    OBVIOUS
  <2> QED BY <1>1, <1>2, <2>1, RestOf
<1> QED BY <1>3, <1>4

(***************************************************************************)
(* The device handle                                                       *)
(***************************************************************************)
Fields ==
  {"dev_state", "dev_old_state", "dev_config", "dev_address",
   "dev_remote_wakeup", "dev_speed", "ep0_state", "ep0_data_len",
   "total_length", "rem_length", "rx_rem_length", "reply", "pClassData",
   "CmdOpCode", "data", "linecoding", "TxState", "RxState", "in0", "out0",
   "in1", "out1", "opened", "is_stall", "usb_address"}

Handle(d) == DOMAIN d = Fields

\* What a request that is not about address or configuration leaves alone.
SameClass(d, e) ==
  /\ e.dev_state = d.dev_state /\ e.dev_old_state = d.dev_old_state
  /\ e.dev_config = d.dev_config /\ e.dev_address = d.dev_address
  /\ e.pClassData = d.pClassData
  /\ e.opened = d.opened /\ e.in1 = d.in1 /\ e.out1 = d.out1

\* What a call that is not about endpoint 0 leaves alone.
SameEp0(d, e) ==
  /\ e.ep0_state = d.ep0_state /\ e.ep0_data_len = d.ep0_data_len
  /\ e.total_length = d.total_length /\ e.rem_length = d.rem_length
  /\ e.rx_rem_length = d.rx_rem_length
  /\ e.in0 = d.in0 /\ e.out0 = d.out0

NotStalled(d) == "IN0" \notin d.is_stall /\ "OUT0" \notin d.is_stall

\* Each stage of endpoint 0 leaves the class alone, and its own trace.
LEMMA SendData ==
  ASSUME NEW d, Handle(d), NEW what, NEW len,
         NEW e, e = USBD_CtlSendData(d, what, len)
  PROVE  /\ Handle(e) /\ SameClass(d, e)
         /\ e.ep0_state = "DATA_IN" /\ e.in0 = len
         /\ e.total_length = len /\ e.rem_length = len
         /\ e.ep0_data_len = d.ep0_data_len /\ e.is_stall = d.is_stall
  BY DEF USBD_CtlSendData, USBD_LL_Transmit, Handle, Fields, SameClass

LEMMA PrepareRx ==
  ASSUME NEW d, Handle(d), NEW len, NEW e, e = USBD_CtlPrepareRx(d, len)
  PROVE  /\ Handle(e) /\ SameClass(d, e)
         /\ e.ep0_state = "DATA_OUT" /\ e.out0 = "armed"
         /\ e.rx_rem_length = len /\ e.is_stall = d.is_stall
  BY DEF USBD_CtlPrepareRx, USBD_LL_PrepareReceive, Handle, Fields, SameClass

LEMMA SendStatus ==
  ASSUME NEW d, Handle(d), NEW e, e = USBD_CtlSendStatus(d)
  PROVE  /\ Handle(e) /\ SameClass(d, e)
         /\ e.ep0_state = "STATUS_IN" /\ e.in0 = 0 /\ e.is_stall = d.is_stall
  BY DEF USBD_CtlSendStatus, USBD_LL_Transmit, Handle, Fields, SameClass

LEMMA ReceiveStatus ==
  ASSUME NEW d, Handle(d), NEW e, e = USBD_CtlReceiveStatus(d)
  PROVE  /\ Handle(e) /\ SameClass(d, e)
         /\ e.ep0_state = "STATUS_OUT" /\ e.out0 = "armed"
         /\ e.total_length = d.total_length /\ e.is_stall = d.is_stall
  BY DEF USBD_CtlReceiveStatus, USBD_LL_PrepareReceive, Handle, Fields,
         SameClass

LEMMA CtlError ==
  ASSUME NEW d, Handle(d), NEW e, e = USBD_CtlError(d)
  PROVE  /\ Handle(e) /\ SameClass(d, e)
         /\ "IN0" \in e.is_stall /\ "OUT0" \in e.is_stall /\ e.in0 = d.in0
  BY DEF USBD_CtlError, USBD_LL_StallEP, Handle, Fields, SameClass

LEMMA StallEP ==
  ASSUME NEW d, Handle(d), NEW ep, NEW e, e = USBD_LL_StallEP(d, ep)
  PROVE  /\ Handle(e) /\ SameClass(d, e) /\ SameEp0(d, e)
         /\ e.is_stall = d.is_stall \cup {ep}
  BY DEF USBD_LL_StallEP, Handle, Fields, SameClass, SameEp0

LEMMA ClearStallEP ==
  ASSUME NEW d, Handle(d), NEW ep, NEW e, e = USBD_LL_ClearStallEP(d, ep)
  PROVE  /\ Handle(e) /\ SameClass(d, e) /\ SameEp0(d, e)
         /\ e.is_stall = d.is_stall \ {ep}
  BY DEF USBD_LL_ClearStallEP, Handle, Fields, SameClass, SameEp0

\* The class: its control requests leave its state alone.
LEMMA ControlOfClass ==
  ASSUME NEW d, Handle(d), NEW op, NEW e, e = CDC_Control(d, op)
  PROVE  /\ Handle(e) /\ SameClass(d, e) /\ SameEp0(d, e)
         /\ e.is_stall = d.is_stall
  BY DEF CDC_Control, Handle, Fields, SameClass, SameEp0

LEMMA RxReady ==
  ASSUME NEW d, Handle(d), NEW e, e = USBD_CDC_EP0_RxReady(d)
  PROVE  /\ Handle(e) /\ SameClass(d, e) /\ SameEp0(d, e)
         /\ e.is_stall = d.is_stall
<1>1. CASE d.CmdOpCode = NoOp
  BY <1>1 DEF USBD_CDC_EP0_RxReady, SameClass, SameEp0
<1>2. CASE d.CmdOpCode # NoOp
  <2> DEFINE c == CDC_Control(d, d.CmdOpCode)
  <2>1. /\ Handle(c) /\ SameClass(d, c) /\ SameEp0(d, c)
        /\ c.is_stall = d.is_stall
    BY ControlOfClass
  <2>2. e = [c EXCEPT !.CmdOpCode = NoOp]
    BY <1>2 DEF USBD_CDC_EP0_RxReady
  <2> HIDE DEF c
  <2> QED BY <2>1, <2>2 DEF Handle, Fields, SameClass, SameEp0
<1> QED BY <1>1, <1>2

\* The class sends or takes data, or leaves endpoint 0 as it is.
Relays(d, e, r) ==
  \/ /\ r.type = "class" /\ r.len > 0 /\ r.dir = "in"
     /\ e.ep0_state = "DATA_IN" /\ e.in0 = r.len
     /\ e.total_length = r.len /\ e.rem_length = r.len
  \/ /\ r.type = "class" /\ r.len > 0 /\ r.dir = "out"
     /\ e.ep0_state = "DATA_OUT" /\ e.out0 = "armed"
     /\ e.rx_rem_length = r.len
  \/ /\ r.type = "std" /\ r.req = "GET_INTERFACE"
     /\ e.ep0_state = "DATA_IN" /\ e.in0 = 1
     /\ e.total_length = 1 /\ e.rem_length = 1
  \/ /\ ~(r.type = "class" /\ r.len > 0 /\ r.dir \in {"in", "out"})
     /\ ~(r.type = "std" /\ r.req = "GET_INTERFACE")
     /\ SameEp0(d, e)

\* A request to the class: data, and nothing else, moves endpoint 0.
LEMMA SetupOfClass ==
  ASSUME NEW d, Handle(d), NEW r, NEW e, e = USBD_CDC_Setup(d, r)
  PROVE  /\ Handle(e) /\ SameClass(d, e) /\ e.is_stall = d.is_stall
         /\ e.ep0_data_len = d.ep0_data_len
         /\ Relays(d, e, r)
<1>1. CASE r.type = "class" /\ r.len > 0 /\ r.dir = "in"
  <2> DEFINE c == CDC_Control(d, r.req)
  <2>1. Handle(c) /\ SameClass(d, c) /\ SameEp0(d, c) /\ c.is_stall = d.is_stall
    BY ControlOfClass
  <2>2. e = USBD_CtlSendData(c, <<r.req, c.data>>, r.len)
    BY <1>1 DEF USBD_CDC_Setup
  <2> HIDE DEF c
  <2>3. /\ Handle(e) /\ SameClass(c, e)
        /\ e.ep0_state = "DATA_IN" /\ e.in0 = r.len
        /\ e.total_length = r.len /\ e.rem_length = r.len
        /\ e.ep0_data_len = c.ep0_data_len /\ e.is_stall = c.is_stall
    BY <2>1, <2>2, SendData
  <2> QED BY <1>1, <2>1, <2>3 DEF SameClass, SameEp0, Relays
<1>2. CASE r.type = "class" /\ r.len > 0 /\ r.dir = "out"
  <2> DEFINE c == [d EXCEPT !.CmdOpCode = r.req]
  <2>1. /\ Handle(c) /\ SameClass(d, c) /\ c.is_stall = d.is_stall
        /\ c.ep0_data_len = d.ep0_data_len
    BY DEF Handle, Fields, SameClass
  <2>2. e = USBD_CtlPrepareRx(c, r.len)
    BY <1>2 DEF USBD_CDC_Setup
  <2>3. e.ep0_data_len = d.ep0_data_len
    BY <2>2 DEF USBD_CtlPrepareRx, USBD_LL_PrepareReceive, Handle, Fields
  <2> HIDE DEF c
  <2>4. /\ Handle(e) /\ SameClass(c, e)
        /\ e.ep0_state = "DATA_OUT" /\ e.out0 = "armed"
        /\ e.rx_rem_length = r.len /\ e.is_stall = c.is_stall
    BY <2>1, <2>2, PrepareRx
  <2> QED BY <1>2, <2>1, <2>3, <2>4 DEF SameClass, Relays
<1>3. CASE r.type = "std" /\ r.req = "GET_INTERFACE"
  <2>1. e = USBD_CtlSendData(d, <<r.req, 0>>, 1)
    BY <1>3 DEF USBD_CDC_Setup
  <2> QED BY <1>3, <2>1, SendData DEF Relays
<1>4. CASE /\ ~(r.type = "class" /\ r.len > 0 /\ r.dir \in {"in", "out"})
           /\ ~(r.type = "std" /\ r.req = "GET_INTERFACE")
  <2>1. e = d \/ e = CDC_Control(d, r.req)
    BY <1>4 DEF USBD_CDC_Setup
  <2> QED BY <1>4, <2>1, ControlOfClass DEF SameClass, SameEp0, Relays
<1> QED BY <1>1, <1>2, <1>3, <1>4

(***************************************************************************)
(* Requests: each is answered by data, a status stage or a stall, or is    *)
(* one of those that Ignored names.                                        *)
(***************************************************************************)
IgnoredIn(state, r) ==
  \/ r.rcpt = "device" /\ r.req = "GET_DESCRIPTOR" /\ r.len = 0
  \/ r.rcpt = "device" /\ r.req \in {"SET_FEATURE", "CLEAR_FEATURE"}
       /\ r.value # REMOTE_WAKEUP
  \/ r.rcpt = "interface" /\ r.type # "class" /\ r.len > 0
       /\ r.req # "GET_INTERFACE"
  \/ r.rcpt = "endpoint" /\ (r.type = "class" \/ state = "ADDRESSED"
       \/ r.value # EP_HALT \/ r.req \notin {"SET_FEATURE", "CLEAR_FEATURE"})
  \/ r.rcpt = "other" /\ r.dir = "out"

Stalled(d, stage) ==
  \/ stage \in {"dataIn", "statusIn"} /\ "IN0" \in d.is_stall
  \/ stage \in {"dataOut", "statusOut"} /\ "OUT0" \in d.is_stall

Unanswered(d, r) ==
  /\ d.ep0_state = "SETUP" /\ d.in0 = NAK /\ d.out0 = "nak"
  /\ IgnoredIn(d.dev_state, r)

\* Endpoint 0 as the setup packet leaves it for the library.
Fresh(d, r) ==
  /\ Handle(d) /\ NotStalled(d)
  /\ d.ep0_state = "SETUP" /\ d.in0 = NAK /\ d.out0 = "nak"
  /\ d.ep0_data_len = r.len

SendsData(d, r) ==
  /\ r.len > 0 /\ r.dir = "in" /\ NotStalled(d)
  /\ d.ep0_state = "DATA_IN" /\ d.ep0_data_len = r.len
  /\ d.total_length \in Nat \ {0} /\ d.total_length <= r.len
  /\ d.in0 = d.total_length /\ d.rem_length = d.total_length

TakesData(d, r) ==
  /\ r.len > 0 /\ r.dir = "out" /\ NotStalled(d)
  /\ d.ep0_state = "DATA_OUT" /\ d.out0 = "armed" /\ d.rx_rem_length = r.len

SendsStatus(d, r) ==
  r.len = 0 /\ NotStalled(d) /\ d.ep0_state = "STATUS_IN" /\ d.in0 = 0

Answers(d, r) ==
  \/ Stalled(d, FirstStage(r)) /\ d.in0 = NAK
  \/ Unanswered(d, r)
  \/ SendsData(d, r)
  \/ TakesData(d, r)
  \/ SendsStatus(d, r)

Outcome(d, e, r) == Handle(e) /\ SameClass(d, e) /\ Answers(e, r)

\* The ways to answer a request that was just received.
LEMMA AnswerByError ==
  ASSUME NEW d, NEW r \in HostRequests, Fresh(d, r),
         NEW e, e = USBD_CtlError(d)
  PROVE  Outcome(d, e, r)
<1>1. FirstStage(r) \in {"statusIn", "dataIn", "dataOut"}
  BY DEF FirstStage
<1>2. Handle(d) /\ d.in0 = NAK
  BY DEF Fresh
<1> QED BY <1>1, <1>2, CtlError DEF Outcome, Answers, Stalled

LEMMA AnswerByData ==
  ASSUME NEW d, NEW r \in HostRequests, Fresh(d, r), r.len > 0, r.dir = "in",
         NEW what, NEW len \in Nat \ {0}, len <= r.len,
         NEW e, e = USBD_CtlSendData(d, what, len)
  PROVE  Outcome(d, e, r)
<1>1. /\ Handle(e) /\ SameClass(d, e)
      /\ e.ep0_state = "DATA_IN" /\ e.in0 = len
      /\ e.total_length = len /\ e.rem_length = len
      /\ e.ep0_data_len = d.ep0_data_len /\ e.is_stall = d.is_stall
  BY SendData DEF Fresh
<1> QED BY <1>1 DEF Outcome, Answers, SendsData, Fresh, NotStalled

\* A status stage, after a change of the handle that is none of endpoint 0's.
LEMMA AnswerByStatus ==
  ASSUME NEW d, NEW c, NEW r \in HostRequests, NotStalled(d), r.len = 0,
         Handle(c), SameClass(d, c), NotStalled(c),
         NEW e, e = USBD_CtlSendStatus(c)
  PROVE  Outcome(d, e, r)
<1>1. /\ Handle(e) /\ SameClass(c, e)
      /\ e.ep0_state = "STATUS_IN" /\ e.in0 = 0 /\ e.is_stall = c.is_stall
  BY SendStatus
<1> QED BY <1>1 DEF Outcome, Answers, SendsStatus, NotStalled, SameClass

LEMMA NoAnswer ==
  ASSUME NEW d, NEW r \in HostRequests, Fresh(d, r),
         NEW e, Handle(e), SameClass(d, e), SameEp0(d, e),
         IgnoredIn(d.dev_state, r)
  PROVE  Outcome(d, e, r)
  BY DEF Fresh, Outcome, Answers, Unanswered, SameClass, SameEp0

(* Requests to the device.                                                 *)

LEMMA GetDescriptor ==
  ASSUME NEW d, NEW r \in HostRequests, Fresh(d, r), r.rcpt = "device",
         r.req = "GET_DESCRIPTOR", NEW e, e = USBD_GetDescriptor(d, r)
  PROVE  Outcome(d, e, r)
<1> DEFINE highOnly == {DEVICE_QUALIFIER, OTHER_SPEED_CONFIGURATION}
           known == /\ r.value \in DOMAIN DescLen
                    /\ r.value \in highOnly => d.dev_speed = "HIGH"
<1>1. CASE ~known
  <2>1. e = USBD_CtlError(d)
    BY <1>1 DEF USBD_GetDescriptor
  <2> QED BY <2>1, AnswerByError
<1>2. CASE known /\ r.len = 0
  <2>1. e = d
    BY <1>2 DEF USBD_GetDescriptor
  <2>2. SameClass(d, d) /\ SameEp0(d, d)
    BY DEF SameClass, SameEp0
  <2> QED BY <1>2, <2>1, <2>2, NoAnswer DEF IgnoredIn, Fresh
<1>3. CASE known /\ r.len # 0
  <2> DEFINE n == MinOf(DescLen[r.value], r.len)
  <2>1. DescLen[r.value] \in Nat \ {0}
    BY <1>3, DescriptorAssumption
  <2>2. r.len \in Nat /\ r.dir = "in"
    BY <1>3, RequestAssumption DEF WellFormed
  <2>3. n \in Nat \ {0} /\ n <= r.len
    BY <1>3, <2>1, <2>2 DEF MinOf
  <2>4. e = USBD_CtlSendData(d, <<r.req, 0>>, n)
    BY <1>3, <2>1 DEF USBD_GetDescriptor
  <2> QED BY <1>3, <2>2, <2>3, <2>4, AnswerByData
<1> QED BY <1>1, <1>2, <1>3

LEMMA GetConfig ==
  ASSUME NEW d, NEW r \in HostRequests, Fresh(d, r),
         r.req = "GET_CONFIGURATION", NEW e, e = USBD_GetConfig(d, r)
  PROVE  Outcome(d, e, r)
<1>1. CASE r.len # 1 \/ d.dev_state \notin {"ADDRESSED", "CONFIGURED"}
  <2>1. e = USBD_CtlError(d)
    BY <1>1 DEF USBD_GetConfig
  <2> QED BY <2>1, AnswerByError
<1>2. CASE r.len = 1 /\ d.dev_state \in {"ADDRESSED", "CONFIGURED"}
  <2>1. PICK what : e = USBD_CtlSendData(d, what, 1)
    BY <1>2 DEF USBD_GetConfig
  <2>2. r.dir = "in"
    BY <1>2, RequestAssumption DEF WellFormed
  <2>3. 1 \in Nat \ {0} /\ 1 <= r.len /\ r.len > 0
    BY <1>2
  <2> QED BY <2>1, <2>2, <2>3, AnswerByData
<1> QED BY <1>1, <1>2

\* The two bytes of a status fit in what the host has asked for.
LEMMA AnswerByTwo ==
  ASSUME NEW d, NEW r \in HostRequests, Fresh(d, r), r.req = "GET_STATUS",
         NEW what, NEW e, e = USBD_CtlSendData(d, what, 2)
  PROVE  Outcome(d, e, r)
<1>1. r.len \in Nat /\ r.len >= 2 /\ r.dir = "in"
  BY RequestAssumption DEF WellFormed
<1>2. 2 \in Nat \ {0} /\ 2 <= r.len /\ r.len > 0
  BY <1>1
<1> QED BY <1>1, <1>2, AnswerByData

LEMMA GetStatus ==
  ASSUME NEW d, NEW r \in HostRequests, Fresh(d, r), r.req = "GET_STATUS",
         NEW e, e = USBD_GetStatus(d, r)
  PROVE  Outcome(d, e, r)
<1>1. e = USBD_CtlError(d) \/ \E what : e = USBD_CtlSendData(d, what, 2)
  BY DEF USBD_GetStatus
<1> QED BY <1>1, AnswerByError, AnswerByTwo

\* Remote wake-up, set or cleared: the class is told, which does nothing.
LEMMA Wakeup ==
  ASSUME NEW d, NEW r \in HostRequests, Fresh(d, r),
         r.req \in {"SET_FEATURE", "CLEAR_FEATURE"}, NEW w,
         NEW e, e = USBD_CtlSendStatus(
                      USBD_CDC_Setup([d EXCEPT !.dev_remote_wakeup = w], r))
  PROVE  Outcome(d, e, r)
<1> DEFINE b == [d EXCEPT !.dev_remote_wakeup = w]
           c == USBD_CDC_Setup(b, r)
<1>1. Handle(b) /\ SameClass(d, b) /\ b.is_stall = d.is_stall
  BY DEF Fresh, Handle, Fields, SameClass
<1>2. e = USBD_CtlSendStatus(c)
  OBVIOUS
<1> HIDE DEF b
<1>3. Handle(c) /\ SameClass(b, c) /\ c.is_stall = b.is_stall
  BY <1>1, SetupOfClass
<1> HIDE DEF c
<1>4. r.len = 0
  BY RequestAssumption DEF WellFormed
<1>5. SameClass(d, c) /\ NotStalled(c) /\ NotStalled(d)
  BY <1>1, <1>3 DEF SameClass, NotStalled, Fresh
<1> QED BY <1>2, <1>3, <1>4, <1>5, AnswerByStatus

LEMMA SetFeature ==
  ASSUME NEW d, NEW r \in HostRequests, Fresh(d, r), r.rcpt = "device",
         r.req = "SET_FEATURE", NEW e, e = USBD_SetFeature(d, r)
  PROVE  Outcome(d, e, r)
<1>1. CASE r.value = REMOTE_WAKEUP
  BY <1>1, Wakeup DEF USBD_SetFeature
<1>2. CASE r.value # REMOTE_WAKEUP
  <2>1. e = d /\ SameClass(d, d) /\ SameEp0(d, d)
    BY <1>2 DEF USBD_SetFeature, SameClass, SameEp0
  <2> QED BY <1>2, <2>1, NoAnswer DEF IgnoredIn, Fresh
<1> QED BY <1>1, <1>2

LEMMA ClrFeature ==
  ASSUME NEW d, NEW r \in HostRequests, Fresh(d, r), r.rcpt = "device",
         r.req = "CLEAR_FEATURE", NEW e, e = USBD_ClrFeature(d, r)
  PROVE  Outcome(d, e, r)
<1>1. CASE d.dev_state \notin {"ADDRESSED", "CONFIGURED"}
  <2>1. e = USBD_CtlError(d)
    BY <1>1 DEF USBD_ClrFeature
  <2> QED BY <2>1, AnswerByError
<1>2. CASE /\ d.dev_state \in {"ADDRESSED", "CONFIGURED"}
           /\ r.value = REMOTE_WAKEUP
  BY <1>2, Wakeup DEF USBD_ClrFeature
<1>3. CASE /\ d.dev_state \in {"ADDRESSED", "CONFIGURED"}
           /\ r.value # REMOTE_WAKEUP
  <2>1. e = d /\ SameClass(d, d) /\ SameEp0(d, d)
    BY <1>3 DEF USBD_ClrFeature, SameClass, SameEp0
  <2> QED BY <1>3, <2>1, NoAnswer DEF IgnoredIn, Fresh
<1> QED BY <1>1, <1>2, <1>3

(* Requests to an interface and to an endpoint.                            *)

\* A request passed on to the class is answered by data, or moves nothing.
LEMMA PassedOn ==
  ASSUME NEW d, NEW r \in HostRequests, Fresh(d, r),
         NEW e, e = USBD_CDC_Setup(d, r), r.len > 0 \/ r.type = "class",
         \/ r.type = "std" /\ r.req = "GET_INTERFACE"
         \/ r.type = "class" /\ r.len > 0
         \/ IgnoredIn(d.dev_state, r)
  PROVE  Outcome(d, e, r)
<1>1. /\ r.len \in Nat /\ r.type \in {"std", "class"} /\ r.dir \in {"in", "out"}
      /\ r.req = "GET_INTERFACE" /\ r.len > 0 => r.dir = "in"
  BY RequestAssumption DEF WellFormed
<1>2. Handle(e) /\ SameClass(d, e) /\ e.is_stall = d.is_stall
      /\ e.ep0_data_len = d.ep0_data_len
  BY SetupOfClass DEF Fresh
<1>3. NotStalled(e) /\ e.ep0_data_len = r.len
  BY <1>2 DEF NotStalled, Fresh
<1>4. CASE /\ r.type = "class" /\ r.len > 0 /\ r.dir = "in"
           /\ e.ep0_state = "DATA_IN" /\ e.in0 = r.len
           /\ e.total_length = r.len /\ e.rem_length = r.len
  <2>1. r.len \in Nat \ {0} /\ r.len <= r.len
    BY <1>1, <1>4
  <2> QED BY <1>2, <1>3, <1>4, <2>1 DEF Outcome, Answers, SendsData
<1>5. CASE /\ r.type = "class" /\ r.len > 0 /\ r.dir = "out"
           /\ e.ep0_state = "DATA_OUT" /\ e.out0 = "armed"
           /\ e.rx_rem_length = r.len
  BY <1>2, <1>3, <1>5 DEF Outcome, Answers, TakesData
<1>6. CASE /\ r.type = "std" /\ r.req = "GET_INTERFACE"
           /\ e.ep0_state = "DATA_IN" /\ e.in0 = 1
           /\ e.total_length = 1 /\ e.rem_length = 1
  <2>1. r.len > 0 /\ 1 \in Nat \ {0} /\ 1 <= r.len
    BY <1>1, <1>6
  <2> QED BY <1>1, <1>2, <1>3, <1>6, <2>1 DEF Outcome, Answers, SendsData
<1>7. CASE /\ ~(r.type = "class" /\ r.len > 0 /\ r.dir \in {"in", "out"})
           /\ ~(r.type = "std" /\ r.req = "GET_INTERFACE")
           /\ SameEp0(d, e)
  <2>1. IgnoredIn(d.dev_state, r)
    BY <1>1, <1>7
  <2> QED BY <1>2, <1>7, <2>1, NoAnswer
<1>8. Relays(d, e, r)
  BY SetupOfClass DEF Fresh
<1> QED BY <1>4, <1>5, <1>6, <1>7, <1>8 DEF Relays

LEMMA StdItfReq ==
  ASSUME NEW d, NEW r \in HostRequests, Fresh(d, r), r.rcpt = "interface",
         NEW e, e = USBD_StdItfReq(d, r)
  PROVE  Outcome(d, e, r)
<1>1. r.len \in Nat /\ r.type \in {"std", "class"}
  BY RequestAssumption DEF WellFormed
<1>2. CASE ~(d.dev_state = "CONFIGURED" /\ r.index <= 1)
  <2>1. e = USBD_CtlError(d)
    BY <1>2 DEF USBD_StdItfReq
  <2> QED BY <2>1, AnswerByError
<1>3. CASE d.dev_state = "CONFIGURED" /\ r.index <= 1 /\ r.len = 0
  <2> DEFINE c == USBD_CDC_Setup(d, r)
  <2>1. e = USBD_CtlSendStatus(c)
    BY <1>3 DEF USBD_StdItfReq
  <2>2. Handle(c) /\ SameClass(d, c) /\ c.is_stall = d.is_stall
    BY SetupOfClass DEF Fresh
  <2> HIDE DEF c
  <2>3. NotStalled(c) /\ NotStalled(d)
    BY <2>2 DEF NotStalled, Fresh
  <2> QED BY <1>3, <2>1, <2>2, <2>3, AnswerByStatus
<1>4. CASE d.dev_state = "CONFIGURED" /\ r.index <= 1 /\ r.len # 0
  <2>1. e = USBD_CDC_Setup(d, r)
    BY <1>4 DEF USBD_StdItfReq
  <2>2. r.len > 0
    BY <1>1, <1>4
  <2> QED BY <1>1, <2>1, <2>2, PassedOn DEF IgnoredIn
<1> QED BY <1>2, <1>3, <1>4

LEMMA EPReqConfiguredAnswers ==
  ASSUME NEW d, NEW r \in HostRequests, Fresh(d, r), r.rcpt = "endpoint",
         r.type # "class",
         r.req \in {"SET_FEATURE", "CLEAR_FEATURE", "GET_STATUS"},
         NEW e, e = EPReqConfigured(d, r)
  PROVE  Outcome(d, e, r)
<1>1. CASE r.req = "SET_FEATURE"
  <2> DEFINE b == IF r.value = EP_HALT /\ r.ep \notin EP0
                  THEN USBD_LL_StallEP(d, r.ep) ELSE d
             c == USBD_CDC_Setup(b, r)
  <2>1. e = USBD_CtlSendStatus(c)
    BY <1>1 DEF EPReqConfigured
  <2>2. Handle(b) /\ SameClass(d, b) /\ NotStalled(b)
    <3>1. SameClass(d, d)
      BY DEF SameClass
    <3> QED BY <3>1, StallEP DEF Fresh, NotStalled, EP0
  <2> HIDE DEF b
  <2>3. Handle(c) /\ SameClass(b, c) /\ c.is_stall = b.is_stall
    BY <2>2, SetupOfClass
  <2> HIDE DEF c
  <2>4. SameClass(d, c) /\ NotStalled(c) /\ NotStalled(d)
    BY <2>2, <2>3 DEF SameClass, NotStalled, Fresh
  <2>5. r.len = 0
    BY <1>1, RequestAssumption DEF WellFormed
  <2> QED BY <2>1, <2>3, <2>4, <2>5, AnswerByStatus
<1>2. CASE r.req = "CLEAR_FEATURE" /\ r.value = EP_HALT
  <2> DEFINE b == USBD_LL_ClearStallEP(d, r.ep)
             c == IF r.ep \notin EP0 THEN USBD_CDC_Setup(b, r) ELSE d
  <2>1. e = USBD_CtlSendStatus(c)
    BY <1>2 DEF EPReqConfigured
  <2>2. Handle(b) /\ SameClass(d, b) /\ NotStalled(b)
    BY ClearStallEP DEF Fresh, NotStalled
  <2> HIDE DEF b
  <2>3. Handle(c) /\ SameClass(d, c) /\ NotStalled(c)
    <3>1. CASE r.ep \notin EP0
      <4>1. Handle(c) /\ SameClass(b, c) /\ c.is_stall = b.is_stall
        BY <2>2, <3>1, SetupOfClass
      <4> QED BY <2>2, <4>1 DEF SameClass, NotStalled
    <3>2. CASE r.ep \in EP0
      <4>1. c = d
        BY <3>2
      <4> QED BY <4>1 DEF SameClass, Fresh
    <3> QED BY <3>1, <3>2
  <2> HIDE DEF c
  <2>4. r.len = 0 /\ NotStalled(d)
    BY <1>2, RequestAssumption DEF WellFormed, Fresh
  <2> QED BY <2>1, <2>3, <2>4, AnswerByStatus
<1>3. CASE r.req = "GET_STATUS"
  <2>1. \E what : e = USBD_CtlSendData(d, what, 2)
    BY <1>3 DEF EPReqConfigured
  <2> QED BY <1>3, <2>1, AnswerByTwo
<1>4. CASE r.req = "CLEAR_FEATURE" /\ r.value # EP_HALT
  <2>1. e = d /\ SameClass(d, d) /\ SameEp0(d, d)
    BY <1>4 DEF EPReqConfigured, SameClass, SameEp0
  <2> QED BY <1>4, <2>1, NoAnswer DEF IgnoredIn, Fresh
<1> QED BY <1>1, <1>2, <1>3, <1>4

LEMMA StdEPReq ==
  ASSUME NEW d, NEW r \in HostRequests, Fresh(d, r), r.rcpt = "endpoint",
         NEW e, e = USBD_StdEPReq(d, r)
  PROVE  Outcome(d, e, r)
<1> DEFINE known == r.req \in {"SET_FEATURE", "CLEAR_FEATURE", "GET_STATUS"}
<1>1. SameClass(d, d) /\ SameEp0(d, d) /\ Handle(d)
  BY DEF SameClass, SameEp0, Fresh
<1>2. CASE r.type = "class"
  <2>1. e = USBD_CDC_Setup(d, r)
    BY <1>2 DEF USBD_StdEPReq
  <2> QED BY <1>2, <2>1, PassedOn DEF IgnoredIn
<1>3. CASE r.type # "class" /\ known /\ d.dev_state = "ADDRESSED"
  <2>1. e = d \/ (r.ep \notin EP0 /\ e = USBD_LL_StallEP(d, r.ep))
    BY <1>3 DEF USBD_StdEPReq
  <2>2. Handle(e) /\ SameClass(d, e) /\ SameEp0(d, e)
    BY <1>1, <2>1, StallEP
  <2> QED BY <1>3, <2>2, NoAnswer DEF IgnoredIn
<1>4. CASE r.type # "class" /\ known /\ d.dev_state = "CONFIGURED"
  <2>1. e = EPReqConfigured(d, r)
    BY <1>4 DEF USBD_StdEPReq
  <2> QED BY <1>4, <2>1, EPReqConfiguredAnswers
<1>5. CASE /\ r.type # "class" /\ known
           /\ d.dev_state \notin {"ADDRESSED", "CONFIGURED"}
  <2>1. e = USBD_CtlError(d)
    BY <1>5 DEF USBD_StdEPReq
  <2> QED BY <1>1, <2>1, AnswerByError
<1>6. CASE r.type # "class" /\ ~known
  <2>1. e = d
    BY <1>6 DEF USBD_StdEPReq
  <2>2. IgnoredIn(d.dev_state, r)
    BY <1>6 DEF IgnoredIn
  <2> QED BY <1>1, <2>1, <2>2, NoAnswer
<1> QED BY <1>2, <1>3, <1>4, <1>5, <1>6

(***************************************************************************)
(* The life of the class                                                   *)
(***************************************************************************)
Loaded(d) ==
  /\ d.pClassData = "usbd_cdc" /\ d.opened = ClassEPs
  /\ d.dev_config # 0 /\ d.dev_address # 0

Unloaded(d) ==
  /\ d.pClassData = "NULL" /\ d.opened = {}
  /\ d.in1 = "idle" /\ d.out1 = "idle"

States == {"DEFAULT", "ADDRESSED", "CONFIGURED"}

\* The class is there exactly in the configured state, suspended or not; a
\* device gets there from the addressed state only, so it has an address.
ClassInv(d) ==
  /\ d.dev_state \in States \cup {"SUSPENDED"} /\ d.dev_old_state \in States
  /\ d.dev_config \in 0..MaxConfig
  /\ StateOf(d) = "CONFIGURED" => Loaded(d)
  /\ StateOf(d) # "CONFIGURED" => Unloaded(d)
  /\ StateOf(d) = "ADDRESSED" => d.dev_address # 0

LEMMA SameClassInv ==
  ASSUME NEW d, NEW e, ClassInv(d), SameClass(d, e)
  PROVE  ClassInv(e) /\ e.dev_state = d.dev_state
  BY DEF ClassInv, SameClass, StateOf, Loaded, Unloaded

SameDevice(d, e) ==
  /\ e.dev_state = d.dev_state /\ e.dev_old_state = d.dev_old_state
  /\ e.dev_config = d.dev_config /\ e.dev_address = d.dev_address

LEMMA ClassInit ==
  ASSUME NEW d, Handle(d), NEW e, e = USBD_CDC_Init(d)
  PROVE  /\ Handle(e) /\ SameDevice(d, e) /\ SameEp0(d, e)
         /\ e.pClassData = "usbd_cdc" /\ e.opened = d.opened \cup ClassEPs
         /\ e.is_stall = d.is_stall \ ClassEPs
  BY DEF USBD_CDC_Init, USBD_LL_OpenEP, Handle, Fields, SameDevice, SameEp0

LEMMA ClassDeInit ==
  ASSUME NEW d, Handle(d), NEW e, e = USBD_CDC_DeInit(d)
  PROVE  /\ Handle(e) /\ SameDevice(d, e) /\ SameEp0(d, e)
         /\ e.pClassData = "NULL" /\ e.opened = d.opened \ ClassEPs
         /\ e.in1 = "idle" /\ e.out1 = "idle"
         /\ e.is_stall = d.is_stall
<1>1. "IN1" \in ClassEPs /\ "OUT1" \in ClassEPs
  BY DEF ClassEPs
<1> QED
  BY <1>1 DEF USBD_CDC_DeInit, USBD_LL_CloseEP, Handle, Fields, SameDevice,
              SameEp0

\* What the request to set an address or a configuration has to leave.
Settled(e, r) ==
  Handle(e) /\ ClassInv(e) /\ e.dev_state # "SUSPENDED" /\ Answers(e, r)

LEMMA SettledByOutcome ==
  ASSUME NEW d, NEW e, NEW r, ClassInv(d), d.dev_state # "SUSPENDED",
         Outcome(d, e, r)
  PROVE  Settled(e, r)
  BY SameClassInv DEF Outcome, Settled

LEMMA SettledByStatus ==
  ASSUME NEW c, NEW r \in HostRequests, r.len = 0, Handle(c), NotStalled(c),
         ClassInv(c), c.dev_state # "SUSPENDED",
         NEW e, e = USBD_CtlSendStatus(c)
  PROVE  Settled(e, r)
<1>1. SameClass(c, c)
  BY DEF SameClass
<1>2. Outcome(c, e, r)
  BY <1>1, AnswerByStatus
<1> QED BY <1>2, SettledByOutcome

LEMMA LowerByte ==
  ASSUME NEW r \in HostRequests PROVE Cfgidx(r) \in Nat
<1>1. r.value \in Nat
  BY RequestAssumption DEF WellFormed
<1> QED BY <1>1 DEF Cfgidx

LEMMA SetAddress ==
  ASSUME NEW d, NEW r \in HostRequests, Fresh(d, r), ClassInv(d),
         d.dev_state # "SUSPENDED", NEW e, e = USBD_SetAddress(d, r)
  PROVE  Settled(e, r)
<1>1. CASE r.index # 0 \/ r.len # 0 \/ d.dev_state = "CONFIGURED"
  <2>1. e = USBD_CtlError(d)
    BY <1>1 DEF USBD_SetAddress
  <2> QED BY <2>1, AnswerByError, SettledByOutcome
<1>2. CASE ~(r.index # 0 \/ r.len # 0 \/ d.dev_state = "CONFIGURED")
  <2> DEFINE a == DevAddr(r)
             s == IF a # 0 THEN "ADDRESSED" ELSE "DEFAULT"
             c == [USBD_LL_SetUSBAddress(d, a)
                     EXCEPT !.dev_address = a, !.dev_state = s]
  <2>1. e = USBD_CtlSendStatus(c)
    BY <1>2 DEF USBD_SetAddress
  <2>2. /\ Handle(c) /\ c.dev_state = s /\ c.dev_address = a
        /\ c.dev_old_state = d.dev_old_state /\ c.dev_config = d.dev_config
        /\ c.pClassData = d.pClassData /\ c.opened = d.opened
        /\ c.in1 = d.in1 /\ c.out1 = d.out1 /\ c.is_stall = d.is_stall
    BY DEF USBD_LL_SetUSBAddress, Fresh, Handle, Fields
  <2> HIDE DEF c
  <2>3. Unloaded(d)
    BY <1>2 DEF ClassInv, StateOf
  <2>4. ClassInv(c) /\ c.dev_state # "SUSPENDED"
    BY <2>2, <2>3 DEF ClassInv, StateOf, Unloaded, States
  <2>5. NotStalled(c)
    BY <2>2 DEF NotStalled, Fresh
  <2> QED BY <1>2, <2>1, <2>2, <2>4, <2>5, SettledByStatus
<1> QED BY <1>1, <1>2

\* Loading the class for the configuration c.
LEMMA Configure ==
  ASSUME NEW d, NEW r \in HostRequests, r.len = 0, Handle(d), NotStalled(d),
         Unloaded(d), d.dev_state = "CONFIGURED", d.dev_old_state \in States,
         d.dev_config \in 1..MaxConfig, d.dev_address # 0,
         NEW e, e = USBD_CtlSendStatus(USBD_SetClassConfig(d))
  PROVE  Settled(e, r)
<1> DEFINE c == USBD_CDC_Init(d)
<1>1. /\ Handle(c) /\ SameDevice(d, c) /\ SameEp0(d, c)
      /\ c.pClassData = "usbd_cdc" /\ c.opened = d.opened \cup ClassEPs
      /\ c.is_stall = d.is_stall \ ClassEPs
  BY ClassInit
<1>2. e = USBD_CtlSendStatus(c)
  BY DEF USBD_SetClassConfig
<1> HIDE DEF c
<1>3. d.dev_config # 0 /\ d.dev_config \in 0..MaxConfig
  BY PacketAssumption
<1>4. c.opened = ClassEPs /\ NotStalled(c)
  BY <1>1 DEF Unloaded, NotStalled
<1>5. ClassInv(c) /\ c.dev_state # "SUSPENDED"
  BY <1>1, <1>3, <1>4 DEF ClassInv, StateOf, SameDevice, Loaded, States
<1> QED BY <1>1, <1>2, <1>4, <1>5, SettledByStatus

LEMMA SetConfigKeepsInv ==
  ASSUME NEW d, NEW r \in HostRequests, Fresh(d, r), ClassInv(d),
         d.dev_state # "SUSPENDED", r.req = "SET_CONFIGURATION",
         NEW e, e = USBD_SetConfig(d, r)
  PROVE  Settled(e, r)
<1> DEFINE n == Cfgidx(r)
           set == [d EXCEPT !.dev_config = n]
<1>1. n \in Nat /\ r.len = 0 /\ Handle(d) /\ NotStalled(d)
  BY RequestAssumption, LowerByte DEF WellFormed, Fresh
<1>2. /\ Handle(set) /\ set.dev_config = n /\ set.is_stall = d.is_stall
      /\ set.dev_state = d.dev_state /\ set.dev_old_state = d.dev_old_state
      /\ set.dev_address = d.dev_address /\ set.pClassData = d.pClassData
      /\ set.opened = d.opened /\ set.in1 = d.in1 /\ set.out1 = d.out1
  BY <1>1 DEF Handle, Fields
<1>3. n > MaxConfig \/ n <= MaxConfig
  BY <1>1, PacketAssumption
<1>4. ASSUME n <= MaxConfig, n # 0 PROVE n \in 1..MaxConfig
  BY <1>1, <1>4, PacketAssumption
<1>5. CASE e = USBD_CtlError(d)
  BY <1>1, <1>5, AnswerByError, SettledByOutcome
<1>6. CASE e = USBD_CtlSendStatus(d)
  BY <1>1, <1>6, SettledByStatus
<1>7. CASE /\ n <= MaxConfig /\ n # 0 /\ d.dev_state = "ADDRESSED"
           /\ e = USBD_CtlSendStatus(USBD_SetClassConfig(
                    [set EXCEPT !.dev_state = "CONFIGURED"]))
  <2> DEFINE c == [set EXCEPT !.dev_state = "CONFIGURED"]
  <2>1. /\ Handle(c) /\ c.dev_config = n /\ c.is_stall = d.is_stall
        /\ c.dev_state = "CONFIGURED" /\ c.dev_old_state = d.dev_old_state
        /\ c.dev_address = d.dev_address /\ c.pClassData = d.pClassData
        /\ c.opened = d.opened /\ c.in1 = d.in1 /\ c.out1 = d.out1
    BY <1>1 DEF Handle, Fields
  <2>2. e = USBD_CtlSendStatus(USBD_SetClassConfig(c))
    BY <1>7
  <2> HIDE DEF c
  <2>3. /\ Unloaded(d) /\ d.dev_address # 0 /\ d.dev_old_state \in States
        /\ c.dev_config \in 1..MaxConfig
    BY <1>4, <1>7, <2>1 DEF ClassInv, StateOf
  <2>4. Unloaded(c) /\ NotStalled(c)
    BY <1>1, <2>1, <2>3 DEF Unloaded, NotStalled
  <2> QED BY <1>1, <2>1, <2>2, <2>3, <2>4, Configure
<1>8. CASE /\ n <= MaxConfig /\ n = 0 /\ d.dev_state = "CONFIGURED"
           /\ e = USBD_CtlSendStatus(USBD_ClrClassConfig(
                    [set EXCEPT !.dev_state = "ADDRESSED"]))
  <2> DEFINE b == [set EXCEPT !.dev_state = "ADDRESSED"]
             c == USBD_CDC_DeInit(b)
  <2>1. /\ Handle(b) /\ b.dev_config = n /\ b.is_stall = d.is_stall
        /\ b.dev_state = "ADDRESSED" /\ b.dev_old_state = d.dev_old_state
        /\ b.dev_address = d.dev_address /\ b.opened = d.opened
    BY <1>1 DEF Handle, Fields
  <2>2. e = USBD_CtlSendStatus(c)
    BY <1>8 DEF USBD_ClrClassConfig
  <2> HIDE DEF b
  <2>3. /\ Handle(c) /\ SameDevice(b, c) /\ c.is_stall = b.is_stall
        /\ c.pClassData = "NULL" /\ c.opened = b.opened \ ClassEPs
        /\ c.in1 = "idle" /\ c.out1 = "idle"
    BY <2>1, ClassDeInit
  <2> HIDE DEF c
  <2>4. d.opened = ClassEPs /\ d.dev_address # 0 /\ d.dev_old_state \in States
    BY <1>8 DEF ClassInv, StateOf, Loaded
  <2>5. Unloaded(c) /\ NotStalled(c)
    BY <1>1, <2>1, <2>3, <2>4 DEF Unloaded, NotStalled
  <2>6. 0 \in 0..MaxConfig
    BY PacketAssumption
  <2>7. ClassInv(c) /\ c.dev_state # "SUSPENDED"
    BY <1>8, <2>1, <2>3, <2>4, <2>5, <2>6 DEF ClassInv, StateOf, SameDevice, States
  <2> QED BY <1>1, <2>2, <2>3, <2>5, <2>7, SettledByStatus
<1>9. CASE /\ n <= MaxConfig /\ n # 0 /\ d.dev_state = "CONFIGURED"
           /\ e = USBD_CtlSendStatus(USBD_SetClassConfig(
                    USBD_ClrClassConfig(set)))
  <2> DEFINE c == USBD_CDC_DeInit(set)
  <2>1. e = USBD_CtlSendStatus(USBD_SetClassConfig(c))
    BY <1>9 DEF USBD_ClrClassConfig
  <2> HIDE DEF set
  <2>2. /\ Handle(c) /\ SameDevice(set, c) /\ c.is_stall = set.is_stall
        /\ c.pClassData = "NULL" /\ c.opened = set.opened \ ClassEPs
        /\ c.in1 = "idle" /\ c.out1 = "idle"
    BY <1>2, ClassDeInit
  <2> HIDE DEF c
  <2>3. d.opened = ClassEPs /\ d.dev_address # 0 /\ d.dev_old_state \in States
    BY <1>9 DEF ClassInv, StateOf, Loaded
  <2>4. Unloaded(c) /\ NotStalled(c)
    BY <1>1, <1>2, <2>2, <2>3 DEF Unloaded, NotStalled
  <2>5. /\ c.dev_state = "CONFIGURED" /\ c.dev_old_state \in States
        /\ c.dev_config \in 1..MaxConfig /\ c.dev_address # 0
    BY <1>2, <1>4, <1>9, <2>2, <2>3 DEF SameDevice
  <2> QED BY <1>1, <2>1, <2>2, <2>4, <2>5, Configure
<1>10. CASE n > MaxConfig
  <2>1. ~(n <= MaxConfig)
    BY <1>1, <1>10, PacketAssumption
  <2>2. e = USBD_CtlError(d)
    BY <1>10, <2>1, Zenon DEF USBD_SetConfig
  <2> QED BY <1>5, <2>2
<1>11. CASE n <= MaxConfig
  <2>1. ~(n > MaxConfig)
    BY <1>1, <1>11, PacketAssumption
  <2>2. CASE d.dev_state = "ADDRESSED" /\ n # 0
    <3>1. e = USBD_CtlSendStatus(USBD_SetClassConfig(
                [set EXCEPT !.dev_state = "CONFIGURED"]))
      BY <1>11, <2>1, <2>2, Zenon DEF USBD_SetConfig
    <3> QED BY <1>7, <1>11, <2>2, <3>1
  <2>3. CASE d.dev_state = "ADDRESSED" /\ n = 0
    <3>1. e = USBD_CtlSendStatus(d)
      BY <1>11, <2>1, <2>3, Zenon DEF USBD_SetConfig
    <3> QED BY <1>6, <3>1
  <2>4. CASE d.dev_state = "CONFIGURED" /\ n = 0
    <3>1. e = USBD_CtlSendStatus(USBD_ClrClassConfig(
                [set EXCEPT !.dev_state = "ADDRESSED"]))
      BY <1>11, <2>1, <2>4, Zenon DEF USBD_SetConfig
    <3> QED BY <1>8, <1>11, <2>4, <3>1
  <2>5. CASE d.dev_state = "CONFIGURED" /\ n # 0 /\ n # d.dev_config
    <3>1. e = USBD_CtlSendStatus(USBD_SetClassConfig(USBD_ClrClassConfig(set)))
      BY <1>11, <2>1, <2>5, Zenon DEF USBD_SetConfig
    <3> QED BY <1>9, <1>11, <2>5, <3>1
  <2>6. CASE d.dev_state = "CONFIGURED" /\ n # 0 /\ n = d.dev_config
    <3>1. e = USBD_CtlSendStatus(d)
      BY <1>11, <2>1, <2>6, Zenon DEF USBD_SetConfig
    <3> QED BY <1>6, <3>1
  <2>7. CASE d.dev_state \notin {"ADDRESSED", "CONFIGURED"}
    <3>1. e = USBD_CtlError(d)
      BY <2>1, <2>7, Zenon DEF USBD_SetConfig
    <3> QED BY <1>5, <3>1
  <2> QED BY <2>2, <2>3, <2>4, <2>5, <2>6, <2>7
<1> QED BY <1>3, <1>10, <1>11

(* The setup packet.                                                       *)

\* Endpoint 0 as a setup packet finds it, for the handlers of requests.
LEMMA SetupStage ==
  ASSUME NEW d, NEW r \in HostRequests, Handle(d), ClassInv(d),
         d.dev_state # "SUSPENDED", NEW e, e = USBD_LL_SetupStage(d, r)
  PROVE  Settled(e, r)
<1> DEFINE c == [d EXCEPT !.ep0_state = "SETUP", !.ep0_data_len = r.len,
                          !.in0 = NAK, !.out0 = "nak", !.is_stall = @ \ EP0,
                          !.reply = <<NoOp, 0>>]
<1>1. Fresh(c, r) /\ SameClass(d, c)
  BY DEF Fresh, Handle, Fields, NotStalled, EP0, SameClass
<1>2. e = CASE r.rcpt = "device"    -> USBD_StdDevReq(c, r)
            [] r.rcpt = "interface" -> USBD_StdItfReq(c, r)
            [] r.rcpt = "endpoint"  -> USBD_StdEPReq(c, r)
            [] OTHER -> USBD_LL_StallEP(c, IF r.dir = "in" THEN "IN0" ELSE "OUT0")
  BY DEF USBD_LL_SetupStage
<1> HIDE DEF c
<1>3. ClassInv(c) /\ c.dev_state # "SUSPENDED"
  BY <1>1, SameClassInv
<1>4. ASSUME Outcome(c, e, r) PROVE Settled(e, r)
  BY <1>3, <1>4, SettledByOutcome
<1>5. CASE r.rcpt = "device"
  <2>1. e = USBD_StdDevReq(c, r)
    BY <1>2, <1>5
  <2>2. CASE r.req = "GET_DESCRIPTOR"
    BY <1>1, <1>4, <1>5, <2>1, <2>2, GetDescriptor DEF USBD_StdDevReq
  <2>3. CASE r.req = "SET_ADDRESS"
    BY <1>1, <1>3, <2>1, <2>3, SetAddress DEF USBD_StdDevReq
  <2>4. CASE r.req = "SET_CONFIGURATION"
    BY <1>1, <1>3, <2>1, <2>4, SetConfigKeepsInv DEF USBD_StdDevReq
  <2>5. CASE r.req = "GET_CONFIGURATION"
    BY <1>1, <1>4, <2>1, <2>5, GetConfig DEF USBD_StdDevReq
  <2>6. CASE r.req = "GET_STATUS"
    BY <1>1, <1>4, <2>1, <2>6, GetStatus DEF USBD_StdDevReq
  <2>7. CASE r.req = "SET_FEATURE"
    BY <1>1, <1>4, <1>5, <2>1, <2>7, SetFeature DEF USBD_StdDevReq
  <2>8. CASE r.req = "CLEAR_FEATURE"
    BY <1>1, <1>4, <1>5, <2>1, <2>8, ClrFeature DEF USBD_StdDevReq
  <2>9. CASE r.req \notin {"GET_DESCRIPTOR", "SET_ADDRESS",
               "SET_CONFIGURATION", "GET_CONFIGURATION", "GET_STATUS",
               "SET_FEATURE", "CLEAR_FEATURE"}
    <3>1. e = USBD_CtlError(c)
      BY <2>1, <2>9 DEF USBD_StdDevReq
    <3> QED BY <1>1, <1>4, <3>1, AnswerByError
  <2> QED BY <2>2, <2>3, <2>4, <2>5, <2>6, <2>7, <2>8, <2>9
<1>6. CASE r.rcpt = "interface"
  <2>1. e = USBD_StdItfReq(c, r)
    BY <1>2, <1>6
  <2> QED BY <1>1, <1>4, <1>6, <2>1, StdItfReq
<1>7. CASE r.rcpt = "endpoint"
  <2>1. e = USBD_StdEPReq(c, r)
    BY <1>2, <1>7
  <2> QED BY <1>1, <1>4, <1>7, <2>1, StdEPReq
<1>8. CASE r.rcpt = "other"
  <2> DEFINE ep == IF r.dir = "in" THEN "IN0" ELSE "OUT0"
  <2>1. e = USBD_LL_StallEP(c, ep)
    BY <1>2, <1>8
  <2>2. /\ Handle(e) /\ SameClass(c, e) /\ SameEp0(c, e)
        /\ e.is_stall = c.is_stall \cup {ep}
    BY <1>1, <2>1, StallEP DEF Fresh
  <2>3. CASE r.dir = "out"
    BY <1>1, <1>4, <1>8, <2>2, <2>3, NoAnswer DEF IgnoredIn
  <2>4. CASE r.dir = "in"
    <3>1. FirstStage(r) \in {"dataIn", "statusIn"}
      BY <2>4, RequestAssumption DEF FirstStage, WellFormed
    <3> QED
      BY <1>1, <1>4, <2>2, <2>4, <3>1
         DEF Outcome, Answers, Stalled, Fresh, SameEp0
  <2>5. r.dir \in {"in", "out"}
    BY RequestAssumption DEF WellFormed
  <2> QED BY <2>3, <2>4, <2>5
<1>9. r.rcpt \in {"device", "interface", "endpoint", "other"}
  BY RequestAssumption DEF WellFormed
<1> QED BY <1>5, <1>6, <1>7, <1>8, <1>9

(***************************************************************************)
(* Callbacks of the controller                                             *)
(***************************************************************************)
\* One more packet to the host, an empty one, or the status stage.
LEMMA DataInStage ==
  ASSUME NEW d, Handle(d), d.ep0_state = "DATA_IN",
         NEW e, e = USBD_LL_DataInStage0(d)
  PROVE  LET empty == /\ d.total_length % MaxPacket = 0
                      /\ d.total_length >= MaxPacket
                      /\ d.total_length < d.ep0_data_len
         IN  /\ Handle(e) /\ SameClass(d, e) /\ e.is_stall = d.is_stall
             /\ e.total_length = d.total_length
             /\ d.rem_length > MaxPacket =>
                  /\ e.ep0_state = "DATA_IN"
                  /\ e.ep0_data_len = d.ep0_data_len
                  /\ e.rem_length = d.rem_length - MaxPacket
                  /\ e.in0 = d.rem_length - MaxPacket
             /\ ~(d.rem_length > MaxPacket) /\ empty =>
                  /\ e.ep0_state = "DATA_IN" /\ e.ep0_data_len = 0
                  /\ e.rem_length = d.rem_length /\ e.in0 = 0
             /\ ~(d.rem_length > MaxPacket) /\ ~empty =>
                  e.ep0_state = "STATUS_OUT" /\ e.out0 = "armed"
<1> DEFINE empty == /\ d.total_length % MaxPacket = 0
                    /\ d.total_length >= MaxPacket
                    /\ d.total_length < d.ep0_data_len
<1>1. CASE d.rem_length > MaxPacket
  BY <1>1 DEF USBD_LL_DataInStage0, USBD_LL_PrepareReceive,
              USBD_CtlContinueSendData, USBD_LL_Transmit, Handle, Fields,
              SameClass
<1>2. CASE ~(d.rem_length > MaxPacket) /\ empty
  BY <1>2 DEF USBD_LL_DataInStage0, USBD_LL_PrepareReceive,
              USBD_CtlContinueSendData, USBD_LL_Transmit, Handle, Fields,
              SameClass
<1>3. CASE ~(d.rem_length > MaxPacket) /\ ~empty
  <2>1. e = USBD_CtlReceiveStatus(d)
    BY <1>3 DEF USBD_LL_DataInStage0
  <2> QED BY <1>3, <2>1, ReceiveStatus
<1> QED BY <1>1, <1>2, <1>3

\* Room for one more packet of the host, or the class's turn and the status.
LEMMA DataOutStage ==
  ASSUME NEW d, Handle(d), NEW e, e = USBD_LL_DataOutStage0(d)
  PROVE  /\ Handle(e) /\ SameClass(d, e) /\ e.is_stall = d.is_stall
         /\ d.ep0_state = "DATA_OUT" /\ d.rx_rem_length > MaxPacket =>
              /\ e.ep0_state = "DATA_OUT" /\ e.out0 = "armed"
              /\ e.rx_rem_length = d.rx_rem_length - MaxPacket
         /\ d.ep0_state = "DATA_OUT" /\ ~(d.rx_rem_length > MaxPacket) =>
              e.ep0_state = "STATUS_IN" /\ e.in0 = 0
<1>1. CASE d.ep0_state # "DATA_OUT"
  BY <1>1 DEF USBD_LL_DataOutStage0, SameClass
<1>2. CASE d.ep0_state = "DATA_OUT" /\ d.rx_rem_length > MaxPacket
  BY <1>2 DEF USBD_LL_DataOutStage0, USBD_CtlContinueRx,
              USBD_LL_PrepareReceive, Handle, Fields, SameClass
<1>3. CASE d.ep0_state = "DATA_OUT" /\ ~(d.rx_rem_length > MaxPacket)
  <2> DEFINE c == IF d.dev_state = "CONFIGURED" THEN USBD_CDC_EP0_RxReady(d)
                  ELSE d
  <2>1. e = USBD_CtlSendStatus(c)
    BY <1>3 DEF USBD_LL_DataOutStage0
  <2>2. Handle(c) /\ SameClass(d, c) /\ c.is_stall = d.is_stall
    <3>1. SameClass(d, d)
      BY DEF SameClass
    <3> QED BY <3>1, RxReady
  <2> HIDE DEF c
  <2>3. /\ Handle(e) /\ SameClass(c, e) /\ e.is_stall = c.is_stall
        /\ e.ep0_state = "STATUS_IN" /\ e.in0 = 0
    BY <2>1, <2>2, SendStatus
  <2> QED BY <1>3, <2>2, <2>3 DEF SameClass
<1> QED BY <1>1, <1>2, <1>3

\* A reset ends in the default state, without a class.
LEMMA Reset ==
  ASSUME NEW d, Handle(d), ClassInv(d), NEW speed,
         NEW e, e = USBD_LL_Reset(d, speed)
  PROVE  Handle(e) /\ ClassInv(e) /\ e.dev_state = "DEFAULT"
<1> DEFINE c == [d EXCEPT !.dev_speed = speed, !.dev_state = "DEFAULT",
                          !.is_stall = {}, !.in0 = NAK, !.out0 = "nak",
                          !.usb_address = 0]
<1>1. /\ Handle(c) /\ c.dev_state = "DEFAULT"
      /\ c.dev_old_state = d.dev_old_state /\ c.dev_config = d.dev_config
      /\ c.pClassData = d.pClassData /\ c.opened = d.opened
      /\ c.in1 = d.in1 /\ c.out1 = d.out1
  BY DEF Handle, Fields
<1>2. e = IF d.pClassData # "NULL" THEN USBD_CDC_DeInit(c) ELSE c
  BY DEF USBD_LL_Reset
<1> HIDE DEF c
<1>3. d.dev_old_state \in States /\ d.dev_config \in 0..MaxConfig
  BY DEF ClassInv
<1>4. CASE d.pClassData # "NULL"
  <2>1. d.opened = ClassEPs
    BY <1>4 DEF ClassInv, Loaded, Unloaded
  <2>2. /\ Handle(e) /\ SameDevice(c, e)
        /\ e.pClassData = "NULL" /\ e.opened = c.opened \ ClassEPs
        /\ e.in1 = "idle" /\ e.out1 = "idle"
    BY <1>1, <1>2, <1>4, ClassDeInit
  <2>3. Unloaded(e)
    BY <1>1, <2>1, <2>2 DEF Unloaded
  <2> QED BY <1>1, <1>3, <2>2, <2>3 DEF ClassInv, StateOf, SameDevice, States
<1>5. CASE d.pClassData = "NULL"
  <2>1. Unloaded(d)
    BY <1>5 DEF ClassInv, Loaded
  <2>2. e = c /\ Unloaded(c)
    BY <1>1, <1>2, <1>5, <2>1 DEF Unloaded
  <2> QED BY <1>1, <1>3, <2>2 DEF ClassInv, StateOf, States
<1> QED BY <1>4, <1>5

LEMMA Disconnected ==
  ASSUME NEW d, Handle(d), ClassInv(d),
         NEW e, e = USBD_LL_DevDisconnected(d)
  PROVE  Handle(e) /\ ClassInv(e) /\ e.dev_state = "DEFAULT"
<1> DEFINE c == [d EXCEPT !.dev_state = "DEFAULT"]
<1>1. /\ Handle(c) /\ c.dev_state = "DEFAULT"
      /\ c.dev_old_state = d.dev_old_state /\ c.dev_config = d.dev_config
      /\ c.opened = d.opened
  BY DEF Handle, Fields
<1>2. e = USBD_CDC_DeInit(c)
  BY DEF USBD_LL_DevDisconnected
<1> HIDE DEF c
<1>3. /\ d.dev_old_state \in States /\ d.dev_config \in 0..MaxConfig
      /\ d.opened \in {{}, ClassEPs}
  BY DEF ClassInv, Loaded, Unloaded
<1>4. /\ Handle(e) /\ SameDevice(c, e)
      /\ e.pClassData = "NULL" /\ e.opened = c.opened \ ClassEPs
      /\ e.in1 = "idle" /\ e.out1 = "idle"
  BY <1>1, <1>2, ClassDeInit
<1>5. Unloaded(e)
  BY <1>1, <1>3, <1>4 DEF Unloaded
<1> QED BY <1>1, <1>3, <1>4, <1>5 DEF ClassInv, StateOf, SameDevice, States

\* A suspension is seen in the device state alone, and a resumption undoes it.
LEMMA Suspended ==
  ASSUME NEW d, Handle(d), ClassInv(d), d.dev_state # "SUSPENDED",
         NEW e, e = USBD_LL_Suspend(d)
  PROVE  /\ Handle(e) /\ ClassInv(e) /\ SameEp0(d, e)
         /\ e.dev_state = "SUSPENDED" /\ StateOf(e) = StateOf(d)
         /\ e.is_stall = d.is_stall
<1>1. /\ Handle(e) /\ SameEp0(d, e) /\ e.is_stall = d.is_stall
      /\ e.dev_state = "SUSPENDED" /\ e.dev_old_state = d.dev_state
      /\ e.dev_config = d.dev_config /\ e.dev_address = d.dev_address
      /\ e.pClassData = d.pClassData /\ e.opened = d.opened
      /\ e.in1 = d.in1 /\ e.out1 = d.out1
  BY DEF USBD_LL_Suspend, Handle, Fields, SameEp0
<1>2. StateOf(e) = StateOf(d)
  BY <1>1 DEF StateOf
<1>3. ClassInv(e)
  BY <1>1, <1>2 DEF ClassInv, StateOf, Loaded, Unloaded
<1> QED BY <1>1, <1>2, <1>3

LEMMA Resumed ==
  ASSUME NEW d, Handle(d), ClassInv(d), d.dev_state = "SUSPENDED",
         NEW e, e = USBD_LL_Resume(d)
  PROVE  /\ Handle(e) /\ ClassInv(e) /\ SameEp0(d, e)
         /\ e.dev_state # "SUSPENDED" /\ StateOf(e) = StateOf(d)
         /\ e.is_stall = d.is_stall
<1>1. /\ Handle(e) /\ SameEp0(d, e) /\ e.is_stall = d.is_stall
      /\ e.dev_state = d.dev_old_state /\ e.dev_old_state = d.dev_old_state
      /\ e.dev_config = d.dev_config /\ e.dev_address = d.dev_address
      /\ e.pClassData = d.pClassData /\ e.opened = d.opened
      /\ e.in1 = d.in1 /\ e.out1 = d.out1
  BY DEF USBD_LL_Resume, Handle, Fields, SameEp0
<1>2. e.dev_state # "SUSPENDED" /\ StateOf(e) = StateOf(d)
  BY <1>1 DEF StateOf, ClassInv, States
<1>3. ClassInv(e)
  BY <1>1, <1>2 DEF ClassInv, StateOf, Loaded, Unloaded
<1> QED BY <1>1, <1>2, <1>3

(***************************************************************************)
(* Host and device in step: where a transfer is tells what endpoint 0 does *)
(***************************************************************************)
Stages == {"idle", "dataIn", "dataOut", "statusIn", "statusOut"}

Transfer == [stage : Stages, req : HostRequests \cup {NoReq}, got : Nat]

\* Unanswered, whether or not the bus has been suspended since.
Unheard(d, r) ==
  /\ d.ep0_state = "SETUP" /\ d.in0 = NAK /\ d.out0 = "nak"
  /\ IgnoredIn(StateOf(d), r)

\* Of a read: the next packet is what is left, after whole packets; or
\* everything has been sent, and the empty packet is next.
Reading(d, r, got) ==
  /\ NotStalled(d) /\ d.ep0_state = "DATA_IN"
  /\ d.total_length \in Nat /\ d.rem_length \in Nat \ {0}
  /\ d.total_length <= r.len
  /\ \/ /\ d.in0 = d.rem_length /\ got + d.rem_length = d.total_length
        /\ got % MaxPacket = 0 /\ d.ep0_data_len = r.len
     \/ /\ d.in0 = 0 /\ got = d.total_length
        /\ d.rem_length <= MaxPacket /\ d.ep0_data_len = 0

Writing(d, r, got) ==
  /\ NotStalled(d) /\ d.ep0_state = "DATA_OUT" /\ d.out0 = "armed"
  /\ got < r.len /\ d.rx_rem_length = r.len - got

InStep(d, stage, r, got) ==
  \/ stage = "idle"
  \/ stage # "statusOut" /\ Stalled(d, stage) /\ d.in0 = NAK
  \/ stage # "statusOut" /\ Unheard(d, r)
  \/ stage = "dataIn" /\ Reading(d, r, got)
  \/ stage = "dataOut" /\ Writing(d, r, got)
  \/ stage = "statusIn" /\ NotStalled(d) /\ d.ep0_state = "STATUS_IN"
       /\ d.in0 = 0
  \/ stage = "statusOut" /\ NotStalled(d) /\ d.ep0_state = "STATUS_OUT"
       /\ d.out0 = "armed" /\ got = d.total_length

IInv ==
  /\ Handle(pdev) /\ ClassInv(pdev)
  /\ bus \in {"unplugged", "active", "suspended"}
  /\ bus = "active" => pdev.dev_state # "SUSPENDED"
  /\ bus = "suspended" => pdev.dev_state = "SUSPENDED"
  /\ host \in Transfer
  /\ host.stage # "idle" => host.req \in HostRequests
  /\ InStep(pdev, host.stage, host.req, host.got)

\* The answer to a setup packet is in step with what the host does next.
LEMMA AnswerInStep ==
  ASSUME NEW e, NEW r \in HostRequests, e.dev_state # "SUSPENDED",
         Answers(e, r)
  PROVE  InStep(e, FirstStage(r), r, 0)
<1>1. r.len \in Nat /\ r.dir \in {"in", "out"}
  BY RequestAssumption DEF WellFormed
<1>2. /\ FirstStage(r) \in Stages \ {"idle", "statusOut"}
      /\ r.len > 0 /\ r.dir = "in" => FirstStage(r) = "dataIn"
      /\ r.len > 0 /\ r.dir = "out" => FirstStage(r) = "dataOut"
      /\ r.len = 0 => FirstStage(r) = "statusIn"
  BY <1>1 DEF FirstStage, Stages
<1>3. CASE Stalled(e, FirstStage(r)) /\ e.in0 = NAK
  BY <1>2, <1>3 DEF InStep
<1>4. CASE Unanswered(e, r)
  <2>1. StateOf(e) = e.dev_state
    BY DEF StateOf
  <2> QED BY <1>2, <1>4, <2>1 DEF InStep, Unanswered, Unheard
<1>5. CASE SendsData(e, r)
  <2>1. 0 % MaxPacket = 0
    BY PacketAssumption
  <2>2. 0 + e.rem_length = e.total_length
    BY <1>5 DEF SendsData
  <2>3. Reading(e, r, 0)
    BY <1>5, <2>1, <2>2 DEF SendsData, Reading
  <2> QED BY <1>2, <1>5, <2>3 DEF InStep, SendsData
<1>6. CASE TakesData(e, r)
  <2>1. 0 < r.len /\ r.len = r.len - 0
    BY <1>1, <1>6 DEF TakesData
  <2>2. Writing(e, r, 0)
    BY <1>6, <2>1 DEF TakesData, Writing
  <2> QED BY <1>2, <1>6, <2>2 DEF InStep, TakesData
<1>7. CASE SendsStatus(e, r)
  BY <1>2, <1>7 DEF InStep, SendsStatus
<1> QED BY <1>3, <1>4, <1>5, <1>6, <1>7 DEF Answers

\* A suspension or its end leaves a transfer where it is.
LEMMA StillInStep ==
  ASSUME NEW d, NEW e, SameEp0(d, e), StateOf(e) = StateOf(d),
         e.is_stall = d.is_stall, NEW stage, NEW r, NEW got,
         InStep(d, stage, r, got)
  PROVE  InStep(e, stage, r, got)
  BY DEF SameEp0, InStep, Stalled, Unheard, Reading, Writing, NotStalled

LEMMA InitInv == Init => IInv
<1> SUFFICES ASSUME Init PROVE IInv
  OBVIOUS
<1>1. Handle(pdev)
  BY DEF Init, Handle, Fields
<1>2. /\ pdev.dev_state = "DEFAULT" /\ pdev.dev_old_state = "DEFAULT"
      /\ pdev.dev_config = 0 /\ pdev.pClassData = "NULL"
      /\ pdev.opened = {} /\ pdev.in1 = "idle" /\ pdev.out1 = "idle"
  BY DEF Init
<1>3. 0 \in 0..MaxConfig
  BY PacketAssumption
<1>4. ClassInv(pdev)
  BY <1>2, <1>3 DEF ClassInv, StateOf, Unloaded, States
<1>5. host = Idle /\ bus = "unplugged"
  BY DEF Init
<1>6. host \in Transfer /\ host.stage = "idle"
  BY <1>5 DEF Idle, Transfer, Stages
<1> QED BY <1>1, <1>4, <1>5, <1>6 DEF IInv, InStep

LEMMA HostSetupInv ==
  ASSUME IInv, HostSetup
  PROVE  IInv'
<1>1. PICK r \in HostRequests :
        /\ pdev' = USBD_LL_SetupStage(pdev, r)
        /\ host' = [stage |-> FirstStage(r), req |-> r, got |-> 0]
  BY DEF HostSetup
<1>2. bus = "active" /\ bus' = bus
  BY DEF HostSetup
<1>3. Settled(pdev', r)
  BY <1>1, <1>2, SetupStage DEF IInv
<1>4. InStep(pdev', FirstStage(r), r, 0)
  BY <1>3, AnswerInStep DEF Settled
<1>5. FirstStage(r) \in Stages
  BY DEF FirstStage, Stages
<1>6. host' \in Transfer
  BY <1>1, <1>5 DEF Transfer
<1> QED BY <1>1, <1>2, <1>3, <1>4, <1>6 DEF IInv, Settled

\* The transfer is over, or given up, by a step that leaves the class alone.
LEMMA BackToIdle ==
  ASSUME IInv, host' = Idle, bus' = bus,
         Handle(pdev'), SameClass(pdev, pdev')
  PROVE  IInv'
<1>1. host' \in Transfer /\ host'.stage = "idle"
  BY DEF Idle, Transfer, Stages
<1>2. ClassInv(pdev') /\ pdev'.dev_state = pdev.dev_state
  BY SameClassInv DEF IInv
<1> QED BY <1>1, <1>2 DEF IInv, InStep

LEMMA HostIn0DataInv ==
  ASSUME IInv, HostIn0Data
  PROVE  IInv'
<1> DEFINE d == [pdev EXCEPT !.in0 = NAK]
           e == pdev'
           r == host.req
           n == MinOf(pdev.in0, MaxPacket)
           g == host.got + n
           stage == IF n < MaxPacket \/ g >= r.len THEN "statusOut" ELSE "dataIn"
<1>1. /\ bus = "active" /\ bus' = bus /\ host.stage = "dataIn"
      /\ "IN0" \notin pdev.is_stall /\ pdev.in0 # NAK
      /\ host' = [host EXCEPT !.got = g, !.stage = stage]
      /\ e = USBD_LL_DataInStage0(d)
  BY DEF HostIn0Data
<1>2. Reading(pdev, r, host.got) /\ r \in HostRequests /\ host.got \in Nat
  BY <1>1 DEF IInv, InStep, Stalled, Unheard, Transfer
<1>3. /\ Handle(d) /\ SameClass(pdev, d) /\ d.is_stall = pdev.is_stall
      /\ d.ep0_state = "DATA_IN" /\ d.total_length = pdev.total_length
      /\ d.rem_length = pdev.rem_length /\ d.ep0_data_len = pdev.ep0_data_len
  BY <1>2 DEF IInv, Handle, Fields, SameClass, Reading
<1> DEFINE t == pdev.total_length
           m == pdev.rem_length
           empty == /\ t % MaxPacket = 0 /\ t >= MaxPacket
                    /\ t < pdev.ep0_data_len
<1>13. /\ n = IF pdev.in0 < MaxPacket THEN pdev.in0 ELSE MaxPacket
       /\ g = host.got + n
       /\ stage = IF n < MaxPacket \/ g >= r.len THEN "statusOut" ELSE "dataIn"
  BY DEF MinOf
<1>14. empty <=> (t % MaxPacket = 0 /\ t >= MaxPacket /\ t < pdev.ep0_data_len)
  OBVIOUS
<1> HIDE DEF d
<1>4. /\ Handle(e) /\ SameClass(d, e) /\ e.is_stall = d.is_stall
      /\ e.total_length = t
      /\ m > MaxPacket =>
           /\ e.ep0_state = "DATA_IN" /\ e.ep0_data_len = pdev.ep0_data_len
           /\ e.rem_length = m - MaxPacket /\ e.in0 = m - MaxPacket
      /\ ~(m > MaxPacket) /\ empty =>
           /\ e.ep0_state = "DATA_IN" /\ e.ep0_data_len = 0
           /\ e.rem_length = m /\ e.in0 = 0
      /\ ~(m > MaxPacket) /\ ~empty =>
           e.ep0_state = "STATUS_OUT" /\ e.out0 = "armed"
  BY <1>1, <1>3, DataInStage
<1> HIDE DEF n, g, stage, empty
<1>5. SameClass(pdev, e) /\ NotStalled(e)
  BY <1>2, <1>3, <1>4 DEF SameClass, NotStalled, Reading
<1>6. /\ r.len \in Nat /\ t \in Nat /\ m \in Nat \ {0} /\ t <= r.len
      /\ MaxPacket \in Nat \ {0}
  BY <1>2, PacketAssumption, RequestAssumption DEF Reading, WellFormed
<1>7. ASSUME e.ep0_state = "STATUS_OUT", e.out0 = "armed", g = t,
             stage = "statusOut"
      PROVE  InStep(e, stage, r, g)
  BY <1>4, <1>5, <1>7 DEF InStep
<1>8. ASSUME pdev.in0 = m, host.got + m = t,
             host.got % MaxPacket = 0, pdev.ep0_data_len = r.len
      PROVE  InStep(e, stage, r, g)
  <2>1. CASE m > MaxPacket
    <3>1. n = MaxPacket /\ g < t /\ g < r.len /\ stage = "dataIn"
      BY <1>2, <1>6, <1>8, <1>13, <2>1
    <3>2. /\ e.rem_length \in Nat \ {0} /\ e.rem_length <= t
          /\ g + e.rem_length = t
      BY <1>2, <1>4, <1>6, <1>8, <1>13, <2>1, <3>1
    <3>3. g % MaxPacket = 0
      BY <1>2, <1>6, <1>8, <1>13, <3>1, LastPacket
    <3>4. Reading(e, r, g)
      BY <1>4, <1>5, <1>6, <1>8, <2>1, <3>2, <3>3 DEF Reading
    <3> QED BY <3>1, <3>4 DEF InStep
  <2>2. CASE m < MaxPacket
    <3>1. n = m /\ g = t /\ stage = "statusOut"
      BY <1>2, <1>6, <1>8, <1>13, <2>2
    <3>2. t % MaxPacket = m
      BY <1>2, <1>6, <1>8, <2>2, LastPacket
    <3>3. ~(m > MaxPacket) /\ ~empty
      BY <1>6, <1>14, <2>2, <3>2
    <3> QED BY <1>4, <1>7, <3>1, <3>3
  <2>3. CASE m = MaxPacket
    <3>1. n = MaxPacket /\ g = t /\ t >= MaxPacket /\ ~(m > MaxPacket)
      BY <1>2, <1>6, <1>8, <1>13, <2>3
    <3>2. t % MaxPacket = 0
      BY <1>2, <1>8, <2>3, LastPacket
    <3>3. CASE t < r.len
      <4>1. stage = "dataIn" /\ empty
        BY <1>6, <1>8, <1>13, <1>14, <3>1, <3>2, <3>3
      <4>2. /\ e.ep0_state = "DATA_IN" /\ e.ep0_data_len = 0
            /\ e.rem_length = m /\ e.in0 = 0 /\ e.total_length = t
        BY <1>4, <3>1, <4>1
      <4>3. e.rem_length <= MaxPacket
        BY <1>6, <2>3, <4>2
      <4>4. Reading(e, r, g)
        BY <1>5, <1>6, <3>1, <4>2, <4>3 DEF Reading
      <4> QED BY <4>1, <4>4 DEF InStep
    <3>4. CASE ~(t < r.len)
      <4>1. stage = "statusOut" /\ ~empty
        BY <1>6, <1>8, <1>13, <1>14, <3>1, <3>4
      <4> QED BY <1>4, <1>7, <3>1, <4>1
    <3> QED BY <3>3, <3>4
  <2> QED BY <1>6, <2>1, <2>2, <2>3
<1>9. ASSUME pdev.in0 = 0, host.got = t, m <= MaxPacket,
             pdev.ep0_data_len = 0
      PROVE  InStep(e, stage, r, g)
  <2>1. n = 0 /\ g = t /\ stage = "statusOut"
    BY <1>2, <1>6, <1>9, <1>13
  <2>2. ~(m > MaxPacket) /\ ~empty
    BY <1>6, <1>9, <1>14
  <2> QED BY <1>4, <1>7, <2>1, <2>2
<1>10. InStep(e, stage, r, g) /\ g \in Nat
  <2>1. n \in Nat
    BY <1>2, <1>6, <1>13 DEF Reading
  <2> QED BY <1>2, <1>8, <1>9, <1>13, <2>1 DEF Reading
<1>11. /\ host' \in Transfer /\ host'.stage = stage /\ host'.req = r
       /\ host'.got = g
  <2>1. stage \in Stages
    BY <1>13 DEF Stages
  <2> QED BY <1>1, <1>10, <2>1 DEF IInv, Transfer
<1>12. ClassInv(e) /\ e.dev_state = pdev.dev_state
  BY <1>5, SameClassInv DEF IInv
<1> QED BY <1>1, <1>2, <1>4, <1>10, <1>11, <1>12 DEF IInv

LEMMA HostOut0DataInv ==
  ASSUME IInv, HostOut0Data
  PROVE  IInv'
<1> DEFINE r == host.req
           g == MinOf(host.got + MaxPacket, r.len)
           stage == IF g = r.len THEN "statusIn" ELSE "dataOut"
           v == IF g = r.len THEN r.value ELSE pdev.data
           d == [pdev EXCEPT !.out0 = "nak", !.data = v]
           e == pdev'
           x == pdev.rx_rem_length
<1>1. /\ bus = "active" /\ bus' = bus /\ host.stage = "dataOut"
      /\ "OUT0" \notin pdev.is_stall /\ pdev.out0 = "armed"
      /\ host' = [host EXCEPT !.got = g, !.stage = stage]
      /\ e = USBD_LL_DataOutStage0(d)
  BY DEF HostOut0Data
<1>2. Writing(pdev, r, host.got) /\ r \in HostRequests /\ host.got \in Nat
  BY <1>1 DEF IInv, InStep, Stalled, Unheard, Transfer
<1>3. /\ Handle(d) /\ SameClass(pdev, d) /\ d.is_stall = pdev.is_stall
      /\ d.ep0_state = "DATA_OUT" /\ d.rx_rem_length = x
  BY <1>2 DEF IInv, Handle, Fields, SameClass, Writing
<1>4. /\ g = IF host.got + MaxPacket < r.len THEN host.got + MaxPacket
             ELSE r.len
      /\ stage = IF g = r.len THEN "statusIn" ELSE "dataOut"
  BY DEF MinOf
<1> HIDE DEF g, stage, v, d
<1>5. /\ Handle(e) /\ SameClass(d, e) /\ e.is_stall = d.is_stall
      /\ x > MaxPacket =>
           /\ e.ep0_state = "DATA_OUT" /\ e.out0 = "armed"
           /\ e.rx_rem_length = x - MaxPacket
      /\ ~(x > MaxPacket) => e.ep0_state = "STATUS_IN" /\ e.in0 = 0
  BY <1>1, <1>3, DataOutStage
<1>6. SameClass(pdev, e) /\ NotStalled(e)
  BY <1>2, <1>3, <1>5 DEF SameClass, NotStalled, Writing
<1>7. /\ r.len \in Nat /\ MaxPacket \in Nat \ {0} /\ host.got < r.len
      /\ x = r.len - host.got
  BY <1>2, PacketAssumption, RequestAssumption DEF Writing, WellFormed
<1>8. InStep(e, stage, r, g)
  <2>1. CASE x > MaxPacket
    <3>1. g = host.got + MaxPacket /\ g < r.len /\ stage = "dataOut"
      BY <1>2, <1>4, <1>7, <2>1
    <3>2. e.rx_rem_length = r.len - g
      BY <1>2, <1>5, <1>7, <2>1, <3>1
    <3>3. Writing(e, r, g)
      BY <1>5, <1>6, <2>1, <3>1, <3>2 DEF Writing
    <3> QED BY <3>1, <3>3 DEF InStep
  <2>2. CASE ~(x > MaxPacket)
    <3>1. stage = "statusIn"
      BY <1>2, <1>4, <1>7, <2>2
    <3> QED BY <1>5, <1>6, <2>2, <3>1 DEF InStep
  <2> QED BY <2>1, <2>2
<1>9. /\ host' \in Transfer /\ host'.stage = stage /\ host'.req = r
      /\ host'.got = g
  <2>1. stage \in Stages
    BY <1>4 DEF Stages
  <2>2. g \in Nat
    BY <1>2, <1>4, <1>7
  <2> QED BY <1>1, <2>1, <2>2 DEF IInv, Transfer
<1>10. ClassInv(e) /\ e.dev_state = pdev.dev_state
  BY <1>6, SameClassInv DEF IInv
<1> QED BY <1>1, <1>2, <1>5, <1>8, <1>9, <1>10 DEF IInv

\* The other steps of the host end the transfer.
LEMMA HostEndsInv ==
  ASSUME IInv,
         HostStatusIn \/ HostStatusOut \/ HostEarlyStatus \/ HostSeesStall
           \/ HostAbort
  PROVE  IInv'
<1>1. CASE HostStatusIn
  <2> DEFINE d == [pdev EXCEPT !.in0 = NAK]
  <2>1. pdev' = USBD_LL_DataInStage0(d) /\ host' = Idle /\ bus' = bus
        /\ bus = "active" /\ host.stage = "statusIn"
        /\ "IN0" \notin pdev.is_stall /\ pdev.in0 # NAK
    BY <1>1 DEF HostStatusIn
  <2>2. pdev.ep0_state = "STATUS_IN"
    BY <2>1 DEF IInv, InStep, Stalled, Unheard
  <2>3. Handle(d) /\ SameClass(pdev, d) /\ d.ep0_state = "STATUS_IN"
    BY <2>2 DEF IInv, Handle, Fields, SameClass
  <2>4. pdev' = d
    BY <2>1, <2>3 DEF USBD_LL_DataInStage0
  <2> QED BY <2>1, <2>3, <2>4, BackToIdle
<1>2. CASE HostStatusOut \/ HostEarlyStatus
  <2> DEFINE d == [pdev EXCEPT !.out0 = "nak"]
  <2>1. pdev' = USBD_LL_DataOutStage0(d) /\ host' = Idle /\ bus' = bus
    BY <1>2 DEF HostStatusOut, HostEarlyStatus
  <2>2. Handle(d) /\ SameClass(pdev, d)
    BY DEF IInv, Handle, Fields, SameClass
  <2> HIDE DEF d
  <2>3. Handle(pdev') /\ SameClass(d, pdev')
    BY <2>1, <2>2, DataOutStage
  <2>4. SameClass(pdev, pdev')
    BY <2>2, <2>3 DEF SameClass
  <2> QED BY <2>1, <2>3, <2>4, BackToIdle
<1>3. CASE HostSeesStall \/ HostAbort
  <2>1. pdev' = pdev /\ host' = Idle /\ bus' = bus
    BY <1>3 DEF HostSeesStall, HostAbort
  <2>2. Handle(pdev') /\ SameClass(pdev, pdev')
    BY <2>1 DEF IInv, SameClass
  <2> QED BY <2>1, <2>2, BackToIdle
<1> QED BY <1>1, <1>2, <1>3

LEMMA BusInv ==
  ASSUME IInv, BusNext
  PROVE  IInv'
<1>1. Idle \in Transfer /\ Idle.stage = "idle"
  BY DEF Idle, Transfer, Stages
<1>2. CASE BusReset
  <2>1. PICK speed \in Speeds : pdev' = USBD_LL_Reset(pdev, speed)
    BY <1>2 DEF BusReset
  <2>2. Handle(pdev') /\ ClassInv(pdev') /\ pdev'.dev_state = "DEFAULT"
    BY <2>1, Reset DEF IInv
  <2>3. bus' = "active" /\ host' = Idle
    BY <1>2 DEF BusReset
  <2> QED BY <1>1, <2>2, <2>3 DEF IInv, InStep
<1>3. CASE BusDisconnect
  <2>1. /\ pdev' = USBD_LL_DevDisconnected(pdev)
        /\ bus' = "unplugged" /\ host' = Idle
    BY <1>3 DEF BusDisconnect
  <2>2. Handle(pdev') /\ ClassInv(pdev') /\ pdev'.dev_state = "DEFAULT"
    BY <2>1, Disconnected DEF IInv
  <2> QED BY <1>1, <2>1, <2>2 DEF IInv, InStep
<1>4. CASE BusSuspend
  <2>1. /\ pdev' = USBD_LL_Suspend(pdev) /\ bus = "active"
        /\ bus' = "suspended" /\ host' = host
    BY <1>4 DEF BusSuspend
  <2>2. /\ Handle(pdev') /\ ClassInv(pdev') /\ SameEp0(pdev, pdev')
        /\ pdev'.dev_state = "SUSPENDED" /\ StateOf(pdev') = StateOf(pdev)
        /\ pdev'.is_stall = pdev.is_stall
    BY <2>1, Suspended DEF IInv
  <2>3. InStep(pdev', host.stage, host.req, host.got)
    BY <2>2, StillInStep DEF IInv
  <2> QED BY <2>1, <2>2, <2>3 DEF IInv
<1>5. CASE BusResume
  <2>1. /\ pdev' = USBD_LL_Resume(pdev) /\ bus = "suspended"
        /\ bus' = "active" /\ host' = host
    BY <1>5 DEF BusResume
  <2>2. /\ Handle(pdev') /\ ClassInv(pdev') /\ SameEp0(pdev, pdev')
        /\ pdev'.dev_state # "SUSPENDED" /\ StateOf(pdev') = StateOf(pdev)
        /\ pdev'.is_stall = pdev.is_stall
    BY <2>1, Resumed DEF IInv
  <2>3. InStep(pdev', host.stage, host.req, host.got)
    BY <2>2, StillInStep DEF IInv
  <2> QED BY <2>1, <2>2, <2>3 DEF IInv
<1> QED BY <1>2, <1>3, <1>4, <1>5 DEF BusNext

LEMMA NextInv == IInv /\ [Next]_vars => IInv'
<1> SUFFICES ASSUME IInv, [Next]_vars PROVE IInv'
  OBVIOUS
<1>1. CASE UNCHANGED vars
  BY <1>1 DEF IInv, vars
<1>2. CASE ControlNext
  BY <1>2, HostSetupInv, HostIn0DataInv, HostOut0DataInv, HostEndsInv
     DEF ControlNext
<1> QED BY <1>1, <1>2, BusInv DEF Next

(***************************************************************************)
(* Theorems                                                                *)
(***************************************************************************)
\* The strengthening holds of every behaviour.
LEMMA AlwaysIInv == Spec => []IInv
  BY InitInv, NextInv, PTL DEF Spec

\* The class is loaded exactly while the device is configured, suspended or
\* not: what usbd_core.c:325 and 396 and USBSerial rely on, for any requests that
\* are well formed.
THEOREM ClassFollowsTheState == Spec => []ClassFollowsState
<1>1. IInv => ClassFollowsState
  BY DEF IInv, ClassInv, Loaded, Unloaded, ClassFollowsState
<1> QED BY <1>1, AlwaysIInv, PTL

\* No transfer that the library answers leaves host and device waiting for
\* each other, whatever the lengths of packets, descriptors and requests
\* (usbd_core.c:343-405).
THEOREM TransfersDoNotStall == Spec => []NoTransferStalls
<1>1. IInv => NoTransferStalls
  <2> SUFFICES ASSUME IInv, bus = "active", Silent
               PROVE  pdev.ep0_state = "SETUP" /\ Ignored(host.req)
    BY DEF NoTransferStalls
  <2>1. StateOf(pdev) = pdev.dev_state
    BY DEF IInv, StateOf
  <2>2. InStep(pdev, host.stage, host.req, host.got)
    BY DEF IInv
  <2>3. CASE Unheard(pdev, host.req)
    BY <2>1, <2>3 DEF Unheard, IgnoredIn, Ignored
  <2>4. CASE Stalled(pdev, host.stage)
    BY <2>4 DEF Stalled, Silent
  <2>5. CASE host.stage = "dataIn" /\ Reading(pdev, host.req, host.got)
    <3>1. pdev.in0 \in Nat
      BY <2>5 DEF Reading
    <3>2. pdev.in0 # NAK
      BY <3>1 DEF NAK
    <3> QED BY <2>5, <3>2 DEF Silent
  <2>6. CASE host.stage = "statusIn" /\ pdev.in0 = 0
    <3>1. pdev.in0 # NAK
      BY <2>6 DEF NAK
    <3> QED BY <2>6, <3>1 DEF Silent
  <2>7. CASE host.stage \in {"dataOut", "statusOut"} /\ pdev.out0 = "armed"
    BY <2>7 DEF Silent
  <2>8. CASE host.stage = "idle"
    BY <2>8 DEF Silent
  <2> QED BY <2>2, <2>3, <2>4, <2>5, <2>6, <2>7, <2>8 DEF InStep, Writing
<1> QED BY <1>1, AlwaysIInv, PTL

\* A read that the host takes for complete delivered the bytes that the device
\* meant to send, neither more nor fewer, also when the last packet is full;
\* and no status stage carries data.
THEOREM ReadsAreDelivered == Spec => []ReadDelivered
<1>1. IInv => ReadDelivered
  BY DEF IInv, InStep, ReadDelivered, Unheard
<1> QED BY <1>1, AlwaysIInv, PTL

(***************************************************************************)
(* What is read back                                                       *)
(***************************************************************************)
\* The configuration the device reports.
Cfg(d) == IF StateOf(d) = "CONFIGURED" THEN d.dev_config ELSE 0

Ep0States ==
  {"IDLE", "SETUP", "DATA_IN", "DATA_OUT", "STATUS_IN", "STATUS_OUT"}

Ep0Typed(d) ==
  /\ d.ep0_state \in Ep0States /\ d.is_stall \subseteq ClassEPs \cup EP0
  /\ d.in0 \in Int /\ d.out0 \in {"nak", "armed"}
  /\ d.rem_length \in Nat /\ d.rx_rem_length \in Nat

\* Request r has done its work, and only its status is to come.
Done(d, stage) ==
  stage = "statusIn" /\ d.ep0_state = "STATUS_IN" /\ NotStalled(d)

ConfigKnown(d, stage, r, configs) ==
  /\ Done(d, stage) /\ r.req = "SET_CONFIGURATION" =>
       Cfg(d) = Cfgidx(r) /\ Cfgidx(r) <= MaxConfig
  /\ Cfg(d) \in configs \/ (Done(d, stage) /\ r.req = "SET_CONFIGURATION")

CodingKnown(d, stage, r, codings) ==
  /\ Done(d, stage) /\ r.req = "SET_LINE_CODING" => d.linecoding = r.value
  /\ d.linecoding \in codings \/ (Done(d, stage) /\ r.req = "SET_LINE_CODING")

\* The class takes the data for the request that announced it, and nothing else
\* arms endpoint 0 for data.
Writes(d, stage, r) ==
  /\ stage \in {"dataIn", "statusOut"} => d.ep0_state # "DATA_OUT"
  /\ stage = "dataOut" /\ d.ep0_state = "DATA_OUT" =>
       StateOf(d) = "CONFIGURED" /\ d.CmdOpCode = r.req

Replies(d, stage, r, v) ==
  stage \in {"dataIn", "statusOut"} /\ d.ep0_state \in {"DATA_IN", "STATUS_OUT"}
    => /\ r.req = "GET_CONFIGURATION" => d.reply[2] \in v.config
       /\ r.req = "GET_LINE_CODING" => d.reply[2] \in v.coding

TalkInv ==
  /\ DOMAIN view = {"config", "coding"} /\ view.coding \subseteq Codings
  /\ Ep0Typed(pdev)
  /\ ConfigKnown(pdev, host.stage, host.req, view.config)
  /\ CodingKnown(pdev, host.stage, host.req, view.coding)
  /\ Writes(pdev, host.stage, host.req)
  /\ Replies(pdev, host.stage, host.req, view)

\* Each stage keeps the types and the line coding.
LEMMA TypedSendData ==
  ASSUME NEW d, Handle(d), Ep0Typed(d), NEW what, NEW len \in Nat,
         NEW e, e = USBD_CtlSendData(d, what, len)
  PROVE  /\ Ep0Typed(e) /\ e.ep0_state = "DATA_IN" /\ e.reply = what
         /\ e.linecoding = d.linecoding
  BY DEF USBD_CtlSendData, USBD_LL_Transmit, Handle, Fields, Ep0Typed, Ep0States

LEMMA TypedSendStatus ==
  ASSUME NEW d, Handle(d), Ep0Typed(d), NEW e, e = USBD_CtlSendStatus(d)
  PROVE  /\ Ep0Typed(e) /\ e.ep0_state = "STATUS_IN"
         /\ e.linecoding = d.linecoding
  BY DEF USBD_CtlSendStatus, USBD_LL_Transmit, Handle, Fields, Ep0Typed,
         Ep0States

LEMMA TypedError ==
  ASSUME NEW d, Handle(d), Ep0Typed(d), NEW e, e = USBD_CtlError(d)
  PROVE  /\ Ep0Typed(e) /\ e.ep0_state = d.ep0_state
         /\ e.linecoding = d.linecoding
  BY DEF USBD_CtlError, USBD_LL_StallEP, Handle, Fields, Ep0Typed, EP0

LEMMA TypedStall ==
  ASSUME NEW d, Handle(d), Ep0Typed(d), NEW ep \in ClassEPs \cup EP0,
         NEW e, e = USBD_LL_StallEP(d, ep) \/ e = USBD_LL_ClearStallEP(d, ep)
  PROVE  /\ Ep0Typed(e) /\ e.ep0_state = d.ep0_state
         /\ e.linecoding = d.linecoding
  BY DEF USBD_LL_StallEP, USBD_LL_ClearStallEP, Handle, Fields, Ep0Typed

LEMMA TypedControl ==
  ASSUME NEW d, Handle(d), Ep0Typed(d), NEW op, NEW e, e = CDC_Control(d, op)
  PROVE  /\ Ep0Typed(e) /\ e.ep0_state = d.ep0_state
         /\ e.linecoding = IF op = "SET_LINE_CODING" THEN d.data
                           ELSE d.linecoding
         /\ op = "GET_LINE_CODING" => e.data = d.linecoding
  BY DEF CDC_Control, Handle, Fields, Ep0Typed

\* The class takes data under the name of the request, and sends of itself the
\* line coding.
Talks(d, e, r) ==
  /\ Ep0Typed(e) /\ e.linecoding = d.linecoding
  /\ e.ep0_state \in {"SETUP", "DATA_IN", "DATA_OUT", "STATUS_IN"}
  /\ e.ep0_state = "DATA_OUT" =>
       /\ FirstStage(r) = "dataOut" /\ d.dev_state = "CONFIGURED"
       /\ e.CmdOpCode = r.req
  /\ e.ep0_state = "DATA_IN" =>
       /\ r.req = "GET_CONFIGURATION" => e.reply[2] = Cfg(d)
       /\ r.req = "GET_LINE_CODING" => e.reply[2] = d.linecoding

LEMMA ClassTalks ==
  ASSUME NEW d, NEW r \in HostRequests, Handle(d), Ep0Typed(d),
         d.ep0_state = "SETUP", NEW e, e = USBD_CDC_Setup(d, r),
         r.type = "class" /\ r.len > 0 => d.dev_state = "CONFIGURED"
  PROVE  Talks(d, e, r) /\ e.ep0_state # "STATUS_IN"
<1>1. /\ r.len \in Nat /\ r.type \in {"std", "class"}
      /\ r.req = "SET_LINE_CODING" => r.dir = "out" /\ r.len > 0
      /\ r.req = "GET_CONFIGURATION" => r.type = "std"
      /\ r.req = "SET_LINE_CODING" => r.type = "class"
  BY RequestAssumption DEF WellFormed
<1>2. CASE r.type = "class" /\ r.len > 0 /\ r.dir = "in"
  <2> DEFINE c == CDC_Control(d, r.req)
  <2>1. /\ Ep0Typed(c) /\ c.linecoding = d.linecoding /\ Handle(c)
        /\ r.req = "GET_LINE_CODING" => c.data = d.linecoding
    BY <1>1, <1>2, TypedControl, ControlOfClass
  <2>2. e = USBD_CtlSendData(c, <<r.req, c.data>>, r.len)
    BY <1>2 DEF USBD_CDC_Setup
  <2> HIDE DEF c
  <2>3. /\ Ep0Typed(e) /\ e.ep0_state = "DATA_IN"
        /\ e.reply = <<r.req, c.data>> /\ e.linecoding = c.linecoding
    BY <1>1, <2>1, <2>2, TypedSendData
  <2> QED BY <1>1, <1>2, <2>1, <2>3 DEF Talks
<1>3. CASE r.type = "class" /\ r.len > 0 /\ r.dir = "out"
  <2>1. e = USBD_CtlPrepareRx([d EXCEPT !.CmdOpCode = r.req], r.len)
    BY <1>3 DEF USBD_CDC_Setup
  <2>2. /\ Ep0Typed(e) /\ e.ep0_state = "DATA_OUT" /\ e.CmdOpCode = r.req
        /\ e.linecoding = d.linecoding
    BY <1>1, <2>1 DEF USBD_CtlPrepareRx, USBD_LL_PrepareReceive, Handle, Fields,
                      Ep0Typed, Ep0States
  <2>3. FirstStage(r) = "dataOut"
    BY <1>1, <1>3 DEF FirstStage
  <2> QED BY <1>3, <2>2, <2>3 DEF Talks
<1>4. CASE r.type = "std" /\ r.req = "GET_INTERFACE"
  <2>1. e = USBD_CtlSendData(d, <<r.req, 0>>, 1)
    BY <1>4 DEF USBD_CDC_Setup
  <2>2. Ep0Typed(e) /\ e.ep0_state = "DATA_IN" /\ e.linecoding = d.linecoding
    BY <2>1, TypedSendData
  <2> QED BY <1>4, <2>2 DEF Talks
<1>5. CASE /\ ~(r.type = "class" /\ r.len > 0 /\ r.dir \in {"in", "out"})
           /\ ~(r.type = "std" /\ r.req = "GET_INTERFACE")
  <2>1. e = d \/ (r.type = "class" /\ r.len = 0 /\ e = CDC_Control(d, r.req))
    BY <1>5 DEF USBD_CDC_Setup
  <2>2. Ep0Typed(e) /\ e.ep0_state = "SETUP" /\ e.linecoding = d.linecoding
    BY <1>1, <2>1, TypedControl
  <2> QED BY <2>2 DEF Talks
<1> QED BY <1>2, <1>3, <1>4, <1>5

\* The other answers.
LEMMA ErrorTalks ==
  ASSUME NEW d, NEW r, Handle(d), Ep0Typed(d), d.ep0_state = "SETUP",
         NEW e, e = USBD_CtlError(d)
  PROVE  Talks(d, e, r)
<1>1. Ep0Typed(e) /\ e.ep0_state = "SETUP" /\ e.linecoding = d.linecoding
  BY TypedError
<1> QED BY <1>1 DEF Talks

LEMMA StatusTalks ==
  ASSUME NEW d, NEW r, NEW c, Handle(c), Ep0Typed(c),
         c.linecoding = d.linecoding, NEW e, e = USBD_CtlSendStatus(c)
  PROVE  Talks(d, e, r)
<1>1. Ep0Typed(e) /\ e.ep0_state = "STATUS_IN" /\ e.linecoding = c.linecoding
  BY TypedSendStatus
<1> QED BY <1>1 DEF Talks

LEMMA DataTalks ==
  ASSUME NEW d, NEW r, Handle(d), Ep0Typed(d), NEW what, NEW len \in Nat,
         r.req # "GET_LINE_CODING",
         r.req = "GET_CONFIGURATION" => what[2] = Cfg(d),
         NEW e, e = USBD_CtlSendData(d, what, len)
  PROVE  Talks(d, e, r)
<1>1. /\ Ep0Typed(e) /\ e.ep0_state = "DATA_IN" /\ e.linecoding = d.linecoding
      /\ e.reply = what
  BY TypedSendData
<1> QED BY <1>1 DEF Talks

LEMMA SameTalks ==
  ASSUME NEW d, NEW r, NEW e, Ep0Typed(e), e.ep0_state = "SETUP",
         e.linecoding = d.linecoding
  PROVE  Talks(d, e, r)
  BY DEF Talks

\* A status after what the class makes of a request without data.
LEMMA ClassThenStatus ==
  ASSUME NEW d, NEW b, NEW r \in HostRequests, r.len = 0, Handle(b),
         Ep0Typed(b), b.ep0_state = "SETUP", b.linecoding = d.linecoding,
         NEW e, e = USBD_CtlSendStatus(USBD_CDC_Setup(b, r))
  PROVE  Talks(d, e, r)
<1> DEFINE c == USBD_CDC_Setup(b, r)
<1>1. Handle(c)
  BY SetupOfClass
<1>2. Talks(b, c, r)
  BY ClassTalks
<1> HIDE DEF c
<1>3. Ep0Typed(c) /\ c.linecoding = d.linecoding
  BY <1>2 DEF Talks
<1>4. e = USBD_CtlSendStatus(c)
  BY DEF c
<1> QED BY <1>1, <1>3, <1>4, StatusTalks

LEMMA DeviceTalks ==
  ASSUME NEW d, NEW r \in HostRequests, Fresh(d, r), Ep0Typed(d),
         d.dev_state # "SUSPENDED", r.rcpt = "device",
         NEW e, e = USBD_StdDevReq(d, r),
         r.req \notin {"SET_ADDRESS", "SET_CONFIGURATION"}
  PROVE  Talks(d, e, r)
<1>1. Handle(d) /\ d.ep0_state = "SETUP" /\ r.len \in Nat
  BY RequestAssumption DEF Fresh, WellFormed
<1>2. CASE e = USBD_CtlError(d)
  BY <1>1, <1>2, ErrorTalks
<1>3. CASE e = d
  BY <1>1, <1>3, SameTalks
<1>4. CASE r.req = "GET_DESCRIPTOR"
  <2> DEFINE n == MinOf(DescLen[r.value], r.len)
  <2>1. e = USBD_GetDescriptor(d, r)
    BY <1>4 DEF USBD_StdDevReq
  <2>2. \/ e = USBD_CtlError(d) \/ e = d
        \/ r.value \in DOMAIN DescLen /\ e = USBD_CtlSendData(d, <<r.req, 0>>, n)
    BY <2>1 DEF USBD_GetDescriptor
  <2>3. ASSUME r.value \in DOMAIN DescLen, e = USBD_CtlSendData(d, <<r.req, 0>>, n)
        PROVE  Talks(d, e, r)
    <3>1. n \in Nat
      BY <1>1, <2>3, DescriptorAssumption DEF MinOf
    <3> HIDE DEF n
    <3> QED BY <1>1, <1>4, <2>3, <3>1, DataTalks
  <2> QED BY <1>2, <1>3, <2>2, <2>3
<1>5. CASE r.req = "GET_CONFIGURATION"
  <2> DEFINE w == <<r.req, IF d.dev_state = "ADDRESSED" THEN 0 ELSE d.dev_config>>
  <2>1. e = USBD_GetConfig(d, r)
    BY <1>5 DEF USBD_StdDevReq
  <2>2. \/ e = USBD_CtlError(d)
        \/ d.dev_state \in {"ADDRESSED", "CONFIGURED"} /\ e = USBD_CtlSendData(d, w, 1)
    BY <2>1 DEF USBD_GetConfig
  <2>3. d.dev_state \in {"ADDRESSED", "CONFIGURED"} => w[2] = Cfg(d)
    BY DEF Cfg, StateOf
  <2> HIDE DEF w
  <2> QED BY <1>1, <1>2, <1>5, <2>2, <2>3, DataTalks
<1>6. CASE r.req = "GET_STATUS"
  <2> DEFINE w == <<r.req, 1 + 2 * d.dev_remote_wakeup>>
  <2>1. e = USBD_GetStatus(d, r)
    BY <1>6 DEF USBD_StdDevReq
  <2>2. e = USBD_CtlError(d) \/ e = USBD_CtlSendData(d, w, 2)
    BY <2>1 DEF USBD_GetStatus
  <2> HIDE DEF w
  <2> QED BY <1>1, <1>2, <1>6, <2>2, DataTalks
<1>7. CASE r.req \in {"SET_FEATURE", "CLEAR_FEATURE"}
  <2>1. e = USBD_SetFeature(d, r) \/ e = USBD_ClrFeature(d, r)
    BY <1>7 DEF USBD_StdDevReq
  <2>2. \/ e = USBD_CtlError(d) \/ e = d
        \/ \E w \in {0, 1} : e = USBD_CtlSendStatus(
                      USBD_CDC_Setup([d EXCEPT !.dev_remote_wakeup = w], r))
    BY <2>1 DEF USBD_SetFeature, USBD_ClrFeature
  <2>3. ASSUME NEW w \in {0, 1}, e = USBD_CtlSendStatus(
                      USBD_CDC_Setup([d EXCEPT !.dev_remote_wakeup = w], r))
        PROVE  Talks(d, e, r)
    <3> DEFINE b == [d EXCEPT !.dev_remote_wakeup = w]
    <3>1. /\ Handle(b) /\ Ep0Typed(b) /\ b.ep0_state = "SETUP"
          /\ b.linecoding = d.linecoding
      BY <1>1 DEF Handle, Fields, Ep0Typed
    <3>2. r.len = 0 /\ e = USBD_CtlSendStatus(USBD_CDC_Setup(b, r))
      BY <1>7, <2>3, RequestAssumption DEF WellFormed
    <3> HIDE DEF b
    <3> QED BY <3>1, <3>2, ClassThenStatus
  <2> QED BY <1>2, <1>3, <2>2, <2>3
<1>8. CASE r.req \notin {"GET_DESCRIPTOR", "GET_CONFIGURATION", "GET_STATUS",
                         "SET_FEATURE", "CLEAR_FEATURE"}
  <2>1. e = USBD_CtlError(d)
    BY <1>8 DEF USBD_StdDevReq
  <2> QED BY <1>2, <2>1
<1> QED BY <1>4, <1>5, <1>6, <1>7, <1>8

LEMMA InterfaceTalks ==
  ASSUME NEW d, NEW r \in HostRequests, Fresh(d, r), Ep0Typed(d),
         NEW e, e = USBD_StdItfReq(d, r)
  PROVE  Talks(d, e, r)
<1>1. Handle(d) /\ d.ep0_state = "SETUP" /\ r.len \in Nat
  BY RequestAssumption DEF Fresh, WellFormed
<1>2. CASE e = USBD_CtlError(d)
  BY <1>1, <1>2, ErrorTalks
<1>3. CASE r.len = 0 /\ e = USBD_CtlSendStatus(USBD_CDC_Setup(d, r))
  BY <1>1, <1>3, ClassThenStatus
<1>4. CASE d.dev_state = "CONFIGURED" /\ e = USBD_CDC_Setup(d, r)
  BY <1>1, <1>4, ClassTalks
<1> QED BY <1>2, <1>3, <1>4 DEF USBD_StdItfReq

LEMMA EndpointTalks ==
  ASSUME NEW d, NEW r \in HostRequests, Fresh(d, r), Ep0Typed(d),
         NEW e, e = USBD_StdEPReq(d, r),
         r.type = "class" => d.dev_state = "CONFIGURED"
  PROVE  Talks(d, e, r)
<1>1. /\ Handle(d) /\ d.ep0_state = "SETUP" /\ r.len \in Nat
      /\ r.ep \in ClassEPs \cup EP0
      /\ r.req \in {"SET_FEATURE", "CLEAR_FEATURE"} => r.len = 0
  BY RequestAssumption DEF Fresh, WellFormed
<1>2. CASE e = USBD_CtlError(d)
  BY <1>1, <1>2, ErrorTalks
<1>3. CASE e = d
  BY <1>1, <1>3, SameTalks
<1>4. CASE r.type = "class"
  <2>1. e = USBD_CDC_Setup(d, r)
    BY <1>4 DEF USBD_StdEPReq
  <2> QED BY <1>1, <1>4, <2>1, ClassTalks
<1>5. CASE e = USBD_LL_StallEP(d, r.ep)
  <2>1. Ep0Typed(e) /\ e.ep0_state = "SETUP" /\ e.linecoding = d.linecoding
    BY <1>1, <1>5, TypedStall
  <2> QED BY <2>1, SameTalks
<1>6. CASE /\ r.req \in {"SET_FEATURE", "CLEAR_FEATURE", "GET_STATUS"}
           /\ e = EPReqConfigured(d, r)
  <2> DEFINE s == USBD_LL_StallEP(d, r.ep)
             u == USBD_LL_ClearStallEP(d, r.ep)
             w == <<r.req, USBD_LL_IsStallEP(d, r.ep)>>
  <2>1. \/ r.req = "SET_FEATURE" /\ e = USBD_CtlSendStatus(USBD_CDC_Setup(s, r))
        \/ r.req = "SET_FEATURE" /\ e = USBD_CtlSendStatus(USBD_CDC_Setup(d, r))
        \/ r.req = "CLEAR_FEATURE" /\ e = USBD_CtlSendStatus(USBD_CDC_Setup(u, r))
        \/ r.req = "CLEAR_FEATURE" /\ e = USBD_CtlSendStatus(d)
        \/ r.req = "GET_STATUS" /\ e = USBD_CtlSendData(d, w, 2)
        \/ e = d
    BY <1>6 DEF EPReqConfigured
  <2>2. /\ Handle(s) /\ Ep0Typed(s) /\ s.ep0_state = "SETUP"
        /\ s.linecoding = d.linecoding
    BY <1>1, StallEP, TypedStall
  <2>3. /\ Handle(u) /\ Ep0Typed(u) /\ u.ep0_state = "SETUP"
        /\ u.linecoding = d.linecoding
    BY <1>1, ClearStallEP, TypedStall
  <2> HIDE DEF s, u, w
  <2> QED
    BY <1>1, <1>3, <2>1, <2>2, <2>3, ClassThenStatus, StatusTalks, DataTalks
<1> QED
  BY <1>2, <1>3, <1>4, <1>5, <1>6 DEF USBD_StdEPReq

(* Address and configuration.                                              *)

LEMMA SameCfg ==
  ASSUME NEW d, NEW e, SameClass(d, e)
  PROVE  Cfg(e) = Cfg(d) /\ StateOf(e) = StateOf(d)
  BY DEF SameClass, Cfg, StateOf

LEMMA AddressTalks ==
  ASSUME NEW d, NEW r \in HostRequests, Fresh(d, r), Ep0Typed(d),
         d.dev_state # "SUSPENDED", NEW e, e = USBD_SetAddress(d, r)
  PROVE  Talks(d, e, r) /\ Cfg(e) = Cfg(d)
<1>1. Handle(d) /\ d.ep0_state = "SETUP"
  BY DEF Fresh
<1>2. CASE r.index # 0 \/ r.len # 0 \/ d.dev_state = "CONFIGURED"
  <2>1. e = USBD_CtlError(d)
    BY <1>2 DEF USBD_SetAddress
  <2> QED BY <1>1, <2>1, ErrorTalks, CtlError, SameCfg
<1>3. CASE ~(r.index # 0 \/ r.len # 0 \/ d.dev_state = "CONFIGURED")
  <2> DEFINE a == DevAddr(r)
             s == IF a # 0 THEN "ADDRESSED" ELSE "DEFAULT"
             c == [USBD_LL_SetUSBAddress(d, a)
                     EXCEPT !.dev_address = a, !.dev_state = s]
  <2>1. e = USBD_CtlSendStatus(c)
    BY <1>3 DEF USBD_SetAddress
  <2>2. /\ Handle(c) /\ Ep0Typed(c) /\ c.linecoding = d.linecoding
        /\ c.dev_state = s
    BY <1>1 DEF USBD_LL_SetUSBAddress, Handle, Fields, Ep0Typed
  <2> HIDE DEF c
  <2>3. SameClass(c, e)
    BY <2>1, <2>2, SendStatus
  <2>4. Cfg(e) = Cfg(c)
    BY <2>3, SameCfg
  <2>5. Cfg(c) = 0 /\ Cfg(d) = 0
    BY <1>3, <2>2 DEF Cfg, StateOf
  <2> QED BY <2>1, <2>2, <2>4, <2>5, StatusTalks
<1> QED BY <1>2, <1>3

LEMMA TypedClass ==
  ASSUME NEW d, Handle(d), Ep0Typed(d),
         NEW e, e = USBD_CDC_Init(d) \/ e = USBD_CDC_DeInit(d)
  PROVE  /\ Ep0Typed(e) /\ e.ep0_state = d.ep0_state
         /\ e.linecoding = d.linecoding
<1>1. CASE e = USBD_CDC_Init(d)
  BY <1>1 DEF USBD_CDC_Init, USBD_LL_OpenEP, Handle, Fields, Ep0Typed
<1>2. CASE e = USBD_CDC_DeInit(d)
  BY <1>2 DEF USBD_CDC_DeInit, USBD_LL_CloseEP, Handle, Fields, Ep0Typed
<1> QED BY <1>1, <1>2

\* A configuration is refused, or is what the device then reports.
LEMMA ConfigTalks ==
  ASSUME NEW d, NEW r \in HostRequests, Fresh(d, r), Ep0Typed(d),
         d.dev_state # "SUSPENDED", NEW e, e = USBD_SetConfig(d, r)
  PROVE  /\ Talks(d, e, r)
         /\ \/ Cfg(e) = Cfg(d) /\ e.ep0_state = "SETUP"
            \/ /\ Cfg(e) = Cfgidx(r) /\ Cfgidx(r) <= MaxConfig
               /\ e.ep0_state = "STATUS_IN" /\ NotStalled(e)
<1> DEFINE n == Cfgidx(r)
           set == [d EXCEPT !.dev_config = n]
           up == [set EXCEPT !.dev_state = "CONFIGURED"]
           down == [set EXCEPT !.dev_state = "ADDRESSED"]
           ok == \/ Cfg(e) = Cfg(d) /\ e.ep0_state = "SETUP"
                 \/ /\ Cfg(e) = n /\ n <= MaxConfig
                    /\ e.ep0_state = "STATUS_IN" /\ NotStalled(e)
<1>1. /\ Handle(d) /\ d.ep0_state = "SETUP" /\ n \in Nat /\ NotStalled(d)
  BY RequestAssumption, LowerByte DEF Fresh, WellFormed
<1>2. /\ Handle(set) /\ Ep0Typed(set) /\ set.linecoding = d.linecoding
      /\ set.dev_state = d.dev_state /\ set.dev_config = n /\ NotStalled(set)
  BY <1>1 DEF Handle, Fields, Ep0Typed, NotStalled
<1>3. /\ Handle(up) /\ Ep0Typed(up) /\ up.linecoding = d.linecoding
      /\ up.dev_state = "CONFIGURED" /\ up.dev_config = n /\ NotStalled(up)
  BY <1>1 DEF Handle, Fields, Ep0Typed, NotStalled
<1>4. /\ Handle(down) /\ Ep0Typed(down) /\ down.linecoding = d.linecoding
      /\ down.dev_state = "ADDRESSED" /\ NotStalled(down)
  BY <1>1 DEF Handle, Fields, Ep0Typed, NotStalled
<1>5. CASE e = USBD_CtlError(d)
  <2>1. Cfg(e) = Cfg(d) /\ e.ep0_state = "SETUP"
    BY <1>1, <1>5, CtlError, SameCfg, TypedError
  <2> QED BY <1>1, <1>5, <2>1, ErrorTalks
<1>6. ASSUME NEW c, Handle(c), Ep0Typed(c), c.linecoding = d.linecoding,
             Cfg(c) = n, n <= MaxConfig, NotStalled(c), e = USBD_CtlSendStatus(c)
      PROVE  Talks(d, e, r) /\ ok
  BY <1>6, StatusTalks, SendStatus, SameCfg DEF NotStalled
<1>7. ASSUME NEW b, Handle(b), Ep0Typed(b), b.linecoding = d.linecoding,
             b.dev_state = "CONFIGURED", b.dev_config = n, n <= MaxConfig,
             NotStalled(b), e = USBD_CtlSendStatus(USBD_CDC_Init(b))
      PROVE  Talks(d, e, r) /\ ok
  <2> DEFINE c == USBD_CDC_Init(b)
  <2>1. /\ Handle(c) /\ Ep0Typed(c) /\ c.linecoding = d.linecoding
        /\ SameDevice(b, c) /\ NotStalled(c)
    BY <1>7, ClassInit, TypedClass DEF NotStalled
  <2>2. e = USBD_CtlSendStatus(c)
    BY <1>7
  <2> HIDE DEF c
  <2>3. Cfg(c) = n
    BY <1>7, <2>1 DEF Cfg, StateOf, SameDevice
  <2> QED BY <1>6, <1>7, <2>1, <2>2, <2>3
<1>8. CASE d.dev_state = "ADDRESSED" /\ n <= MaxConfig
  <2>1. ~(n > MaxConfig)
    BY <1>1, <1>8, PacketAssumption
  <2>2. CASE n = 0
    <3>1. e = USBD_CtlSendStatus(d)
      BY <1>8, <2>1, <2>2, Zenon DEF USBD_SetConfig
    <3>2. Cfg(d) = n
      BY <1>8, <2>2 DEF Cfg, StateOf
    <3> QED BY <1>1, <1>6, <1>8, <3>1, <3>2
  <2>3. CASE n # 0
    <3>1. e = USBD_CtlSendStatus(USBD_SetClassConfig(up))
      BY <1>8, <2>1, <2>3, Zenon DEF USBD_SetConfig
    <3>2. e = USBD_CtlSendStatus(USBD_CDC_Init(up))
      BY <3>1 DEF USBD_SetClassConfig
    <3> HIDE DEF up
    <3> QED BY <1>3, <1>7, <1>8, <3>2
  <2> QED BY <2>2, <2>3
<1>9. CASE d.dev_state = "CONFIGURED" /\ n <= MaxConfig
  <2>1. ~(n > MaxConfig)
    BY <1>1, <1>9, PacketAssumption
  <2>2. CASE n = 0
    <3> DEFINE c == USBD_CDC_DeInit(down)
    <3>1. e = USBD_CtlSendStatus(USBD_ClrClassConfig(down))
      BY <1>9, <2>1, <2>2, Zenon DEF USBD_SetConfig
    <3>2. e = USBD_CtlSendStatus(c)
      BY <3>1 DEF USBD_ClrClassConfig
    <3> HIDE DEF down
    <3>3. /\ Handle(c) /\ Ep0Typed(c) /\ c.linecoding = d.linecoding
          /\ SameDevice(down, c) /\ NotStalled(c)
      BY <1>4, ClassDeInit, TypedClass DEF NotStalled
    <3> HIDE DEF c
    <3>4. Cfg(c) = n
      BY <1>4, <2>2, <3>3 DEF Cfg, StateOf, SameDevice
    <3> QED BY <1>6, <1>9, <3>2, <3>3, <3>4
  <2>3. CASE n # 0 /\ n # d.dev_config
    <3> DEFINE c == USBD_CDC_DeInit(set)
    <3>1. e = USBD_CtlSendStatus(USBD_SetClassConfig(USBD_ClrClassConfig(set)))
      BY <1>9, <2>1, <2>3, Zenon DEF USBD_SetConfig
    <3>2. e = USBD_CtlSendStatus(USBD_CDC_Init(c))
      BY <3>1 DEF USBD_ClrClassConfig, USBD_SetClassConfig
    <3> HIDE DEF set
    <3>3. /\ Handle(c) /\ Ep0Typed(c) /\ c.linecoding = d.linecoding
          /\ SameDevice(set, c) /\ NotStalled(c)
      BY <1>2, ClassDeInit, TypedClass DEF NotStalled
    <3> HIDE DEF c
    <3>4. c.dev_state = "CONFIGURED" /\ c.dev_config = n
      BY <1>2, <1>9, <3>3 DEF SameDevice
    <3> QED BY <1>7, <1>9, <3>2, <3>3, <3>4
  <2>4. CASE n # 0 /\ n = d.dev_config
    <3>1. e = USBD_CtlSendStatus(d)
      BY <1>9, <2>1, <2>4, Zenon DEF USBD_SetConfig
    <3>2. Cfg(d) = n
      BY <1>9, <2>4 DEF Cfg, StateOf
    <3> QED BY <1>1, <1>6, <1>9, <3>1, <3>2
  <2> QED BY <2>2, <2>3, <2>4
<1>10. CASE d.dev_state \notin {"ADDRESSED", "CONFIGURED"} \/ ~(n <= MaxConfig)
  <2>1. n > MaxConfig \/ n <= MaxConfig
    BY <1>1, PacketAssumption
  <2>2. CASE n > MaxConfig
    <3>1. ~(n <= MaxConfig)
      BY <1>1, <2>2, PacketAssumption
    <3> QED BY <1>5, <2>2, <3>1, Zenon DEF USBD_SetConfig
  <2>3. CASE n <= MaxConfig
    <3>1. ~(n > MaxConfig)
      BY <1>1, <2>3, PacketAssumption
    <3> QED BY <1>5, <1>10, <2>3, <3>1, Zenon DEF USBD_SetConfig
  <2> QED BY <2>1, <2>2, <2>3
<1> QED BY <1>8, <1>9, <1>10

\* The setup packet.
LEMMA SetupTalks ==
  ASSUME NEW d, NEW r \in HostRequests, Handle(d), Ep0Typed(d), ClassInv(d),
         d.dev_state # "SUSPENDED",
         r.rcpt = "endpoint" /\ r.type = "class" => d.pClassData # "NULL",
         NEW e, e = USBD_LL_SetupStage(d, r)
  PROVE  /\ Talks(d, e, r)
         /\ \/ Cfg(e) = Cfg(d) /\ (r.req = "SET_CONFIGURATION" =>
                                     e.ep0_state = "SETUP")
            \/ /\ r.req = "SET_CONFIGURATION"
               /\ Cfg(e) = Cfgidx(r) /\ Cfgidx(r) <= MaxConfig
               /\ e.ep0_state = "STATUS_IN" /\ NotStalled(e)
<1> DEFINE c == [d EXCEPT !.ep0_state = "SETUP", !.ep0_data_len = r.len,
                          !.in0 = NAK, !.out0 = "nak", !.is_stall = @ \ EP0,
                          !.reply = <<NoOp, 0>>]
<1>1. /\ Handle(c) /\ SameClass(d, c) /\ Ep0Typed(c) /\ c.ep0_state = "SETUP"
      /\ c.in0 = NAK /\ c.out0 = "nak" /\ c.ep0_data_len = r.len
      /\ NotStalled(c) /\ c.linecoding = d.linecoding
  BY DEF Handle, Fields, SameClass, Ep0Typed, Ep0States, NotStalled, EP0, NAK
<1>2. e = CASE r.rcpt = "device"    -> USBD_StdDevReq(c, r)
            [] r.rcpt = "interface" -> USBD_StdItfReq(c, r)
            [] r.rcpt = "endpoint"  -> USBD_StdEPReq(c, r)
            [] OTHER -> USBD_LL_StallEP(c, IF r.dir = "in" THEN "IN0" ELSE "OUT0")
  BY DEF USBD_LL_SetupStage
<1> HIDE DEF c
<1>3. Fresh(c, r) /\ c.dev_state = d.dev_state /\ Cfg(c) = Cfg(d)
      /\ ClassInv(c) /\ c.pClassData = d.pClassData
  BY <1>1, SameCfg, SameClassInv DEF Fresh, SameClass
<1>4. r.req = "SET_CONFIGURATION" => r.rcpt = "device"
  BY RequestAssumption DEF WellFormed
<1>5. ASSUME Talks(c, e, r) PROVE Talks(d, e, r)
  BY <1>1, <1>3, <1>5 DEF Talks
<1>6. ASSUME Outcome(c, e, r) PROVE Cfg(e) = Cfg(d)
  BY <1>3, <1>6, SameCfg DEF Outcome
<1>7. CASE r.rcpt = "device" /\ r.req = "SET_CONFIGURATION"
  <2>1. e = USBD_SetConfig(c, r)
    BY <1>2, <1>7 DEF USBD_StdDevReq
  <2> QED BY <1>1, <1>3, <1>5, <1>7, <2>1, ConfigTalks
<1>8. CASE r.rcpt = "device" /\ r.req = "SET_ADDRESS"
  <2>1. e = USBD_SetAddress(c, r)
    BY <1>2, <1>8 DEF USBD_StdDevReq
  <2> QED BY <1>1, <1>3, <1>5, <1>8, <2>1, AddressTalks
<1>9. CASE r.rcpt = "device" /\ r.req \notin {"SET_ADDRESS", "SET_CONFIGURATION"}
  <2>1. e = USBD_StdDevReq(c, r)
    BY <1>2, <1>9
  <2>2. Talks(c, e, r)
    BY <1>1, <1>3, <1>9, <2>1, DeviceTalks
  <2>3. Outcome(c, e, r)
    BY <1>3, <1>9, <2>1, GetDescriptor, GetConfig, GetStatus, SetFeature,
       ClrFeature, AnswerByError DEF USBD_StdDevReq
  <2> QED BY <1>5, <1>6, <1>9, <2>2, <2>3
<1>10. CASE r.rcpt = "interface"
  <2>1. e = USBD_StdItfReq(c, r)
    BY <1>2, <1>10
  <2>2. Talks(c, e, r)
    BY <1>1, <1>3, <2>1, InterfaceTalks
  <2>3. Outcome(c, e, r)
    BY <1>3, <1>10, <2>1, StdItfReq
  <2> QED BY <1>4, <1>5, <1>6, <1>10, <2>2, <2>3
<1>11. CASE r.rcpt = "endpoint"
  <2>1. e = USBD_StdEPReq(c, r)
    BY <1>2, <1>11
  <2>2. r.type = "class" => c.dev_state = "CONFIGURED"
    BY <1>3, <1>11 DEF ClassInv, StateOf, Unloaded
  <2>3. Talks(c, e, r)
    BY <1>1, <1>3, <2>1, <2>2, EndpointTalks
  <2>4. Outcome(c, e, r)
    BY <1>3, <1>11, <2>1, StdEPReq
  <2> QED BY <1>4, <1>5, <1>6, <1>11, <2>3, <2>4
<1>12. CASE r.rcpt \notin {"device", "interface", "endpoint"}
  <2> DEFINE ep == IF r.dir = "in" THEN "IN0" ELSE "OUT0"
  <2>1. e = USBD_LL_StallEP(c, ep)
    BY <1>2, <1>12
  <2>2. ep \in ClassEPs \cup EP0
    BY DEF EP0
  <2> HIDE DEF ep
  <2>3. /\ Ep0Typed(e) /\ e.ep0_state = "SETUP" /\ e.linecoding = c.linecoding
        /\ SameClass(c, e)
    BY <1>1, <2>1, <2>2, TypedStall, StallEP
  <2>4. Talks(c, e, r) /\ Cfg(e) = Cfg(d)
    BY <1>3, <2>3, SameTalks, SameCfg
  <2> QED BY <1>4, <1>5, <1>12, <2>4
<1> QED BY <1>7, <1>8, <1>9, <1>10, <1>11, <1>12

(* The stages of a transfer.                                               *)

\* Data in: nothing but endpoint 0's own state.
LEMMA DataInTalks ==
  ASSUME NEW d, Handle(d), Ep0Typed(d), NEW e, e = USBD_LL_DataInStage0(d)
  PROVE  /\ Ep0Typed(e) /\ e.linecoding = d.linecoding /\ e.reply = d.reply
         /\ e.ep0_state # "DATA_OUT" \/ e.ep0_state = d.ep0_state
         /\ d.ep0_state # "DATA_IN" => e = d
<1>1. CASE d.ep0_state # "DATA_IN"
  BY <1>1 DEF USBD_LL_DataInStage0
<1>2. CASE d.ep0_state = "DATA_IN" /\ d.rem_length > MaxPacket
  <2> DEFINE m == d.rem_length - MaxPacket
  <2>1. m \in Nat
    BY <1>2, PacketAssumption DEF Ep0Typed
  <2>2. e = USBD_LL_PrepareReceive(USBD_CtlContinueSendData(
              [d EXCEPT !.rem_length = m], m))
    BY <1>2 DEF USBD_LL_DataInStage0
  <2> HIDE DEF m
  <2> QED
    BY <1>2, <2>1, <2>2 DEF USBD_LL_PrepareReceive, USBD_CtlContinueSendData,
       USBD_LL_Transmit, Handle, Fields, Ep0Typed
<1>3. CASE /\ d.ep0_state = "DATA_IN"
           /\ e = USBD_LL_PrepareReceive(USBD_CtlContinueSendData(
                    [d EXCEPT !.ep0_data_len = 0], 0))
  BY <1>3 DEF USBD_LL_PrepareReceive, USBD_CtlContinueSendData,
     USBD_LL_Transmit, Handle, Fields, Ep0Typed
<1>4. CASE d.ep0_state = "DATA_IN" /\ e = USBD_CtlReceiveStatus(d)
  BY <1>4 DEF USBD_CtlReceiveStatus, USBD_LL_PrepareReceive, Handle, Fields,
     Ep0Typed, Ep0States
<1> QED BY <1>1, <1>2, <1>3, <1>4 DEF USBD_LL_DataInStage0

\* Data out: the class takes what has come when it was the last of it.
LEMMA DataOutTalks ==
  ASSUME NEW d, Handle(d), Ep0Typed(d), NEW e, e = USBD_LL_DataOutStage0(d)
  PROVE  /\ Ep0Typed(e)
         /\ d.ep0_state # "DATA_OUT" => e = d
         /\ d.ep0_state = "DATA_OUT" /\ d.rx_rem_length > MaxPacket =>
              /\ e.linecoding = d.linecoding /\ e.CmdOpCode = d.CmdOpCode
              /\ e.ep0_state = "DATA_OUT"
         /\ d.ep0_state = "DATA_OUT" /\ ~(d.rx_rem_length > MaxPacket) =>
              /\ e.ep0_state = "STATUS_IN"
              /\ e.linecoding = IF /\ d.CmdOpCode = "SET_LINE_CODING"
                                   /\ d.dev_state = "CONFIGURED"
                                THEN d.data ELSE d.linecoding
<1>1. CASE d.ep0_state # "DATA_OUT"
  BY <1>1 DEF USBD_LL_DataOutStage0
<1>2. CASE d.ep0_state = "DATA_OUT" /\ d.rx_rem_length > MaxPacket
  <2> DEFINE m == d.rx_rem_length - MaxPacket
  <2>1. m \in Nat
    BY <1>2, PacketAssumption DEF Ep0Typed
  <2>2. e = USBD_CtlContinueRx([d EXCEPT !.rx_rem_length = m])
    BY <1>2 DEF USBD_LL_DataOutStage0
  <2> HIDE DEF m
  <2> QED
    BY <1>2, <2>1, <2>2 DEF USBD_CtlContinueRx, USBD_LL_PrepareReceive, Handle,
       Fields, Ep0Typed
<1>3. CASE d.ep0_state = "DATA_OUT" /\ ~(d.rx_rem_length > MaxPacket)
  <2> DEFINE o == CDC_Control(d, d.CmdOpCode)
             c == IF d.dev_state = "CONFIGURED" THEN USBD_CDC_EP0_RxReady(d)
                  ELSE d
  <2>1. e = USBD_CtlSendStatus(c)
    BY <1>3 DEF USBD_LL_DataOutStage0
  <2>2. /\ Handle(o) /\ Ep0Typed(o)
        /\ o.linecoding = IF d.CmdOpCode = "SET_LINE_CODING" THEN d.data
                          ELSE d.linecoding
    BY ControlOfClass, TypedControl
  <2>3. c = IF d.dev_state = "CONFIGURED" /\ d.CmdOpCode # NoOp
            THEN [o EXCEPT !.CmdOpCode = NoOp] ELSE d
    BY DEF USBD_CDC_EP0_RxReady
  <2> HIDE DEF o, c
  <2>4. /\ Handle(c) /\ Ep0Typed(c)
        /\ c.linecoding = IF /\ d.CmdOpCode = "SET_LINE_CODING"
                             /\ d.dev_state = "CONFIGURED"
                          THEN d.data ELSE d.linecoding
    BY <2>2, <2>3 DEF Handle, Fields, Ep0Typed, NoOp
  <2> QED BY <1>3, <2>1, <2>4, TypedSendStatus
<1> QED BY <1>1, <1>2, <1>3

LEMMA ResetTalks ==
  ASSUME NEW d, Handle(d), Ep0Typed(d), NEW speed,
         NEW e, e = USBD_LL_Reset(d, speed) \/ e = USBD_LL_DevDisconnected(d)
  PROVE  Ep0Typed(e) /\ e.linecoding = d.linecoding
<1> DEFINE c == [d EXCEPT !.dev_speed = speed, !.dev_state = "DEFAULT",
                          !.is_stall = {}, !.in0 = NAK, !.out0 = "nak",
                          !.usb_address = 0]
           b == [d EXCEPT !.dev_state = "DEFAULT"]
<1>1. Handle(c) /\ Ep0Typed(c) /\ c.linecoding = d.linecoding
  BY DEF Handle, Fields, Ep0Typed, NAK
<1>2. Handle(b) /\ Ep0Typed(b) /\ b.linecoding = d.linecoding
  BY DEF Handle, Fields, Ep0Typed
<1>3. e = c \/ e = USBD_CDC_DeInit(c) \/ e = USBD_CDC_DeInit(b)
  BY DEF USBD_LL_Reset, USBD_LL_DevDisconnected
<1> HIDE DEF b, c
<1> QED BY <1>1, <1>2, <1>3, TypedClass

\* What a suspension, its end and the end of a transfer leave alone.
SameTalk(d, e) ==
  /\ e.ep0_state = d.ep0_state /\ e.is_stall = d.is_stall
  /\ e.reply = d.reply /\ e.CmdOpCode = d.CmdOpCode
  /\ e.linecoding = d.linecoding

LEMMA SuspendTalks ==
  ASSUME NEW d, Handle(d), Ep0Typed(d),
         NEW e, e = USBD_LL_Suspend(d) \/ e = USBD_LL_Resume(d)
  PROVE  Ep0Typed(e) /\ SameTalk(d, e) /\ e.dev_config = d.dev_config
<1>1. CASE e = USBD_LL_Suspend(d)
  BY <1>1 DEF USBD_LL_Suspend, Handle, Fields, Ep0Typed, SameTalk
<1>2. CASE e = USBD_LL_Resume(d)
  BY <1>2 DEF USBD_LL_Resume, Handle, Fields, Ep0Typed, SameTalk
<1> QED BY <1>1, <1>2

(***************************************************************************)
(* What host and device know of each other                                 *)
(***************************************************************************)
LEMMA TalkInit == Init => TalkInv
<1> SUFFICES ASSUME Init PROVE TalkInv
  OBVIOUS
<1>1. Ep0Typed(pdev)
  BY DEF Init, Ep0Typed, Ep0States, NAK
<1>2. /\ host.stage = "idle" /\ view.config = {0} /\ view.coding = {0}
      /\ DOMAIN view = {"config", "coding"}
      /\ pdev.dev_state = "DEFAULT" /\ pdev.linecoding = 0
  BY DEF Init, Idle
<1>3. Cfg(pdev) = 0
  BY <1>2 DEF Cfg, StateOf
<1> QED
  BY <1>1, <1>2, <1>3, CodingAssumption
     DEF TalkInv, ConfigKnown, CodingKnown, Writes, Replies, Done

LEMMA HostSetupTalk ==
  ASSUME IInv, TalkInv, HostSetup
  PROVE  TalkInv'
<1>1. PICK r \in HostRequests :
        /\ r.rcpt = "endpoint" /\ r.type = "class" => pdev.pClassData # "NULL"
        /\ pdev' = USBD_LL_SetupStage(pdev, r)
        /\ host' = [stage |-> FirstStage(r), req |-> r, got |-> 0]
  BY DEF HostSetup
<1>2. bus = "active" /\ host.stage = "idle" /\ view' = view
  BY DEF HostSetup
<1>3. host'.stage = FirstStage(r) /\ host'.req = r
  BY <1>1
<1>4. Cfg(pdev) \in view.config /\ pdev.linecoding \in view.coding
      /\ view.coding \subseteq Codings /\ Ep0Typed(pdev)
      /\ DOMAIN view = {"config", "coding"}
  BY <1>2 DEF TalkInv, ConfigKnown, CodingKnown, Done
<1>5. /\ Handle(pdev) /\ ClassInv(pdev) /\ pdev.dev_state # "SUSPENDED"
  BY <1>2 DEF IInv
<1> DEFINE d == pdev
           e == pdev'
           s == FirstStage(r)
<1>6. /\ Talks(d, e, r)
      /\ \/ Cfg(e) = Cfg(d) /\ (r.req = "SET_CONFIGURATION" =>
                                  e.ep0_state = "SETUP")
         \/ /\ r.req = "SET_CONFIGURATION"
            /\ Cfg(e) = Cfgidx(r) /\ Cfgidx(r) <= MaxConfig
            /\ e.ep0_state = "STATUS_IN" /\ NotStalled(e)
  BY <1>1, <1>4, <1>5, SetupTalks
<1>7. s \in {"statusIn", "dataIn", "dataOut"}
  BY DEF FirstStage
<1>8. r.req = "SET_LINE_CODING" => s # "statusIn"
  BY RequestAssumption DEF FirstStage, WellFormed
<1>9. r.req = "SET_CONFIGURATION" => s = "statusIn"
  BY RequestAssumption DEF FirstStage, WellFormed
<1>10. e.ep0_state = "DATA_OUT" => StateOf(e) = "CONFIGURED"
  <2>1. ASSUME e.ep0_state = "DATA_OUT" PROVE StateOf(e) = "CONFIGURED"
    <3>1. d.dev_state = "CONFIGURED" /\ s = "dataOut"
      BY <1>6, <2>1 DEF Talks
    <3>2. Cfg(e) = d.dev_config /\ d.dev_config # 0
      BY <1>5, <1>6, <1>9, <3>1 DEF Cfg, StateOf, ClassInv, Loaded
    <3> QED BY <3>2 DEF Cfg
  <2> QED BY <2>1
<1>11. ConfigKnown(e, s, r, view.config)
  BY <1>4, <1>6, <1>9 DEF ConfigKnown, Done
<1>12. CodingKnown(e, s, r, view.coding)
  BY <1>4, <1>6, <1>8 DEF CodingKnown, Done, Talks
<1>13. Writes(e, s, r)
  BY <1>6, <1>10 DEF Writes, Talks
<1>14. Replies(e, s, r, view)
  BY <1>4, <1>6 DEF Replies, Talks
<1>15. Ep0Typed(e)
  BY <1>6 DEF Talks
<1> HIDE DEF e, s
<1> QED
  BY <1>2, <1>3, <1>4, <1>11, <1>12, <1>13, <1>14, <1>15 DEF TalkInv, e, s

LEMMA HostIn0DataTalk ==
  ASSUME IInv, TalkInv, HostIn0Data
  PROVE  TalkInv'
<1> DEFINE d == [pdev EXCEPT !.in0 = NAK]
           e == pdev'
           r == host.req
           s == host'.stage
<1>1. /\ host.stage = "dataIn" /\ s \in {"dataIn", "statusOut"}
      /\ host'.req = r /\ view' = view /\ e = USBD_LL_DataInStage0(d)
      /\ "IN0" \notin pdev.is_stall /\ pdev.in0 # NAK
  BY DEF HostIn0Data, IInv, Transfer
<1>2. pdev.ep0_state = "DATA_IN" /\ Handle(pdev) /\ Ep0Typed(pdev)
  BY <1>1 DEF IInv, InStep, Stalled, Unheard, Reading, TalkInv
<1>3. /\ Handle(d) /\ Ep0Typed(d) /\ SameClass(pdev, d)
      /\ d.ep0_state = "DATA_IN" /\ d.linecoding = pdev.linecoding
      /\ d.reply = pdev.reply
  BY <1>2 DEF Handle, Fields, Ep0Typed, SameClass, NAK
<1> HIDE DEF d
<1>4. SameClass(d, e)
  BY <1>1, <1>3, DataInStage
<1>5. /\ Ep0Typed(e) /\ e.linecoding = pdev.linecoding /\ e.reply = pdev.reply
      /\ e.ep0_state # "DATA_OUT"
  BY <1>1, <1>3, DataInTalks
<1>6. Cfg(e) = Cfg(pdev)
  BY <1>3, <1>4, SameCfg
<1>7. Cfg(pdev) \in view.config /\ pdev.linecoding \in view.coding
  BY <1>1 DEF TalkInv, ConfigKnown, CodingKnown, Done
<1>8. ConfigKnown(e, s, r, view.config) /\ CodingKnown(e, s, r, view.coding)
  BY <1>1, <1>5, <1>6, <1>7 DEF ConfigKnown, CodingKnown, Done
<1>9. Writes(e, s, r)
  BY <1>1, <1>5 DEF Writes
<1>10. Replies(e, s, r, view)
  BY <1>1, <1>2, <1>5 DEF Replies, TalkInv
<1> QED
  BY <1>1, <1>5, <1>8, <1>9, <1>10 DEF TalkInv

LEMMA HostOut0DataTalk ==
  ASSUME IInv, TalkInv, HostOut0Data
  PROVE  TalkInv'
<1> DEFINE r == host.req
           g == MinOf(host.got + MaxPacket, r.len)
           v == IF g = r.len THEN r.value ELSE pdev.data
           d == [pdev EXCEPT !.out0 = "nak", !.data = v]
           e == pdev'
           s == host'.stage
           x == pdev.rx_rem_length
<1>1. /\ host.stage = "dataOut" /\ bus = "active" /\ host'.req = r
      /\ s = IF g = r.len THEN "statusIn" ELSE "dataOut"
      /\ "OUT0" \notin pdev.is_stall /\ pdev.out0 = "armed" /\ view' = view
      /\ e = USBD_LL_DataOutStage0(d)
  BY DEF HostOut0Data, IInv, Transfer
<1>2. /\ Writing(pdev, r, host.got) /\ r \in HostRequests /\ host.got \in Nat
      /\ Handle(pdev) /\ pdev.dev_state # "SUSPENDED"
  BY <1>1 DEF IInv, InStep, Stalled, Unheard, Transfer
<1>3. Ep0Typed(pdev) /\ StateOf(pdev) = "CONFIGURED" /\ pdev.CmdOpCode = r.req
  BY <1>1, <1>2 DEF TalkInv, Writes, Writing
<1>4. /\ Handle(d) /\ Ep0Typed(d) /\ SameClass(pdev, d)
      /\ d.ep0_state = "DATA_OUT" /\ d.linecoding = pdev.linecoding
      /\ d.CmdOpCode = r.req /\ d.data = v /\ d.rx_rem_length = x
      /\ d.dev_state = "CONFIGURED"
  BY <1>2, <1>3 DEF Handle, Fields, Ep0Typed, SameClass, Writing, StateOf
<1>5. g = IF host.got + MaxPacket < r.len THEN host.got + MaxPacket ELSE r.len
  BY DEF MinOf
<1>6. v = IF g = r.len THEN r.value ELSE pdev.data
  OBVIOUS
<1>7. /\ r.len \in Nat /\ host.got < r.len /\ x = r.len - host.got
      /\ MaxPacket \in Nat \ {0}
      /\ r.req = "SET_CONFIGURATION" => r.len = 0
  BY <1>2, PacketAssumption, RequestAssumption DEF Writing, WellFormed
<1>8. r.req # "SET_CONFIGURATION"
  BY <1>2, <1>7
<1> HIDE DEF g, v, d
<1>9. SameClass(d, e)
  BY <1>1, <1>4, DataOutStage
<1>10. Cfg(e) = Cfg(pdev) /\ StateOf(e) = StateOf(pdev)
  BY <1>4, <1>9, SameCfg
<1>11. Cfg(pdev) \in view.config /\ pdev.linecoding \in view.coding
  BY <1>1 DEF TalkInv, ConfigKnown, CodingKnown, Done
<1>12. ConfigKnown(e, s, r, view.config)
  BY <1>8, <1>10, <1>11 DEF ConfigKnown
<1>13. CASE x > MaxPacket
  <2>1. s = "dataOut"
    BY <1>1, <1>2, <1>5, <1>7, <1>13
  <2>2. /\ Ep0Typed(e) /\ e.ep0_state = "DATA_OUT"
        /\ e.linecoding = pdev.linecoding /\ e.CmdOpCode = r.req
    BY <1>1, <1>4, <1>13, DataOutTalks
  <2>3. CodingKnown(e, s, r, view.coding)
    BY <1>11, <2>1, <2>2 DEF CodingKnown, Done
  <2>4. Writes(e, s, r) /\ Replies(e, s, r, view)
    BY <1>3, <1>10, <2>1, <2>2 DEF Writes, Replies
  <2> QED BY <1>1, <1>12, <2>2, <2>3, <2>4 DEF TalkInv
<1>14. CASE ~(x > MaxPacket)
  <2>1. s = "statusIn" /\ g = r.len
    BY <1>1, <1>2, <1>5, <1>7, <1>14
  <2>2. /\ Ep0Typed(e) /\ e.ep0_state = "STATUS_IN"
        /\ e.linecoding = IF r.req = "SET_LINE_CODING" THEN r.value
                          ELSE pdev.linecoding
    BY <1>1, <1>4, <1>6, <1>14, <2>1, DataOutTalks
  <2>3. e.is_stall = pdev.is_stall /\ NotStalled(pdev)
    <3>1. d.is_stall = pdev.is_stall
      BY <1>2 DEF Handle, Fields, d
    <3>2. e.is_stall = d.is_stall
      BY <1>1, <1>4, DataOutStage
    <3> QED BY <1>2, <3>1, <3>2 DEF Writing
  <2>4. CodingKnown(e, s, r, view.coding)
    BY <1>11, <2>1, <2>2, <2>3 DEF CodingKnown, Done, NotStalled
  <2>5. Writes(e, s, r) /\ Replies(e, s, r, view)
    BY <2>1, <2>2 DEF Writes, Replies
  <2> QED BY <1>1, <1>12, <2>2, <2>4, <2>5 DEF TalkInv
<1> QED BY <1>13, <1>14

\* Back to idle, the host knows what the device has.
LEMMA IdleTalk ==
  ASSUME host' = Idle, Ep0Typed(pdev'),
         DOMAIN view' = {"config", "coding"}, view'.coding \subseteq Codings,
         Cfg(pdev') \in view'.config, pdev'.linecoding \in view'.coding
  PROVE  TalkInv'
<1>1. host'.stage = "idle"
  BY DEF Idle
<1> QED
  BY <1>1 DEF TalkInv, ConfigKnown, CodingKnown, Writes, Replies, Done

\* What the host gave up may have been done.
LEMMA Perhaps ==
  ASSUME IInv, TalkInv, NEW v, v = PerhapsApplied(view, host.req)
  PROVE  /\ v.coding \subseteq Codings /\ pdev.linecoding \in v.coding
         /\ Cfg(pdev) \in v.config /\ DOMAIN v = {"config", "coding"}
<1> DEFINE r == host.req
<1>1. /\ r.req = "SET_LINE_CODING" => r.value \in Codings
      /\ host.stage = "idle" \/ r \in HostRequests
  BY RequestAssumption DEF IInv, Transfer, NoReq, NoOp, WellFormed
<1>2. /\ view.coding \subseteq Codings
      /\ ConfigKnown(pdev, host.stage, r, view.config)
      /\ CodingKnown(pdev, host.stage, r, view.coding)
      /\ DOMAIN view = {"config", "coding"}
  BY DEF TalkInv
<1> QED
  BY <1>1, <1>2 DEF PerhapsApplied, ConfigKnown, CodingKnown, Done

LEMMA HostEndsTalk ==
  ASSUME IInv, TalkInv,
         HostStatusIn \/ HostStatusOut \/ HostEarlyStatus \/ HostSeesStall
           \/ HostAbort
  PROVE  TalkInv'
<1> DEFINE r == host.req
<1>1. /\ Handle(pdev) /\ Ep0Typed(pdev) /\ view.coding \subseteq Codings
      /\ DOMAIN view = {"config", "coding"}
      /\ ConfigKnown(pdev, host.stage, r, view.config)
      /\ CodingKnown(pdev, host.stage, r, view.coding)
  BY DEF IInv, TalkInv
<1>2. CASE HostStatusIn
  <2> DEFINE d == [pdev EXCEPT !.in0 = NAK]
  <2>1. /\ pdev' = USBD_LL_DataInStage0(d) /\ host' = Idle
        /\ view' = Applied(view, r) /\ host.stage = "statusIn"
        /\ "IN0" \notin pdev.is_stall /\ pdev.in0 # NAK
    BY <1>2 DEF HostStatusIn
  <2>2. Done(pdev, host.stage) /\ r \in HostRequests
    BY <2>1 DEF IInv, InStep, Stalled, Unheard, Done
  <2>3. /\ Handle(d) /\ Ep0Typed(d) /\ SameClass(pdev, d)
        /\ d.ep0_state = "STATUS_IN" /\ d.linecoding = pdev.linecoding
    BY <1>1, <2>2 DEF Handle, Fields, Ep0Typed, SameClass, NAK, Done
  <2> HIDE DEF d
  <2>4. pdev' = d
    BY <2>1, <2>3, DataInTalks
  <2>5. Cfg(pdev') = Cfg(pdev)
    BY <2>3, <2>4, SameCfg
  <2>6. r.req = "SET_LINE_CODING" => r.value \in Codings
    BY <2>2, RequestAssumption DEF WellFormed
  <2>7. /\ view'.coding \subseteq Codings /\ Cfg(pdev) \in view'.config
        /\ pdev.linecoding \in view'.coding
        /\ DOMAIN view' = {"config", "coding"}
    BY <1>1, <2>1, <2>2, <2>6 DEF Applied, ConfigKnown, CodingKnown
  <2> QED BY <2>1, <2>3, <2>4, <2>5, <2>7, IdleTalk
<1>3. CASE HostStatusOut \/ HostEarlyStatus
  <2> DEFINE d == [pdev EXCEPT !.out0 = "nak"]
  <2>1. /\ pdev' = USBD_LL_DataOutStage0(d) /\ host' = Idle /\ view' = view
        /\ host.stage \in {"dataIn", "statusOut"}
    BY <1>3 DEF HostStatusOut, HostEarlyStatus
  <2>2. pdev.ep0_state # "DATA_OUT"
    BY <2>1 DEF TalkInv, Writes
  <2>3. /\ Handle(d) /\ Ep0Typed(d) /\ SameClass(pdev, d)
        /\ d.ep0_state # "DATA_OUT" /\ d.linecoding = pdev.linecoding
    BY <1>1, <2>2 DEF Handle, Fields, Ep0Typed, SameClass
  <2> HIDE DEF d
  <2>4. pdev' = d
    BY <2>1, <2>3, DataOutTalks
  <2>5. Cfg(pdev') = Cfg(pdev)
    BY <2>3, <2>4, SameCfg
  <2>6. Cfg(pdev) \in view.config /\ pdev.linecoding \in view.coding
    BY <1>1, <2>1 DEF ConfigKnown, CodingKnown, Done
  <2> QED BY <1>1, <2>1, <2>3, <2>4, <2>5, <2>6, IdleTalk
<1>4. CASE HostSeesStall
  <2>1. pdev' = pdev /\ host' = Idle /\ view' = view
        /\ ~Done(pdev, host.stage)
    BY <1>4 DEF HostSeesStall, Done, NotStalled
  <2>2. Cfg(pdev') \in view.config /\ pdev.linecoding \in view.coding
    BY <1>1, <2>1 DEF ConfigKnown, CodingKnown
  <2> QED BY <1>1, <2>1, <2>2, IdleTalk
<1>5. CASE HostAbort
  <2>1. pdev' = pdev /\ host' = Idle /\ view' = PerhapsApplied(view, r)
    BY <1>5 DEF HostAbort
  <2>2. /\ view'.coding \subseteq Codings /\ pdev.linecoding \in view'.coding
        /\ Cfg(pdev) \in view'.config /\ DOMAIN view' = {"config", "coding"}
    BY <2>1, Perhaps
  <2>3. Cfg(pdev') = Cfg(pdev)
    BY <2>1
  <2> QED BY <1>1, <2>1, <2>2, <2>3, IdleTalk
<1> QED BY <1>2, <1>3, <1>4, <1>5

LEMMA BusTalk ==
  ASSUME IInv, TalkInv, BusNext
  PROVE  TalkInv'
<1>1. Handle(pdev) /\ Ep0Typed(pdev) /\ ClassInv(pdev)
  BY DEF IInv, TalkInv
<1> DEFINE v == PerhapsApplied(view, host.req)
<1>2. /\ v.coding \subseteq Codings /\ pdev.linecoding \in v.coding
      /\ DOMAIN v = {"config", "coding"}
  BY Perhaps
<1>3. ASSUME view' = [v EXCEPT !.config = {0}], host' = Idle,
             pdev'.dev_state = "DEFAULT", Ep0Typed(pdev'),
             pdev'.linecoding = pdev.linecoding
      PROVE  TalkInv'
  <2> HIDE DEF v
  <2>1. /\ view'.config = {0} /\ view'.coding = v.coding
        /\ DOMAIN view' = {"config", "coding"}
    BY <1>2, <1>3
  <2>2. Cfg(pdev') = 0
    BY <1>3 DEF Cfg, StateOf
  <2> QED BY <1>2, <1>3, <2>1, <2>2, IdleTalk
<1>4. CASE BusReset
  <2>1. PICK speed \in Speeds : pdev' = USBD_LL_Reset(pdev, speed)
    BY <1>4 DEF BusReset
  <2>2. pdev'.dev_state = "DEFAULT"
    BY <1>1, <2>1, Reset
  <2>3. Ep0Typed(pdev') /\ pdev'.linecoding = pdev.linecoding
    BY <1>1, <2>1, ResetTalks
  <2> QED BY <1>3, <1>4, <2>2, <2>3 DEF BusReset
<1>5. CASE BusDisconnect
  <2>1. pdev' = USBD_LL_DevDisconnected(pdev)
    BY <1>5 DEF BusDisconnect
  <2>2. pdev'.dev_state = "DEFAULT"
    BY <1>1, <2>1, Disconnected
  <2>3. Ep0Typed(pdev') /\ pdev'.linecoding = pdev.linecoding
    BY <1>1, <2>1, ResetTalks
  <2> QED BY <1>3, <1>5, <2>2, <2>3 DEF BusDisconnect
<1>6. CASE BusSuspend \/ BusResume
  <2>1. /\ pdev' = USBD_LL_Suspend(pdev) \/ pdev' = USBD_LL_Resume(pdev)
        /\ host' = host /\ view' = view
    BY <1>6 DEF BusSuspend, BusResume
  <2>2. StateOf(pdev') = StateOf(pdev)
    BY <1>1, <1>6, Suspended, Resumed DEF BusSuspend, BusResume, IInv
  <2>3. /\ Ep0Typed(pdev') /\ SameTalk(pdev, pdev')
        /\ pdev'.dev_config = pdev.dev_config
    BY <1>1, <2>1, SuspendTalks
  <2>4. Cfg(pdev') = Cfg(pdev)
    BY <2>2, <2>3 DEF Cfg
  <2>5. Done(pdev', host.stage) <=> Done(pdev, host.stage)
    BY <2>3 DEF Done, NotStalled, SameTalk
  <2>6. /\ ConfigKnown(pdev', host.stage, host.req, view.config)
        /\ CodingKnown(pdev', host.stage, host.req, view.coding)
    BY <2>3, <2>4, <2>5 DEF TalkInv, ConfigKnown, CodingKnown, SameTalk
  <2>7. /\ Writes(pdev', host.stage, host.req)
        /\ Replies(pdev', host.stage, host.req, view)
    BY <2>2, <2>3 DEF TalkInv, Writes, Replies, SameTalk
  <2> QED BY <2>1, <2>3, <2>6, <2>7 DEF TalkInv
<1> QED BY <1>4, <1>5, <1>6 DEF BusNext

LEMMA NextTalk == IInv /\ TalkInv /\ [Next]_vars => TalkInv'
<1> SUFFICES ASSUME IInv, TalkInv, [Next]_vars PROVE TalkInv'
  OBVIOUS
<1>1. CASE UNCHANGED vars
  BY <1>1 DEF TalkInv, vars
<1>2. CASE ControlNext
  BY <1>2, HostSetupTalk, HostIn0DataTalk, HostOut0DataTalk, HostEndsTalk
     DEF ControlNext
<1> QED BY <1>1, <1>2, BusTalk DEF Next

LEMMA AlwaysTalkInv == Spec => []TalkInv
  BY InitInv, NextInv, TalkInit, NextTalk, PTL DEF Spec

\* What the host reads back, a configuration or a line coding, is what it has
\* set, or what it set and cannot know the end of: through resets,
\* re-enumeration, suspension and writes given up half way
\* (usbd_ctlreq.c:568; usbd_cdc.c:501).
THEOREM ReadsBackWhatWasSet == Spec => []HostReadsBack
<1>1. IInv /\ TalkInv => HostReadsBack
  BY DEF IInv, InStep, Stalled, Unheard, TalkInv, Replies, HostReadsBack
<1> QED BY <1>1, AlwaysIInv, AlwaysTalkInv, PTL

\* Types of the device handle, the host and what it believes.
THEOREM DeviceTyped == Spec => []TypeOK
<1>1. IInv /\ TalkInv => TypeOK
  <2> SUFFICES ASSUME IInv, TalkInv PROVE TypeOK
    OBVIOUS
  <2>1. /\ pdev.dev_state \in States \cup {"SUSPENDED"}
        /\ pdev.dev_old_state \in States /\ pdev.dev_config \in 0..MaxConfig
        /\ pdev.pClassData \in {"NULL", "usbd_cdc"}
        /\ pdev.opened \subseteq ClassEPs
    BY DEF IInv, ClassInv, Loaded, Unloaded
  <2>2. Ep0Typed(pdev) /\ view.coding \subseteq Codings
    BY DEF TalkInv
  <2>3. /\ host.stage \in Stages /\ host.got \in Nat
        /\ bus \in {"unplugged", "active", "suspended"}
    BY DEF IInv, Transfer
  <2> QED
    BY <2>1, <2>2, <2>3 DEF TypeOK, States, Ep0Typed, Ep0States, Stages
<1> QED BY <1>1, AlwaysIInv, AlwaysTalkInv, PTL
=============================================================================
