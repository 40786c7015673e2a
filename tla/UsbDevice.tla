----------------------------- MODULE UsbDevice -----------------------------
(***************************************************************************)
(* The USB device library the telescope talks to its host with: the core   *)
(* (usbd_core.c), the requests of the control endpoint (usbd_ctlreq.c,     *)
(* usbd_ioreq.c), the life cycle of the CDC class (usbd_cdc.c) and the     *)
(* low-level driver below it (usbd_conf.c).  The bulk data of the class is *)
(* in module UsbSerial, which extends this one.                            *)
(*                                                                         *)
(* "pdev" is the device handle, the class handle usbd_cdc and the state of *)
(* the controller they program; a function of the library is an operator   *)
(* from one value of it to the next, under the function's name.  All of    *)
(* them run in the interrupt handler, so what the host does on the bus and *)
(* the callback it causes are one step.                                    *)
(*                                                                         *)
(* The host is a control-transfer master: it sends a request, moves its    *)
(* data and its status stage packet by packet, and may give up, reset,     *)
(* suspend or unplug the device at any moment.  It is external, as is the  *)
(* controller: both are modelled from what the library expects of them.    *)
(*                                                                         *)
(* Lengths are counted in a unit of which MaxPacket make a packet of       *)
(* endpoint 0 (64 bytes in the code).  What a descriptor says is not       *)
(* modelled, only how long it is.                                          *)
(***************************************************************************)
EXTENDS Integers, FiniteSets

CONSTANTS
  HostRequests,   \* the setup packets the host may send
  MaxPacket,      \* USB_MAX_EP0_SIZE, the packet size of endpoint 0
  DescLen,        \* length of each descriptor, by kind
  MaxConfig,      \* USBD_MAX_NUM_CONFIGURATION
  Speeds,         \* speeds the controller may report after a reset
  Codings         \* values of the line coding

ASSUME PacketAssumption == MaxPacket \in Nat \ {0} /\ MaxConfig \in Nat \ {0}
ASSUME CodingAssumption == Codings \subseteq Int /\ 0 \in Codings
ASSUME DescriptorAssumption == \A k \in DOMAIN DescLen : DescLen[k] \in Nat \ {0}

VARIABLES
  pdev,   \* device handle, class handle and controller
  bus,    \* what the host does with the port
  host,   \* the control transfer the host is in
  view    \* what the host may believe it has set (not program state)

vars == <<pdev, bus, host, view>>

ClassEPs == {"IN1", "OUT1", "CMD"}     \* CDC_IN_EP, CDC_OUT_EP, CDC_CMD_EP
EP0 == {"IN0", "OUT0"}
NAK == -1                              \* nothing to send on an IN endpoint
NoOp == "NONE"                         \* CmdOpCode 0xFF

NoReq == [rcpt |-> "device", type |-> "std", dir |-> "out", req |-> NoOp,
          value |-> 0, index |-> 0, ep |-> "OUT0", len |-> 0]

\* wValue of a feature request, and of GET_DESCRIPTOR (its high byte).
EP_HALT == 0
REMOTE_WAKEUP == 1
DEVICE_QUALIFIER == 6
OTHER_SPEED_CONFIGURATION == 7

MinOf(a, b) == IF a < b THEN a ELSE b

\* Requests as USB defines them: a read moves its data to the host, which has
\* room for a status; a feature or a configuration comes without data, and
\* the line coding is written to the class.
WellFormed(r) ==
  /\ r.rcpt \in {"device", "interface", "endpoint", "other"}
  /\ r.len \in Nat /\ r.value \in Nat /\ r.ep \in ClassEPs \cup EP0
  /\ r.type \in {"std", "class"} /\ r.dir \in {"in", "out"}
  /\ r.req \in {"GET_DESCRIPTOR", "GET_CONFIGURATION", "GET_STATUS",
                "GET_INTERFACE"} /\ r.len > 0 => r.dir = "in"
  /\ r.req = "GET_STATUS" => r.len >= 2
  /\ r.req \in {"SET_CONFIGURATION", "SET_FEATURE", "CLEAR_FEATURE"} =>
       r.len = 0
  /\ r.req \in {"GET_CONFIGURATION", "SET_CONFIGURATION"} =>
       r.type = "std" /\ r.rcpt = "device"
  /\ r.req = "SET_LINE_CODING" =>
       r.type = "class" /\ r.dir = "out" /\ r.len > 0 /\ r.value \in Codings

ASSUME RequestAssumption == \A r \in HostRequests : WellFormed(r)

-----------------------------------------------------------------------------
(* Low-level driver: what each call leaves in the controller.              *)

USBD_LL_OpenEP(d, eps) ==
  [d EXCEPT !.opened = @ \cup eps, !.is_stall = @ \ eps]

\* A closed endpoint forgets the transfer it was programmed with.
USBD_LL_CloseEP(d, eps) ==
  [d EXCEPT !.opened = @ \ eps,
            !.in1 = IF "IN1" \in eps THEN "idle" ELSE @,
            !.out1 = IF "OUT1" \in eps THEN "idle" ELSE @]

USBD_LL_StallEP(d, ep) == [d EXCEPT !.is_stall = @ \cup {ep}]

USBD_LL_ClearStallEP(d, ep) == [d EXCEPT !.is_stall = @ \ {ep}]

USBD_LL_IsStallEP(d, ep) == IF ep \in d.is_stall THEN 1 ELSE 0

USBD_LL_SetUSBAddress(d, a) == [d EXCEPT !.usb_address = a]

\* Endpoint 0 sends one packet for each call, whatever the length asked.
USBD_LL_Transmit(d, len) == [d EXCEPT !.in0 = len]

USBD_LL_PrepareReceive(d) == [d EXCEPT !.out0 = "armed"]

-----------------------------------------------------------------------------
(* Stages of a control transfer (usbd_ioreq.c).                            *)

USBD_CtlSendData(d, what, len) ==
  USBD_LL_Transmit([d EXCEPT !.ep0_state = "DATA_IN", !.total_length = len,
                             !.rem_length = len, !.reply = what], len)

USBD_CtlContinueSendData(d, len) == USBD_LL_Transmit(d, len)

USBD_CtlPrepareRx(d, len) ==
  USBD_LL_PrepareReceive([d EXCEPT !.ep0_state = "DATA_OUT",
                                   !.rx_rem_length = len])

USBD_CtlContinueRx(d) == USBD_LL_PrepareReceive(d)

USBD_CtlSendStatus(d) ==
  USBD_LL_Transmit([d EXCEPT !.ep0_state = "STATUS_IN"], 0)

USBD_CtlReceiveStatus(d) ==
  USBD_LL_PrepareReceive([d EXCEPT !.ep0_state = "STATUS_OUT"])

USBD_CtlError(d) == USBD_LL_StallEP(USBD_LL_StallEP(d, "IN0"), "OUT0")

-----------------------------------------------------------------------------
(* The CDC class: what the control endpoint and the bus do to it.          *)

\* USBSerial::CDC_Init arms the endpoint and sets RxState, and the "Init
\* Xfer states" after it clears it again and arms the endpoint once more.
USBD_CDC_Init(d) ==
  [USBD_LL_OpenEP(d, ClassEPs)
     EXCEPT !.pClassData = "usbd_cdc", !.TxState = 0, !.RxState = 0,
            !.out1 = "armed"]

USBD_CDC_DeInit(d) ==
  [USBD_LL_CloseEP(d, ClassEPs) EXCEPT !.pClassData = "NULL"]

\* USBSerial::CDC_Control: only the line coding is kept.
CDC_Control(d, op) ==
  CASE op = "SET_LINE_CODING" -> [d EXCEPT !.linecoding = d.data]
    [] op = "GET_LINE_CODING" -> [d EXCEPT !.data = d.linecoding]
    [] OTHER -> d

USBD_CDC_Setup(d, r) ==
  CASE r.type = "class" /\ r.len > 0 /\ r.dir = "in" ->
         LET c == CDC_Control(d, r.req)
         IN  USBD_CtlSendData(c, <<r.req, c.data>>, r.len)
    [] r.type = "class" /\ r.len > 0 /\ r.dir = "out" ->
         USBD_CtlPrepareRx([d EXCEPT !.CmdOpCode = r.req], r.len)
    [] r.type = "class" /\ r.len = 0 -> CDC_Control(d, r.req)
    [] r.type = "std" /\ r.req = "GET_INTERFACE" ->
         USBD_CtlSendData(d, <<r.req, 0>>, 1)
    [] OTHER -> d

USBD_CDC_EP0_RxReady(d) ==
  IF d.CmdOpCode # NoOp
  THEN [CDC_Control(d, d.CmdOpCode) EXCEPT !.CmdOpCode = NoOp]
  ELSE d

USBD_SetClassConfig(d) == USBD_CDC_Init(d)

USBD_ClrClassConfig(d) == USBD_CDC_DeInit(d)

-----------------------------------------------------------------------------
(* Requests to the device.                                                 *)

\* The descriptors of a high-speed device exist only at that speed.
USBD_GetDescriptor(d, r) ==
  LET highOnly == {DEVICE_QUALIFIER, OTHER_SPEED_CONFIGURATION}
      known == /\ r.value \in DOMAIN DescLen
               /\ r.value \in highOnly => d.dev_speed = "HIGH"
  IN  IF ~known THEN USBD_CtlError(d)
      ELSE IF DescLen[r.value] # 0 /\ r.len # 0
      THEN USBD_CtlSendData(d, <<r.req, 0>>, MinOf(DescLen[r.value], r.len))
      ELSE d

\* (uint8_t)wValue & 0x7F
DevAddr(r) == r.value % 128

USBD_SetAddress(d, r) ==
  IF r.index # 0 \/ r.len # 0 \/ d.dev_state = "CONFIGURED"
  THEN USBD_CtlError(d)
  ELSE USBD_CtlSendStatus(
         [USBD_LL_SetUSBAddress(d, DevAddr(r))
            EXCEPT !.dev_address = DevAddr(r),
                   !.dev_state = IF DevAddr(r) # 0 THEN "ADDRESSED"
                                 ELSE "DEFAULT"])

\* (uint8_t)wValue
Cfgidx(r) == r.value % 256

\* Fault: the number of the configuration is not checked.
SetConfigUnchecked(d, r) ==
  IF d.dev_state = "ADDRESSED" /\ Cfgidx(r) # 0
  THEN USBD_CtlSendStatus(USBD_SetClassConfig(
         [d EXCEPT !.dev_config = Cfgidx(r), !.dev_state = "CONFIGURED"]))
  ELSE USBD_CtlSendStatus(d)

USBD_SetConfig(d, r) ==
  LET c == Cfgidx(r)
      set == [d EXCEPT !.dev_config = c]
  IN  CASE c > MaxConfig -> USBD_CtlError(d)
        [] c <= MaxConfig /\ d.dev_state = "ADDRESSED" ->
             IF c # 0
             THEN USBD_CtlSendStatus(USBD_SetClassConfig(
                    [set EXCEPT !.dev_state = "CONFIGURED"]))
             ELSE USBD_CtlSendStatus(d)
        [] c <= MaxConfig /\ d.dev_state = "CONFIGURED" ->
             IF c = 0
             THEN USBD_CtlSendStatus(USBD_ClrClassConfig(
                    [set EXCEPT !.dev_state = "ADDRESSED"]))
             ELSE IF c # d.dev_config
             THEN USBD_CtlSendStatus(USBD_SetClassConfig(
                    USBD_ClrClassConfig(set)))
             ELSE USBD_CtlSendStatus(d)
        [] OTHER -> USBD_CtlError(d)

\* Fault: the configuration of before a reset is reported.
GetStaleConfig(d, r) ==
  IF r.len # 1 \/ d.dev_state \notin {"ADDRESSED", "CONFIGURED"}
  THEN USBD_CtlError(d)
  ELSE USBD_CtlSendData(d, <<r.req, d.dev_config>>, 1)

USBD_GetConfig(d, r) ==
  IF r.len # 1 \/ d.dev_state \notin {"ADDRESSED", "CONFIGURED"}
  THEN USBD_CtlError(d)
  ELSE USBD_CtlSendData(d, <<r.req, IF d.dev_state = "ADDRESSED" THEN 0
                                    ELSE d.dev_config>>, 1)

\* USBD_SELF_POWERED is 1, and remote wake-up is bit 1 of the answer.
USBD_GetStatus(d, r) ==
  IF d.dev_state \in {"ADDRESSED", "CONFIGURED"}
  THEN USBD_CtlSendData(d, <<r.req, 1 + 2 * d.dev_remote_wakeup>>, 2)
  ELSE USBD_CtlError(d)

USBD_SetFeature(d, r) ==
  IF r.value = REMOTE_WAKEUP
  THEN USBD_CtlSendStatus(
         USBD_CDC_Setup([d EXCEPT !.dev_remote_wakeup = 1], r))
  ELSE d

USBD_ClrFeature(d, r) ==
  CASE d.dev_state \notin {"ADDRESSED", "CONFIGURED"} -> USBD_CtlError(d)
    [] d.dev_state \in {"ADDRESSED", "CONFIGURED"} ->
         IF r.value = REMOTE_WAKEUP
         THEN USBD_CtlSendStatus(
                USBD_CDC_Setup([d EXCEPT !.dev_remote_wakeup = 0], r))
         ELSE d

USBD_StdDevReq(d, r) ==
  CASE r.req = "GET_DESCRIPTOR"    -> USBD_GetDescriptor(d, r)
    [] r.req = "SET_ADDRESS"       -> USBD_SetAddress(d, r)
    [] r.req = "SET_CONFIGURATION" -> USBD_SetConfig(d, r)
    [] r.req = "GET_CONFIGURATION" -> USBD_GetConfig(d, r)
    [] r.req = "GET_STATUS"        -> USBD_GetStatus(d, r)
    [] r.req = "SET_FEATURE"       -> USBD_SetFeature(d, r)
    [] r.req = "CLEAR_FEATURE"     -> USBD_ClrFeature(d, r)
    [] OTHER                       -> USBD_CtlError(d)

(* Requests to an interface and to an endpoint.                            *)

USBD_StdItfReq(d, r) ==
  IF d.dev_state = "CONFIGURED" /\ r.index <= 1   \* USBD_MAX_NUM_INTERFACES
  THEN IF r.len = 0 THEN USBD_CtlSendStatus(USBD_CDC_Setup(d, r))
       ELSE USBD_CDC_Setup(d, r)
  ELSE USBD_CtlError(d)

\* In the addressed state each of the three requests stalls the endpoint it
\* names, CLEAR_FEATURE too, and leaves endpoint 0 without an answer.
EPReqConfigured(d, r) ==
  CASE r.req = "SET_FEATURE" ->
         USBD_CtlSendStatus(USBD_CDC_Setup(
           IF r.value = EP_HALT /\ r.ep \notin EP0
           THEN USBD_LL_StallEP(d, r.ep) ELSE d, r))
    [] r.req = "CLEAR_FEATURE" /\ r.value = EP_HALT ->
         USBD_CtlSendStatus(
           IF r.ep \notin EP0
           THEN USBD_CDC_Setup(USBD_LL_ClearStallEP(d, r.ep), r) ELSE d)
    [] r.req = "GET_STATUS" ->
         USBD_CtlSendData(d, <<r.req, USBD_LL_IsStallEP(d, r.ep)>>, 2)
    [] OTHER -> d

USBD_StdEPReq(d, r) ==
  CASE r.type = "class" -> USBD_CDC_Setup(d, r)
    [] r.type # "class" /\ r.req \in
         {"SET_FEATURE", "CLEAR_FEATURE", "GET_STATUS"} ->
         CASE d.dev_state = "ADDRESSED" ->
                IF r.ep \notin EP0 THEN USBD_LL_StallEP(d, r.ep) ELSE d
           [] d.dev_state = "CONFIGURED" -> EPReqConfigured(d, r)
           [] OTHER -> USBD_CtlError(d)
    [] OTHER -> d

-----------------------------------------------------------------------------
(* Callbacks of the controller (usbd_core.c, usbd_conf.c).                 *)

\* The controller drops what endpoint 0 was programmed with and clears its
\* stall when a setup packet arrives.
USBD_LL_SetupStage(d0, r) ==
  LET d == [d0 EXCEPT !.ep0_state = "SETUP", !.ep0_data_len = r.len,
                      !.in0 = NAK, !.out0 = "nak", !.is_stall = @ \ EP0,
                      !.reply = <<NoOp, 0>>]
  IN  CASE r.rcpt = "device"    -> USBD_StdDevReq(d, r)
        [] r.rcpt = "interface" -> USBD_StdItfReq(d, r)
        [] r.rcpt = "endpoint"  -> USBD_StdEPReq(d, r)
        [] OTHER -> USBD_LL_StallEP(d, IF r.dir = "in" THEN "IN0" ELSE "OUT0")

USBD_LL_DataOutStage0(d) ==
  IF d.ep0_state # "DATA_OUT" THEN d
  ELSE IF d.rx_rem_length > MaxPacket
  THEN USBD_CtlContinueRx([d EXCEPT !.rx_rem_length = @ - MaxPacket])
  ELSE USBD_CtlSendStatus(IF d.dev_state = "CONFIGURED"
                          THEN USBD_CDC_EP0_RxReady(d) ELSE d)

\* Fault: no empty packet after a last packet that is full.
DataInWithoutZLP(d) ==
  IF d.ep0_state # "DATA_IN" THEN d
  ELSE IF d.rem_length > MaxPacket
  THEN USBD_LL_PrepareReceive(USBD_CtlContinueSendData(
         [d EXCEPT !.rem_length = @ - MaxPacket], d.rem_length - MaxPacket))
  ELSE USBD_CtlReceiveStatus(d)

\* Fault: every packet but the first is sent as if none had been.
DataInResends(d) ==
  IF d.ep0_state # "DATA_IN" THEN d
  ELSE IF d.rem_length > MaxPacket
  THEN USBD_LL_PrepareReceive(USBD_CtlContinueSendData(
         [d EXCEPT !.rem_length = @ - MaxPacket], d.rem_length))
  ELSE USBD_CtlReceiveStatus(d)

USBD_LL_DataInStage0(d) ==
  IF d.ep0_state # "DATA_IN" THEN d
  ELSE IF d.rem_length > MaxPacket
  THEN USBD_LL_PrepareReceive(USBD_CtlContinueSendData(
         [d EXCEPT !.rem_length = @ - MaxPacket], d.rem_length - MaxPacket))
  ELSE IF /\ d.total_length % MaxPacket = 0
          /\ d.total_length >= MaxPacket
          /\ d.total_length < d.ep0_data_len
  THEN USBD_LL_PrepareReceive(USBD_CtlContinueSendData(
         [d EXCEPT !.ep0_data_len = 0], 0))
  ELSE USBD_CtlReceiveStatus(d)

\* HAL_PCD_ResetCallback sets the speed first.
USBD_LL_Reset(d, speed) ==
  LET r == [d EXCEPT !.dev_speed = speed, !.dev_state = "DEFAULT",
                     !.is_stall = {}, !.in0 = NAK, !.out0 = "nak",
                     !.usb_address = 0]
  IN  IF d.pClassData # "NULL" THEN USBD_CDC_DeInit(r) ELSE r

\* Fault: the state the device was in is not remembered.
SuspendForgets(d) == [d EXCEPT !.dev_state = "SUSPENDED"]

USBD_LL_Suspend(d) ==
  [d EXCEPT !.dev_old_state = d.dev_state, !.dev_state = "SUSPENDED"]

USBD_LL_Resume(d) == [d EXCEPT !.dev_state = d.dev_old_state]

USBD_LL_DevDisconnected(d) ==
  USBD_CDC_DeInit([d EXCEPT !.dev_state = "DEFAULT"])

-----------------------------------------------------------------------------
(* The host.                                                               *)

\* Stage of the transfer after the setup packet of r.
FirstStage(r) ==
  CASE r.len = 0 -> "statusIn"
    [] r.len > 0 /\ r.dir = "in" -> "dataIn"
    [] OTHER -> "dataOut"

\* What the host believes once r has taken effect: USB has the number of a
\* configuration in the lower byte of wValue.
Applied(v, r) ==
  CASE r.req = "SET_CONFIGURATION" -> [v EXCEPT !.config = {Cfgidx(r)}]
    [] r.req = "SET_LINE_CODING" -> [v EXCEPT !.coding = {r.value}]
    [] OTHER -> v

\* It gave r up: r may or may not have taken effect.
PerhapsApplied(v, r) ==
  CASE r.req = "SET_CONFIGURATION" /\ Cfgidx(r) <= MaxConfig ->
         [v EXCEPT !.config = @ \cup {Cfgidx(r)}]
    [] r.req = "SET_LINE_CODING" -> [v EXCEPT !.coding = @ \cup {r.value}]
    [] OTHER -> v

Idle == [stage |-> "idle", req |-> NoReq, got |-> 0]

\* A class request to an endpoint is sent to a configured device only.
HostSetup ==
  /\ bus = "active" /\ host.stage = "idle"
  /\ \E r \in HostRequests :
       /\ r.rcpt = "endpoint" /\ r.type = "class" =>
            pdev.pClassData # "NULL"
       /\ pdev' = USBD_LL_SetupStage(pdev, r)
       /\ host' = [stage |-> FirstStage(r), req |-> r, got |-> 0]
  /\ UNCHANGED <<bus, view>>

\* A data packet of the device; a short one, or the last byte asked for,
\* ends the data stage for the host.
HostIn0Data ==
  /\ bus = "active" /\ host.stage = "dataIn"
  /\ "IN0" \notin pdev.is_stall /\ pdev.in0 # NAK
  /\ LET n == MinOf(pdev.in0, MaxPacket)
         got == host.got + n
     IN  host' = [host EXCEPT !.got = got,
                    !.stage = IF n < MaxPacket \/ got >= host.req.len
                              THEN "statusOut" ELSE "dataIn"]
  /\ pdev' = USBD_LL_DataInStage0([pdev EXCEPT !.in0 = NAK])
  /\ UNCHANGED <<bus, view>>

HostOut0Data ==
  /\ bus = "active" /\ host.stage = "dataOut"
  /\ "OUT0" \notin pdev.is_stall /\ pdev.out0 = "armed"
  /\ LET got == MinOf(host.got + MaxPacket, host.req.len)
         last == got = host.req.len
     IN  /\ host' = [host EXCEPT !.got = got,
                       !.stage = IF last THEN "statusIn" ELSE "dataOut"]
         /\ pdev' = USBD_LL_DataOutStage0(
              [pdev EXCEPT !.out0 = "nak",
                           !.data = IF last THEN host.req.value ELSE @])
  /\ UNCHANGED <<bus, view>>

HostStatusIn ==
  /\ bus = "active" /\ host.stage = "statusIn"
  /\ "IN0" \notin pdev.is_stall /\ pdev.in0 # NAK
  /\ pdev' = USBD_LL_DataInStage0([pdev EXCEPT !.in0 = NAK])
  /\ host' = Idle
  /\ view' = Applied(view, host.req)
  /\ UNCHANGED bus

HostStatusOut ==
  /\ bus = "active" /\ host.stage = "statusOut"
  /\ "OUT0" \notin pdev.is_stall /\ pdev.out0 = "armed"
  /\ pdev' = USBD_LL_DataOutStage0([pdev EXCEPT !.out0 = "nak"])
  /\ host' = Idle
  /\ UNCHANGED <<bus, view>>

\* The host ends a read before the device has sent it all.
HostEarlyStatus ==
  /\ bus = "active" /\ host.stage = "dataIn" /\ host.got > 0
  /\ pdev.out0 = "armed"
  /\ pdev' = USBD_LL_DataOutStage0([pdev EXCEPT !.out0 = "nak"])
  /\ host' = Idle
  /\ UNCHANGED <<bus, view>>

\* The request failed.
HostSeesStall ==
  /\ bus = "active"
  /\ \/ host.stage \in {"dataIn", "statusIn"} /\ "IN0" \in pdev.is_stall
     \/ host.stage \in {"dataOut", "statusOut"} /\ "OUT0" \in pdev.is_stall
  /\ host' = Idle
  /\ UNCHANGED <<pdev, bus, view>>

HostAbort ==
  /\ bus = "active" /\ host.stage # "idle"
  /\ host' = Idle
  /\ view' = PerhapsApplied(view, host.req)
  /\ UNCHANGED <<pdev, bus>>

\* A reset, after a connection too (USBD_LL_DevConnected does nothing).
BusReset ==
  /\ \E speed \in Speeds : pdev' = USBD_LL_Reset(pdev, speed)
  /\ bus' = "active" /\ host' = Idle
  /\ view' = [PerhapsApplied(view, host.req) EXCEPT !.config = {0}]

BusSuspend ==
  /\ bus = "active"
  /\ pdev' = USBD_LL_Suspend(pdev)
  /\ bus' = "suspended"
  /\ UNCHANGED <<host, view>>

BusResume ==
  /\ bus = "suspended"
  /\ pdev' = USBD_LL_Resume(pdev)
  /\ bus' = "active"
  /\ UNCHANGED <<host, view>>

BusDisconnect ==
  /\ bus # "unplugged"
  /\ pdev' = USBD_LL_DevDisconnected(pdev)
  /\ bus' = "unplugged" /\ host' = Idle
  /\ view' = [PerhapsApplied(view, host.req) EXCEPT !.config = {0}]

-----------------------------------------------------------------------------
\* After USBD_Init, USBD_RegisterClass and USBD_Start, before the first reset.
Init ==
  /\ pdev = [dev_state |-> "DEFAULT", dev_old_state |-> "DEFAULT",
             dev_config |-> 0, dev_address |-> 0, dev_remote_wakeup |-> 0,
             dev_speed |-> "HIGH",
             ep0_state |-> "IDLE", ep0_data_len |-> 0, total_length |-> 0,
             rem_length |-> 0, rx_rem_length |-> 0, reply |-> <<NoOp, 0>>,
             pClassData |-> "NULL", CmdOpCode |-> "SEND_ENCAPSULATED_COMMAND",
             data |-> 0, linecoding |-> 0, TxState |-> 0, RxState |-> 0,
             in0 |-> NAK, out0 |-> "nak", in1 |-> "idle", out1 |-> "idle",
             opened |-> {}, is_stall |-> {}, usb_address |-> 0]
  /\ bus = "unplugged" /\ host = Idle
  /\ view = [config |-> {0}, coding |-> {0}]

BusNext == BusReset \/ BusSuspend \/ BusResume \/ BusDisconnect

ControlNext ==
  \/ HostSetup \/ HostIn0Data \/ HostOut0Data \/ HostStatusIn
  \/ HostStatusOut \/ HostEarlyStatus \/ HostSeesStall \/ HostAbort

Next == ControlNext \/ BusNext

Spec == Init /\ [][Next]_vars

-----------------------------------------------------------------------------
(* Properties.                                                             *)

TypeOK ==
  /\ pdev.dev_state \in {"DEFAULT", "ADDRESSED", "CONFIGURED", "SUSPENDED"}
  /\ pdev.dev_old_state \in {"DEFAULT", "ADDRESSED", "CONFIGURED"}
  /\ pdev.ep0_state \in {"IDLE", "SETUP", "DATA_IN", "DATA_OUT",
                         "STATUS_IN", "STATUS_OUT"}
  /\ pdev.dev_config \in 0..MaxConfig
  /\ pdev.pClassData \in {"NULL", "usbd_cdc"}
  /\ pdev.opened \subseteq ClassEPs /\ pdev.is_stall \subseteq ClassEPs \cup EP0
  /\ pdev.in0 \in Int /\ pdev.out0 \in {"nak", "armed"}
  /\ pdev.rem_length \in Nat /\ pdev.rx_rem_length \in Nat
  /\ bus \in {"unplugged", "active", "suspended"}
  /\ host.stage \in {"idle", "dataIn", "dataOut", "statusIn", "statusOut"}
  /\ host.got \in Nat
  /\ view.coding \subseteq Codings

\* State of the device, the one it returns to when it is suspended.
StateOf(d) ==
  IF d.dev_state = "SUSPENDED" THEN d.dev_old_state ELSE d.dev_state

\* The class is loaded, with its endpoints open, exactly while the device is
\* configured, through resets, unplugging and suspension: the bulk handlers
\* and USBSerial dereference pClassData on the strength of the state alone
\* (usbd_core.c:325, 396).
ClassFollowsState ==
  /\ (StateOf(pdev) = "CONFIGURED") <=> (pdev.pClassData = "usbd_cdc")
  /\ StateOf(pdev) = "CONFIGURED" =>
       pdev.opened = ClassEPs /\ pdev.dev_config # 0 /\ pdev.dev_address # 0
  /\ StateOf(pdev) # "CONFIGURED" =>
       pdev.opened = {} /\ pdev.in1 = "idle" /\ pdev.out1 = "idle"

\* The host waits for the device, and the device has nothing ready for it.
Silent ==
  \/ host.stage \in {"dataIn", "statusIn"} /\ pdev.in0 = NAK
       /\ "IN0" \notin pdev.is_stall
  \/ host.stage \in {"dataOut", "statusOut"} /\ pdev.out0 = "nak"
       /\ "OUT0" \notin pdev.is_stall

\* The requests the library takes without a data stage, a status or a stall:
\* features it does not know, endpoint requests before the configuration,
\* class requests to an endpoint, standard ones the class does not know.
Ignored(r) ==
  \/ r.rcpt = "device" /\ r.req = "GET_DESCRIPTOR" /\ r.len = 0
  \/ r.rcpt = "device" /\ r.req \in {"SET_FEATURE", "CLEAR_FEATURE"}
       /\ r.value # REMOTE_WAKEUP
  \/ r.rcpt = "interface" /\ r.type # "class" /\ r.len > 0
       /\ r.req # "GET_INTERFACE"
  \/ r.rcpt = "endpoint" /\ (r.type = "class" \/ pdev.dev_state = "ADDRESSED"
       \/ r.value # EP_HALT \/ r.req \notin {"SET_FEATURE", "CLEAR_FEATURE"})
  \/ r.rcpt = "other" /\ r.dir = "out"

\* Control transfers keep in step: whatever the lengths of descriptor and
\* request, a transfer the library answered is never left with host and
\* device both waiting for the other (usbd_core.c:343-405: continue, empty
\* packet or status stage), and the requests it does not answer are known.
NoTransferStalls ==
  bus = "active" /\ Silent => pdev.ep0_state = "SETUP" /\ Ignored(host.req)

\* A read the host takes for complete delivered all that the device meant to
\* send, and a status stage carries no left-over data.
ReadDelivered ==
  /\ host.stage = "statusOut" => host.got = pdev.total_length
  /\ host.stage = "statusIn" => pdev.in0 \in {NAK, 0}

\* What the host reads back agrees with what it has set: the configuration
\* through resets and re-enumeration (usbd_ctlreq.c:568), the line coding
\* through SET_LINE_CODING transfers given up half way (usbd_cdc.c:501).
HostReadsBack ==
  host.stage = "statusOut" =>
    /\ host.req.req = "GET_CONFIGURATION" => pdev.reply[2] \in view.config
    /\ host.req.req = "GET_LINE_CODING" => pdev.reply[2] \in view.coding
=============================================================================
