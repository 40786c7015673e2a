---------------------------- MODULE SerialProof ----------------------------
(***************************************************************************)
(* Proofs about the serial port over USB, for any number of threads and    *)
(* any sizes of the queues, the packets and the rings of waiting threads.  *)
(*                                                                         *)
(* UsbDeviceProof says what a step of the device does to endpoint 0; here, *)
(* what it does to the bulk endpoints (Moves), what the class and the      *)
(* endpoints have to do with each other (LinkInv), then the queues and the *)
(* buffers (DataInv).  From these each direction of the port implements    *)
(* SerialPipe, step by step, and the characters are in order (SerialInv).  *)
(***************************************************************************)
EXTENDS UsbSerial, UsbDeviceProof, SequenceTheorems

(***************************************************************************)
(* What a step of the device does to the bulk endpoints: nothing, or the   *)
(* class is unloaded, or it is loaded anew.                                *)
(***************************************************************************)
Quiet(d, e) ==
  /\ Handle(e) /\ e.pClassData = d.pClassData
  /\ e.in1 = d.in1 /\ e.out1 = d.out1
  /\ e.TxState = d.TxState /\ e.RxState = d.RxState

Gone(e) ==
  Handle(e) /\ e.pClassData = "NULL" /\ e.in1 = "idle" /\ e.out1 = "idle"

\* With a single configuration, only a class that was not loaded is loaded.
Anew(d, e) ==
  /\ Handle(e) /\ e.pClassData = "usbd_cdc" /\ e.in1 = "idle"
  /\ e.out1 = "armed" /\ e.TxState = 0 /\ e.RxState = 0
  /\ MaxConfig = 1 => d.pClassData = "NULL"

Moves(d, e) == Quiet(d, e) \/ Gone(e) \/ Anew(d, e)

\* The stages of endpoint 0 and the class's own requests move no bulk data.
LEMMA QuietStages ==
  ASSUME NEW d, NEW c, Quiet(d, c)
  PROVE  /\ \A what, len : Quiet(d, USBD_CtlSendData(c, what, len))
         /\ \A len : Quiet(d, USBD_CtlPrepareRx(c, len))
         /\ Quiet(d, USBD_CtlSendStatus(c))
         /\ Quiet(d, USBD_CtlReceiveStatus(c))
         /\ Quiet(d, USBD_CtlError(c))
         /\ \A ep : Quiet(d, USBD_LL_StallEP(c, ep))
         /\ \A ep : Quiet(d, USBD_LL_ClearStallEP(c, ep))
         /\ \A op : Quiet(d, CDC_Control(c, op))
         /\ \A op : Quiet(d, [c EXCEPT !.CmdOpCode = op])
<1> USE DEF Quiet, Handle, Fields
<1>1. \A what, len : Quiet(d, USBD_CtlSendData(c, what, len))
  BY DEF USBD_CtlSendData, USBD_LL_Transmit
<1>2. \A len : Quiet(d, USBD_CtlPrepareRx(c, len))
  BY DEF USBD_CtlPrepareRx, USBD_LL_PrepareReceive
<1>3. Quiet(d, USBD_CtlSendStatus(c)) /\ Quiet(d, USBD_CtlReceiveStatus(c))
  BY DEF USBD_CtlSendStatus, USBD_CtlReceiveStatus, USBD_LL_Transmit,
         USBD_LL_PrepareReceive
<1>4. /\ Quiet(d, USBD_CtlError(c))
      /\ \A ep : Quiet(d, USBD_LL_StallEP(c, ep))
      /\ \A ep : Quiet(d, USBD_LL_ClearStallEP(c, ep))
  BY DEF USBD_CtlError, USBD_LL_StallEP, USBD_LL_ClearStallEP
<1>5. /\ \A op : Quiet(d, CDC_Control(c, op))
      /\ \A op : Quiet(d, [c EXCEPT !.CmdOpCode = op])
  BY DEF CDC_Control
<1> QED BY <1>1, <1>2, <1>3, <1>4, <1>5

LEMMA QuietSetup ==
  ASSUME NEW d, NEW c, Quiet(d, c), NEW r
  PROVE  Quiet(d, USBD_CDC_Setup(c, r))
<1> DEFINE e == USBD_CDC_Setup(c, r)
           k == CDC_Control(c, r.req)
           m == [c EXCEPT !.CmdOpCode = r.req]
           what == <<r.req, k.data>>
           none == <<r.req, 0>>
<1>1. \/ e = USBD_CtlSendData(k, what, r.len)
      \/ e = USBD_CtlPrepareRx(m, r.len)
      \/ e = k
      \/ e = USBD_CtlSendData(c, none, 1)
      \/ e = c
  BY DEF USBD_CDC_Setup
<1>2. Quiet(d, k) /\ Quiet(d, m)
  BY QuietStages
<1> HIDE DEF k, m, what, none, e
<1>3. /\ Quiet(d, USBD_CtlSendData(k, what, r.len))
      /\ Quiet(d, USBD_CtlPrepareRx(m, r.len))
      /\ Quiet(d, USBD_CtlSendData(c, none, 1))
  BY <1>2, QuietStages
<1> QED BY <1>1, <1>2, <1>3 DEF e

LEMMA QuietReady ==
  ASSUME NEW d, NEW c, Quiet(d, c)
  PROVE  Quiet(d, USBD_CDC_EP0_RxReady(c))
<1>1. CASE c.CmdOpCode = NoOp
  BY <1>1 DEF USBD_CDC_EP0_RxReady
<1>2. CASE c.CmdOpCode # NoOp
  <2> DEFINE k == CDC_Control(c, c.CmdOpCode)
  <2>1. Quiet(d, k)
    BY QuietStages
  <2>2. USBD_CDC_EP0_RxReady(c) = [k EXCEPT !.CmdOpCode = NoOp]
    BY <1>2 DEF USBD_CDC_EP0_RxReady
  <2> HIDE DEF k
  <2> QED BY <2>1, <2>2, QuietStages
<1> QED BY <1>1, <1>2

(* Requests.                                                               *)

LEMMA QuietDevReq ==
  ASSUME NEW d, NEW c, Quiet(d, c), NEW r
  PROVE  /\ Quiet(d, USBD_GetDescriptor(c, r))
         /\ Quiet(d, USBD_SetAddress(c, r))
         /\ Quiet(d, USBD_GetConfig(c, r))
         /\ Quiet(d, USBD_GetStatus(c, r))
         /\ Quiet(d, USBD_SetFeature(c, r))
         /\ Quiet(d, USBD_ClrFeature(c, r))
<1>1. Quiet(d, USBD_GetDescriptor(c, r))
  BY QuietStages DEF USBD_GetDescriptor
<1>2. Quiet(d, USBD_SetAddress(c, r))
  <2> DEFINE a == DevAddr(r)
             k == [USBD_LL_SetUSBAddress(c, a)
                     EXCEPT !.dev_address = a,
                            !.dev_state = IF a # 0 THEN "ADDRESSED"
                                          ELSE "DEFAULT"]
  <2>1. Quiet(d, k)
    BY DEF Quiet, Handle, Fields, USBD_LL_SetUSBAddress
  <2>2. \/ USBD_SetAddress(c, r) = USBD_CtlError(c)
        \/ USBD_SetAddress(c, r) = USBD_CtlSendStatus(k)
    BY DEF USBD_SetAddress
  <2> HIDE DEF k
  <2> QED BY <2>1, <2>2, QuietStages
<1>3. Quiet(d, USBD_GetConfig(c, r))
  BY QuietStages DEF USBD_GetConfig
<1>4. Quiet(d, USBD_GetStatus(c, r))
  BY QuietStages DEF USBD_GetStatus
<1>5. \A v : Quiet(d, USBD_CtlSendStatus(
                        USBD_CDC_Setup([c EXCEPT !.dev_remote_wakeup = v], r)))
  <2> SUFFICES ASSUME NEW v
               PROVE  Quiet(d, USBD_CtlSendStatus(
                        USBD_CDC_Setup([c EXCEPT !.dev_remote_wakeup = v], r)))
    OBVIOUS
  <2> DEFINE k == [c EXCEPT !.dev_remote_wakeup = v]
             e == USBD_CDC_Setup(k, r)
  <2>1. Quiet(d, k)
    BY DEF Quiet, Handle, Fields
  <2> HIDE DEF k
  <2>2. Quiet(d, e)
    BY <2>1, QuietSetup
  <2> HIDE DEF e
  <2>3. Quiet(d, USBD_CtlSendStatus(e))
    BY <2>2, QuietStages
  <2> QED BY <2>3 DEF e, k
<1>6. Quiet(d, USBD_SetFeature(c, r))
  BY <1>5 DEF USBD_SetFeature
<1>7. Quiet(d, USBD_ClrFeature(c, r))
  BY <1>5, QuietStages DEF USBD_ClrFeature
<1> QED BY <1>1, <1>2, <1>3, <1>4, <1>6, <1>7

LEMMA QuietItfReq ==
  ASSUME NEW d, NEW c, Quiet(d, c), NEW r
  PROVE  Quiet(d, USBD_StdItfReq(c, r))
<1> DEFINE e == USBD_CDC_Setup(c, r)
<1>1. Quiet(d, e)
  BY QuietSetup
<1>2. USBD_StdItfReq(c, r) \in {USBD_CtlSendStatus(e), e, USBD_CtlError(c)}
  BY DEF USBD_StdItfReq
<1> HIDE DEF e
<1> QED BY <1>1, <1>2, QuietStages

LEMMA QuietEPReq ==
  ASSUME NEW d, NEW c, Quiet(d, c), NEW r
  PROVE  Quiet(d, USBD_StdEPReq(c, r))
<1> DEFINE halt == USBD_LL_StallEP(c, r.ep)
           clear == USBD_LL_ClearStallEP(c, r.ep)
<1>1. Quiet(d, halt) /\ Quiet(d, clear)
  BY QuietStages
<1>2. \A k : Quiet(d, k) => /\ Quiet(d, USBD_CDC_Setup(k, r))
                            /\ Quiet(d, USBD_CtlSendStatus(k))
  BY QuietSetup, QuietStages
<1>3. Quiet(d, EPReqConfigured(c, r))
  <2> DEFINE what == <<r.req, USBD_LL_IsStallEP(c, r.ep)>>
  <2>1. \/ EPReqConfigured(c, r) = USBD_CtlSendStatus(USBD_CDC_Setup(halt, r))
        \/ EPReqConfigured(c, r) = USBD_CtlSendStatus(USBD_CDC_Setup(c, r))
        \/ EPReqConfigured(c, r) = USBD_CtlSendStatus(USBD_CDC_Setup(clear, r))
        \/ EPReqConfigured(c, r) = USBD_CtlSendStatus(c)
        \/ EPReqConfigured(c, r) = USBD_CtlSendData(c, what, 2)
        \/ EPReqConfigured(c, r) = c
    BY DEF EPReqConfigured
  <2> HIDE DEF what, halt, clear
  <2>2. Quiet(d, USBD_CtlSendData(c, what, 2))
    BY QuietStages
  <2> QED BY <1>1, <1>2, <2>1, <2>2
<1>4. \/ USBD_StdEPReq(c, r) = USBD_CDC_Setup(c, r)
      \/ USBD_StdEPReq(c, r) = halt
      \/ USBD_StdEPReq(c, r) = c
      \/ USBD_StdEPReq(c, r) = EPReqConfigured(c, r)
      \/ USBD_StdEPReq(c, r) = USBD_CtlError(c)
  BY DEF USBD_StdEPReq
<1> QED BY <1>1, <1>2, <1>3, <1>4, QuietStages

\* The one request that loads and unloads the class.
LEMMA SetConfigMoves ==
  ASSUME NEW d, NEW c, Quiet(d, c), ClassInv(c), NEW r, Cfgidx(r) \in Nat
  PROVE  Moves(d, USBD_SetConfig(c, r))
<1> DEFINE n == Cfgidx(r)
           set == [c EXCEPT !.dev_config = n]
           up == [set EXCEPT !.dev_state = "CONFIGURED"]
           down == [set EXCEPT !.dev_state = "ADDRESSED"]
           e == USBD_SetConfig(c, r)
<1>1. /\ Handle(set) /\ set.pClassData = c.pClassData
      /\ Handle(up) /\ up.pClassData = c.pClassData /\ up.in1 = c.in1
      /\ Handle(down)
  BY DEF Quiet, Handle, Fields
<1>2. \A k : Handle(k) => /\ Gone(USBD_ClrClassConfig(k))
                          /\ Handle(USBD_ClrClassConfig(k))
  BY ClassDeInit DEF Gone, USBD_ClrClassConfig
<1>3. ASSUME NEW k, Handle(k), k.in1 = "idle",
             MaxConfig = 1 => d.pClassData = "NULL"
      PROVE  Anew(d, USBD_SetClassConfig(k))
  BY <1>3 DEF Anew, USBD_SetClassConfig, USBD_CDC_Init, USBD_LL_OpenEP,
              Handle, Fields
<1>4. \A k : /\ Gone(k) => Gone(USBD_CtlSendStatus(k))
             /\ Anew(d, k) => Anew(d, USBD_CtlSendStatus(k))
  <2> SUFFICES ASSUME NEW k, Handle(k)
               PROVE  /\ Gone(k) => Gone(USBD_CtlSendStatus(k))
                      /\ Anew(d, k) => Anew(d, USBD_CtlSendStatus(k))
    BY DEF Gone, Anew
  <2>1. Quiet(k, k)
    BY DEF Quiet
  <2>2. Quiet(k, USBD_CtlSendStatus(k))
    BY <2>1, QuietStages
  <2> QED BY <2>2 DEF Quiet, Gone, Anew
<1>5. CASE c.dev_state = "ADDRESSED" /\ n # 0 /\ n <= MaxConfig
  <2>5. ~(n > MaxConfig) /\ c.dev_state # "CONFIGURED"
    BY <1>5, PacketAssumption
  <2>1. e = USBD_CtlSendStatus(USBD_SetClassConfig(up))
    BY <1>5, <2>5, Zenon DEF USBD_SetConfig
  <2>2. c.pClassData = "NULL" /\ c.in1 = "idle"
    BY <1>5 DEF ClassInv, StateOf, Unloaded
  <2>3. d.pClassData = "NULL"
    BY <2>2 DEF Quiet
  <2> HIDE DEF up, e
  <2>4. Anew(d, USBD_SetClassConfig(up))
    BY <1>1, <1>3, <2>2, <2>3
  <2> QED BY <1>4, <2>1, <2>4 DEF Moves, e
<1>6. CASE c.dev_state = "CONFIGURED" /\ n = 0
  <2>1. n <= MaxConfig
    BY <1>6, PacketAssumption
  <2>2. e = USBD_CtlSendStatus(USBD_ClrClassConfig(down))
    BY <1>6, <2>1 DEF USBD_SetConfig
  <2> HIDE DEF down, e
  <2>3. Gone(USBD_ClrClassConfig(down))
    BY <1>1, <1>2
  <2> QED BY <1>4, <2>2, <2>3 DEF Moves, e
<1>7. CASE c.dev_state = "CONFIGURED" /\ n # 0 /\ n <= MaxConfig
           /\ n # c.dev_config
  <2> DEFINE k == USBD_ClrClassConfig(set)
  <2>5. ~(n > MaxConfig) /\ c.dev_state # "ADDRESSED"
    BY <1>7, PacketAssumption
  <2>1. e = USBD_CtlSendStatus(USBD_SetClassConfig(k))
    BY <1>7, <2>5, Zenon DEF USBD_SetConfig
  <2>2. Gone(k)
    BY <1>1, <1>2
  <2>3. MaxConfig # 1
    <3>1. c.dev_config \in 0..MaxConfig /\ c.dev_config # 0
      BY <1>7 DEF ClassInv, StateOf, Loaded
    <3> QED BY <1>7, <3>1
  <2> HIDE DEF k, e
  <2>4. Anew(d, USBD_SetClassConfig(k))
    BY <1>3, <2>2, <2>3 DEF Gone
  <2> QED BY <1>4, <2>1, <2>4 DEF Moves, e
<1>8. CASE e \in {c, USBD_CtlError(c), USBD_CtlSendStatus(c)}
  BY <1>8, QuietStages DEF Moves
<1>9. \/ c.dev_state = "ADDRESSED" /\ n # 0 /\ n <= MaxConfig
      \/ c.dev_state = "CONFIGURED" /\ n = 0
      \/ c.dev_state = "CONFIGURED" /\ n # 0 /\ n <= MaxConfig
           /\ n # c.dev_config
      \/ e \in {c, USBD_CtlError(c), USBD_CtlSendStatus(c)}
  <2>1. MaxConfig \in Nat
    BY PacketAssumption
  <2>2. CASE n > MaxConfig
    <3>1. ~(n <= MaxConfig)
      BY <2>1, <2>2
    <3>2. e = USBD_CtlError(c)
      BY <2>2, <3>1 DEF USBD_SetConfig
    <3> QED BY <3>2
  <2>3. CASE n <= MaxConfig
    <3>1. ~(n > MaxConfig)
      BY <2>1, <2>3
    <3>2. CASE c.dev_state = "ADDRESSED" /\ n = 0
      <4>1. e = USBD_CtlSendStatus(c)
        BY <2>3, <3>1, <3>2 DEF USBD_SetConfig
      <4> QED BY <4>1
    <3>3. CASE c.dev_state = "CONFIGURED" /\ n # 0 /\ n = c.dev_config
      <4>1. e = USBD_CtlSendStatus(c)
        BY <2>3, <3>1, <3>3 DEF USBD_SetConfig
      <4> QED BY <4>1
    <3>4. CASE c.dev_state \notin {"ADDRESSED", "CONFIGURED"}
      <4>1. e = USBD_CtlError(c)
        BY <2>3, <3>1, <3>4 DEF USBD_SetConfig
      <4> QED BY <4>1
    <3> QED BY <2>3, <3>2, <3>3, <3>4
  <2> QED BY <2>1, <2>2, <2>3
<1> QED BY <1>5, <1>6, <1>7, <1>8, <1>9

(* The setup packet and the callbacks.                                     *)

LEMMA SetupMoves ==
  ASSUME NEW d, Handle(d), ClassInv(d), NEW r \in HostRequests
  PROVE  Moves(d, USBD_LL_SetupStage(d, r))
<1> DEFINE c == [d EXCEPT !.ep0_state = "SETUP", !.ep0_data_len = r.len,
                          !.in0 = NAK, !.out0 = "nak", !.is_stall = @ \ EP0,
                          !.reply = <<NoOp, 0>>]
           ep == IF r.dir = "in" THEN "IN0" ELSE "OUT0"
           e == USBD_LL_SetupStage(d, r)
<1>1. Quiet(d, c) /\ SameClass(d, c)
  BY DEF Quiet, Handle, Fields, SameClass
<1>2. \/ e = USBD_StdDevReq(c, r) \/ e = USBD_StdItfReq(c, r)
      \/ e = USBD_StdEPReq(c, r) \/ e = USBD_LL_StallEP(c, ep)
  <2>1. e = CASE r.rcpt = "device"    -> USBD_StdDevReq(c, r)
              [] r.rcpt = "interface" -> USBD_StdItfReq(c, r)
              [] r.rcpt = "endpoint"  -> USBD_StdEPReq(c, r)
              [] OTHER -> USBD_LL_StallEP(c, ep)
    BY DEF USBD_LL_SetupStage
  <2> HIDE DEF c, e, ep
  <2> QED BY <2>1
<1> HIDE DEF c, e, ep
<1>3. ClassInv(c) /\ Cfgidx(r) \in Nat
  BY <1>1, SameClassInv, LowerByte
<1>4. Moves(d, USBD_StdDevReq(c, r))
  <2>1. /\ Quiet(d, USBD_GetDescriptor(c, r)) /\ Quiet(d, USBD_SetAddress(c, r))
        /\ Quiet(d, USBD_GetConfig(c, r)) /\ Quiet(d, USBD_GetStatus(c, r))
        /\ Quiet(d, USBD_SetFeature(c, r)) /\ Quiet(d, USBD_ClrFeature(c, r))
        /\ Quiet(d, USBD_CtlError(c))
    BY <1>1, QuietDevReq, QuietStages
  <2>2. Moves(d, USBD_SetConfig(c, r))
    BY <1>1, <1>3, SetConfigMoves
  <2>3. \/ USBD_StdDevReq(c, r) = USBD_GetDescriptor(c, r)
        \/ USBD_StdDevReq(c, r) = USBD_SetAddress(c, r)
        \/ USBD_StdDevReq(c, r) = USBD_SetConfig(c, r)
        \/ USBD_StdDevReq(c, r) = USBD_GetConfig(c, r)
        \/ USBD_StdDevReq(c, r) = USBD_GetStatus(c, r)
        \/ USBD_StdDevReq(c, r) = USBD_SetFeature(c, r)
        \/ USBD_StdDevReq(c, r) = USBD_ClrFeature(c, r)
        \/ USBD_StdDevReq(c, r) = USBD_CtlError(c)
    BY DEF USBD_StdDevReq
  <2> QED BY <2>1, <2>2, <2>3 DEF Moves
<1>5. /\ Quiet(d, USBD_StdItfReq(c, r)) /\ Quiet(d, USBD_StdEPReq(c, r))
      /\ Quiet(d, USBD_LL_StallEP(c, ep))
  BY <1>1, QuietItfReq, QuietEPReq, QuietStages
<1> QED BY <1>2, <1>4, <1>5 DEF Moves, e

LEMMA QuietEp0 ==
  ASSUME NEW d, NEW c, Quiet(d, c)
  PROVE  /\ Quiet(d, USBD_LL_DataInStage0(c))
         /\ Quiet(d, USBD_LL_DataOutStage0(c))
<1>1. Quiet(d, USBD_LL_DataInStage0(c))
  <2> DEFINE zlp == /\ c.total_length % MaxPacket = 0
                    /\ c.total_length >= MaxPacket
                    /\ c.total_length < c.ep0_data_len
  <2>1. CASE c.ep0_state # "DATA_IN"
    BY <2>1 DEF USBD_LL_DataInStage0
  <2>2. CASE c.ep0_state = "DATA_IN" /\ c.rem_length > MaxPacket
    BY <2>2 DEF USBD_LL_DataInStage0, USBD_LL_PrepareReceive,
                USBD_CtlContinueSendData, USBD_LL_Transmit, Quiet, Handle, Fields
  <2>3. CASE c.ep0_state = "DATA_IN" /\ ~(c.rem_length > MaxPacket) /\ zlp
    BY <2>3 DEF USBD_LL_DataInStage0, USBD_LL_PrepareReceive,
                USBD_CtlContinueSendData, USBD_LL_Transmit, Quiet, Handle, Fields
  <2>4. CASE c.ep0_state = "DATA_IN" /\ ~(c.rem_length > MaxPacket) /\ ~zlp
    <3>1. USBD_LL_DataInStage0(c) = USBD_CtlReceiveStatus(c)
      BY <2>4 DEF USBD_LL_DataInStage0
    <3> QED BY <3>1, QuietStages
  <2> QED BY <2>1, <2>2, <2>3, <2>4
<1>2. Quiet(d, USBD_LL_DataOutStage0(c))
  <2> DEFINE k == USBD_CDC_EP0_RxReady(c)
             m == USBD_CtlContinueRx([c EXCEPT !.rx_rem_length = @ - MaxPacket])
  <2>1. Quiet(d, k)
    BY QuietReady
  <2>2. Quiet(d, m)
    BY DEF USBD_CtlContinueRx, USBD_LL_PrepareReceive, Quiet, Handle, Fields
  <2>3. \/ USBD_LL_DataOutStage0(c) = c \/ USBD_LL_DataOutStage0(c) = m
        \/ USBD_LL_DataOutStage0(c) = USBD_CtlSendStatus(k)
        \/ USBD_LL_DataOutStage0(c) = USBD_CtlSendStatus(c)
    BY DEF USBD_LL_DataOutStage0
  <2> HIDE DEF k, m
  <2> QED BY <2>1, <2>2, <2>3, QuietStages
<1> QED BY <1>1, <1>2

LEMMA ControlMoves ==
  ASSUME IInv, ControlNext
  PROVE  Moves(pdev, pdev')
<1> DEFINE in == [pdev EXCEPT !.in0 = NAK]
           out == [pdev EXCEPT !.out0 = "nak"]
<1>1. Handle(pdev) /\ ClassInv(pdev)
  BY DEF IInv
<1>2. Quiet(pdev, pdev) /\ Quiet(pdev, in) /\ Quiet(pdev, out)
  BY <1>1 DEF Quiet, Handle, Fields
<1>3. CASE HostSetup
  <2>1. PICK r \in HostRequests : pdev' = USBD_LL_SetupStage(pdev, r)
    BY <1>3 DEF HostSetup
  <2> QED BY <1>1, <2>1, SetupMoves
<1>4. CASE HostIn0Data \/ HostStatusIn
  <2>1. pdev' = USBD_LL_DataInStage0(in)
    BY <1>4 DEF HostIn0Data, HostStatusIn
  <2> HIDE DEF in
  <2> QED BY <1>2, <2>1, QuietEp0 DEF Moves
<1>5. CASE HostOut0Data
  <2> DEFINE got == MinOf(host.got + MaxPacket, host.req.len)
             data == IF got = host.req.len THEN host.req.value ELSE pdev.data
             c == [pdev EXCEPT !.out0 = "nak", !.data = data]
  <2>1. pdev' = USBD_LL_DataOutStage0(c)
    BY <1>5 DEF HostOut0Data
  <2> HIDE DEF data
  <2>2. Quiet(pdev, c)
    BY <1>1 DEF Quiet, Handle, Fields
  <2> HIDE DEF c
  <2> QED BY <2>1, <2>2, QuietEp0 DEF Moves
<1>6. CASE HostStatusOut \/ HostEarlyStatus
  <2>1. pdev' = USBD_LL_DataOutStage0(out)
    BY <1>6 DEF HostStatusOut, HostEarlyStatus
  <2> HIDE DEF out
  <2> QED BY <1>2, <2>1, QuietEp0 DEF Moves
<1>7. CASE HostSeesStall \/ HostAbort
  BY <1>2, <1>7 DEF HostSeesStall, HostAbort, Moves
<1> QED BY <1>3, <1>4, <1>5, <1>6, <1>7 DEF ControlNext

LEMMA BusMoves ==
  ASSUME IInv, BusNext
  PROVE  Moves(pdev, pdev')
<1>1. Handle(pdev) /\ ClassInv(pdev)
  BY DEF IInv
<1>2. \A k : Handle(k) => Gone(USBD_CDC_DeInit(k))
  BY ClassDeInit DEF Gone
<1>3. CASE BusReset
  <2>1. PICK speed \in Speeds : pdev' = USBD_LL_Reset(pdev, speed)
    BY <1>3 DEF BusReset
  <2> DEFINE c == [pdev EXCEPT !.dev_speed = speed, !.dev_state = "DEFAULT",
                               !.is_stall = {}, !.in0 = NAK, !.out0 = "nak",
                               !.usb_address = 0]
  <2>2. Quiet(pdev, c)
    BY <1>1 DEF Quiet, Handle, Fields
  <2>3. pdev' = IF pdev.pClassData # "NULL" THEN USBD_CDC_DeInit(c) ELSE c
    BY <2>1 DEF USBD_LL_Reset
  <2> HIDE DEF c
  <2> QED BY <1>2, <2>2, <2>3 DEF Moves, Quiet
<1>4. CASE BusDisconnect
  <2> DEFINE c == [pdev EXCEPT !.dev_state = "DEFAULT"]
  <2>1. Handle(c)
    BY <1>1 DEF Handle, Fields
  <2>2. pdev' = USBD_CDC_DeInit(c)
    BY <1>4 DEF BusDisconnect, USBD_LL_DevDisconnected
  <2> HIDE DEF c
  <2> QED BY <1>2, <2>1, <2>2 DEF Moves
<1>5. CASE BusSuspend \/ BusResume
  <2>1. Quiet(pdev, pdev')
    BY <1>1, <1>5 DEF BusSuspend, BusResume, USBD_LL_Suspend, USBD_LL_Resume,
                      Quiet, Handle, Fields
  <2> QED BY <2>1 DEF Moves
<1> QED BY <1>3, <1>4, <1>5 DEF BusNext

LEMMA DeviceMoves ==
  ASSUME IInv, Device
  PROVE  Moves(pdev, pdev') /\ IInv'
<1>1. Next
  BY DEF Device, Next, BusNext
<1>2. IInv'
  BY <1>1, NextInv
<1>3. ControlNext \/ BusNext
  BY <1>1 DEF Next
<1> QED BY <1>2, <1>3, ControlMoves, BusMoves

(***************************************************************************)
(* Bulk data leaves endpoint 0 and the life of the class alone.            *)
(***************************************************************************)
SameControl(d, e) ==
  /\ Handle(e) /\ SameEp0(d, e) /\ SameDevice(d, e)
  /\ e.is_stall = d.is_stall /\ e.opened = d.opened
  /\ e.pClassData = d.pClassData
  /\ d.pClassData = "NULL" => e.in1 = d.in1 /\ e.out1 = d.out1

LEMMA BulkKeepsIInv ==
  ASSUME IInv, SameControl(pdev, pdev'), UNCHANGED <<bus, host>>
  PROVE  IInv'
<1>1. StateOf(pdev') = StateOf(pdev)
  BY DEF SameControl, SameDevice, StateOf
<1>2. ClassInv(pdev')
  BY <1>1 DEF IInv, SameControl, SameDevice, ClassInv, Loaded, Unloaded
<1>3. InStep(pdev', host.stage, host.req, host.got)
  BY <1>1, StillInStep DEF IInv, SameControl
<1> QED BY <1>2, <1>3 DEF IInv, SameControl, SameDevice

(***************************************************************************)
(* The endpoints and the class that works them                             *)
(***************************************************************************)
Sending(d) ==
  d.pClassData # "NULL" =>
    /\ d.TxState = 1 => d.in1 # "idle"
    /\ d.in1 # "idle" => d.TxState = 1

LinkInv ==
  /\ IInv
  /\ pdev.in1 \in {"idle", "busy", "done"}
  /\ pdev.out1 \in {"idle", "armed", "full"}
  /\ Sending(pdev)

\* An endpoint is at work only for a class that is loaded.
LEMMA AtWork ==
  ASSUME IInv, pdev.in1 # "idle" \/ pdev.out1 # "idle"
  PROVE  pdev.pClassData = "usbd_cdc"
  BY DEF IInv, ClassInv, Loaded, Unloaded

LEMMA ClassIsOne ==
  ASSUME IInv, pdev.pClassData # "NULL"
  PROVE  pdev.pClassData = "usbd_cdc"
  BY DEF IInv, ClassInv, Loaded, Unloaded

\* The queue is left alone, or all of it is taken off and, once the class is
\* loaded, goes out.
LEMMA Notified ==
  ASSUME NEW q, NEW d, onotify(q, d)
  PROVE  \/ /\ txq' = q /\ pdev' = d
            /\ UNCHANGED <<txbuf, tflags, txthq>>
         \/ /\ Count(q) > 0 /\ txq' = Drained(q)
            /\ tflags' = [t \in Threads |->
                 IF t \in Signalled(txthq, Count(q)) THEN 1 ELSE tflags[t]]
            /\ txthq' = ThqGet(txthq, Count(q))
            /\ \/ d.pClassData = "NULL" /\ pdev' = d /\ txbuf' = <<>>
               \/ /\ CanTransmit(d) /\ txbuf' = Contents(q)
                  /\ pdev' = [d EXCEPT !.TxState = 1, !.in1 = "busy"]
<1>1. PICK emptied \in IF d.pClassData = "NULL" THEN BOOLEAN
                       ELSE {CanTransmit(d)} :
        IF emptied /\ Count(q) > 0
        THEN /\ txbuf' = IF d.pClassData = "NULL" THEN <<>> ELSE Contents(q)
             /\ txq' = Drained(q)
             /\ pdev' = USBD_CDC_TransmitPacket(d)
             /\ tflags' = [t \in Threads |->
                  IF t \in Signalled(txthq, Count(q)) THEN 1 ELSE tflags[t]]
             /\ txthq' = ThqGet(txthq, Count(q))
        ELSE /\ txq' = q /\ pdev' = d
             /\ UNCHANGED <<txbuf, tflags, txthq>>
  BY DEF onotify
<1>2. CASE emptied /\ Count(q) > 0 /\ d.pClassData = "NULL"
  <2>1. pdev' = d
    BY <1>1, <1>2 DEF USBD_CDC_TransmitPacket, CanTransmit
  <2> QED BY <1>1, <1>2, <2>1
<1>3. CASE emptied /\ Count(q) > 0 /\ d.pClassData # "NULL"
  <2>1. CanTransmit(d)
    BY <1>3
  <2>2. pdev' = [d EXCEPT !.TxState = 1, !.in1 = "busy"]
    BY <1>1, <1>3, <2>1 DEF USBD_CDC_TransmitPacket
  <2> QED BY <1>1, <1>3, <2>1, <2>2
<1>4. CASE ~(emptied /\ Count(q) > 0)
  BY <1>1, <1>4
<1> QED BY <1>2, <1>3, <1>4

LEMMA Transmits ==
  ASSUME NEW d, Handle(d), CanTransmit(d),
         NEW e, e = [d EXCEPT !.TxState = 1, !.in1 = "busy"]
  PROVE  /\ Handle(e) /\ SameControl(d, e) /\ e.TxState = 1 /\ e.in1 = "busy"
         /\ e.out1 = d.out1 /\ e.RxState = d.RxState
  BY DEF CanTransmit, Handle, Fields, SameControl, SameEp0, SameDevice

\* The endpoint is armed again or the handle is left alone.
LEMMA Receives ==
  ASSUME NEW d, Handle(d), NEW q, NEW e, e = inotify(q, d)
  PROVE  /\ SameControl(d, e) /\ e.in1 = d.in1 /\ e.TxState = d.TxState
         /\ \/ e = d /\ ~(d.pClassData # "NULL" /\ d.RxState = 0
                           /\ RoomForPacket(q))
            \/ /\ d.pClassData # "NULL" /\ RoomForPacket(q) /\ d.RxState = 0
               /\ e.RxState = 1 /\ e.out1 = "armed"
<1>1. CASE d.pClassData # "NULL" /\ d.RxState = 0 /\ RoomForPacket(q)
  <2>1. e = [d EXCEPT !.RxState = 1, !.out1 = "armed"]
    BY <1>1 DEF inotify, USBD_CDC_ReceivePacket
  <2>2. /\ SameControl(d, e) /\ e.in1 = d.in1 /\ e.TxState = d.TxState
        /\ e.RxState = 1 /\ e.out1 = "armed"
    BY <1>1, <2>1 DEF Handle, Fields, SameControl, SameEp0, SameDevice
  <2> QED BY <1>1, <2>2
<1>2. CASE ~(d.pClassData # "NULL" /\ d.RxState = 0 /\ RoomForPacket(q))
  <2>1. e = d
    BY <1>2 DEF inotify
  <2> QED BY <1>2, <2>1 DEF SameControl, SameEp0, SameDevice
<1> QED BY <1>1, <1>2

LEMMA ControlTransitive ==
  ASSUME NEW d, NEW c, NEW e, SameControl(d, c), SameControl(c, e)
  PROVE  SameControl(d, e)
  BY DEF SameControl, SameEp0, SameDevice

(* The steps, one by one.                                                  *)

LEMMA LinkInit == SerialInit => LinkInv
<1> SUFFICES ASSUME SerialInit PROVE LinkInv
  OBVIOUS
<1>1. Init
  BY DEF SerialInit
<1>2. pdev.in1 = "idle" /\ pdev.out1 = "idle" /\ pdev.pClassData = "NULL"
  BY <1>1 DEF Init
<1> QED BY <1>1, <1>2, InitInv DEF LinkInv, Sending

LEMMA DeviceLink ==
  ASSUME LinkInv, Device
  PROVE  LinkInv'
<1>1. Moves(pdev, pdev') /\ IInv'
  BY DeviceMoves DEF LinkInv
<1>2. CASE Quiet(pdev, pdev')
  BY <1>1, <1>2 DEF LinkInv, Quiet, Sending
<1>3. CASE Gone(pdev')
  BY <1>1, <1>3 DEF LinkInv, Gone, Sending
<1>4. CASE Anew(pdev, pdev')
  BY <1>1, <1>4 DEF LinkInv, Anew, Sending
<1> QED BY <1>1, <1>2, <1>3, <1>4 DEF Moves

LEMMA PutLink ==
  ASSUME LinkInv, NEW t, Put(t)
  PROVE  LinkInv'
<1>1. Handle(pdev) /\ IInv
  BY DEF LinkInv, IInv
<1> DEFINE q == Push(txq, ntx + 1)
<1>2. onotify(q, pdev) /\ UNCHANGED <<bus, host>>
  BY DEF Put
<1> HIDE DEF q
<1>3. CASE pdev' = pdev
  <2>1. SameControl(pdev, pdev')
    BY <1>1, <1>3 DEF SameControl, SameEp0, SameDevice
  <2>2. IInv'
    BY <1>1, <1>2, <2>1, BulkKeepsIInv
  <2> QED BY <1>3, <2>2 DEF LinkInv, Sending
<1>4. CASE /\ CanTransmit(pdev)
           /\ pdev' = [pdev EXCEPT !.TxState = 1, !.in1 = "busy"]
  <2>1. /\ SameControl(pdev, pdev') /\ pdev'.TxState = 1
        /\ pdev'.in1 = "busy" /\ pdev'.out1 = pdev.out1
    BY <1>1, <1>4, Transmits
  <2>2. IInv'
    BY <1>1, <1>2, <2>1, BulkKeepsIInv
  <2> QED BY <2>1, <2>2 DEF LinkInv, Sending
<1> QED BY <1>2, <1>3, <1>4, Notified

LEMMA DataInLink ==
  ASSUME LinkInv, DataIn
  PROVE  LinkInv'
<1> DEFINE d == USBD_CDC_DataIn(pdev)
<1>1. Handle(pdev) /\ IInv /\ pdev.in1 = "done"
  BY DEF LinkInv, IInv, DataIn
<1>2. onotify(txq, d) /\ UNCHANGED <<bus, host>>
  BY DEF DataIn
<1>3. pdev.pClassData = "usbd_cdc"
  BY <1>1, AtWork
<1>4. /\ SameControl(pdev, d) /\ d.in1 = "idle" /\ d.TxState = 0
      /\ d.out1 = pdev.out1 /\ Handle(d)
  BY <1>1, <1>3 DEF USBD_CDC_DataIn, Handle, Fields, SameControl, SameEp0,
                    SameDevice
<1> HIDE DEF d
<1>5. CASE pdev' = d
  <2>1. IInv'
    BY <1>1, <1>2, <1>4, <1>5, BulkKeepsIInv
  <2> QED BY <1>4, <1>5, <2>1 DEF LinkInv, Sending
<1>6. CASE CanTransmit(d) /\ pdev' = [d EXCEPT !.TxState = 1, !.in1 = "busy"]
  <2>1. /\ SameControl(d, pdev') /\ pdev'.TxState = 1
        /\ pdev'.in1 = "busy" /\ pdev'.out1 = d.out1
    BY <1>4, <1>6, Transmits
  <2>2. IInv'
    BY <1>1, <1>2, <1>4, <2>1, ControlTransitive, BulkKeepsIInv
  <2> QED BY <1>4, <2>1, <2>2 DEF LinkInv, Sending
<1> QED BY <1>2, <1>5, <1>6, Notified

LEMMA GetLink ==
  ASSUME LinkInv, NEW t, Get(t)
  PROVE  LinkInv'
<1> DEFINE q == Pop(rxq)
<1>1. Handle(pdev) /\ IInv
  BY DEF LinkInv, IInv
<1>2. pdev' = inotify(q, pdev) /\ UNCHANGED <<bus, host>>
  BY DEF Get
<1> HIDE DEF q
<1>3. /\ SameControl(pdev, pdev') /\ pdev'.in1 = pdev.in1
      /\ pdev'.TxState = pdev.TxState
      /\ pdev'.out1 \in {pdev.out1, "armed"}
  BY <1>1, <1>2, Receives
<1>4. IInv'
  BY <1>1, <1>2, <1>3, BulkKeepsIInv
<1> QED BY <1>3, <1>4 DEF LinkInv, Sending, SameControl

LEMMA DataOutLink ==
  ASSUME LinkInv, DataOut
  PROVE  LinkInv'
<1> DEFINE d == [pdev EXCEPT !.out1 = "idle", !.RxState = 0]
           n == MinOf(Len(rxbuf), Capacity(rxq))
           q == PushAll(rxq, SubSeq(rxbuf, 1, n))
<1>1. Handle(pdev) /\ IInv /\ pdev.out1 = "full"
  BY DEF LinkInv, IInv, DataOut
<1>2. pdev' = inotify(q, d) /\ UNCHANGED <<bus, host>>
  BY DEF DataOut
<1>3. pdev.pClassData = "usbd_cdc"
  BY <1>1, AtWork
<1>4. /\ SameControl(pdev, d) /\ d.in1 = pdev.in1 /\ Handle(d)
      /\ d.TxState = pdev.TxState /\ d.out1 = "idle"
  BY <1>1, <1>3 DEF Handle, Fields, SameControl, SameEp0, SameDevice
<1> HIDE DEF d, q
<1>5. /\ SameControl(d, pdev') /\ pdev'.in1 = d.in1
      /\ pdev'.TxState = d.TxState /\ pdev'.out1 \in {"idle", "armed"}
  BY <1>2, <1>4, Receives
<1>6. SameControl(pdev, pdev')
  BY <1>4, <1>5, ControlTransitive
<1>7. IInv'
  BY <1>1, <1>2, <1>6, BulkKeepsIInv
<1> QED BY <1>4, <1>5, <1>6, <1>7 DEF LinkInv, Sending, SameControl

LEMMA HostLink ==
  ASSUME LinkInv, HostSends \/ HostTakes
  PROVE  LinkInv'
<1>1. Handle(pdev) /\ IInv
  BY DEF LinkInv, IInv
<1>2. CASE HostSends
  <2>1. /\ pdev.out1 = "armed" /\ pdev' = [pdev EXCEPT !.out1 = "full"]
        /\ UNCHANGED <<bus, host>>
    BY <1>2 DEF HostSends
  <2>2. pdev.pClassData = "usbd_cdc"
    BY <1>1, <2>1, AtWork
  <2>3. /\ SameControl(pdev, pdev') /\ pdev'.out1 = "full"
        /\ pdev'.in1 = pdev.in1 /\ pdev'.TxState = pdev.TxState
    BY <1>1, <2>1, <2>2 DEF Handle, Fields, SameControl, SameEp0, SameDevice
  <2>4. IInv'
    BY <1>1, <2>1, <2>3, BulkKeepsIInv
  <2> QED BY <2>3, <2>4 DEF LinkInv, Sending, SameControl
<1>3. CASE HostTakes
  <2> DEFINE n == MinOf(DataPacket, Len(txbuf))
             in == IF n = Len(txbuf) THEN "done" ELSE "busy"
  <2>1. /\ pdev.in1 = "busy" /\ pdev' = [pdev EXCEPT !.in1 = in]
        /\ UNCHANGED <<bus, host>>
    BY <1>3 DEF HostTakes
  <2>2. pdev.pClassData = "usbd_cdc" /\ in \in {"busy", "done"}
    BY <1>1, <2>1, AtWork
  <2> HIDE DEF in
  <2>3. /\ SameControl(pdev, pdev') /\ pdev'.out1 = pdev.out1
        /\ pdev'.in1 = in /\ pdev'.TxState = pdev.TxState
    BY <1>1, <2>1, <2>2 DEF Handle, Fields, SameControl, SameEp0, SameDevice
  <2>4. IInv'
    BY <1>1, <2>1, <2>3, BulkKeepsIInv
  <2> QED BY <2>1, <2>2, <2>3, <2>4 DEF LinkInv, Sending, SameControl
<1> QED BY <1>2, <1>3

\* Where a thread is in put, get or qwait.
Places == {"idle", "retry", "leave", "cleared", "room", "stored", "sleep"}

\* The other steps of a thread are about the rings and its own place.
Quietly ==
  \/ \E t \in Writers : PutFull(t)
  \/ \E t \in Readers : GetEmpty(t)
  \/ \E t \in Threads :
       Qwait(t) \/ QwaitFails(t) \/ Wake(t)

LEMMA QuietlyKeeps ==
  ASSUME Quietly \/ UNCHANGED serialVars
  PROVE  UNCHANGED <<vars, rxq, txq, rxbuf, txbuf, nrx, ntx, lastRead, lastSent>>
  BY DEF Quietly, PutFull, GetEmpty, Qwait, QwaitFails, Wake, serialVars,
         queueVars

LEMMA LinkNext == LinkInv /\ [SerialNext]_serialVars => LinkInv'
<1> SUFFICES ASSUME LinkInv, [SerialNext]_serialVars PROVE LinkInv'
  OBVIOUS
<1>1. CASE Quietly \/ UNCHANGED serialVars
  BY <1>1, QuietlyKeeps DEF LinkInv, IInv, Sending, vars
<1>2. CASE \E t \in Writers : Put(t)
  BY <1>2, PutLink
<1>3. CASE \E t \in Readers : Get(t)
  BY <1>3, GetLink
<1>4. CASE Device \/ HostSends \/ DataOut \/ HostTakes \/ DataIn
  BY <1>4, DeviceLink, HostLink, DataOutLink, DataInLink
<1> QED BY <1>1, <1>2, <1>3, <1>4 DEF SerialNext, Quietly

LEMMA AlwaysLink == SerialSpec => []LinkInv
  BY LinkInit, LinkNext, PTL DEF SerialSpec

\* The transmitter is taken for busy exactly while a transfer is under way
\* (usbd_cdc.c:319, 639), for any number of threads and any sizes.
THEOREM TransmitterMatches == SerialSpec => []TransmitMatches
<1>1. LinkInv => TransmitMatches
  BY DEF LinkInv, Sending, TransmitMatches
<1> QED BY <1>1, AlwaysLink, PTL

\* With data in flight too, the class is loaded exactly while the device is
\* configured.
THEOREM ClassFollowsWithData == SerialSpec => []ClassFollowsState
<1>1. LinkInv => ClassFollowsState
  BY DEF LinkInv, IInv, ClassInv, Loaded, Unloaded, ClassFollowsState
<1> QED BY <1>1, AlwaysLink, PTL

(***************************************************************************)
(* Rings                                                                   *)
(***************************************************************************)
\* Twice around at most.
LEMMA Around ==
  ASSUME NEW b \in Nat \ {0}, NEW a \in 0..(2 * b - 1)
  PROVE  a % b = IF a < b THEN a ELSE a - b
<1> DEFINE p == a \div b
           s == a % b
           z == IF a < b THEN 0 ELSE 1
           r == IF a < b THEN a ELSE a - b
<1>1. p \in Int /\ s \in 0..(b - 1) /\ a = b * p + s
  OBVIOUS
<1>2. z \in Int /\ r \in 0..(b - 1) /\ a = b * z + r
  <2>1. CASE a < b
    <3>1. z = 0 /\ r = a /\ b * 0 = 0
      BY <2>1
    <3> QED BY <2>1, <3>1
  <2>2. CASE ~(a < b)
    <3>1. z = 1 /\ r = a - b /\ b * 1 = b
      BY <2>2
    <3> QED BY <2>2, <3>1
  <2> QED BY <2>1, <2>2
<1> HIDE DEF p, s, z, r
<1>3. b * p + s = b * z + r
  BY <1>1, <1>2
<1>4. s = r
  BY <1>1, <1>2, <1>3, SameRemainder
<1> QED BY <1>4 DEF s, r

\* How far t is from h.
LEMMA Distance ==
  ASSUME NEW b \in Nat \ {0}, NEW h \in 0..(b - 1), NEW t \in 0..(b - 1)
  PROVE  /\ (t - h + b) % b = IF t >= h THEN t - h ELSE t - h + b
         /\ (t - h + b) % b \in 0..(b - 1)
<1> DEFINE a == t - h + b
<1>1. a \in 0..(2 * b - 1)
  OBVIOUS
<1>2. a % b = IF a < b THEN a ELSE a - b
  BY <1>1, Around
<1> QED BY <1>2

\* What is k further than h.
LEMMA Further ==
  ASSUME NEW b \in Nat \ {0}, NEW h \in 0..(b - 1), NEW k \in 0..b
  PROVE  /\ (h + k) % b = IF h + k < b THEN h + k ELSE h + k - b
         /\ (h + k) % b \in 0..(b - 1)
<1> DEFINE a == h + k
<1>1. a \in 0..(2 * b - 1)
  OBVIOUS
<1>2. a % b = IF a < b THEN a ELSE a - b
  BY <1>1, Around
<1> QED BY <1>1, <1>2

\* The end of a stretch of m from h to t, and of n more, up to z.
LEMMA Stretch ==
  ASSUME NEW b \in Nat \ {0}, NEW h \in 0..(b - 1), NEW t \in 0..(b - 1),
         NEW m \in 0..(b - 1), m = IF t >= h THEN t - h ELSE t - h + b,
         NEW n \in Nat, m + n <= b - 1,
         NEW z \in 0..(b - 1), z = IF t + n < b THEN t + n ELSE t + n - b
  PROVE  m + n = IF z >= h THEN z - h ELSE z - h + b
<1>1. CASE t >= h
  BY <1>1
<1>2. CASE ~(t >= h)
  BY <1>2
<1> QED BY <1>1, <1>2

\* The i-th of them is o further than t, or before it.
LEMMA InStretch ==
  ASSUME NEW b \in Nat \ {0}, NEW h \in 0..(b - 1), NEW t \in 0..(b - 1),
         NEW m \in 0..(b - 1), m = IF t >= h THEN t - h ELSE t - h + b,
         NEW n \in Nat, m + n <= b - 1, NEW i \in 1..(m + n),
         NEW a \in 0..(b - 1),
         a = IF h + i - 1 < b THEN h + i - 1 ELSE h + i - 1 - b,
         NEW o \in 0..(b - 1), o = IF a >= t THEN a - t ELSE a - t + b
  PROVE  IF i <= m THEN ~(1 + o <= n) ELSE 1 + o = i - m /\ 1 + o <= n
<1>1. CASE t >= h
  BY <1>1
<1>2. CASE ~(t >= h)
  BY <1>2
<1> QED BY <1>1, <1>2

LEMMA WrapIsNext ==
  ASSUME NEW b \in Nat \ {0}, NEW h \in 0..(b - 1)
  PROVE  Wrap(h, b) = (h + 1) % b /\ Wrap(h, b) \in 0..(b - 1)
<1>1. (h + 1) % b = IF h + 1 < b THEN h + 1 ELSE h + 1 - b
  <2>1. 1 \in 0..b
    OBVIOUS
  <2> QED BY <2>1, Further
<1> QED BY <1>1 DEF Wrap

(***************************************************************************)
(* The queues of characters                                                *)
(***************************************************************************)
Slots == 0..(QueueSize - 1)

Queue == [buf : [Slots -> Nat], head : Slots, tail : Slots]

LEMMA Counted ==
  ASSUME NEW q \in Queue
  PROVE  /\ Count(q) = IF q.tail >= q.head THEN q.tail - q.head
                       ELSE q.tail - q.head + QueueSize
         /\ Count(q) \in 0..(QueueSize - 1)
         /\ Capacity(q) = QueueSize - 1 - Count(q)
         /\ Capacity(q) \in 0..(QueueSize - 1)
         /\ Empty(q) <=> Count(q) = 0
         /\ Full(q) <=> Capacity(q) = 0
<1>1. /\ QueueSize \in Nat \ {0} /\ q.head \in 0..(QueueSize - 1)
      /\ q.tail \in 0..(QueueSize - 1)
  BY QueueAssumption DEF Queue, Slots
<1>2. /\ Count(q) = IF q.tail >= q.head THEN q.tail - q.head
                    ELSE q.tail - q.head + QueueSize
      /\ Count(q) \in 0..(QueueSize - 1)
  BY <1>1, Distance DEF Count
<1>3. /\ Capacity(q) = QueueSize - 1 - Count(q)
      /\ Capacity(q) \in 0..(QueueSize - 1)
  BY <1>1, <1>2 DEF Capacity
<1>4. Empty(q) <=> Count(q) = 0
  BY <1>1, <1>2 DEF Empty
<1>5. Full(q) <=> Capacity(q) = 0
  BY <1>1, <1>2, <1>3 DEF Full
<1> QED BY <1>2, <1>3, <1>4, <1>5

LEMMA ContentsOf ==
  ASSUME NEW q \in Queue
  PROVE  /\ Contents(q) \in Seq(Nat) /\ Len(Contents(q)) = Count(q)
         /\ \A i \in 1..Count(q) :
              /\ (q.head + i - 1) % QueueSize
                   = (IF q.head + i - 1 < QueueSize THEN q.head + i - 1
                      ELSE q.head + i - 1 - QueueSize)
              /\ (q.head + i - 1) % QueueSize \in Slots
              /\ Contents(q)[i] = q.buf[(q.head + i - 1) % QueueSize]
<1>1. /\ QueueSize \in Nat \ {0} /\ q.head \in 0..(QueueSize - 1)
      /\ Count(q) \in 0..(QueueSize - 1)
  BY Counted, QueueAssumption DEF Queue, Slots
<1>2. ASSUME NEW i \in 1..Count(q)
      PROVE  /\ (q.head + i - 1) % QueueSize
                  = (IF q.head + i - 1 < QueueSize THEN q.head + i - 1
                     ELSE q.head + i - 1 - QueueSize)
             /\ (q.head + i - 1) % QueueSize \in Slots
             /\ q.buf[(q.head + i - 1) % QueueSize] \in Nat
  <2> DEFINE k == i - 1
             h == q.head
  <2>1. k \in 0..QueueSize /\ h + k = h + i - 1 /\ h \in 0..(QueueSize - 1)
    BY <1>1
  <2>2. /\ (h + k) % QueueSize = IF h + k < QueueSize THEN h + k
                                 ELSE h + k - QueueSize
        /\ (h + k) % QueueSize \in 0..(QueueSize - 1)
    BY <1>1, <2>1, Further
  <2>3. (q.head + i - 1) % QueueSize = (h + k) % QueueSize
    BY <2>1
  <2>4. q.buf \in [Slots -> Nat]
    BY DEF Queue
  <2>5. (q.head + i - 1) % QueueSize \in Slots
    BY <2>2, <2>3 DEF Slots
  <2> HIDE DEF k
  <2> QED BY <2>1, <2>2, <2>3, <2>4, <2>5
<1>3. /\ Contents(q) \in [1..Count(q) -> Nat]
      /\ \A i \in 1..Count(q) :
           Contents(q)[i] = q.buf[(q.head + i - 1) % QueueSize]
  BY <1>2 DEF Contents
<1>4. Contents(q) \in Seq(Nat)
  <2>1. Seq(Nat) = UNION {[1..n -> Nat] : n \in Nat}
    BY SeqDef
  <2>2. Count(q) \in Nat
    BY <1>1
  <2> QED BY <1>3, <2>1, <2>2, Zenon
<1>5. Len(Contents(q)) = Count(q)
  BY <1>1, <1>3, <1>4, LenProperties
<1> QED BY <1>2, <1>3, <1>4, <1>5

\* Where the i-th of the characters of q, and of n that are put behind them,
\* is seen from the end of q.
LEMMA OffsetIn ==
  ASSUME NEW q \in Queue, NEW n \in Nat, n <= Capacity(q),
         NEW i \in 1..(Count(q) + n),
         NEW o, o = (((q.head + i - 1) % QueueSize) - q.tail + QueueSize)
                      % QueueSize
  PROVE  /\ i <= Count(q) => ~(1 + o <= n)
         /\ ~(i <= Count(q)) => 1 + o = i - Count(q) /\ 1 + o <= n
<1> DEFINE h == q.head
           t == q.tail
           m == Count(q)
           k == i - 1
           a == (h + i - 1) % QueueSize
<1>1. /\ QueueSize \in Nat \ {0} /\ h \in 0..(QueueSize - 1)
      /\ t \in 0..(QueueSize - 1) /\ m \in 0..(QueueSize - 1)
      /\ m = IF t >= h THEN t - h ELSE t - h + QueueSize
      /\ Capacity(q) = QueueSize - 1 - m
  BY Counted, QueueAssumption DEF Queue, Slots
<1> HIDE DEF h, t, m
<1>2. m + n <= QueueSize - 1 /\ k \in 0..QueueSize /\ h + i - 1 = h + k
      /\ i \in 1..(m + n)
  BY <1>1 DEF m
<1>3. /\ a = IF h + i - 1 < QueueSize THEN h + i - 1
             ELSE h + i - 1 - QueueSize
      /\ a \in 0..(QueueSize - 1)
  <2>2. a = (h + k) % QueueSize
    BY <1>2
  <2> HIDE DEF k, a
  <2>1. /\ (h + k) % QueueSize = IF h + k < QueueSize THEN h + k
                                 ELSE h + k - QueueSize
        /\ (h + k) % QueueSize \in 0..(QueueSize - 1)
    BY <1>1, <1>2, Further
  <2> QED BY <1>1, <1>2, <2>1, <2>2
<1> HIDE DEF a, k
<1>4. /\ o = IF a >= t THEN a - t ELSE a - t + QueueSize
      /\ o \in 0..(QueueSize - 1)
  <2>1. o = (a - t + QueueSize) % QueueSize
    BY DEF a, h, t
  <2>2. \A x, y \in 0..(QueueSize - 1) :
          /\ (y - x + QueueSize) % QueueSize
               = IF y >= x THEN y - x ELSE y - x + QueueSize
          /\ (y - x + QueueSize) % QueueSize \in 0..(QueueSize - 1)
    BY <1>1, Distance
  <2>3. a \in 0..(QueueSize - 1) /\ t \in 0..(QueueSize - 1)
    BY <1>1, <1>3
  <2> QED BY <2>1, <2>2, <2>3
<1>5. IF i <= m THEN ~(1 + o <= n) ELSE 1 + o = i - m /\ 1 + o <= n
  BY <1>1, <1>2, <1>3, <1>4, InStretch
<1> QED BY <1>5 DEF m

\* Taking a character takes the first.
LEMMA Popped ==
  ASSUME NEW q \in Queue, ~Empty(q)
  PROVE  /\ Pop(q) \in Queue /\ Count(Pop(q)) = Count(q) - 1
         /\ Count(q) \in Nat \ {0}
         /\ q.buf[q.head] = Contents(q)[1]
         /\ Contents(Pop(q)) = SubSeq(Contents(q), 2, Count(q))
<1> DEFINE p == Pop(q)
           m == Count(q)
<1>1. /\ QueueSize \in Nat \ {0} /\ q.head \in 0..(QueueSize - 1)
      /\ q.tail \in 0..(QueueSize - 1)
      /\ m \in 1..(QueueSize - 1)
      /\ m = IF q.tail >= q.head THEN q.tail - q.head
             ELSE q.tail - q.head + QueueSize
  BY Counted, QueueAssumption DEF Queue, Slots
<1>2. /\ p \in Queue /\ p.tail = q.tail /\ p.head = Wrap(q.head, QueueSize)
      /\ \A i \in Slots : i # q.head => p.buf[i] = q.buf[i]
  <2>1. Wrap(q.head, QueueSize) \in 0..(QueueSize - 1)
    BY <1>1, WrapIsNext
  <2> QED BY <2>1 DEF Pop, Queue, Slots
<1>3. p.head = IF q.head + 1 < QueueSize THEN q.head + 1 ELSE 0
  BY <1>1, <1>2 DEF Wrap
<1>4. Count(p) = m - 1
  <2>1. Count(p) = IF p.tail >= p.head THEN p.tail - p.head
                   ELSE p.tail - p.head + QueueSize
    BY <1>2, Counted
  <2> QED BY <1>1, <1>2, <1>3, <2>1
<1> HIDE DEF p, m
<1>5. /\ Contents(q) \in Seq(Nat) /\ Len(Contents(q)) = m
      /\ Contents(p) \in Seq(Nat) /\ Len(Contents(p)) = m - 1
  BY <1>2, <1>4, ContentsOf DEF m
<1>6. q.buf[q.head] = Contents(q)[1]
  <2>1. 1 \in 1..m /\ q.head + 1 - 1 = q.head
    BY <1>1
  <2>2. /\ (q.head + 1 - 1) % QueueSize
             = (IF q.head + 1 - 1 < QueueSize THEN q.head + 1 - 1
                ELSE q.head + 1 - 1 - QueueSize)
        /\ Contents(q)[1] = q.buf[(q.head + 1 - 1) % QueueSize]
    BY <2>1, ContentsOf DEF m
  <2> QED BY <1>1, <2>1, <2>2
<1>7. ASSUME NEW i \in 1..(m - 1)
      PROVE  Contents(p)[i] = Contents(q)[i + 1]
  <2> DEFINE j == i + 1
             a == (p.head + i - 1) % QueueSize
             b == (q.head + j - 1) % QueueSize
  <2>1. j \in 1..m /\ i \in 1..m
    BY <1>1, <1>7
  <2>2. /\ a = IF p.head + i - 1 < QueueSize THEN p.head + i - 1
               ELSE p.head + i - 1 - QueueSize
        /\ a \in Slots /\ Contents(p)[i] = p.buf[a]
    BY <1>2, <1>4, <1>7, ContentsOf
  <2>3. /\ b = IF q.head + j - 1 < QueueSize THEN q.head + j - 1
               ELSE q.head + j - 1 - QueueSize
        /\ b \in Slots /\ Contents(q)[j] = q.buf[b]
    BY <2>1, ContentsOf DEF m
  <2> HIDE DEF a, b
  <2>4. a = b /\ b # q.head
    BY <1>1, <1>3, <2>1, <2>2, <2>3 DEF Slots
  <2> QED BY <1>2, <2>2, <2>3, <2>4
<1>8. Contents(p) = SubSeq(Contents(q), 2, m)
  <2> DEFINE s == SubSeq(Contents(q), 2, m)
             c == Contents(p)
  <2>0. \A i \in 2..m : Contents(q)[i] \in Nat
    BY <1>1, <1>5, ElementOfSeq
  <2>1. /\ s \in Seq(Nat) /\ Len(s) = IF 2 <= m THEN m - 2 + 1 ELSE 0
        /\ \A i \in 1..(m - 2 + 1) : s[i] = Contents(q)[2 + i - 1]
    BY <1>1, <2>0, SubSeqProperties
  <2>2. Len(s) = m - 1 /\ \A i \in 1..(m - 1) : s[i] = Contents(q)[i + 1]
    BY <1>1, <2>1
  <2> HIDE DEF s, c
  <2>3. c \in Seq(Nat) /\ Len(c) = Len(s) /\ \A i \in 1..Len(c) : c[i] = s[i]
    BY <1>5, <1>7, <2>2 DEF c
  <2>4. c = s
    BY <2>1, <2>3, SeqEqual
  <2> QED BY <2>4 DEF c, s
<1> QED BY <1>1, <1>2, <1>4, <1>6, <1>8 DEF p, m

\* Characters put in are behind what was there.
LEMMA Pushed ==
  ASSUME NEW q \in Queue, NEW s \in Seq(Nat), Len(s) <= Capacity(q)
  PROVE  /\ PushAll(q, s) \in Queue
         /\ Count(PushAll(q, s)) = Count(q) + Len(s)
         /\ Contents(PushAll(q, s)) = Contents(q) \o s
<1> DEFINE p == PushAll(q, s)
           m == Count(q)
           n == Len(s)
           off == [i \in Slots |-> (i - q.tail + QueueSize) % QueueSize]
<1>1. /\ QueueSize \in Nat \ {0} /\ q.head \in 0..(QueueSize - 1)
      /\ q.tail \in 0..(QueueSize - 1)
      /\ m \in 0..(QueueSize - 1)
      /\ m = IF q.tail >= q.head THEN q.tail - q.head
             ELSE q.tail - q.head + QueueSize
      /\ n \in Nat /\ m + n <= QueueSize - 1
  <2>1. n \in Nat /\ QueueSize \in Nat \ {0}
    BY QueueAssumption, LenProperties
  <2>2. /\ Count(q) = IF q.tail >= q.head THEN q.tail - q.head
                      ELSE q.tail - q.head + QueueSize
        /\ Count(q) \in 0..(QueueSize - 1)
        /\ Capacity(q) = QueueSize - 1 - Count(q)
    BY Counted
  <2>3. q.head \in 0..(QueueSize - 1) /\ q.tail \in 0..(QueueSize - 1)
    BY DEF Queue, Slots
  <2> QED BY <2>1, <2>2, <2>3
<1>2. \A i \in Slots : /\ off[i] = IF i >= q.tail THEN i - q.tail
                                   ELSE i - q.tail + QueueSize
                       /\ off[i] \in 0..(QueueSize - 1)
  BY <1>1, Distance DEF Slots
<1> DEFINE end == (q.tail + n) % QueueSize
<1>3. /\ end = IF q.tail + n < QueueSize THEN q.tail + n
               ELSE q.tail + n - QueueSize
      /\ end \in 0..(QueueSize - 1)
  <2>1. n \in 0..QueueSize
    BY <1>1
  <2> HIDE DEF n
  <2> QED BY <1>1, <2>1, Further
<1> DEFINE new == [i \in Slots |-> IF 1 + off[i] <= n THEN s[1 + off[i]]
                                   ELSE q.buf[i]]
<1>4. p = [q EXCEPT !.buf = new, !.tail = end]
  <2>1. DOMAIN q.buf = Slots
    BY DEF Queue
  <2> QED BY <2>1 DEF PushAll
<1>11. \A i \in Slots :
         new[i] = IF 1 + off[i] <= n THEN s[1 + off[i]] ELSE q.buf[i]
  OBVIOUS
<1> HIDE DEF p, m, n, off, end
<1>5. /\ p \in Queue /\ p.head = q.head
      /\ p.tail = end /\ p.buf = new
  <2>1. ASSUME NEW i \in Slots PROVE new[i] \in Nat
    <3> DEFINE k == 1 + off[i]
    <3>1. k \in Nat \ {0}
      BY <1>1, <1>2
    <3>2. new[i] = IF k <= n THEN s[k] ELSE q.buf[i]
      BY <1>11
    <3> HIDE DEF k
    <3>3. k <= n => s[k] \in Nat
      BY <1>1, <3>1, ElementOfSeq DEF n
    <3> QED BY <3>2, <3>3 DEF Queue
  <2>2. new \in [Slots -> Nat]
    BY <2>1
  <2>3. end \in Slots
    BY <1>3 DEF Slots
  <2> HIDE DEF new
  <2> QED BY <1>4, <2>2, <2>3 DEF Queue
<1>6. Count(p) = m + n
  <2>1. Count(p) = IF p.tail >= p.head THEN p.tail - p.head
                   ELSE p.tail - p.head + QueueSize
    BY <1>5, Counted
  <2> DEFINE h == q.head
             t == q.tail
  <2>2. /\ h \in 0..(QueueSize - 1) /\ t \in 0..(QueueSize - 1)
        /\ m = IF t >= h THEN t - h ELSE t - h + QueueSize
        /\ end = IF t + n < QueueSize THEN t + n ELSE t + n - QueueSize
        /\ Count(p) = IF end >= h THEN end - h ELSE end - h + QueueSize
    BY <1>1, <1>3, <1>5, <2>1
  <2> HIDE DEF h, t
  <2>3. m + n = IF end >= h THEN end - h ELSE end - h + QueueSize
    <3>1. \A x, y, u, w \in 0..(QueueSize - 1) : \A k \in Nat :
            /\ u = IF y >= x THEN y - x ELSE y - x + QueueSize
            /\ u + k <= QueueSize - 1
            /\ w = IF y + k < QueueSize THEN y + k ELSE y + k - QueueSize
            => u + k = IF w >= x THEN w - x ELSE w - x + QueueSize
      BY <1>1, Stretch
    <3>2. /\ m \in 0..(QueueSize - 1) /\ n \in Nat /\ m + n <= QueueSize - 1
          /\ end \in 0..(QueueSize - 1)
      BY <1>1, <1>3
    <3> QED BY <2>2, <3>1, <3>2
  <2> QED BY <2>2, <2>3
<1> HIDE DEF new
<1> DEFINE c == Contents(p)
           d == Contents(q) \o s
<1>7. c \in Seq(Nat) /\ Len(c) = m + n
  BY <1>5, <1>6, ContentsOf
<1>8. /\ d \in Seq(Nat) /\ Len(d) = m + n
      /\ \A i \in 1..(m + n) :
           d[i] = IF i <= m THEN Contents(q)[i] ELSE s[i - m]
  <2>1. Contents(q) \in Seq(Nat) /\ Len(Contents(q)) = m
    BY ContentsOf DEF m
  <2> QED BY <2>1, ConcatProperties DEF n
<1>9. ASSUME NEW i \in 1..(m + n)
      PROVE  c[i] = d[i]
  <2> DEFINE a == (q.head + i - 1) % QueueSize
  <2>1. /\ a = IF q.head + i - 1 < QueueSize THEN q.head + i - 1
               ELSE q.head + i - 1 - QueueSize
        /\ a \in Slots /\ c[i] = new[a]
    BY <1>5, <1>6, ContentsOf
  <2>2. ASSUME i <= m
        PROVE  Contents(q)[i] = q.buf[a]
    <3>1. i \in 1..Count(q)
      BY <1>1, <2>2 DEF m
    <3> QED BY <3>1, ContentsOf
  <2> DEFINE o == off[a]
  <2>5. o = (a - q.tail + QueueSize) % QueueSize
    BY <2>1 DEF off
  <2> HIDE DEF o
  <2>7. /\ i <= m => ~(1 + o <= n)
        /\ ~(i <= m) => 1 + o = i - m /\ 1 + o <= n
    <3>1. i \in 1..(Count(q) + n) /\ n \in Nat /\ n <= Capacity(q)
      BY <1>1, <1>9 DEF m, n
    <3> QED BY <2>5, <3>1, OffsetIn DEF m
  <2> HIDE DEF a
  <2>3. CASE i <= m
    <3>1. ~(1 + o <= n)
      BY <2>3, <2>7
    <3> QED BY <1>8, <1>11, <2>1, <2>2, <2>3, <3>1 DEF o
  <2>4. CASE ~(i <= m)
    <3>1. 1 + o = i - m /\ 1 + o <= n
      BY <2>4, <2>7
    <3> QED BY <1>8, <1>11, <2>1, <2>4, <3>1 DEF o
  <2> QED BY <2>3, <2>4
<1>10. c = d
  <2> HIDE DEF c, d
  <2> QED BY <1>7, <1>8, <1>9, SeqEqual
<1> QED BY <1>5, <1>6, <1>10 DEF p, m, n

\* A put is one of them.
LEMMA PushIsOne ==
  ASSUME NEW q \in Queue, NEW k \in Nat, ~Full(q)
  PROVE  /\ Push(q, k) \in Queue /\ Count(Push(q, k)) = Count(q) + 1
         /\ Contents(Push(q, k)) = Contents(q) \o <<k>>
<1> DEFINE s == <<k>>
           off == [i \in Slots |-> (i - q.tail + QueueSize) % QueueSize]
           p == PushAll(q, s)
           r == Push(q, k)
<1>1. /\ QueueSize \in Nat \ {0} /\ q.tail \in 0..(QueueSize - 1)
      /\ Capacity(q) \in 0..(QueueSize - 1) /\ Capacity(q) # 0
  BY Counted, QueueAssumption DEF Queue, Slots
<1>2. s \in Seq(Nat) /\ Len(s) = 1 /\ Len(s) <= Capacity(q) /\ s[1] = k
  BY <1>1
<1>3. p = r
  <2> DEFINE new == [i \in Slots |-> IF 1 + off[i] <= Len(s)
                                     THEN s[1 + off[i]] ELSE q.buf[i]]
             old == [q.buf EXCEPT ![q.tail] = k]
  <2>1. q.buf \in [Slots -> Nat] /\ DOMAIN q.buf = Slots
    BY DEF Queue
  <2>2. /\ p = [q EXCEPT !.buf = new, !.tail = (q.tail + Len(s)) % QueueSize]
        /\ r = [q EXCEPT !.buf = old, !.tail = Wrap(q.tail, QueueSize)]
    BY <2>1 DEF PushAll, Push
  <2>3. \A i \in Slots : /\ off[i] = IF i >= q.tail THEN i - q.tail
                                     ELSE i - q.tail + QueueSize
                         /\ off[i] \in 0..(QueueSize - 1)
    BY <1>1, Distance DEF Slots
  <2>4. ASSUME NEW i \in Slots
        PROVE  new[i] = old[i]
    <3>1. new[i] = IF 1 + off[i] <= Len(s) THEN s[1 + off[i]] ELSE q.buf[i]
      OBVIOUS
    <3> HIDE DEF new, off
    <3>2. CASE i = q.tail
      <4>1. off[i] = 0
        BY <1>1, <2>3, <3>2
      <4> QED BY <1>2, <2>1, <3>1, <3>2, <4>1
    <3>3. CASE i # q.tail
      <4>1. ~(1 + off[i] <= 1)
        BY <1>1, <2>3, <3>3 DEF Slots
      <4> QED BY <1>2, <2>1, <3>1, <3>3, <4>1
    <3> QED BY <3>2, <3>3
  <2>5. (q.tail + Len(s)) % QueueSize = Wrap(q.tail, QueueSize)
    BY <1>1, <1>2, WrapIsNext
  <2>6. new = old
    <3>1. DOMAIN new = Slots /\ DOMAIN old = Slots
      BY <2>1
    <3> QED BY <2>1, <2>4
  <2> HIDE DEF new, old
  <2> QED BY <2>2, <2>5, <2>6
<1> HIDE DEF p, r
<1>4. p \in Queue /\ Count(p) = Count(q) + 1 /\ Contents(p) = Contents(q) \o s
  BY <1>2, Pushed DEF p
<1> QED BY <1>3, <1>4 DEF r

LEMMA DrainedIsEmpty ==
  ASSUME NEW q \in Queue
  PROVE  Drained(q) \in Queue /\ Contents(Drained(q)) = <<>>
<1> DEFINE p == Drained(q)
<1>1. p \in Queue /\ p.head = p.tail
  BY DEF Drained, Queue
<1>2. Empty(p)
  BY <1>1 DEF Empty
<1>3. Count(p) = 0
  BY <1>1, <1>2, Counted
<1> HIDE DEF p
<1>4. Contents(p) \in Seq(Nat) /\ Len(Contents(p)) = 0
  BY <1>1, <1>3, ContentsOf
<1>5. Contents(p) = <<>>
  BY <1>4, EmptySeq
<1> QED BY <1>1, <1>5 DEF p

LEMMA EmptyQueueTyped == EmptyQueue \in Queue /\ Contents(EmptyQueue) = <<>>
<1>1. EmptyQueue \in Queue /\ EmptyQueue.head = EmptyQueue.tail
  BY QueueAssumption DEF EmptyQueue, Queue, Slots
<1>2. Empty(EmptyQueue)
  BY <1>1 DEF Empty
<1>3. Contents(EmptyQueue) \in Seq(Nat) /\ Len(Contents(EmptyQueue)) = 0
  BY <1>1, <1>2, Counted, ContentsOf
<1> QED BY <1>1, <1>3, EmptySeq

(***************************************************************************)
(* The queues, the buffers behind them and the endpoints                   *)
(***************************************************************************)
QueuesTyped ==
  /\ rxq \in Queue /\ txq \in Queue
  /\ rxbuf \in Seq(Nat) /\ txbuf \in Seq(Nat)
  /\ nrx \in Nat /\ ntx \in Nat /\ lastRead \in Nat /\ lastSent \in Nat

\* A packet waits in rxbuf only behind its interrupt, and only the first one
\* after the class was loaded may find no room; what is sent is in txbuf.
BuffersFollow ==
  /\ pdev.out1 # "full" => rxbuf = <<>>
  /\ Len(rxbuf) <= DataPacket
  /\ pdev.out1 # "idle" /\ pdev.RxState # 0 => Capacity(rxq) >= DataPacket
  /\ pdev.in1 = "busy" => txbuf # <<>>

DataInv == LinkInv /\ QueuesTyped /\ BuffersFollow

LEMMA DataInit == SerialInit => DataInv
<1> SUFFICES ASSUME SerialInit PROVE DataInv
  OBVIOUS
<1>1. rxq = EmptyQueue /\ txq = EmptyQueue /\ rxbuf = <<>> /\ txbuf = <<>>
      /\ nrx = 0 /\ ntx = 0 /\ lastRead = 0 /\ lastSent = 0
  BY DEF SerialInit
<1>2. pdev.out1 = "idle" /\ pdev.in1 = "idle"
  BY DEF SerialInit, Init
<1>3. <<>> \in Seq(Nat) /\ Len(<<>>) = 0
  BY EmptySeq
<1>4. Len(rxbuf) <= DataPacket
  BY <1>1, <1>3, QueueAssumption
<1> QED
  BY <1>1, <1>2, <1>3, <1>4, LinkInit, EmptyQueueTyped
     DEF DataInv, QueuesTyped, BuffersFollow

LEMMA DeviceData ==
  ASSUME DataInv, Device
  PROVE  DataInv'
<1>1. Moves(pdev, pdev') /\ LinkInv'
  BY DeviceMoves, DeviceLink DEF DataInv, LinkInv
<1>2. /\ UNCHANGED <<rxq, txq, nrx, ntx, lastRead, lastSent>>
      /\ rxbuf' = IF pdev'.out1 = "full" THEN rxbuf ELSE <<>>
      /\ txbuf' = IF pdev'.in1 = "busy" THEN txbuf ELSE <<>>
  BY DEF Device, Dropped
<1>3. <<>> \in Seq(Nat) /\ Len(<<>>) = 0 /\ 0 <= DataPacket
  BY EmptySeq, QueueAssumption
<1>4. QueuesTyped'
  BY <1>2, <1>3 DEF DataInv, QueuesTyped
<1>5. CASE Quiet(pdev, pdev')
  <2>1. BuffersFollow'
    BY <1>2, <1>3, <1>5 DEF DataInv, BuffersFollow, Quiet, Capacity, Count
  <2> QED BY <1>1, <1>4, <2>1 DEF DataInv
<1>6. CASE Gone(pdev') \/ Anew(pdev, pdev')
  <2>1. pdev'.in1 = "idle" /\ pdev'.out1 # "full"
        /\ (pdev'.out1 # "idle" => pdev'.RxState = 0)
    BY <1>6 DEF Gone, Anew
  <2>2. BuffersFollow'
    BY <1>2, <1>3, <2>1 DEF BuffersFollow
  <2> QED BY <1>1, <1>4, <2>2 DEF DataInv
<1> QED BY <1>1, <1>5, <1>6 DEF Moves

LEMMA PutData ==
  ASSUME DataInv, NEW t, Put(t)
  PROVE  DataInv'
<1> DEFINE k == ntx + 1
           q == Push(txq, k)
<1>1. LinkInv' /\ Handle(pdev) /\ IInv
  BY PutLink DEF DataInv, LinkInv, IInv
<1>2. /\ ~Full(txq) /\ ntx' = k /\ onotify(q, pdev)
      /\ UNCHANGED <<rxq, rxbuf, nrx, lastRead, lastSent>>
  BY DEF Put
<1>3. k \in Nat
  BY DEF DataInv, QueuesTyped
<1> HIDE DEF k
<1>4. q \in Queue
  BY <1>2, <1>3, PushIsOne DEF DataInv, QueuesTyped
<1> HIDE DEF q
<1>5. CASE txq' = q /\ pdev' = pdev /\ UNCHANGED txbuf
  BY <1>1, <1>2, <1>3, <1>4, <1>5
     DEF DataInv, QueuesTyped, BuffersFollow, Capacity, Count
<1>6. CASE txq' = Drained(q) /\ pdev.pClassData = "NULL" /\ pdev' = pdev
           /\ txbuf' = <<>>
  <2>1. pdev.in1 = "idle"
    BY <1>1, <1>6, AtWork
  <2>2. QueuesTyped'
    BY <1>2, <1>3, <1>4, <1>6, DrainedIsEmpty, EmptySeq
       DEF DataInv, QueuesTyped
  <2> QED BY <1>1, <1>2, <1>6, <2>1, <2>2
             DEF DataInv, BuffersFollow, Capacity, Count
<1>7. CASE /\ Count(q) > 0 /\ txq' = Drained(q) /\ CanTransmit(pdev)
           /\ txbuf' = Contents(q)
           /\ pdev' = [pdev EXCEPT !.TxState = 1, !.in1 = "busy"]
  <2>1. pdev'.out1 = pdev.out1 /\ pdev'.RxState = pdev.RxState
    BY <1>1, <1>7, Transmits
  <2>2. Contents(q) \in Seq(Nat) /\ Len(Contents(q)) = Count(q)
    BY <1>4, ContentsOf
  <2>3. txbuf' # <<>>
    BY <1>7, <2>2, EmptySeq
  <2>4. QueuesTyped'
    BY <1>2, <1>3, <1>4, <1>7, <2>2, DrainedIsEmpty DEF DataInv, QueuesTyped
  <2> QED BY <1>1, <1>2, <2>1, <2>3, <2>4
             DEF DataInv, BuffersFollow, Capacity, Count
<1> QED BY <1>2, <1>5, <1>6, <1>7, Notified

LEMMA DataInData ==
  ASSUME DataInv, DataIn
  PROVE  DataInv'
<1> DEFINE d == USBD_CDC_DataIn(pdev)
<1>1. LinkInv' /\ Handle(pdev) /\ IInv /\ pdev.in1 = "done"
  BY DataInLink DEF DataInv, LinkInv, IInv, DataIn
<1>2. /\ onotify(txq, d)
      /\ UNCHANGED <<rxq, rxbuf, nrx, ntx, lastRead, lastSent>>
  BY DEF DataIn
<1>3. pdev.pClassData = "usbd_cdc"
  BY <1>1, AtWork
<1>4. /\ Handle(d) /\ d.in1 = "idle" /\ d.out1 = pdev.out1
      /\ d.RxState = pdev.RxState /\ d.pClassData = "usbd_cdc"
  BY <1>1, <1>3 DEF USBD_CDC_DataIn, Handle, Fields
<1> HIDE DEF d
<1>5. CASE txq' = txq /\ pdev' = d /\ UNCHANGED txbuf
  BY <1>1, <1>2, <1>4, <1>5
     DEF DataInv, QueuesTyped, BuffersFollow, Capacity, Count
<1>6. CASE /\ Count(txq) > 0 /\ txq' = Drained(txq) /\ CanTransmit(d)
           /\ txbuf' = Contents(txq)
           /\ pdev' = [d EXCEPT !.TxState = 1, !.in1 = "busy"]
  <2>1. pdev'.out1 = pdev.out1 /\ pdev'.RxState = pdev.RxState
    BY <1>4, <1>6, Transmits
  <2>2. Contents(txq) \in Seq(Nat) /\ Len(Contents(txq)) = Count(txq)
    BY ContentsOf DEF DataInv, QueuesTyped
  <2>3. txbuf' # <<>>
    BY <1>6, <2>2, EmptySeq
  <2>4. QueuesTyped'
    BY <1>2, <1>6, <2>2, DrainedIsEmpty DEF DataInv, QueuesTyped
  <2> QED BY <1>1, <1>2, <2>1, <2>3, <2>4
             DEF DataInv, BuffersFollow, Capacity, Count
<1> QED BY <1>2, <1>4, <1>5, <1>6, Notified

LEMMA GetData ==
  ASSUME DataInv, NEW t, Get(t)
  PROVE  DataInv'
<1> DEFINE q == Pop(rxq)
<1>1. LinkInv' /\ Handle(pdev) /\ IInv
  BY GetLink DEF DataInv, LinkInv, IInv
<1>2. /\ ~Empty(rxq) /\ lastRead' = rxq.buf[rxq.head] /\ rxq' = q
      /\ pdev' = inotify(q, pdev)
      /\ rxbuf' = IF pdev'.out1 = "full" THEN rxbuf ELSE <<>>
      /\ UNCHANGED <<txq, txbuf, nrx, ntx, lastSent>>
  BY DEF Get
<1>3. q \in Queue /\ Count(q) = Count(rxq) - 1 /\ rxq.buf[rxq.head] \in Nat
  BY <1>2, Popped DEF DataInv, QueuesTyped, Queue
<1>4. /\ Capacity(q) >= Capacity(rxq) /\ Capacity(q) \in Nat
      /\ Capacity(rxq) \in Nat
  <2>1. /\ Capacity(q) = QueueSize - 1 - Count(q)
        /\ Capacity(q) \in 0..(QueueSize - 1)
    BY <1>3, Counted
  <2>2. /\ Capacity(rxq) = QueueSize - 1 - Count(rxq)
        /\ Count(rxq) \in 0..(QueueSize - 1)
        /\ Capacity(rxq) \in 0..(QueueSize - 1)
    BY Counted DEF DataInv, QueuesTyped
  <2> QED BY <1>3, <2>1, <2>2, QueueAssumption
<1> HIDE DEF q
<1>5. QueuesTyped'
  BY <1>2, <1>3, EmptySeq DEF DataInv, QueuesTyped
<1>6. Len(<<>>) = 0 /\ DataPacket \in Nat
  BY EmptySeq, QueueAssumption
<1>7. pdev'.in1 = pdev.in1
  BY <1>1, <1>2, Receives
<1>8. CASE pdev' = pdev
  BY <1>1, <1>2, <1>4, <1>5, <1>6, <1>8 DEF DataInv, BuffersFollow
<1>9. CASE RoomForPacket(q) /\ pdev'.out1 = "armed"
  BY <1>1, <1>2, <1>5, <1>6, <1>7, <1>9
     DEF DataInv, BuffersFollow, RoomForPacket
<1> QED BY <1>1, <1>2, <1>8, <1>9, Receives

\* The packet or what there is room for of it.
LEMMA PacketTaken ==
  ASSUME DataInv, NEW n, n = MinOf(Len(rxbuf), Capacity(rxq)),
         NEW s, s = SubSeq(rxbuf, 1, n), NEW q, q = PushAll(rxq, s)
  PROVE  /\ n \in Nat /\ n <= Len(rxbuf) /\ s \in Seq(Nat) /\ Len(s) = n
         /\ n < Len(rxbuf) => n = Capacity(rxq)
         /\ q \in Queue /\ Contents(q) = Contents(rxq) \o s
<1>1. Capacity(rxq) \in Nat /\ rxbuf \in Seq(Nat) /\ Len(rxbuf) \in Nat
  BY Counted, LenProperties DEF DataInv, QueuesTyped
<1>2. /\ n \in Nat /\ n <= Len(rxbuf) /\ n <= Capacity(rxq)
      /\ n < Len(rxbuf) => n = Capacity(rxq)
  BY <1>1 DEF MinOf
<1>3. s \in Seq(Nat) /\ Len(s) = n
  <2>1. \A i \in 1..n : rxbuf[i] \in Nat
    BY <1>1, <1>2, ElementOfSeq
  <2>2. s \in Seq(Nat) /\ Len(s) = IF 1 <= n THEN n - 1 + 1 ELSE 0
    BY <1>2, <2>1, SubSeqProperties
  <2> QED BY <1>2, <2>2
<1>4. rxq \in Queue
  BY DEF DataInv, QueuesTyped
<1>5. q \in Queue /\ Contents(q) = Contents(rxq) \o s
  BY <1>2, <1>3, <1>4, Pushed
<1> QED BY <1>2, <1>3, <1>5

LEMMA DataOutData ==
  ASSUME DataInv, DataOut
  PROVE  DataInv'
<1> DEFINE d == [pdev EXCEPT !.out1 = "idle", !.RxState = 0]
           n == MinOf(Len(rxbuf), Capacity(rxq))
           s == SubSeq(rxbuf, 1, n)
           q == PushAll(rxq, s)
<1>1. LinkInv' /\ Handle(pdev) /\ IInv /\ pdev.out1 = "full"
  BY DataOutLink DEF DataInv, LinkInv, IInv, DataOut
<1>2. /\ pdev' = inotify(q, d) /\ rxq' = q /\ rxbuf' = <<>>
      /\ UNCHANGED <<txq, txbuf, nrx, ntx, lastRead, lastSent>>
  BY DEF DataOut
<1>3. /\ Handle(d) /\ d.in1 = pdev.in1 /\ d.out1 = "idle"
  BY <1>1 DEF Handle, Fields
<1> HIDE DEF d
<1>4. q \in Queue
  BY PacketTaken
<1> HIDE DEF n, s, q
<1>5. QueuesTyped'
  BY <1>2, <1>4, EmptySeq DEF DataInv, QueuesTyped
<1>6. Len(<<>>) = 0 /\ DataPacket \in Nat
  BY EmptySeq, QueueAssumption
<1>7. pdev'.in1 = pdev.in1
  BY <1>2, <1>3, Receives
<1>8. CASE pdev' = d
  BY <1>1, <1>2, <1>3, <1>5, <1>6, <1>8 DEF DataInv, BuffersFollow
<1>9. CASE RoomForPacket(q) /\ pdev'.out1 = "armed"
  BY <1>1, <1>2, <1>5, <1>6, <1>7, <1>9
     DEF DataInv, BuffersFollow, RoomForPacket
<1> QED BY <1>2, <1>3, <1>8, <1>9, Receives

\* A packet of the host is what it sends next.
LEMMA PacketSent ==
  ASSUME DataInv, NEW n \in 1..DataPacket,
         NEW s, s = [i \in 1..n |-> nrx + i]
  PROVE  s \in Seq(Nat) /\ Len(s) = n /\ n \in Nat \ {0} /\ n <= DataPacket
<1>1. n \in Nat \ {0} /\ n <= DataPacket /\ nrx \in Nat
  BY QueueAssumption DEF DataInv, QueuesTyped
<1>2. s \in [1..n -> Nat]
  BY <1>1
<1>3. s \in Seq(Nat)
  <2>1. Seq(Nat) = UNION {[1..m -> Nat] : m \in Nat}
    BY SeqDef
  <2>2. n \in Nat
    BY <1>1
  <2> QED BY <1>2, <2>1, <2>2, Zenon
<1> QED BY <1>1, <1>2, <1>3, LenProperties

\* The host takes a packet of what is sent, or the rest of it.
LEMMA PacketGot ==
  ASSUME DataInv, pdev.in1 = "busy", NEW n, n = MinOf(DataPacket, Len(txbuf))
  PROVE  /\ n \in 1..Len(txbuf) /\ txbuf[n] \in Nat /\ Len(txbuf) \in Nat
         /\ SubSeq(txbuf, n + 1, Len(txbuf)) \in Seq(Nat)
         /\ n # Len(txbuf) => SubSeq(txbuf, n + 1, Len(txbuf)) # <<>>
         /\ n = Len(txbuf) => SubSeq(txbuf, n + 1, Len(txbuf)) = <<>>
<1>1. txbuf \in Seq(Nat) /\ Len(txbuf) \in Nat \ {0}
  BY EmptySeq DEF DataInv, QueuesTyped, BuffersFollow
<1>2. n \in 1..Len(txbuf)
  BY <1>1, QueueAssumption DEF MinOf
<1>3. txbuf[n] \in Nat
  BY <1>1, <1>2, ElementOfSeq
<1> DEFINE f == n + 1
           l == Len(txbuf)
           s == SubSeq(txbuf, f, l)
<1>4. \A i \in f..l : txbuf[i] \in Nat
  <2>1. \A i \in f..l : i \in 1..Len(txbuf)
    BY <1>1, <1>2
  <2> QED BY <1>1, <2>1, ElementOfSeq
<1>5. f \in Int /\ l \in Int
  BY <1>1, <1>2
<1> HIDE DEF f, l
<1>6. s \in Seq(Nat) /\ Len(s) = IF f <= l THEN l - f + 1 ELSE 0
  BY <1>4, <1>5, SubSeqProperties
<1> HIDE DEF s
<1>7. n # Len(txbuf) => s # <<>>
  <2>1. n # Len(txbuf) => Len(s) > 0
    BY <1>1, <1>2, <1>6 DEF f, l
  <2> QED BY <2>1, EmptySeq
<1>8. n = Len(txbuf) => s = <<>>
  <2>1. n = Len(txbuf) => Len(s) = 0
    BY <1>1, <1>2, <1>6 DEF f, l
  <2> QED BY <1>6, <2>1, EmptySeq
<1> QED BY <1>1, <1>2, <1>3, <1>6, <1>7, <1>8 DEF s, f, l

LEMMA HostData ==
  ASSUME DataInv, HostSends \/ HostTakes
  PROVE  DataInv'
<1>1. LinkInv' /\ Handle(pdev) /\ IInv
  BY HostLink DEF DataInv, LinkInv, IInv
<1>2. CASE HostSends
  <2>1. PICK n \in 1..DataPacket :
          rxbuf' = [i \in 1..n |-> nrx + i] /\ nrx' = nrx + n
    BY <1>2 DEF HostSends
  <2>2. /\ pdev.out1 = "armed" /\ pdev' = [pdev EXCEPT !.out1 = "full"]
        /\ UNCHANGED <<rxq, txq, txbuf, ntx, lastRead, lastSent>>
    BY <1>2 DEF HostSends
  <2>3. rxbuf' \in Seq(Nat) /\ Len(rxbuf') = n /\ n \in Nat /\ n <= DataPacket
    BY <2>1, PacketSent
  <2>4. nrx' \in Nat
    BY <2>1, <2>3 DEF DataInv, QueuesTyped
  <2>5. /\ pdev'.out1 = "full" /\ pdev'.in1 = pdev.in1
        /\ pdev'.RxState = pdev.RxState
    BY <1>1, <2>2 DEF Handle, Fields
  <2>6. QueuesTyped'
    BY <2>2, <2>3, <2>4 DEF DataInv, QueuesTyped
  <2>7. BuffersFollow'
    BY <2>2, <2>3, <2>5 DEF DataInv, BuffersFollow, Capacity, Count
  <2> QED BY <1>1, <2>6, <2>7 DEF DataInv
<1>3. CASE HostTakes
  <2> DEFINE n == MinOf(DataPacket, Len(txbuf))
             in == IF n = Len(txbuf) THEN "done" ELSE "busy"
  <2>1. /\ pdev.in1 = "busy" /\ pdev' = [pdev EXCEPT !.in1 = in]
        /\ lastSent' = txbuf[n]
        /\ txbuf' = SubSeq(txbuf, n + 1, Len(txbuf))
        /\ UNCHANGED <<rxq, txq, rxbuf, nrx, ntx, lastRead>>
    BY <1>3 DEF HostTakes
  <2>2. /\ txbuf[n] \in Nat /\ txbuf' \in Seq(Nat)
        /\ n # Len(txbuf) => txbuf' # <<>>
    BY <2>1, PacketGot
  <2>3. in = "busy" => n # Len(txbuf)
    OBVIOUS
  <2> HIDE DEF n, in
  <2>4. /\ pdev'.out1 = pdev.out1 /\ pdev'.in1 = in
        /\ pdev'.RxState = pdev.RxState
    BY <1>1, <2>1 DEF Handle, Fields
  <2>5. QueuesTyped'
    BY <2>1, <2>2 DEF DataInv, QueuesTyped
  <2>6. BuffersFollow'
    BY <2>1, <2>2, <2>3, <2>4 DEF DataInv, BuffersFollow, Capacity, Count
  <2> QED BY <1>1, <2>5, <2>6 DEF DataInv
<1> QED BY <1>2, <1>3

LEMMA DataNext == DataInv /\ [SerialNext]_serialVars => DataInv'
<1> SUFFICES ASSUME DataInv, [SerialNext]_serialVars PROVE DataInv'
  OBVIOUS
<1>1. CASE Quietly \/ UNCHANGED serialVars
  <2>1. UNCHANGED <<vars, rxq, txq, rxbuf, txbuf, nrx, ntx, lastRead, lastSent>>
    BY <1>1, QuietlyKeeps
  <2>2. LinkInv'
    BY LinkNext DEF DataInv
  <2> QED BY <2>1, <2>2
             DEF DataInv, QueuesTyped, BuffersFollow, Capacity, Count, vars
<1>2. CASE \E t \in Writers : Put(t)
  BY <1>2, PutData
<1>3. CASE \E t \in Readers : Get(t)
  BY <1>3, GetData
<1>4. CASE Device \/ HostSends \/ DataOut \/ HostTakes \/ DataIn
  BY <1>4, DeviceData, HostData, DataOutData, DataInData
<1> QED BY <1>1, <1>2, <1>3, <1>4 DEF SerialNext, Quietly

LEMMA AlwaysData == SerialSpec => []DataInv
  BY DataInit, DataNext, PTL DEF SerialSpec

(***************************************************************************)
(* The two directions of the port are FIFOs.                               *)
(***************************************************************************)
(* Parts of a concatenation.                                               *)

LEMMA PrefixOf ==
  ASSUME NEW s \in Seq(Nat), NEW t \in Seq(Nat), NEW n \in 0..Len(t)
  PROVE  /\ SubSeq(s \o t, 1, Len(s) + n) = s \o SubSeq(t, 1, n)
         /\ SubSeq(t, 1, n) \in Seq(Nat) /\ Len(SubSeq(t, 1, n)) = n
<1> DEFINE c == s \o t
           m == Len(s) + n
           u == SubSeq(t, 1, n)
           a == SubSeq(c, 1, m)
           b == s \o u
<1>1. /\ c \in Seq(Nat) /\ Len(c) = Len(s) + Len(t)
      /\ \A i \in 1..Len(s) + Len(t) :
           c[i] = IF i <= Len(s) THEN s[i] ELSE t[i - Len(s)]
  BY ConcatProperties
<1>2. Len(s) \in Nat /\ Len(t) \in Nat /\ n \in Nat /\ n <= Len(t)
  BY LenProperties
<1>3. u \in Seq(Nat) /\ Len(u) = n /\ \A i \in 1..n : u[i] = t[i]
  <2>1. \A i \in 1..n : t[i] \in Nat
    BY <1>2, ElementOfSeq
  <2>2. /\ u \in Seq(Nat) /\ Len(u) = IF 1 <= n THEN n - 1 + 1 ELSE 0
        /\ \A i \in 1..(n - 1 + 1) : u[i] = t[1 + i - 1]
    BY <1>2, <2>1, SubSeqProperties
  <2> QED BY <1>2, <2>2
<1>4. m \in Nat /\ m <= Len(c)
  BY <1>1, <1>2
<1> HIDE DEF c, u, m
<1>5. a \in Seq(Nat) /\ Len(a) = m /\ \A i \in 1..m : a[i] = c[i]
  <2>1. \A i \in 1..m : c[i] \in Nat
    BY <1>1, <1>4, ElementOfSeq
  <2>2. /\ a \in Seq(Nat) /\ Len(a) = IF 1 <= m THEN m - 1 + 1 ELSE 0
        /\ \A i \in 1..(m - 1 + 1) : a[i] = c[1 + i - 1]
    BY <1>4, <2>1, SubSeqProperties
  <2> HIDE DEF a
  <2> QED BY <1>4, <2>2
<1>6. /\ b \in Seq(Nat) /\ Len(b) = Len(s) + n
      /\ \A i \in 1..Len(s) + n :
           b[i] = IF i <= Len(s) THEN s[i] ELSE u[i - Len(s)]
  BY <1>3, ConcatProperties
<1> HIDE DEF a, b
<1>7. ASSUME NEW i \in 1..m PROVE a[i] = b[i]
  <2>1. i \in 1..Len(s) + Len(t) /\ i \in 1..Len(s) + n
    BY <1>2, <1>7 DEF m
  <2>2. a[i] = c[i]
    BY <1>5, <1>7
  <2>3. CASE i <= Len(s)
    BY <1>1, <1>6, <2>1, <2>2, <2>3
  <2>4. CASE ~(i <= Len(s))
    <3> DEFINE k == i - Len(s)
    <3>1. k \in 1..n
      BY <1>2, <2>1, <2>4
    <3>2. c[i] = t[k] /\ b[i] = u[k]
      BY <1>1, <1>6, <2>1, <2>4
    <3> HIDE DEF k
    <3> QED BY <1>3, <2>2, <3>1, <3>2
  <2> QED BY <2>3, <2>4
<1>8. a = b
  BY <1>5, <1>6, <1>7, SeqEqual DEF m
<1> QED BY <1>3, <1>8 DEF a, b, c, u, m

LEMMA SuffixOf ==
  ASSUME NEW s \in Seq(Nat), NEW t \in Seq(Nat), NEW n \in 0..Len(s)
  PROVE  SubSeq(s \o t, n + 1, Len(s \o t)) = SubSeq(s, n + 1, Len(s)) \o t
<1> DEFINE c == s \o t
           f == n + 1
           k == Len(s)
           l == Len(c)
           u == SubSeq(s, f, k)
           a == SubSeq(c, f, l)
           b == u \o t
<1>1. /\ c \in Seq(Nat) /\ l = k + Len(t)
      /\ \A i \in 1..k + Len(t) :
           c[i] = IF i <= k THEN s[i] ELSE t[i - k]
  BY ConcatProperties
<1>2. /\ k \in Nat /\ Len(t) \in Nat /\ n \in Nat /\ n <= k
      /\ f \in Nat \ {0} /\ f = n + 1 /\ l \in Nat
  BY <1>1, LenProperties
<1> HIDE DEF c, f, k, l
<1>3. u \in Seq(Nat) /\ Len(u) = k - n /\ \A i \in 1..(k - n) : u[i] = s[i + n]
  <2>1. \A i \in f..k : s[i] \in Nat
    <3>1. \A i \in f..k : i \in 1..Len(s)
      BY <1>2 DEF k
    <3> QED BY <3>1, ElementOfSeq
  <2>2. /\ u \in Seq(Nat) /\ Len(u) = IF f <= k THEN k - f + 1 ELSE 0
        /\ \A i \in 1..(k - f + 1) : u[i] = s[f + i - 1]
    BY <1>2, <2>1, SubSeqProperties
  <2> HIDE DEF u
  <2>3. Len(u) = k - n
    BY <1>2, <2>2
  <2>4. ASSUME NEW i \in 1..(k - n) PROVE u[i] = s[i + n]
    <3>1. i \in 1..(k - f + 1) /\ f + i - 1 = i + n
      BY <1>2
    <3> QED BY <2>2, <3>1
  <2> QED BY <2>2, <2>3, <2>4
<1>4. a \in Seq(Nat) /\ Len(a) = l - n /\ \A i \in 1..(l - n) : a[i] = c[i + n]
  <2>1. \A i \in f..l : c[i] \in Nat
    <3>1. \A i \in f..l : i \in 1..Len(c)
      BY <1>2 DEF l
    <3> QED BY <1>1, <3>1, ElementOfSeq
  <2>2. /\ a \in Seq(Nat) /\ Len(a) = IF f <= l THEN l - f + 1 ELSE 0
        /\ \A i \in 1..(l - f + 1) : a[i] = c[f + i - 1]
    BY <1>2, <2>1, SubSeqProperties
  <2> HIDE DEF a
  <2>3. Len(a) = l - n
    BY <1>1, <1>2, <2>2
  <2>4. ASSUME NEW i \in 1..(l - n) PROVE a[i] = c[i + n]
    <3>1. i \in 1..(l - f + 1) /\ f + i - 1 = i + n
      BY <1>2
    <3> QED BY <2>2, <3>1
  <2> QED BY <2>2, <2>3, <2>4
<1> HIDE DEF a, u
<1>5. /\ b \in Seq(Nat) /\ Len(b) = k - n + Len(t)
      /\ \A i \in 1..(k - n) + Len(t) :
           b[i] = IF i <= k - n THEN u[i] ELSE t[i - (k - n)]
  <2>1. /\ b \in Seq(Nat) /\ Len(b) = Len(u) + Len(t)
        /\ \A i \in 1..Len(u) + Len(t) :
             b[i] = IF i <= Len(u) THEN u[i] ELSE t[i - Len(u)]
    BY <1>3, ConcatProperties
  <2>2. Len(u) = k - n
    BY <1>3
  <2> HIDE DEF b
  <2> QED BY <2>1, <2>2
<1> HIDE DEF b
<1>6. ASSUME NEW i \in 1..(l - n) PROVE a[i] = b[i]
  <2>1. i + n \in 1..k + Len(t) /\ i \in 1..(k - n) + Len(t)
    BY <1>1, <1>2
  <2>2. CASE i <= k - n
    <3>1. i \in 1..(k - n) /\ i + n <= k
      BY <1>2, <2>2
    <3> QED BY <1>1, <1>3, <1>4, <1>5, <2>1, <2>2, <3>1
  <2>3. CASE ~(i <= k - n)
    <3> DEFINE j == i + n
               e == i - (k - n)
    <3>1. ~(j <= k) /\ j - k = e /\ j \in 1..k + Len(t)
      BY <1>1, <1>2, <2>1, <2>3
    <3>2. a[i] = c[j] /\ b[i] = t[e]
      BY <1>4, <1>5, <1>6, <2>1, <2>3
    <3> HIDE DEF j, e
    <3>3. c[j] = t[e]
      BY <1>1, <3>1
    <3> QED BY <3>2, <3>3
  <2> QED BY <2>2, <2>3
<1>7. Len(a) = Len(b) /\ \A i \in 1..Len(a) : a[i] = b[i]
  BY <1>1, <1>2, <1>4, <1>5, <1>6
<1>8. a = b
  BY <1>4, <1>5, <1>7, SeqEqual
<1> QED BY <1>8 DEF a, b, c, f, k, l, u

LEMMA InsideOf ==
  ASSUME NEW s \in Seq(Nat), NEW t \in Seq(Nat), NEW m \in Nat \ {0},
         NEW n \in 0..Len(s)
  PROVE  SubSeq(s \o t, m, n) = SubSeq(s, m, n)
<1>1. Len(s) \in Nat
  BY LenProperties
<1>2. CASE n < m
  BY <1>1, <1>2, SubSeqEmpty
<1>3. CASE ~(n < m)
  <2>1. m \in 1..Len(s) /\ n \in 1..Len(s)
    BY <1>1, <1>3
  <2> QED BY <2>1, SubSeqOfConcat1
<1> QED BY <1>2, <1>3

(* What the host has sent and no thread has read.                          *)
Received == Contents(rxq) \o rxbuf

RxLink ==
  IF pdev.pClassData = "NULL" THEN "down"
  ELSE IF pdev.RxState = 0 /\ pdev.out1 # "idle" THEN "fresh" ELSE "up"

RxStep == [RxPipe!Next]_(RxPipe!pipeVars)

LEMMA RxStutters ==
  ASSUME Received' = Received, nrx' = nrx, lastRead' = lastRead
  PROVE  RxStep
<1>1. CASE RxLink' = RxLink
  BY <1>1 DEF RxStep, RxPipe!pipeVars, Received, RxLink
<1>2. CASE RxLink' # RxLink
  BY <1>2 DEF RxStep, RxPipe!Next, RxPipe!LinkChange, Received, RxLink
<1> QED BY <1>1, <1>2

LEMMA RxAccepts ==
  ASSUME nrx' > nrx, lastRead' = lastRead,
         Received' = Received \o [i \in 1..(nrx' - nrx) |-> nrx + i]
  PROVE  RxStep
  BY DEF RxStep, RxPipe!Next, RxPipe!Accept, Received

LEMMA RxDelivers ==
  ASSUME NEW n \in 1..Len(Received),
         Received' = SubSeq(Received, n + 1, Len(Received)),
         lastRead' = Received[n], nrx' = nrx
  PROVE  RxStep
  BY DEF RxStep, RxPipe!Next, RxPipe!Deliver, Received

LEMMA RxLoses ==
  ASSUME NEW i \in 1..Len(Received), NEW j \in 1..Len(Received), i <= j,
         Received' = SubSeq(Received, 1, i - 1)
                     \o SubSeq(Received, j + 1, Len(Received)),
         RxLink # "up" \/ RxLink' = "down", nrx' = nrx, lastRead' = lastRead
  PROVE  RxStep
  BY DEF RxStep, RxPipe!Next, RxPipe!Lose, Received, RxLink

LEMMA RxDeliversAndLoses ==
  ASSUME RxLink = "fresh", Len(Received) > 0, lastRead' = Head(Received),
         NEW n \in 1..Len(Received), Received' = SubSeq(Received, 2, n),
         nrx' = nrx
  PROVE  RxStep
  BY DEF RxStep, RxPipe!Next, RxPipe!DeliverAndLose, Received, RxLink

(* What threads have written and the host has not got.                     *)
InTransfer == IF pdev.in1 = "busy" THEN txbuf ELSE <<>>

Sent == InTransfer \o Contents(txq)

TxLink == IF pdev.pClassData = "NULL" THEN "down" ELSE "up"

TxStep == [TxPipe!Next]_(TxPipe!pipeVars)

LEMMA TxStutters ==
  ASSUME Sent' = Sent, ntx' = ntx, lastSent' = lastSent
  PROVE  TxStep
<1>1. CASE TxLink' = TxLink
  BY <1>1 DEF TxStep, TxPipe!pipeVars, Sent, InTransfer, TxLink
<1>2. CASE TxLink' # TxLink
  BY <1>2 DEF TxStep, TxPipe!Next, TxPipe!LinkChange, Sent, InTransfer, TxLink
<1> QED BY <1>1, <1>2

LEMMA TxAccepts ==
  ASSUME ntx' > ntx, lastSent' = lastSent,
         Sent' = Sent \o [i \in 1..(ntx' - ntx) |-> ntx + i]
  PROVE  TxStep
  BY DEF TxStep, TxPipe!Next, TxPipe!Accept, Sent, InTransfer

LEMMA TxDelivers ==
  ASSUME NEW n \in 1..Len(Sent), Sent' = SubSeq(Sent, n + 1, Len(Sent)),
         lastSent' = Sent[n], ntx' = ntx
  PROVE  TxStep
  BY DEF TxStep, TxPipe!Next, TxPipe!Deliver, Sent, InTransfer

LEMMA TxLoses ==
  ASSUME NEW i \in 1..Len(Sent), NEW j \in 1..Len(Sent), i <= j,
         Sent' = SubSeq(Sent, 1, i - 1) \o SubSeq(Sent, j + 1, Len(Sent)),
         TxLink # "up" \/ TxLink' = "down", ntx' = ntx, lastSent' = lastSent
  PROVE  TxStep
  BY DEF TxStep, TxPipe!Next, TxPipe!Lose, Sent, InTransfer, TxLink

LEMMA TxAcceptsAndLoses ==
  ASSUME TxLink = "down", ntx' > ntx, Sent' = <<>>, lastSent' = lastSent
  PROVE  TxStep
  BY DEF TxStep, TxPipe!Next, TxPipe!AcceptAndLose, Sent, InTransfer, TxLink

(* The steps of the receiver.                                              *)

LEMMA PrimedContents ==
  /\ Contents(rxq)' = Contents(rxq') /\ Contents(txq)' = Contents(txq')
  BY DEF Contents, Count

LEMMA ReceivedTyped ==
  ASSUME DataInv
  PROVE  /\ Contents(rxq) \in Seq(Nat) /\ Len(Contents(rxq)) = Count(rxq)
         /\ Count(rxq) \in Nat /\ rxbuf \in Seq(Nat) /\ Len(rxbuf) \in Nat
         /\ Received \in Seq(Nat) /\ Len(Received) = Count(rxq) + Len(rxbuf)
<1>1. rxq \in Queue /\ rxbuf \in Seq(Nat)
  BY DEF DataInv, QueuesTyped
<1>2. /\ Contents(rxq) \in Seq(Nat) /\ Len(Contents(rxq)) = Count(rxq)
      /\ Count(rxq) \in Nat
  BY <1>1, ContentsOf, LenProperties
<1>3. Received \in Seq(Nat) /\ Len(Received) = Count(rxq) + Len(rxbuf)
  BY <1>1, <1>2, ConcatProperties DEF Received
<1> QED BY <1>1, <1>2, <1>3, LenProperties

LEMMA SentTyped ==
  ASSUME DataInv
  PROVE  /\ Contents(txq) \in Seq(Nat) /\ Len(Contents(txq)) = Count(txq)
         /\ Count(txq) \in Nat
         /\ InTransfer \in Seq(Nat) /\ Len(InTransfer) \in Nat
         /\ Sent \in Seq(Nat) /\ Len(Sent) = Len(InTransfer) + Count(txq)
<1>1. txq \in Queue /\ InTransfer \in Seq(Nat)
  BY EmptySeq DEF DataInv, QueuesTyped, InTransfer
<1>2. /\ Contents(txq) \in Seq(Nat) /\ Len(Contents(txq)) = Count(txq)
      /\ Count(txq) \in Nat
  BY <1>1, ContentsOf, LenProperties
<1>3. Sent \in Seq(Nat) /\ Len(Sent) = Len(InTransfer) + Count(txq)
  BY <1>1, <1>2, ConcatProperties DEF Sent
<1> QED BY <1>1, <1>2, <1>3, LenProperties

\* What does not touch the queue and the packet behind it.
LEMMA RxAlone ==
  ASSUME UNCHANGED <<rxq, rxbuf, nrx, lastRead>>
  PROVE  RxStep
<1>1. Received' = Received
  BY DEF Received, Contents, Count
<1> QED BY <1>1, RxStutters

\* The end of a packet for which there was no room is lost.
LEMMA RestIsLost ==
  ASSUME DataInv, NEW n \in 0..Len(rxbuf), n # Len(rxbuf),
         Received' = Contents(rxq) \o SubSeq(rxbuf, 1, n),
         RxLink # "up" \/ RxLink' = "down", nrx' = nrx, lastRead' = lastRead
  PROVE  RxStep
<1> DEFINE i == Count(rxq) + n + 1
           j == Count(rxq) + Len(rxbuf)
<1>1. /\ Contents(rxq) \in Seq(Nat) /\ Len(Contents(rxq)) = Count(rxq)
      /\ Count(rxq) \in Nat /\ rxbuf \in Seq(Nat) /\ Len(rxbuf) \in Nat
      /\ Len(Received) = j
  BY ReceivedTyped
<1>2. i \in 1..Len(Received) /\ j \in 1..Len(Received) /\ i <= j
      /\ i - 1 = Count(rxq) + n
  BY <1>1
<1> DEFINE s == SubSeq(rxbuf, 1, n)
           k == Count(rxq) + n
<1>3. /\ SubSeq(Received, 1, k) = Contents(rxq) \o s
      /\ s \in Seq(Nat)
  <2>1. k = Len(Contents(rxq)) + n
    BY <1>1
  <2> HIDE DEF k, s
  <2>2. /\ SubSeq(Contents(rxq) \o rxbuf, 1, Len(Contents(rxq)) + n)
             = Contents(rxq) \o SubSeq(rxbuf, 1, n)
        /\ SubSeq(rxbuf, 1, n) \in Seq(Nat)
    BY <1>1, PrefixOf
  <2> QED BY <2>1, <2>2 DEF Received, s
<1>4. SubSeq(Received, j + 1, j) = <<>>
  <2>1. j + 1 \in Int /\ j \in Int /\ j < j + 1
    BY <1>1
  <2> HIDE DEF j
  <2> QED BY <2>1, SubSeqEmpty
<1> HIDE DEF s, k
<1>5. Contents(rxq) \o s \in Seq(Nat)
  BY <1>1, <1>3, ConcatProperties
<1>6. (Contents(rxq) \o s) \o <<>> = Contents(rxq) \o s
  BY <1>5, ConcatEmptySeq
<1>7. Received' = SubSeq(Received, 1, i - 1)
                  \o SubSeq(Received, j + 1, Len(Received))
  <2>1. SubSeq(Received, 1, i - 1) = Contents(rxq) \o s
    BY <1>2, <1>3 DEF k
  <2>2. SubSeq(Received, j + 1, Len(Received)) = <<>>
    BY <1>1, <1>4
  <2> HIDE DEF i, j
  <2> QED BY <1>6, <2>1, <2>2 DEF s
<1> HIDE DEF i, j
<1> QED BY <1>2, <1>7, RxLoses

LEMMA HostSendsRx ==
  ASSUME DataInv, HostSends
  PROVE  RxStep
<1>1. PICK n \in 1..DataPacket :
        rxbuf' = [i \in 1..n |-> nrx + i] /\ nrx' = nrx + n
  BY DEF HostSends
<1>2. pdev.out1 = "armed" /\ UNCHANGED <<rxq, lastRead>>
  BY DEF HostSends
<1>3. rxbuf = <<>> /\ nrx \in Nat
  BY <1>2 DEF DataInv, BuffersFollow, QueuesTyped
<1>4. n \in Nat \ {0} /\ nrx' > nrx /\ nrx' - nrx = n
  BY <1>1, <1>3, QueueAssumption
<1>5. Contents(rxq) \in Seq(Nat)
  BY ReceivedTyped
<1>6. Received = Contents(rxq)
  BY <1>3, <1>5, ConcatEmptySeq DEF Received
<1>7. Received' = Contents(rxq) \o rxbuf'
  BY <1>2, PrimedContents DEF Received
<1> QED BY <1>1, <1>2, <1>4, <1>6, <1>7, RxAccepts

LEMMA DataOutRx ==
  ASSUME DataInv, DataOut
  PROVE  RxStep
<1> DEFINE n == MinOf(Len(rxbuf), Capacity(rxq))
           s == SubSeq(rxbuf, 1, n)
           q == PushAll(rxq, s)
<1>1. rxq' = q /\ rxbuf' = <<>> /\ UNCHANGED <<nrx, lastRead>>
  BY DEF DataOut
<1>2. /\ n \in Nat /\ n <= Len(rxbuf) /\ s \in Seq(Nat)
      /\ n < Len(rxbuf) => n = Capacity(rxq)
      /\ q \in Queue /\ Contents(q) = Contents(rxq) \o s
  BY PacketTaken
<1> HIDE DEF n, q
<1>3. /\ Contents(rxq) \in Seq(Nat) /\ rxbuf \in Seq(Nat)
      /\ Len(rxbuf) \in Nat
  BY ReceivedTyped
<1>4. Received' = Contents(rxq) \o s
  <2>1. Received' = Contents(q) \o <<>>
    BY <1>1, PrimedContents DEF Received
  <2> HIDE DEF s
  <2>2. Contents(q) \in Seq(Nat)
    BY <1>2, ContentsOf
  <2> QED BY <1>2, <2>1, <2>2, ConcatEmptySeq
<1>5. CASE n = Len(rxbuf)
  <2>1. s = rxbuf
    BY <1>3, <1>5, SubSeqFull
  <2> QED BY <1>1, <1>4, <2>1, RxStutters DEF Received
<1>6. CASE n # Len(rxbuf)
  <2>1. n < Len(rxbuf) /\ n \in 0..Len(rxbuf)
    BY <1>2, <1>3, <1>6
  <2>2. pdev.out1 = "full" /\ IInv
    BY DEF DataOut, DataInv, LinkInv
  <2>3. ~(Capacity(rxq) >= DataPacket)
    BY <1>2, <1>3, <2>1, QueueAssumption DEF DataInv, BuffersFollow
  <2>4. pdev.RxState = 0 /\ pdev.pClassData = "usbd_cdc"
    BY <2>2, <2>3, AtWork DEF DataInv, BuffersFollow
  <2>5. RxLink = "fresh"
    BY <2>2, <2>4 DEF RxLink
  <2> QED BY <1>1, <1>4, <1>6, <2>1, <2>5, RestIsLost
<1> QED BY <1>5, <1>6

LEMMA GetRx ==
  ASSUME DataInv, NEW t, Get(t)
  PROVE  RxStep
<1> DEFINE c == Contents(rxq)
           m == Count(rxq)
           b == rxbuf
           q == Pop(rxq)
<1>1. /\ ~Empty(rxq) /\ lastRead' = rxq.buf[rxq.head] /\ rxq' = q
      /\ pdev' = inotify(q, pdev) /\ nrx' = nrx
      /\ rxbuf' = IF pdev'.out1 = "full" THEN b ELSE <<>>
  BY DEF Get
<1>2. /\ Handle(pdev) /\ IInv /\ rxq \in Queue
      /\ pdev.out1 # "full" => b = <<>>
  BY DEF DataInv, LinkInv, IInv, QueuesTyped, BuffersFollow
<1>3. /\ c \in Seq(Nat) /\ Len(c) = m /\ m \in Nat /\ b \in Seq(Nat)
      /\ Len(b) \in Nat /\ Len(Received) = m + Len(b) /\ Received = c \o b
      /\ Received \in Seq(Nat)
  BY ReceivedTyped DEF Received
<1>4. /\ q \in Queue /\ m # 0 /\ rxq.buf[rxq.head] = c[1]
      /\ Contents(q) = SubSeq(c, 2, m)
  BY <1>1, <1>2, Popped
<1>5. Received' = Contents(q) \o rxbuf'
  BY <1>1, PrimedContents DEF Received
<1>6. /\ \/ pdev' = pdev
         \/ /\ pdev.pClassData # "NULL" /\ pdev.RxState = 0
            /\ pdev'.out1 = "armed"
  BY <1>1, <1>2, Receives
<1> HIDE DEF c, m, b, q
<1>7. Received[1] = c[1] /\ 1 \in 1..Len(Received) /\ Len(Received) > 0
  <2>1. \A i \in 1..Len(c) + Len(b) :
          (c \o b)[i] = IF i <= Len(c) THEN c[i] ELSE b[i - Len(c)]
    BY <1>3, ConcatProperties
  <2>2. 1 \in 1..Len(c) + Len(b) /\ 1 <= Len(c)
    BY <1>3, <1>4
  <2> QED BY <1>3, <2>1, <2>2
<1>8. CASE rxbuf' = b
  <2>1. 1 \in 0..Len(c)
    BY <1>3, <1>4
  <2>2. SubSeq(c \o b, 1 + 1, Len(c \o b)) = SubSeq(c, 1 + 1, Len(c)) \o b
    BY <1>3, <2>1, SuffixOf
  <2>3. Received' = SubSeq(Received, 1 + 1, Len(Received))
    <3>1. 1 + 1 = 2
      OBVIOUS
    <3> QED BY <1>3, <1>4, <1>5, <1>8, <2>2, <3>1
  <2> QED BY <1>1, <1>4, <1>7, <2>3, RxDelivers
<1>9. CASE rxbuf' # b
  <2>1. pdev.out1 = "full" /\ pdev' # pdev /\ rxbuf' = <<>>
    BY <1>1, <1>2, <1>9
  <2>2. RxLink = "fresh"
    BY <1>6, <2>1 DEF RxLink
  <2>3. m \in 1..Len(Received) /\ m \in 0..Len(c) /\ 2 \in Nat \ {0}
    BY <1>3, <1>4
  <2>4. SubSeq(c \o b, 2, m) = SubSeq(c, 2, m)
    BY <1>3, <2>3, InsideOf
  <2>5. Contents(q) \in Seq(Nat)
    BY <1>4, ContentsOf
  <2>6. Received' = SubSeq(Received, 2, m)
    BY <1>3, <1>4, <1>5, <2>1, <2>4, <2>5, ConcatEmptySeq
  <2>7. lastRead' = Head(Received)
    <3>1. /\ Head(SubSeq(Received, 1, Len(Received))) = Received[1]
          /\ SubSeq(Received, 1, Len(Received)) = Received
      <4>1. Len(Received) \in 1..Len(Received)
        BY <1>3, <1>7
      <4> QED BY <1>3, <1>7, <4>1, HeadTailOfSubSeq, SubSeqFull
    <3> QED BY <1>1, <1>4, <1>7, <3>1
  <2> QED BY <1>1, <1>7, <2>2, <2>3, <2>6, <2>7, RxDeliversAndLoses
<1> QED BY <1>8, <1>9

LEMMA DeviceRx ==
  ASSUME MaxConfig = 1, DataInv, Device
  PROVE  RxStep
<1>1. Moves(pdev, pdev') /\ IInv
  BY DeviceMoves DEF DataInv, LinkInv
<1>2. /\ UNCHANGED <<rxq, nrx, lastRead>>
      /\ rxbuf' = IF pdev'.out1 = "full" THEN rxbuf ELSE <<>>
  BY DEF Device, Dropped
<1>3. pdev.out1 # "full" => rxbuf = <<>>
  BY DEF DataInv, BuffersFollow
<1>4. CASE rxbuf' = rxbuf
  BY <1>2, <1>4, RxAlone
<1>5. CASE rxbuf' # rxbuf
  <2>1. rxbuf' = <<>> /\ pdev.out1 = "full" /\ pdev'.out1 # "full"
    BY <1>2, <1>3, <1>5
  <2>2. pdev.pClassData # "NULL"
    BY <1>1, <2>1, AtWork
  <2>3. Gone(pdev')
    BY <1>1, <2>1, <2>2 DEF Moves, Quiet, Anew
  <2>4. RxLink' = "down"
    BY <2>3 DEF RxLink, Gone
  <2>5. /\ Contents(rxq) \in Seq(Nat) /\ rxbuf \in Seq(Nat)
        /\ Len(rxbuf) \in Nat
    BY ReceivedTyped
  <2>6. 0 \in 0..Len(rxbuf) /\ 0 # Len(rxbuf)
    BY <1>5, <2>1, <2>5, EmptySeq
  <2>7. SubSeq(rxbuf, 1, 0) = <<>>
    BY SubSeqEmpty
  <2>8. Received' = Contents(rxq) \o SubSeq(rxbuf, 1, 0)
    BY <1>2, <2>1, <2>7, PrimedContents DEF Received
  <2> QED BY <1>2, <2>4, <2>6, <2>8, RestIsLost
<1> QED BY <1>4, <1>5

LEMMA ReceiveNext ==
  MaxConfig = 1 /\ DataInv /\ [SerialNext]_serialVars => RxStep
<1> SUFFICES ASSUME MaxConfig = 1, DataInv, [SerialNext]_serialVars
             PROVE  RxStep
  OBVIOUS
<1>1. CASE Quietly \/ UNCHANGED serialVars
  BY <1>1, QuietlyKeeps, RxAlone
<1>2. CASE (\E t \in Writers : Put(t)) \/ HostTakes \/ DataIn
  BY <1>2, RxAlone DEF Put, HostTakes, DataIn
<1>3. CASE \E t \in Readers : Get(t)
  BY <1>3, GetRx
<1>4. CASE Device \/ HostSends \/ DataOut
  BY <1>4, DeviceRx, HostSendsRx, DataOutRx
<1> QED BY <1>1, <1>2, <1>3, <1>4 DEF SerialNext, Quietly

LEMMA ReceiveInit == SerialInit => RxPipe!Init
<1> SUFFICES ASSUME SerialInit PROVE RxPipe!Init
  OBVIOUS
<1>1. rxq = EmptyQueue /\ rxbuf = <<>> /\ nrx = 0 /\ lastRead = 0 /\ Init
  BY DEF SerialInit
<1>2. Contents(rxq) \o rxbuf = <<>>
  BY <1>1, EmptyQueueTyped, EmptySeq, ConcatEmptySeq
<1> QED BY <1>1, <1>2 DEF RxPipe!Init, Init

\* What the host sends reaches the readers in order, each character once, and
\* what is lost is lost by a disconnection or with the first packet after one
\* (USBSerial.cpp:27).  With several configurations the class can be unloaded
\* and loaded in one step: there is one (usbd_conf.h:56).
THEOREM ReceivesInOrder ==
  ASSUME MaxConfig = 1
  PROVE  SerialSpec => ReceiveIsFifo
<1>1. DataInv /\ [SerialNext]_serialVars => RxStep
  BY ReceiveNext
<1>2. DataInv /\ [SerialNext]_serialVars => [RxPipe!Next]_(RxPipe!pipeVars)
  BY <1>1 DEF RxStep
<1> QED
  BY <1>2, ReceiveInit, AlwaysData, PTL DEF SerialSpec, ReceiveIsFifo,
     RxPipe!Spec

(* The steps of the transmitter.                                           *)

\* What does not touch the queue and the transfer.
LEMMA TxAlone ==
  ASSUME UNCHANGED <<txq, ntx, lastSent>>, InTransfer' = InTransfer
  PROVE  TxStep
<1>1. Sent' = Sent
  BY PrimedContents DEF Sent
<1> QED BY <1>1, TxStutters

LEMMA PutTx ==
  ASSUME DataInv, NEW t, Put(t)
  PROVE  TxStep
<1> DEFINE k == ntx + 1
           q == Push(txq, k)
           c == Contents(txq)
           s == [i \in 1..(ntx' - ntx) |-> ntx + i]
<1>1. ~Full(txq) /\ ntx' = k /\ onotify(q, pdev) /\ lastSent' = lastSent
  BY DEF Put
<1>2. ntx \in Nat /\ txq \in Queue /\ IInv /\ Sending(pdev)
  BY DEF DataInv, LinkInv, QueuesTyped
<1>3. k \in Nat /\ ntx' > ntx /\ ntx' - ntx = 1
  BY <1>1, <1>2
<1>4. s = <<k>>
  BY <1>2, <1>3
<1> HIDE DEF k
<1>5. q \in Queue /\ Contents(q) = c \o <<k>> /\ Contents(q) \in Seq(Nat)
  BY <1>1, <1>2, <1>3, PushIsOne, ContentsOf
<1>6. /\ c \in Seq(Nat) /\ InTransfer \in Seq(Nat) /\ <<k>> \in Seq(Nat)
  BY <1>3, SentTyped
<1> HIDE DEF q, s, c
<1>7. CASE txq' = q /\ pdev' = pdev /\ UNCHANGED txbuf
  <2>1. Sent' = InTransfer \o (c \o <<k>>)
    BY <1>5, <1>7, PrimedContents DEF Sent, InTransfer
  <2>2. Sent' = Sent \o <<k>>
    BY <1>6, <2>1, ConcatAssociative DEF Sent, c
  <2> QED BY <1>1, <1>3, <1>4, <2>2, TxAccepts DEF s
<1>8. CASE txq' = Drained(q) /\ pdev.pClassData = "NULL" /\ pdev' = pdev
  <2>1. InTransfer' = <<>> /\ TxLink = "down"
    BY <1>2, <1>8, AtWork DEF InTransfer, TxLink
  <2>2. Sent' = <<>>
    BY <1>5, <1>8, <2>1, DrainedIsEmpty, PrimedContents, ConcatEmptySeq,
       EmptySeq DEF Sent
  <2> QED BY <1>1, <1>3, <2>1, <2>2, TxAcceptsAndLoses
<1>9. CASE /\ txq' = Drained(q) /\ CanTransmit(pdev) /\ txbuf' = Contents(q)
           /\ pdev' = [pdev EXCEPT !.TxState = 1, !.in1 = "busy"]
  <2>1. InTransfer = <<>>
    BY <1>2, <1>9 DEF InTransfer, CanTransmit, Sending
  <2>2. Handle(pdev)
    BY <1>2 DEF IInv
  <2>3. pdev'.in1 = "busy"
    BY <1>9, <2>2, Transmits
  <2>4. Sent' = Contents(q)
    BY <1>5, <1>9, <2>3, DrainedIsEmpty, PrimedContents, ConcatEmptySeq
       DEF Sent, InTransfer
  <2>5. Sent = c
    BY <1>6, <2>1, ConcatEmptySeq DEF Sent, c
  <2> QED BY <1>1, <1>3, <1>4, <1>5, <2>4, <2>5, TxAccepts DEF s
<1> QED BY <1>1, <1>7, <1>8, <1>9, Notified

LEMMA DataInTx ==
  ASSUME DataInv, DataIn
  PROVE  TxStep
<1> DEFINE d == USBD_CDC_DataIn(pdev)
<1>1. /\ pdev.in1 = "done" /\ onotify(txq, d)
      /\ UNCHANGED <<ntx, lastSent>>
  BY DEF DataIn
<1>2. IInv /\ Handle(pdev) /\ txq \in Queue
  BY DEF DataInv, LinkInv, IInv, QueuesTyped
<1>3. pdev.pClassData = "usbd_cdc"
  BY <1>1, <1>2, AtWork
<1>4. Handle(d) /\ d.in1 = "idle" /\ d.pClassData = "usbd_cdc"
  BY <1>2, <1>3 DEF USBD_CDC_DataIn, Handle, Fields
<1> HIDE DEF d
<1>5. InTransfer = <<>> /\ Contents(txq) \in Seq(Nat)
  BY <1>1, SentTyped DEF InTransfer
<1>6. CASE txq' = txq /\ pdev' = d /\ UNCHANGED txbuf
  BY <1>1, <1>4, <1>5, <1>6, TxAlone DEF InTransfer
<1>7. CASE /\ txq' = Drained(txq) /\ CanTransmit(d)
           /\ txbuf' = Contents(txq)
           /\ pdev' = [d EXCEPT !.TxState = 1, !.in1 = "busy"]
  <2>1. pdev'.in1 = "busy"
    BY <1>4, <1>7, Transmits
  <2>2. Sent' = Contents(txq)
    BY <1>2, <1>5, <1>7, <2>1, DrainedIsEmpty, PrimedContents, ConcatEmptySeq
       DEF Sent, InTransfer
  <2>3. Sent = Contents(txq)
    BY <1>5, ConcatEmptySeq DEF Sent
  <2> QED BY <1>1, <2>2, <2>3, TxStutters
<1> QED BY <1>1, <1>4, <1>6, <1>7, Notified

LEMMA HostTakesTx ==
  ASSUME DataInv, HostTakes
  PROVE  TxStep
<1> DEFINE n == MinOf(DataPacket, Len(txbuf))
           in == IF n = Len(txbuf) THEN "done" ELSE "busy"
           b == txbuf
           c == Contents(txq)
           r == SubSeq(b, n + 1, Len(b))
<1>1. /\ pdev.in1 = "busy" /\ lastSent' = b[n] /\ txbuf' = r
      /\ pdev' = [pdev EXCEPT !.in1 = in] /\ UNCHANGED <<txq, ntx>>
  BY DEF HostTakes
<1>2. /\ n \in 1..Len(b) /\ Len(b) \in Nat /\ r \in Seq(Nat)
      /\ n = Len(b) => r = <<>>
  BY <1>1, PacketGot
<1>3. Handle(pdev) /\ b \in Seq(Nat)
  BY DEF DataInv, LinkInv, IInv, QueuesTyped
<1> HIDE DEF n
<1>4. pdev'.in1 = in
  <2> HIDE DEF in
  <2> QED BY <1>1, <1>3 DEF Handle, Fields
<1>5. c \in Seq(Nat) /\ Sent = b \o c
  BY <1>1, SentTyped DEF Sent, InTransfer
<1>6. InTransfer' = r
  BY <1>1, <1>2, <1>4 DEF InTransfer
<1>7. Sent' = r \o c
  BY <1>1, <1>6, PrimedContents DEF Sent
<1> HIDE DEF b, c, in
<1>8. n \in 0..Len(b) /\ n \in 1..Len(b) + Len(c) /\ n <= Len(b)
  <2>1. Len(c) \in Nat
    BY <1>5, LenProperties
  <2> QED BY <1>2, <2>1
<1>9. r \o c = SubSeq(b \o c, n + 1, Len(b \o c))
  <2>1. SubSeq(b \o c, n + 1, Len(b \o c)) = SubSeq(b, n + 1, Len(b)) \o c
    BY <1>3, <1>5, <1>8, SuffixOf
  <2> QED BY <2>1
<1>10. (b \o c)[n] = b[n] /\ n \in 1..Len(b \o c)
  <2>1. /\ Len(b \o c) = Len(b) + Len(c)
        /\ \A i \in 1..Len(b) + Len(c) :
             (b \o c)[i] = IF i <= Len(b) THEN b[i] ELSE c[i - Len(b)]
    BY <1>3, <1>5, ConcatProperties
  <2> QED BY <1>8, <2>1
<1> HIDE DEF r
<1> QED BY <1>1, <1>5, <1>7, <1>9, <1>10, TxDelivers

LEMMA DeviceTx ==
  ASSUME MaxConfig = 1, DataInv, Device
  PROVE  TxStep
<1>1. Moves(pdev, pdev') /\ IInv
  BY DeviceMoves DEF DataInv, LinkInv
<1>2. /\ UNCHANGED <<txq, ntx, lastSent>>
      /\ txbuf' = IF pdev'.in1 = "busy" THEN txbuf ELSE <<>>
  BY DEF Device, Dropped
<1>3. CASE InTransfer' = InTransfer
  BY <1>2, <1>3, TxAlone
<1>4. CASE InTransfer' # InTransfer
  <2>1. pdev.in1 = "busy" \/ pdev'.in1 = "busy"
    BY <1>4 DEF InTransfer
  <2>2. ~Quiet(pdev, pdev')
    BY <1>2, <1>4 DEF Quiet, InTransfer
  <2>3. pdev'.in1 = "idle" /\ pdev.in1 = "busy"
    BY <1>1, <2>1, <2>2 DEF Moves, Gone, Anew
  <2>4. pdev.pClassData # "NULL"
    BY <1>1, <2>3, AtWork
  <2>5. Gone(pdev')
    BY <1>1, <2>2, <2>4 DEF Moves, Anew
  <2>6. TxLink' = "down"
    BY <2>5 DEF TxLink, Gone
  <2> DEFINE b == InTransfer
             c == Contents(txq)
             n == Len(b)
  <2>7. /\ c \in Seq(Nat) /\ b \in Seq(Nat) /\ n \in Nat
        /\ Len(Sent) = n + Count(txq) /\ Count(txq) \in Nat
    BY SentTyped
  <2>8. InTransfer' = <<>>
    BY <2>3 DEF InTransfer
  <2>9. Sent' = c
    BY <1>2, <2>7, <2>8, PrimedContents, ConcatEmptySeq DEF Sent
  <2>10. b # <<>>
    BY <1>4, <2>8
  <2> HIDE DEF b, c
  <2>11. n # 0
    BY <2>7, <2>10, EmptySeq
  <2>12. n \in 0..Len(b)
    BY <2>7
  <2>13. SubSeq(b \o c, n + 1, Len(b \o c)) = SubSeq(b, n + 1, Len(b)) \o c
    BY <2>7, <2>12, SuffixOf
  <2>14. SubSeq(b, n + 1, Len(b)) = <<>>
    <3>1. n + 1 \in Int /\ n \in Int /\ n < n + 1
      BY <2>7
    <3>2. SubSeq(b, n + 1, n) = <<>>
      <4> HIDE DEF n
      <4> QED BY <3>1, SubSeqEmpty
    <3> QED BY <3>2
  <2>15. SubSeq(Sent, 1, 0) = <<>>
    BY SubSeqEmpty
  <2>16. SubSeq(Sent, n + 1, Len(Sent)) = c
    BY <2>7, <2>13, <2>14, ConcatEmptySeq DEF Sent, b, c
  <2>17. Sent' = SubSeq(Sent, 1, 1 - 1) \o SubSeq(Sent, n + 1, Len(Sent))
    <3>1. 1 - 1 = 0
      OBVIOUS
    <3>2. <<>> \o c = c
      BY <2>7, ConcatEmptySeq
    <3> HIDE DEF n
    <3> QED BY <2>9, <2>15, <2>16, <3>1, <3>2
  <2>18. 1 \in 1..Len(Sent) /\ n \in 1..Len(Sent) /\ 1 <= n
    BY <2>7, <2>11
  <2> HIDE DEF n
  <2> QED BY <1>2, <2>6, <2>17, <2>18, TxLoses
<1> QED BY <1>3, <1>4

LEMMA ReceiverTx ==
  ASSUME DataInv, HostSends \/ DataOut \/ \E t \in Readers : Get(t)
  PROVE  TxStep
<1>1. Handle(pdev)
  BY DEF DataInv, LinkInv, IInv
<1>2. UNCHANGED <<txq, ntx, lastSent, txbuf>>
  BY DEF HostSends, DataOut, Get
<1>3. pdev'.in1 = pdev.in1
  <2>1. CASE HostSends
    BY <1>1, <2>1 DEF HostSends, Handle, Fields
  <2>2. CASE DataOut
    <3> DEFINE d == [pdev EXCEPT !.out1 = "idle", !.RxState = 0]
               n == MinOf(Len(rxbuf), Capacity(rxq))
               q == PushAll(rxq, SubSeq(rxbuf, 1, n))
    <3>1. pdev' = inotify(q, d)
      BY <2>2 DEF DataOut
    <3>2. Handle(d) /\ d.in1 = pdev.in1
      BY <1>1 DEF Handle, Fields
    <3> HIDE DEF d, q
    <3> QED BY <3>1, <3>2, Receives
  <2>3. CASE \E t \in Readers : Get(t)
    <3>1. pdev' = inotify(Pop(rxq), pdev)
      BY <2>3 DEF Get
    <3> QED BY <1>1, <3>1, Receives
  <2> QED BY <2>1, <2>2, <2>3
<1> QED BY <1>2, <1>3, TxAlone DEF InTransfer

LEMMA TransmitNext ==
  MaxConfig = 1 /\ DataInv /\ [SerialNext]_serialVars => TxStep
<1> SUFFICES ASSUME MaxConfig = 1, DataInv, [SerialNext]_serialVars
             PROVE  TxStep
  OBVIOUS
<1>1. CASE Quietly \/ UNCHANGED serialVars
  BY <1>1, QuietlyKeeps, TxAlone DEF InTransfer, vars
<1>2. CASE HostSends \/ DataOut \/ \E t \in Readers : Get(t)
  BY <1>2, ReceiverTx
<1>3. CASE \E t \in Writers : Put(t)
  BY <1>3, PutTx
<1>4. CASE Device \/ HostTakes \/ DataIn
  BY <1>4, DeviceTx, HostTakesTx, DataInTx
<1> QED BY <1>1, <1>2, <1>3, <1>4 DEF SerialNext, Quietly

LEMMA TransmitInit == SerialInit => TxPipe!Init
<1> SUFFICES ASSUME SerialInit PROVE TxPipe!Init
  OBVIOUS
<1>1. txq = EmptyQueue /\ txbuf = <<>> /\ ntx = 0 /\ lastSent = 0 /\ Init
  BY DEF SerialInit
<1>2. Contents(txq) = <<>> /\ pdev.in1 = "idle" /\ pdev.pClassData = "NULL"
  BY <1>1, EmptyQueueTyped DEF Init
<1>3. (IF pdev.in1 = "busy" THEN txbuf ELSE <<>>) \o Contents(txq) = <<>>
  BY <1>2, EmptySeq, ConcatEmptySeq
<1> QED BY <1>1, <1>2, <1>3 DEF TxPipe!Init

\* What the threads write reaches the host in order, each character once, and
\* is lost only when the class is unloaded or not loaded yet
\* (USBSerial.cpp:102-122).
THEOREM TransmitsInOrder ==
  ASSUME MaxConfig = 1
  PROVE  SerialSpec => TransmitIsFifo
<1>1. DataInv /\ [SerialNext]_serialVars => [TxPipe!Next]_(TxPipe!pipeVars)
  BY TransmitNext DEF TxStep
<1> QED
  BY <1>1, TransmitInit, AlwaysData, PTL DEF SerialSpec, TransmitIsFifo,
     TxPipe!Spec

(***************************************************************************)
(* The rings of waiting threads                                            *)
(***************************************************************************)
Ring == [slots : [0..(WaitSlots - 1) -> Threads \cup {NoThread}],
         head : 0..(WaitSlots - 1), tail : 0..(WaitSlots - 1)]

RingInv == rxthq \in Ring /\ txthq \in Ring

\* The i-th of a stretch of m is the (i - k)-th of what is left of it after k.
LEMMA RestOfStretch ==
  ASSUME NEW b \in Nat \ {0}, NEW h \in 0..(b - 1), NEW t \in 0..(b - 1),
         NEW m \in 0..(b - 1), m = IF t >= h THEN t - h ELSE t - h + b,
         NEW k \in 0..m,
         NEW g \in 0..(b - 1), g = IF h + k < b THEN h + k ELSE h + k - b
  PROVE  /\ m - k = IF t >= g THEN t - g ELSE t - g + b
         /\ \A i \in k..(m - 1) :
              (IF g + (i - k) < b THEN g + (i - k) ELSE g + (i - k) - b)
                = IF h + i < b THEN h + i ELSE h + i - b
<1>1. CASE t >= h
  BY <1>1
<1>2. CASE ~(t >= h)
  BY <1>2
<1> QED BY <1>1, <1>2

LEMMA WaitingTyped ==
  ASSUME NEW w \in Ring
  PROVE  /\ Waiting(w) = IF w.tail >= w.head THEN w.tail - w.head
                         ELSE w.tail - w.head + WaitSlots
         /\ Waiting(w) \in 0..(WaitSlots - 1)
<1>1. /\ WaitSlots \in Nat \ {0} /\ w.head \in 0..(WaitSlots - 1)
      /\ w.tail \in 0..(WaitSlots - 1)
  BY QueueAssumption DEF Ring
<1> QED BY <1>1, Distance DEF Waiting

\* A thread that is taken off is signalled.
LEMMA TakenIsSignalled ==
  ASSUME NEW w \in Ring, NEW n \in Nat, NEW r, r = ThqGet(w, n)
  PROVE  /\ r \in Ring
         /\ \A t \in Threads :
              InRing(w, t) /\ ~InRing(r, t) => t \in Signalled(w, n)
<1> DEFINE b == WaitSlots
           h == w.head
           m == Waiting(w)
           k == MinOf(n, m)
           g == (h + k) % b
<1>1. /\ b \in Nat \ {0} /\ h \in 0..(b - 1) /\ w.tail \in 0..(b - 1)
      /\ m \in 0..(b - 1)
      /\ m = IF w.tail >= h THEN w.tail - h ELSE w.tail - h + b
  BY WaitingTyped, QueueAssumption DEF Ring
<1> HIDE DEF m
<1>2. k \in 0..m /\ k \in 0..b
  BY <1>1 DEF MinOf
<1> HIDE DEF k, b, h
<1>3. g \in 0..(b - 1) /\ g = IF h + k < b THEN h + k ELSE h + k - b
  BY <1>1, <1>2, Further
<1>4. r = [w EXCEPT !.head = g]
  BY DEF ThqGet, b, h, k, m
<1> HIDE DEF g
<1>5. /\ r \in Ring /\ r.head = g /\ r.tail = w.tail /\ r.slots = w.slots
  BY <1>3, <1>4 DEF Ring, b
<1>6. /\ m - k = IF w.tail >= g THEN w.tail - g ELSE w.tail - g + b
      /\ \A i \in k..(m - 1) :
           (IF g + (i - k) < b THEN g + (i - k) ELSE g + (i - k) - b)
             = IF h + i < b THEN h + i ELSE h + i - b
  <2> DEFINE t == w.tail
  <2>1. t \in 0..(b - 1) /\ m = IF t >= h THEN t - h ELSE t - h + b
    BY <1>1
  <2> HIDE DEF t
  <2>2. /\ m - k = IF t >= g THEN t - g ELSE t - g + b
        /\ \A i \in k..(m - 1) :
             (IF g + (i - k) < b THEN g + (i - k) ELSE g + (i - k) - b)
               = IF h + i < b THEN h + i ELSE h + i - b
    BY <1>1, <1>2, <1>3, <2>1, RestOfStretch
  <2> QED BY <2>2 DEF t
<1>7. Waiting(r) = m - k
  BY <1>5, <1>6, WaitingTyped DEF b
<1>8. ASSUME NEW t \in Threads, InRing(w, t), ~InRing(r, t)
      PROVE  t \in Signalled(w, n)
  <2>1. PICK i \in 0..(b - 1) : i < m /\ w.slots[(h + i) % b] = t
    BY <1>8 DEF InRing, b, h, m
  <2>2. CASE i < k
    <3>1. i \in 0..(k - 1)
      BY <1>1, <1>2, <2>1, <2>2
    <3>2. t # NoThread
      BY ThreadAssumption DEF Threads
    <3> QED BY <2>1, <3>1, <3>2 DEF Signalled, b, h, k, m
  <2>3. CASE ~(i < k)
    <3> DEFINE j == i - k
    <3>1. /\ i \in k..(m - 1) /\ j \in 0..(b - 1) /\ j < m - k
          /\ i \in 0..b /\ j \in 0..b
      BY <1>1, <1>2, <2>1, <2>3
    <3>2. (h + i) % b = IF h + i < b THEN h + i ELSE h + i - b
      BY <1>1, <3>1, Further
    <3>3. (IF g + j < b THEN g + j ELSE g + j - b)
            = IF h + i < b THEN h + i ELSE h + i - b
      BY <1>6, <3>1
    <3> HIDE DEF j
    <3>4. (g + j) % b = IF g + j < b THEN g + j ELSE g + j - b
      BY <1>1, <1>3, <3>1, Further
    <3>5. r.slots[(r.head + j) % b] = t
      BY <1>5, <2>1, <3>2, <3>3, <3>4
    <3>6. InRing(r, t)
      BY <1>7, <3>1, <3>5 DEF InRing, b
    <3> QED BY <1>8, <3>6
  <2> QED BY <2>2, <2>3
<1> QED BY <1>5, <1>8

\* A ring of waiting threads is left as it is, but for a thread that goes in,
\* or some are taken off it and signalled.
Kept(w, r) == r \in Ring /\ r.head = w.head

TakenOff(w, r, f) ==
  /\ r \in Ring
  /\ \A t \in Threads : InRing(w, t) /\ ~InRing(r, t) => f[t] = 1

LEMMA NotifiedRing ==
  ASSUME RingInv, NEW q, Count(q) \in Nat, NEW d, onotify(q, d)
  PROVE  Kept(txthq, txthq') \/ TakenOff(txthq, txthq', tflags')
<1>1. CASE UNCHANGED txthq
  BY <1>1 DEF RingInv, Kept
<1>2. CASE /\ tflags' = [t \in Threads |->
                IF t \in Signalled(txthq, Count(q)) THEN 1 ELSE tflags[t]]
           /\ txthq' = ThqGet(txthq, Count(q))
  <2>1. /\ txthq' \in Ring
        /\ \A t \in Threads : InRing(txthq, t) /\ ~InRing(txthq', t)
                                => t \in Signalled(txthq, Count(q))
    BY <1>2, TakenIsSignalled DEF RingInv
  <2> QED BY <1>2, <2>1 DEF TakenOff
<1> QED BY <1>1, <1>2, Notified

LEMMA RingKept ==
  ASSUME NEW w \in Ring, NEW t \in Threads,
         NEW r, r \in {w, ThqStore(w, t), ThqAdvance(w)}
  PROVE  Kept(w, r)
<1>1. CASE r = w
  BY <1>1 DEF Kept
<1>2. CASE r = ThqStore(w, t)
  <2>1. r = [w EXCEPT !.slots = [w.slots EXCEPT ![w.tail] = t]]
    BY <1>2 DEF ThqStore
  <2>2. [w.slots EXCEPT ![w.tail] = t]
          \in [0..(WaitSlots - 1) -> Threads \cup {NoThread}]
    BY DEF Ring
  <2> QED BY <2>1, <2>2 DEF Kept, Ring
<1>3. CASE r = ThqAdvance(w)
  <2>1. Wrap(w.tail, WaitSlots) \in 0..(WaitSlots - 1)
    BY QueueAssumption, WrapIsNext DEF Ring
  <2> QED BY <1>3, <2>1 DEF ThqAdvance, Kept, Ring
<1> QED BY <1>1, <1>2, <1>3

LEMMA RxRing ==
  ASSUME DataInv, RingInv, [SerialNext]_serialVars
  PROVE  Kept(rxthq, rxthq') \/ TakenOff(rxthq, rxthq', tflags')
<1>1. CASE UNCHANGED rxthq
  BY <1>1 DEF RingInv, Kept
<1>2. CASE DataOut
  <2> DEFINE n == MinOf(Len(rxbuf), Capacity(rxq))
  <2>1. n \in Nat
    BY PacketTaken
  <2>2. /\ tflags' = [t \in Threads |->
              IF t \in Signalled(rxthq, n) THEN 1 ELSE tflags[t]]
        /\ rxthq' = ThqGet(rxthq, n)
    BY <1>2 DEF DataOut
  <2> HIDE DEF n
  <2>3. /\ rxthq' \in Ring
        /\ \A t \in Threads : InRing(rxthq, t) /\ ~InRing(rxthq', t)
                                => t \in Signalled(rxthq, n)
    BY <2>1, <2>2, TakenIsSignalled DEF RingInv
  <2> QED BY <2>2, <2>3 DEF TakenOff
<1>3. ASSUME NEW t \in Threads, Qwait(t)
      PROVE  Kept(rxthq, rxthq')
  <2>1. rxthq' \in {rxthq, ThqStore(rxthq, t), ThqAdvance(rxthq)}
    BY <1>3 DEF Qwait, SetThq, ThqOf
  <2> QED BY <2>1, RingKept DEF RingInv
<1>4. \/ UNCHANGED rxthq \/ DataOut
      \/ \E t \in Threads : Qwait(t)
  BY DEF SerialNext, Device, HostSends, HostTakes, DataIn, Put, PutFull, Get,
         GetEmpty, QwaitFails, Wake, serialVars, queueVars
<1> QED BY <1>1, <1>2, <1>3, <1>4

LEMMA TxRing ==
  ASSUME DataInv, RingInv, [SerialNext]_serialVars
  PROVE  Kept(txthq, txthq') \/ TakenOff(txthq, txthq', tflags')
<1>1. CASE UNCHANGED txthq
  BY <1>1 DEF RingInv, Kept
<1>2. ASSUME NEW t, Put(t)
      PROVE  Kept(txthq, txthq') \/ TakenOff(txthq, txthq', tflags')
  <2> DEFINE k == ntx + 1
             q == Push(txq, k)
  <2>1. ~Full(txq) /\ onotify(q, pdev)
    BY <1>2 DEF Put
  <2>2. k \in Nat
    BY DEF DataInv, QueuesTyped
  <2> HIDE DEF k
  <2>3. q \in Queue
    BY <2>1, <2>2, PushIsOne DEF DataInv, QueuesTyped
  <2> HIDE DEF q
  <2>4. Count(q) \in Nat
    BY <2>3, ContentsOf, LenProperties
  <2> QED BY <2>1, <2>4, NotifiedRing
<1>3. CASE DataIn
  <2>1. onotify(txq, USBD_CDC_DataIn(pdev)) /\ Count(txq) \in Nat
    BY <1>3, SentTyped DEF DataIn
  <2> QED BY <2>1, NotifiedRing
<1>4. ASSUME NEW t \in Threads, Qwait(t)
      PROVE  Kept(txthq, txthq')
  <2>1. txthq' \in {txthq, ThqStore(txthq, t), ThqAdvance(txthq)}
    BY <1>4 DEF Qwait, SetThq, ThqOf
  <2> QED BY <2>1, RingKept DEF RingInv
<1>5. \/ UNCHANGED txthq \/ DataIn \/ \E t \in Writers : Put(t)
      \/ \E t \in Threads : Qwait(t)
  BY DEF SerialNext, Device, HostSends, HostTakes, DataOut, PutFull, Get,
         GetEmpty, QwaitFails, Wake, serialVars, queueVars
<1> QED BY <1>1, <1>2, <1>3, <1>4, <1>5

LEMMA RingInit == SerialInit => RingInv
<1>1. EmptyThq \in Ring
  BY QueueAssumption DEF EmptyThq, Ring
<1> QED BY <1>1 DEF SerialInit, RingInv

LEMMA RingNext == DataInv /\ RingInv /\ [SerialNext]_serialVars => RingInv'
  BY RxRing, TxRing DEF RingInv, Kept, TakenOff

(***************************************************************************)
(* The order of the characters, and the types                              *)
(***************************************************************************)
\* The characters c in a pipe are some of the a accepted, in order, and none
\* of them is delivered yet.
InOrder(c, a, l) ==
  /\ c \in Seq(Nat) /\ a \in Nat /\ l \in Nat /\ l <= a
  /\ \A i \in 1..Len(c) : l < c[i] /\ c[i] <= a
  /\ \A i, j \in 1..Len(c) : i < j => c[i] < c[j]

LEMMA AcceptKeepsOrder ==
  ASSUME NEW c, NEW a, NEW l, InOrder(c, a, l), NEW b \in Nat, b > a,
         NEW d, d = c \o [i \in 1..(b - a) |-> a + i]
  PROVE  InOrder(d, b, l)
<1> DEFINE n == b - a
           s == [i \in 1..n |-> a + i]
           m == Len(c)
<1>1. /\ c \in Seq(Nat) /\ a \in Nat /\ l \in Nat /\ l <= a /\ m \in Nat
      /\ n \in Nat /\ b = a + n
  BY LenProperties DEF InOrder
<1> HIDE DEF n
<1>2. s \in Seq(Nat) /\ Len(s) = n /\ \A i \in 1..n : s[i] = a + i
  <2>1. s \in [1..n -> Nat]
    BY <1>1
  <2>2. Seq(Nat) = UNION {[1..k -> Nat] : k \in Nat}
    BY SeqDef
  <2>3. s \in Seq(Nat)
    BY <1>1, <2>1, <2>2, Zenon
  <2> QED BY <1>1, <2>1, <2>3, LenProperties
<1> HIDE DEF s, m
<1>3. d = c \o s
  BY DEF s, n
<1>4. /\ d \in Seq(Nat) /\ Len(d) = m + n
      /\ \A i \in 1..(m + n) : d[i] = IF i <= m THEN c[i] ELSE s[i - m]
  BY <1>1, <1>2, <1>3, ConcatProperties DEF m
<1>5. \A i \in 1..(m + n) : /\ i <= m => d[i] = c[i]
                            /\ ~(i <= m) => d[i] = a + (i - m)
  <2> SUFFICES ASSUME NEW i \in 1..(m + n), ~(i <= m)
               PROVE  d[i] = a + (i - m)
    BY <1>4
  <2> DEFINE k == i - m
  <2>1. k \in 1..n
    BY <1>1 DEF m
  <2>2. d[i] = s[k]
    BY <1>4
  <2> HIDE DEF k
  <2>3. d[i] = a + k
    BY <1>2, <2>1, <2>2
  <2> QED BY <2>3 DEF k
<1>6. /\ \A i \in 1..m : c[i] \in Nat /\ l < c[i] /\ c[i] <= a
      /\ \A i, j \in 1..m : i < j => c[i] < c[j]
      /\ m \in Nat
  BY <1>1, ElementOfSeq DEF InOrder, m
<1>7. ASSUME NEW i \in 1..Len(d)
      PROVE  l < d[i] /\ d[i] <= b
  <2>1. CASE i <= m
    BY <1>1, <1>4, <1>5, <1>6, <2>1
  <2>2. CASE ~(i <= m)
    BY <1>1, <1>4, <1>5, <1>6, <2>2
  <2> QED BY <2>1, <2>2
<1>8. ASSUME NEW i \in 1..Len(d), NEW j \in 1..Len(d), i < j
      PROVE  d[i] < d[j]
  <2>1. CASE j <= m
    BY <1>1, <1>4, <1>5, <1>6, <1>8, <2>1
  <2>2. CASE ~(j <= m) /\ i <= m
    BY <1>1, <1>4, <1>5, <1>6, <1>8, <2>2
  <2>3. CASE ~(i <= m)
    BY <1>1, <1>4, <1>5, <1>6, <1>8, <2>3
  <2> QED BY <2>1, <2>2, <2>3, <1>1, <1>4, <1>6
<1> QED BY <1>1, <1>4, <1>7, <1>8 DEF InOrder

\* A part of the characters, behind one that is delivered.
LEMMA PartKeepsOrder ==
  ASSUME NEW c, NEW a, NEW l, InOrder(c, a, l),
         NEW m \in Nat \ {0}, NEW n \in 0..Len(c),
         NEW k \in Nat, k <= a, m <= n => k < c[m],
         NEW d, d = SubSeq(c, m, n)
  PROVE  InOrder(d, a, k)
<1>1. /\ c \in Seq(Nat) /\ a \in Nat /\ Len(c) \in Nat /\ n \in Nat
      /\ n <= Len(c) /\ m \in Int /\ n \in Int
  BY LenProperties DEF InOrder
<1>2. /\ \A i \in 1..Len(c) : c[i] \in Nat /\ c[i] <= a
      /\ \A i, j \in 1..Len(c) : i < j => c[i] < c[j]
  BY <1>1, ElementOfSeq DEF InOrder
<1>3. \A i \in m..n : c[i] \in Nat
  <2>1. \A i \in m..n : i \in 1..Len(c)
    BY <1>1
  <2> QED BY <1>2, <2>1
<1>4. /\ d \in Seq(Nat) /\ Len(d) = (IF m <= n THEN n - m + 1 ELSE 0)
      /\ \A i \in 1..(n - m + 1) : d[i] = c[m + i - 1]
  BY <1>1, <1>3, SubSeqProperties
<1>5. ASSUME NEW i \in 1..Len(d)
      PROVE  k < d[i] /\ d[i] <= a
  <2> DEFINE e == m + i - 1
  <2>1. /\ m <= n /\ e \in 1..Len(c) /\ m \in 1..Len(c) /\ m <= e
        /\ i \in 1..(n - m + 1)
    BY <1>1, <1>4
  <2>2. d[i] = c[e]
    BY <1>4, <2>1
  <2> HIDE DEF e
  <2>3. c[m] <= c[e]
    BY <1>2, <2>1
  <2> QED BY <1>2, <2>1, <2>2, <2>3
<1>6. ASSUME NEW i \in 1..Len(d), NEW j \in 1..Len(d), i < j
      PROVE  d[i] < d[j]
  <2> DEFINE e == m + i - 1
             f == m + j - 1
  <2>1. /\ m <= n /\ e \in 1..Len(c) /\ f \in 1..Len(c) /\ e < f
        /\ i \in 1..(n - m + 1) /\ j \in 1..(n - m + 1)
    BY <1>1, <1>4, <1>6
  <2>2. d[i] = c[e] /\ d[j] = c[f]
    BY <1>4, <2>1
  <2> HIDE DEF e, f
  <2> QED BY <1>2, <2>1, <2>2
<1> QED BY <1>1, <1>4, <1>5, <1>6 DEF InOrder

\* What is left on both sides of a run that is lost.
LEMMA LossKeepsOrder ==
  ASSUME NEW c, NEW a, NEW l, InOrder(c, a, l),
         NEW i \in 1..Len(c), NEW j \in 1..Len(c), i <= j,
         NEW d, d = SubSeq(c, 1, i - 1) \o SubSeq(c, j + 1, Len(c))
  PROVE  InOrder(d, a, l)
<1> DEFINE p == i - 1
           q == j + 1
           n == Len(c)
           s == SubSeq(c, 1, p)
           t == SubSeq(c, q, n)
<1>1. /\ c \in Seq(Nat) /\ a \in Nat /\ l \in Nat /\ l <= a /\ n \in Nat
      /\ p \in 0..n /\ p \in Int /\ q \in Nat \ {0} /\ q \in Int /\ p < q
  BY LenProperties DEF InOrder
<1>2. /\ \A k \in 1..n : c[k] \in Nat /\ c[k] <= a /\ l < c[k]
      /\ \A k, m \in 1..n : k < m => c[k] < c[m]
  BY <1>1, ElementOfSeq DEF InOrder
<1> HIDE DEF p, q, n
<1>3. /\ s \in Seq(Nat) /\ Len(s) = p /\ \A k \in 1..p : s[k] = c[k]
  <2>1. \A k \in 1..p : c[k] \in Nat
    BY <1>1, <1>2
  <2>2. /\ s \in Seq(Nat) /\ Len(s) = IF 1 <= p THEN p - 1 + 1 ELSE 0
        /\ \A k \in 1..(p - 1 + 1) : s[k] = c[1 + k - 1]
    BY <1>1, <2>1, SubSeqProperties
  <2> HIDE DEF s
  <2> QED BY <1>1, <2>2
<1>4. /\ t \in Seq(Nat) /\ Len(t) = (IF q <= n THEN n - q + 1 ELSE 0)
      /\ \A k \in 1..(n - q + 1) : t[k] = c[q + k - 1]
  <2>1. \A k \in q..n : c[k] \in Nat
    BY <1>1, <1>2
  <2> QED BY <1>1, <2>1, SubSeqProperties
<1>5. d = s \o t
  BY DEF s, t, p, q, n
<1> HIDE DEF s, t
<1>6. /\ d \in Seq(Nat) /\ Len(d) = p + Len(t)
      /\ \A k \in 1..(p + Len(t)) :
           d[k] = IF k <= p THEN s[k] ELSE t[k - p]
  <2>1. s \in Seq(Nat) /\ t \in Seq(Nat) /\ Len(s) = p
    BY <1>3, <1>4
  <2>2. /\ d \in Seq(Nat) /\ Len(d) = Len(s) + Len(t)
        /\ \A k \in 1..(Len(s) + Len(t)) :
             d[k] = IF k <= Len(s) THEN s[k] ELSE t[k - Len(s)]
    BY <1>5, <2>1, ConcatProperties
  <2> QED BY <2>1, <2>2
<1>11. Len(t) \in Nat /\ p \in Nat /\ p <= n
  BY <1>1, <1>4, LenProperties
<1>7. \A k \in 1..Len(d) : /\ k <= p => k \in 1..n /\ d[k] = c[k]
                           /\ ~(k <= p) => /\ q + (k - p) - 1 \in 1..n
                                           /\ d[k] = c[q + (k - p) - 1]
  <2> SUFFICES ASSUME NEW k \in 1..Len(d)
               PROVE  /\ k <= p => k \in 1..n /\ d[k] = c[k]
                      /\ ~(k <= p) => /\ q + (k - p) - 1 \in 1..n
                                      /\ d[k] = c[q + (k - p) - 1]
    OBVIOUS
  <2>0. k \in 1..(p + Len(t)) /\ k \in Nat \ {0}
    <3>1. Len(d) = p + Len(t)
      BY <1>6
    <3>2. k \in 1..(p + Len(t))
      BY <3>1
    <3> QED BY <1>11, <3>2
  <2>1. CASE k <= p
    <3>1. k \in 1..p /\ k \in 1..n
      BY <1>1, <1>11, <2>0, <2>1
    <3>2. d[k] = s[k]
      BY <1>6, <2>0, <2>1
    <3> QED BY <1>3, <2>1, <3>1, <3>2
  <2>2. CASE ~(k <= p)
    <3> DEFINE m == k - p
    <3>1. m \in 1..(n - q + 1) /\ q + m - 1 \in 1..n
      <4>1. Len(t) = IF q <= n THEN n - q + 1 ELSE 0
        BY <1>4
      <4> QED BY <1>1, <1>11, <2>0, <2>2, <4>1
    <3>2. d[k] = t[m]
      BY <1>6, <2>0, <2>2
    <3> HIDE DEF m
    <3>3. d[k] = c[q + m - 1]
      BY <1>4, <3>1, <3>2
    <3> QED BY <2>2, <3>1, <3>3 DEF m
  <2> QED BY <2>1, <2>2
<1>8. Len(d) \in Nat
  BY <1>6, LenProperties
<1>9. ASSUME NEW k \in 1..Len(d)
      PROVE  l < d[k] /\ d[k] <= a
  BY <1>2, <1>7
<1>10. ASSUME NEW k \in 1..Len(d), NEW m \in 1..Len(d), k < m
       PROVE  d[k] < d[m]
  <2>1. CASE m <= p
    <3>1. k \in 1..n /\ m \in 1..n /\ d[k] = c[k] /\ d[m] = c[m]
      <4>1. k <= p
        BY <1>8, <1>10, <1>11, <2>1
      <4> QED BY <1>7, <1>10, <2>1, <4>1
    <3> QED BY <1>2, <1>10, <3>1
  <2>2. CASE ~(m <= p) /\ k <= p
    <3> DEFINE e == q + (m - p) - 1
    <3>1. e \in 1..n /\ d[m] = c[e] /\ k \in 1..n /\ d[k] = c[k]
      BY <1>7, <2>2
    <3>2. k < e
      BY <1>1, <1>8, <1>11, <2>2
    <3> HIDE DEF e
    <3> QED BY <1>2, <3>1, <3>2
  <2>3. CASE ~(k <= p)
    <3> DEFINE e == q + (m - p) - 1
               f == q + (k - p) - 1
    <3>1. f < e /\ ~(m <= p)
      BY <1>1, <1>8, <1>10, <1>11, <2>3
    <3>2. e \in 1..n /\ d[m] = c[e] /\ f \in 1..n /\ d[k] = c[f]
      BY <1>7, <2>3, <3>1
    <3> HIDE DEF e, f
    <3> QED BY <1>2, <3>1, <3>2
  <2> QED BY <2>1, <2>2, <2>3
<1> QED BY <1>1, <1>6, <1>9, <1>10 DEF InOrder

\* What a step does to the contents c, the number accepted a and the last
\* delivered l of a pipe.
PipeMoves(c, a, l, d, b, k) ==
  \/ d = c /\ b = a /\ k = l
  \/ b > a /\ k = l /\ d = c \o [i \in 1..(b - a) |-> a + i]
  \/ b = a /\ \E n \in 1..Len(c) :
       d = SubSeq(c, n + 1, Len(c)) /\ k = c[n]
  \/ b = a /\ k = l /\ \E i, j \in 1..Len(c) :
       i <= j /\ d = SubSeq(c, 1, i - 1) \o SubSeq(c, j + 1, Len(c))
  \/ b = a /\ k = Head(c) /\ \E n \in 1..Len(c) : d = SubSeq(c, 2, n)
  \/ b > a /\ k = l /\ d = <<>>

LEMMA PipeKeepsOrder ==
  ASSUME NEW c, NEW a, NEW l, InOrder(c, a, l),
         NEW d, NEW b \in Nat, NEW k, PipeMoves(c, a, l, d, b, k)
  PROVE  InOrder(d, b, k)
<1> DEFINE n == Len(c)
<1>1. /\ c \in Seq(Nat) /\ a \in Nat /\ l \in Nat /\ l <= a
      /\ \A i \in 1..n : c[i] \in Nat /\ l < c[i] /\ c[i] <= a
      /\ \A i, j \in 1..n : i < j => c[i] < c[j]
      /\ n \in Nat
  BY LenProperties, ElementOfSeq DEF InOrder
<1>2. CASE d = c /\ b = a /\ k = l
  BY <1>2
<1>3. CASE b > a /\ k = l /\ d = c \o [i \in 1..(b - a) |-> a + i]
  BY <1>3, AcceptKeepsOrder
<1>4. CASE b = a /\ \E m \in 1..n : d = SubSeq(c, m + 1, n) /\ k = c[m]
  <2>1. PICK m \in 1..n : d = SubSeq(c, m + 1, n) /\ k = c[m]
    BY <1>4
  <2> DEFINE f == m + 1
  <2>2. /\ f \in Nat \ {0} /\ n \in 0..Len(c) /\ c[m] \in Nat /\ c[m] <= a
        /\ f <= n => c[m] < c[f]
    BY <1>1
  <2>3. d = SubSeq(c, f, n)
    BY <2>1
  <2> HIDE DEF n, f
  <2>4. InOrder(d, a, c[m])
    BY <2>2, <2>3, PartKeepsOrder
  <2> QED BY <1>4, <2>1, <2>4
<1>5. CASE b = a /\ k = l /\ \E i, j \in 1..n :
             i <= j /\ d = SubSeq(c, 1, i - 1) \o SubSeq(c, j + 1, n)
  BY <1>5, LossKeepsOrder
<1>6. CASE b = a /\ k = Head(c) /\ \E m \in 1..n : d = SubSeq(c, 2, m)
  <2>1. PICK m \in 1..n : d = SubSeq(c, 2, m)
    BY <1>6
  <2>2. k = c[1]
    <3>1. Head(SubSeq(c, 1, n)) = c[1] /\ SubSeq(c, 1, n) = c
      <4>1. 1 \in 1..Len(c) /\ n \in 1..Len(c)
        BY <1>1, <2>1
      <4> QED BY <1>1, <4>1, HeadTailOfSubSeq, SubSeqFull
    <3> QED BY <1>6, <3>1
  <2>3. /\ 2 \in Nat \ {0} /\ m \in 0..n /\ c[1] \in Nat /\ c[1] <= a
        /\ 2 <= m => c[1] < c[2]
    BY <1>1, <2>1
  <2>4. InOrder(d, a, c[1])
    BY <2>1, <2>3, PartKeepsOrder
  <2> QED BY <1>6, <2>2, <2>4
<1>7. CASE b > a /\ k = l /\ d = <<>>
  <2>1. d \in Seq(Nat) /\ Len(d) = 0
    BY <1>7, EmptySeq
  <2> QED BY <1>1, <1>7, <2>1 DEF InOrder
<1> QED BY <1>2, <1>3, <1>4, <1>5, <1>6, <1>7 DEF PipeMoves

RxInOrder == InOrder(Received, nrx, lastRead)

TxInOrder == InOrder(Sent, ntx, lastSent)

LEMMA RxMoves ==
  ASSUME RxStep
  PROVE  PipeMoves(Received, nrx, lastRead, Received', nrx', lastRead')
  BY DEF PipeMoves, RxStep, RxPipe!Next, RxPipe!Accept, RxPipe!Deliver,
         RxPipe!Lose, RxPipe!DeliverAndLose, RxPipe!AcceptAndLose,
         RxPipe!LinkChange, RxPipe!pipeVars, Received

LEMMA TxMoves ==
  ASSUME TxStep
  PROVE  PipeMoves(Sent, ntx, lastSent, Sent', ntx', lastSent')
  BY DEF PipeMoves, TxStep, TxPipe!Next, TxPipe!Accept, TxPipe!Deliver,
         TxPipe!Lose, TxPipe!DeliverAndLose, TxPipe!AcceptAndLose,
         TxPipe!LinkChange, TxPipe!pipeVars, Sent, InTransfer

\* The threads' side, and what fits.
ThreadInv ==
  /\ tflags \in [Threads -> {0, 1}]
  /\ tpc \in [Threads -> Places]
  /\ nrx + ntx <= MaxChars
  /\ Len(txbuf) < QueueSize

SerialInv == DataInv /\ RingInv /\ ThreadInv /\ RxInOrder /\ TxInOrder

LEMMA FlagsTyped ==
  ASSUME ThreadInv, [SerialNext]_serialVars
  PROVE  /\ tflags' \in [Threads -> {0, 1}]
         /\ tpc' \in [Threads -> Places]
<1>1. tflags \in [Threads -> {0, 1}]
      /\ tpc \in [Threads -> Places]
  BY DEF ThreadInv
<1>2. CASE UNCHANGED <<tflags, tpc>>
  BY <1>1, <1>2
<1>3. CASE DataOut
  BY <1>1, <1>3 DEF DataOut
<1>4. ASSUME NEW q, NEW d, onotify(q, d)
      PROVE  tflags' \in [Threads -> {0, 1}]
  BY <1>1, <1>4, Notified
<1>5. CASE DataIn
  BY <1>1, <1>4, <1>5 DEF DataIn
<1>6. CASE \E t \in Writers : Put(t)
  <2>1. tpc' \in [Threads -> Places]
    BY <1>1, <1>6 DEF Put, Go, Places
  <2> QED BY <1>4, <1>6, <2>1 DEF Put
<1>7. CASE \/ Quietly \/ \E t \in Readers : Get(t)
  BY <1>1, <1>7 DEF Quietly, PutFull, Get, GetEmpty, Qwait, QwaitFails,
                    Passes, Wake, Go, Places
<1> QED BY <1>2, <1>3, <1>5, <1>6, <1>7
        DEF SerialNext, Quietly, Device, HostSends, HostTakes, serialVars,
            queueVars

LEMMA CharsBounded ==
  ASSUME DataInv, ThreadInv, [SerialNext]_serialVars
  PROVE  nrx' + ntx' <= MaxChars
<1>1. nrx \in Nat /\ ntx \in Nat /\ nrx + ntx <= MaxChars /\ MaxChars \in Nat
  BY QueueAssumption DEF DataInv, QueuesTyped, ThreadInv
<1>2. CASE UNCHANGED <<nrx, ntx>>
  BY <1>1, <1>2
<1>3. CASE \E t \in Writers : Put(t)
  BY <1>1, <1>3 DEF Put
<1>4. CASE HostSends
  <2>1. PICK n \in 1..DataPacket :
          nrx + ntx + n <= MaxChars /\ nrx' = nrx + n
    BY <1>4 DEF HostSends
  <2> QED BY <1>1, <1>4, <2>1, QueueAssumption DEF HostSends
<1> QED BY <1>2, <1>3, <1>4
        DEF SerialNext, Device, DataOut, HostTakes, DataIn, PutFull, Get,
            GetEmpty, Qwait, QwaitFails, Wake, serialVars, queueVars

\* What is sent is what was in the queue, or the end of it.
LEMMA TransferFits ==
  ASSUME DataInv, ThreadInv, [SerialNext]_serialVars
  PROVE  Len(txbuf') < QueueSize
<1>1. Len(txbuf) < QueueSize /\ Len(<<>>) < QueueSize /\ txbuf \in Seq(Nat)
  BY QueueAssumption, EmptySeq DEF DataInv, QueuesTyped, ThreadInv
<1>2. CASE txbuf' = txbuf \/ txbuf' = <<>>
  BY <1>1, <1>2
<1>3. ASSUME NEW q \in Queue, NEW d, onotify(q, d)
      PROVE  Len(txbuf') < QueueSize
  <2>1. Len(Contents(q)) < QueueSize
    BY Counted, ContentsOf, QueueAssumption
  <2> QED BY <1>1, <1>3, <2>1, Notified
<1>4. CASE \E t \in Writers : Put(t)
  <2> DEFINE k == ntx + 1
             q == Push(txq, k)
  <2>1. k \in Nat
    BY DEF DataInv, QueuesTyped
  <2>2. onotify(q, pdev) /\ ~Full(txq)
    BY <1>4 DEF Put
  <2> HIDE DEF k
  <2>3. q \in Queue
    BY <2>1, <2>2, PushIsOne DEF DataInv, QueuesTyped
  <2> QED BY <1>3, <2>2, <2>3
<1>5. CASE DataIn
  BY <1>3, <1>5 DEF DataIn, DataInv, QueuesTyped
<1>6. CASE HostTakes
  <2> DEFINE n == MinOf(DataPacket, Len(txbuf))
             f == n + 1
             l == Len(txbuf)
             r == SubSeq(txbuf, f, l)
  <2>1. pdev.in1 = "busy" /\ txbuf' = r
    BY <1>6 DEF HostTakes
  <2>2. n \in 1..l /\ l \in Nat
    BY <2>1, PacketGot
  <2>3. \A i \in f..l : txbuf[i] \in Nat
    <3>1. \A i \in f..l : i \in 1..Len(txbuf)
      BY <2>2
    <3> QED BY <1>1, <3>1, ElementOfSeq
  <2>4. f \in Int /\ l \in Int /\ (IF f <= l THEN l - f + 1 ELSE 0) <= l
    BY <2>2
  <2> HIDE DEF f, l
  <2>5. Len(r) = IF f <= l THEN l - f + 1 ELSE 0
    BY <2>3, <2>4, SubSeqProperties
  <2> QED BY <1>1, <2>1, <2>2, <2>4, <2>5, QueueAssumption DEF l
<1> QED BY <1>2, <1>4, <1>5, <1>6
        DEF SerialNext, Device, Dropped, HostSends, DataOut, PutFull, Get,
            GetEmpty, Qwait, QwaitFails, Wake, serialVars, queueVars

LEMMA InvInit == SerialInit => SerialInv
<1> SUFFICES ASSUME SerialInit PROVE SerialInv
  OBVIOUS
<1>1. ThreadInv
  BY QueueAssumption, EmptySeq DEF SerialInit, ThreadInv, Places
<1>2. nrx = 0 /\ lastRead = 0 /\ ntx = 0 /\ lastSent = 0
  BY DEF SerialInit
<1>3. InOrder(<<>>, 0, 0)
  <2>1. <<>> \in Seq(Nat) /\ Len(<<>>) = 0
    BY EmptySeq
  <2> QED BY <2>1 DEF InOrder
<1>4. Received = <<>> /\ Sent = <<>>
  BY ReceiveInit, TransmitInit
     DEF RxPipe!Init, TxPipe!Init, Received, Sent, InTransfer
<1> QED BY <1>1, <1>2, <1>3, <1>4, DataInit, RingInit
           DEF SerialInv, RxInOrder, TxInOrder

LEMMA InvNext ==
  MaxConfig = 1 /\ SerialInv /\ [SerialNext]_serialVars => SerialInv'
<1> SUFFICES ASSUME MaxConfig = 1, SerialInv, [SerialNext]_serialVars
             PROVE  SerialInv'
  OBVIOUS
<1>1. DataInv' /\ RingInv'
  BY DataNext, RingNext DEF SerialInv
<1>2. ThreadInv'
  BY FlagsTyped, CharsBounded, TransferFits DEF SerialInv, ThreadInv
<1>3. nrx' \in Nat /\ ntx' \in Nat
  BY <1>1 DEF DataInv, QueuesTyped
<1>4. InOrder(Received', nrx', lastRead')
  BY <1>3, ReceiveNext, RxMoves, PipeKeepsOrder DEF SerialInv, RxInOrder
<1>5. InOrder(Sent', ntx', lastSent')
  BY <1>3, TransmitNext, TxMoves, PipeKeepsOrder DEF SerialInv, TxInOrder
<1> QED BY <1>1, <1>2, <1>4, <1>5 DEF SerialInv, RxInOrder, TxInOrder

\* The indices of the queues and of the rings stay inside them, what is sent
\* fits the buffer, and a character that is read or sent is one accepted.
THEOREM SerialTyped ==
  ASSUME MaxConfig = 1
  PROVE  SerialSpec => []SerialTypeOK
<1>1. SerialInv => SerialTypeOK
  <2> SUFFICES ASSUME SerialInv PROVE SerialTypeOK
    OBVIOUS
  <2>1. \A q \in {rxq, txq} :
          /\ q.head \in 0..(QueueSize - 1) /\ q.tail \in 0..(QueueSize - 1)
    BY DEF SerialInv, DataInv, QueuesTyped, Queue, Slots
  <2>2. \A w \in {rxthq, txthq} :
          /\ w.head \in 0..(WaitSlots - 1) /\ w.tail \in 0..(WaitSlots - 1)
          /\ \A i \in DOMAIN w.slots : w.slots[i] \in Threads \cup {NoThread}
    BY DEF SerialInv, RingInv, Ring
  <2>3. lastRead \in 0..nrx /\ lastSent \in 0..ntx
    BY DEF SerialInv, RxInOrder, TxInOrder, InOrder
  <2> QED BY <2>1, <2>2, <2>3
          DEF SerialInv, DataInv, QueuesTyped, BuffersFollow, ThreadInv,
              SerialTypeOK, Places
<1>2. SerialInv /\ [SerialNext]_serialVars => SerialInv'
  BY InvNext
<1> QED BY <1>1, <1>2, InvInit, PTL DEF SerialSpec

(***************************************************************************)
(* Readers that wait                                                       *)
(***************************************************************************)
LEMMA NotFull ==
  ASSUME NEW w \in Ring
  PROVE  ThqFull(w) <=> Waiting(w) = WaitSlots - 1
<1> DEFINE b == WaitSlots
           a == w.tail - w.head + 1
           p == a \div b
           s == a % b
<1>1. /\ b \in Nat \ {0, 1} /\ w.head \in 0..(b - 1) /\ w.tail \in 0..(b - 1)
      /\ Waiting(w) = IF w.tail >= w.head THEN w.tail - w.head
                      ELSE w.tail - w.head + b
  BY WaitingTyped, QueueAssumption DEF Ring
<1>2. ThqFull(w) <=> s = 0
  BY DEF ThqFull
<1>3. CASE a >= 0
  <2>1. a \in 0..(2 * b - 1) /\ b \in Nat \ {0}
    BY <1>1, <1>3
  <2>2. s = IF a < b THEN a ELSE a - b
    BY <2>1, Around
  <2> HIDE DEF s
  <2> QED BY <1>1, <1>2, <1>3, <2>2
<1>4. CASE ~(a >= 0)
  <2> DEFINE z == -1
             r == a + b
  <2>1. p \in Int /\ s \in 0..(b - 1) /\ a = b * p + s
    <3>1. a \in Int /\ b \in Nat \ {0}
      BY <1>1
    <3> HIDE DEF a, b
    <3> QED BY <3>1
  <2>2. z \in Int /\ r \in 0..(b - 1) /\ a = b * z + r /\ r # 0
    <3>1. b * z = -b
      BY <1>1
    <3> QED BY <1>1, <1>4, <3>1
  <2> HIDE DEF p, s, z, r
  <2>3. b * p + s = b * z + r
    BY <2>1, <2>2
  <2>4. s = r
    BY <1>1, <2>1, <2>2, <2>3, SameRemainder
  <2> QED BY <1>1, <1>2, <1>4, <2>2, <2>4
<1> QED BY <1>1, <1>3, <1>4

\* Threads that are taken off make room, at the other end of the ring.
LEMMA GetMakesRoom ==
  ASSUME NEW w \in Ring, NEW n \in Nat, NEW r, r = ThqGet(w, n), r \in Ring,
         ~ThqFull(w)
  PROVE  ~ThqFull(r) /\ r.slots = w.slots /\ r.tail = w.tail
<1> DEFINE b == WaitSlots
           h == w.head
           m == Waiting(w)
           k == MinOf(n, m)
           g == (h + k) % b
<1>1. /\ b \in Nat \ {0} /\ h \in 0..(b - 1) /\ w.tail \in 0..(b - 1)
      /\ m \in 0..(b - 1)
      /\ m = IF w.tail >= h THEN w.tail - h ELSE w.tail - h + b
  BY WaitingTyped, QueueAssumption DEF Ring
<1>2. m # b - 1
  BY NotFull
<1>3. r = [w EXCEPT !.head = g]
  BY DEF ThqGet
<1> HIDE DEF m
<1>4. k \in 0..m /\ k \in 0..b
  BY <1>1 DEF MinOf
<1> HIDE DEF k
<1>5. g = (IF h + k < b THEN h + k ELSE h + k - b) /\ g \in 0..(b - 1)
  BY <1>1, <1>4, Further
<1> HIDE DEF g
<1>6. r.head = g /\ r.tail = w.tail /\ r.slots = w.slots
  BY <1>3 DEF Ring
<1>7. m - k = IF w.tail >= g THEN w.tail - g ELSE w.tail - g + b
  BY <1>1, <1>4, <1>5, RestOfStretch
<1>8. Waiting(r) = m - k
  <2>1. Waiting(r) = IF r.tail >= r.head THEN r.tail - r.head
                     ELSE r.tail - r.head + b
    BY WaitingTyped
  <2> QED BY <1>6, <1>7, <2>1
<1>9. Waiting(r) # b - 1
  BY <1>1, <1>2, <1>4, <1>8
<1> QED BY <1>6, <1>9, NotFull

\* The thread whose slot comes to count waits in the ring.
LEMMA AdvanceEnters ==
  ASSUME NEW w \in Ring, NEW t, w.slots[w.tail] = t, ~ThqFull(w),
         NEW r, r = ThqAdvance(w), r \in Ring
  PROVE  InRing(r, t)
<1> DEFINE b == WaitSlots
           h == w.head
           m == Waiting(w)
           z == Wrap(w.tail, b)
<1>1. /\ b \in Nat \ {0} /\ h \in 0..(b - 1) /\ w.tail \in 0..(b - 1)
      /\ m \in 0..(b - 1)
      /\ m = IF w.tail >= h THEN w.tail - h ELSE w.tail - h + b
  BY WaitingTyped, QueueAssumption DEF Ring
<1>2. m # b - 1
  BY NotFull
<1>3. r = [w EXCEPT !.tail = z]
  BY DEF ThqAdvance
<1>4. r.head = h /\ r.tail = z /\ r.slots = w.slots
  BY <1>3 DEF Ring
<1>5. z = (IF w.tail + 1 < b THEN w.tail + 1 ELSE w.tail + 1 - b)
      /\ z \in 0..(b - 1)
  BY <1>1 DEF Wrap
<1>6. Waiting(r) = IF z >= h THEN z - h ELSE z - h + b
  BY <1>4, WaitingTyped
<1> HIDE DEF m, z
<1>7. m < Waiting(r)
  BY <1>1, <1>2, <1>5, <1>6
<1>8. (h + m) % b = w.tail
  <2>1. m \in 0..b
    BY <1>1
  <2>2. (h + m) % b = IF h + m < b THEN h + m ELSE h + m - b
    BY <1>1, <2>1, Further
  <2> QED BY <1>1, <2>2
<1> QED BY <1>1, <1>4, <1>7, <1>8 DEF InRing

\* One thread reads the port: one server is started on it, which has one reader
\* (telescope_hardware.cpp:150-154).
OneReader == \A r, s \in Readers : r = s

WokenInv ==
  \A r \in Readers :
    /\ tpc[r] \in {"room", "stored"} => ~ThqFull(rxthq)
    /\ tpc[r] = "stored" => rxthq.slots[rxthq.tail] = r
    /\ tpc[r] = "sleep" => tflags[r] = 1 \/ InRing(rxthq, r)

\* Others than the reader set its flag, if they touch it, and only take threads
\* off the ring.
LEMMA OthersWake ==
  ASSUME DataInv, RingInv, ThreadInv, WokenInv, [SerialNext]_serialVars,
         NEW r \in Readers, tpc'[r] = tpc[r],
         tflags'[r] = tflags[r] \/ tflags'[r] = 1,
         \/ rxthq' = rxthq
         \/ \E n \in Nat : rxthq' = ThqGet(rxthq, n)
  PROVE  /\ tpc'[r] \in {"room", "stored"} => ~ThqFull(rxthq')
         /\ tpc'[r] = "stored" => rxthq'.slots[rxthq'.tail] = r
         /\ tpc'[r] = "sleep" => tflags'[r] = 1 \/ InRing(rxthq', r)
<1>1. CASE rxthq' = rxthq
  BY <1>1 DEF WokenInv, ThqFull, InRing, Waiting
<1>2. ASSUME NEW n \in Nat, rxthq' = ThqGet(rxthq, n)
      PROVE  /\ tpc'[r] \in {"room", "stored"} => ~ThqFull(rxthq')
             /\ tpc'[r] = "stored" => rxthq'.slots[rxthq'.tail] = r
             /\ tpc'[r] = "sleep" => tflags'[r] = 1 \/ InRing(rxthq', r)
  <2>1. rxthq \in Ring /\ rxthq' \in Ring
    BY <1>2, TakenIsSignalled DEF RingInv
  <2>2. ~ThqFull(rxthq) => /\ ~ThqFull(rxthq') /\ rxthq'.slots = rxthq.slots
                           /\ rxthq'.tail = rxthq.tail
    BY <1>2, <2>1, GetMakesRoom
  <2>3. InRing(rxthq, r) => InRing(rxthq', r) \/ tflags'[r] = 1
    <3>1. CASE UNCHANGED rxthq
      BY <3>1 DEF InRing, Waiting
    <3>2. CASE rxthq' # rxthq
      <4>1. Kept(rxthq, rxthq') \/ TakenOff(rxthq, rxthq', tflags')
        BY RxRing
      <4>2. CASE TakenOff(rxthq, rxthq', tflags')
        BY <4>2 DEF TakenOff, Threads
      <4>3. CASE Kept(rxthq, rxthq')
        <5>1. rxthq' = [rxthq EXCEPT !.head = rxthq'.head]
          BY <1>2, <2>1 DEF ThqGet, Ring
        <5> QED BY <2>1, <3>2, <4>3, <5>1 DEF Kept, Ring
      <4> QED BY <4>1, <4>2, <4>3
    <3> QED BY <3>1, <3>2
  <2> QED BY <2>2, <2>3 DEF WokenInv
<1> QED BY <1>1, <1>2

\* The reader's own steps.
LEMMA ReaderSteps ==
  ASSUME SerialInv, WokenInv, NEW r \in Readers,
         \/ Put(r) \/ PutFull(r) \/ Get(r) \/ GetEmpty(r)
         \/ Qwait(r) \/ QwaitFails(r) \/ Wake(r),
         rxthq' \in Ring
  PROVE  /\ tpc'[r] \in {"room", "stored"} => ~ThqFull(rxthq')
         /\ tpc'[r] = "stored" => rxthq'.slots[rxthq'.tail] = r
         /\ tpc'[r] = "sleep" => tflags'[r] = 1 \/ InRing(rxthq', r)
<1>1. /\ tpc \in [Threads -> Places] /\ rxthq \in Ring /\ r \in Threads
  BY DEF SerialInv, ThreadInv, RingInv, Threads
<1>2. CASE \/ Put(r) \/ PutFull(r) \/ Get(r) \/ GetEmpty(r)
           \/ QwaitFails(r) \/ Wake(r)
  <2>1. tpc'[r] \in {"idle", "leave", "retry"}
    BY <1>1, <1>2 DEF Put, PutFull, Get, GetEmpty, QwaitFails, Wake, Passes, Go
  <2> QED BY <2>1
<1>3. CASE Qwait(r)
  <2>1. CASE Passes(r, "leave", "cleared")
    <3>1. tpc'[r] = "cleared"
      BY <1>1, <2>1 DEF Passes, Go
    <3> QED BY <3>1
  <2>2. CASE /\ Passes(r, "cleared", "room") /\ ~ThqFull(ThqOf(r))
             /\ UNCHANGED <<rxthq, txthq, tflags>>
    <3>1. tpc'[r] = "room"
      BY <1>1, <2>2 DEF Passes, Go
    <3> QED BY <2>2, <3>1 DEF ThqOf, ThqFull
  <2>3. CASE /\ Passes(r, "room", "stored") /\ SetThq(r, ThqStore(ThqOf(r), r))
             /\ UNCHANGED tflags
    <3>1. tpc'[r] = "stored" /\ ~ThqFull(rxthq)
      BY <1>1, <2>3 DEF Passes, Go, WokenInv
    <3>2. rxthq' = [rxthq EXCEPT !.slots = [rxthq.slots EXCEPT ![rxthq.tail] = r]]
      BY <2>3 DEF SetThq, ThqOf, ThqStore
    <3>3. /\ rxthq'.tail = rxthq.tail /\ rxthq'.head = rxthq.head
          /\ rxthq'.slots[rxthq.tail] = r
      BY <1>1, <3>2 DEF Ring
    <3> QED BY <3>1, <3>3 DEF ThqFull
  <2>4. CASE /\ Passes(r, "stored", "sleep") /\ SetThq(r, ThqAdvance(ThqOf(r)))
             /\ UNCHANGED tflags
    <3>1. /\ tpc'[r] = "sleep" /\ ~ThqFull(rxthq)
          /\ rxthq.slots[rxthq.tail] = r
      BY <1>1, <2>4 DEF Passes, Go, WokenInv
    <3>2. rxthq' = ThqAdvance(rxthq)
      BY <2>4 DEF SetThq, ThqOf
    <3>3. InRing(rxthq', r)
      BY <1>1, <3>1, <3>2, AdvanceEnters
    <3> QED BY <3>1, <3>3
  <2> QED BY <1>3, <2>1, <2>2, <2>3, <2>4 DEF Qwait
<1> QED BY <1>2, <1>3

LEMMA WokenNext ==
  ASSUME OneReader, SerialInv, WokenInv, [SerialNext]_serialVars
  PROVE  WokenInv'
<1> SUFFICES ASSUME NEW r \in Readers
             PROVE  /\ tpc'[r] \in {"room", "stored"} => ~ThqFull(rxthq')
                    /\ tpc'[r] = "stored" => rxthq'.slots[rxthq'.tail] = r
                    /\ tpc'[r] = "sleep" => tflags'[r] = 1 \/ InRing(rxthq', r)
  BY DEF WokenInv
<1>1. /\ tpc \in [Threads -> Places] /\ tflags \in [Threads -> {0, 1}]
      /\ r \in Threads /\ rxthq' \in Ring
  BY RingNext DEF SerialInv, ThreadInv, RingInv, Threads
<1>2. CASE \/ Put(r) \/ PutFull(r) \/ Get(r) \/ GetEmpty(r)
           \/ Qwait(r) \/ QwaitFails(r) \/ Wake(r)
  BY <1>1, <1>2, ReaderSteps
<1>3. ASSUME tpc'[r] = tpc[r], tflags'[r] = tflags[r] \/ tflags'[r] = 1,
             \/ rxthq' = rxthq
             \/ \E n \in Nat : rxthq' = ThqGet(rxthq, n)
      PROVE  /\ tpc'[r] \in {"room", "stored"} => ~ThqFull(rxthq')
             /\ tpc'[r] = "stored" => rxthq'.slots[rxthq'.tail] = r
             /\ tpc'[r] = "sleep" => tflags'[r] = 1 \/ InRing(rxthq', r)
  BY <1>3, OthersWake DEF SerialInv
<1>4. ASSUME NEW q, NEW d, onotify(q, d)
      PROVE  tflags'[r] = tflags[r] \/ tflags'[r] = 1
  BY <1>1, <1>4, Notified
<1>5. CASE UNCHANGED <<tpc, tflags, rxthq>>
  BY <1>3, <1>5
<1>6. CASE DataOut
  <2>1. MinOf(Len(rxbuf), Capacity(rxq)) \in Nat
    BY PacketTaken DEF SerialInv
  <2>2. tflags'[r] = tflags[r] \/ tflags'[r] = 1
    BY <1>1, <1>6 DEF DataOut
  <2> QED BY <1>3, <1>6, <2>1, <2>2 DEF DataOut
<1>7. CASE DataIn
  BY <1>3, <1>4, <1>7 DEF DataIn
<1>8. ASSUME NEW t \in Writers, Put(t), t # r
      PROVE  /\ tpc'[r] = tpc[r] /\ rxthq' = rxthq
             /\ tflags'[r] = tflags[r] \/ tflags'[r] = 1
  BY <1>1, <1>4, <1>8 DEF Put, Go
<1>9. ASSUME NEW t \in Threads, t # r, t \notin Readers,
             PutFull(t) \/ Qwait(t) \/ QwaitFails(t) \/ Wake(t)
      PROVE  UNCHANGED rxthq /\ tpc'[r] = tpc[r] /\ tflags'[r] = tflags[r]
  BY <1>1, <1>9 DEF PutFull, Qwait, QwaitFails, Wake, Passes, Go, SetThq
<1>10. \A t \in Readers : t = r
  BY DEF OneReader
<1> QED BY <1>2, <1>3, <1>5, <1>6, <1>7, <1>8, <1>9, <1>10
        DEF SerialNext, Device, HostSends, HostTakes, serialVars, queueVars,
            Threads

\* A reader that waits is woken by the next character, for any number of
\* threads that write and any size of the ring, when one thread reads the port.
THEOREM WaitingReaderIsWoken ==
  ASSUME MaxConfig = 1, OneReader
  PROVE  SerialSpec => []ReaderIsWoken
<1>1. SerialInit => WokenInv
  BY DEF SerialInit, WokenInv, Threads
<1>2. SerialInv /\ WokenInv /\ [SerialNext]_serialVars => SerialInv' /\ WokenInv'
  BY InvNext, WokenNext
<1>3. WokenInv => ReaderIsWoken
  BY DEF WokenInv, ReaderIsWoken
<1> QED BY <1>1, <1>2, <1>3, InvInit, PTL DEF SerialSpec
=============================================================================
