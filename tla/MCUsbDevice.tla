---------------------------- MODULE MCUsbDevice ----------------------------
(* Model values for UsbDevice: two-byte packets, descriptors shorter than, *)
(* equal to and longer than a packet, and a request of each kind the       *)
(* library tells apart.                                                    *)
EXTENDS UsbDevice

\* 1 device, 2 configuration, 3 string, and the two of a high-speed device
MCDescLen == [k \in {1, 2, 3, DEVICE_QUALIFIER, OTHER_SPEED_CONFIGURATION} |->
  CASE k = 1 -> 3 [] k = 2 -> 4 [] k = 3 -> 2 [] OTHER -> 1]

Dev(req, dir, value, len) ==
  [rcpt |-> "device", type |-> "std", dir |-> dir, req |-> req,
   value |-> value, index |-> 0, ep |-> "OUT0", len |-> len]

Itf(type, req, dir, value, index, len) ==
  [rcpt |-> "interface", type |-> type, dir |-> dir, req |-> req,
   value |-> value, index |-> index, ep |-> "OUT0", len |-> len]

Ep(type, req, dir, value, ep, len) ==
  [rcpt |-> "endpoint", type |-> type, dir |-> dir, req |-> req,
   value |-> value, index |-> 0, ep |-> ep, len |-> len]

Descriptors ==
  {Dev("GET_DESCRIPTOR", "in", d[1], d[2]) :
     d \in {<<2, 4>>, <<2, 5>>, <<6, 2>>, <<8, 2>>}}
  \cup {Dev("GET_DESCRIPTOR", "out", 1, 0)}

DeviceRequests ==
  {Dev("SET_ADDRESS", "out", a, 0) : a \in {0, 133}}
  \cup {Dev("SET_CONFIGURATION", "out", c, 0) : c \in {0, 2, 257}}
  \cup {Dev("GET_CONFIGURATION", "in", 0, n) : n \in {1, 4}}
  \cup {Dev(f, "out", v, 0) : f \in {"SET_FEATURE", "CLEAR_FEATURE"},
                              v \in 1..2}
  \cup {Dev("GET_STATUS", "in", 0, 2), Dev("SYNCH_FRAME", "in", 0, 2),
        [Dev("SET_ADDRESS", "out", 5, 0) EXCEPT !.index = 1]}

InterfaceRequests ==
  {Itf("class", "SET_LINE_CODING", "out", v, 0, 3) : v \in 0..1}
  \cup {Itf("class", "GET_LINE_CODING", "in", 0, 0, 3),
        Itf("class", "SET_CONTROL_LINE_STATE", "out", 0, 0, 0),
        Itf("std", "GET_INTERFACE", "in", 0, 0, 1),
        Itf("std", "SET_INTERFACE", "out", 0, 1, 0),
        Itf("std", "GET_STATUS", "in", 0, 0, 2),
        Itf("std", "SET_INTERFACE", "out", 0, 2, 0)}

EndpointRequests ==
  {Ep("std", f, "out", EP_HALT, e, 0) :
     f \in {"SET_FEATURE", "CLEAR_FEATURE"}, e \in {"OUT0", "IN1"}}
  \cup {Ep("std", "GET_STATUS", "in", 0, e, 2) : e \in {"OUT0", "IN1"}}
  \cup {Ep("std", "SYNCH_FRAME", "in", 0, "IN1", 2),
        Ep("std", "CLEAR_FEATURE", "out", 2, "IN1", 0),
        Ep("class", "SET_CONTROL_LINE_STATE", "out", 0, "IN1", 0),
        [Ep("std", "GET_STATUS", "in", 0, "OUT0", 2) EXCEPT !.rcpt = "other"],
        [Ep("std", "SET_FEATURE", "out", 0, "OUT0", 0) EXCEPT !.rcpt = "other"]}

MCRequests ==
  Descriptors \cup DeviceRequests \cup InterfaceRequests \cup EndpointRequests
=============================================================================
