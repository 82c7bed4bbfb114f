------------------------------ MODULE MCUsbCdc ------------------------------
(* A packet of two bytes; descriptors shorter than one packet, one packet  *)
(* and a byte (as 67 is to 64), and two full packets.  The requests cover  *)
(* every branch of the handler, in and out of its bounds.                  *)
EXTENDS UsbCdc

MCDescLen == [device |-> 1, config |-> 3, string |-> 4]
R(codes, args, lens) == [code : codes, arg : args, len : lens]
MCRequests ==
  R({"GET_DESCRIPTOR"}, {"config"}, {2, 5}) \union R({"GET_DESCRIPTOR"}, {"string"}, {5})
  \union R({"GET_DESCRIPTOR"}, {"device"}, {2}) \union R({"GET_DESCRIPTOR"}, {"unknown"}, {2})
  \union R({"GET_CONFIGURATION"}, {"-"}, {1}) \union R({"GET_INTERFACE"}, {"-"}, {1})
  \union R({"GET_STATUS"}, {"ep1", "device", "unknown"}, {2})
  \union R({"GET_LINE_CODING"}, {"-"}, {LineLen})
  \union R({"SET_LINE_CODING"}, Lines, {LineLen})
  \union R({"SET_LINE_CTLSTE"}, {"-"}, {0})
  \union R({"SET_ADDRESS"}, {"five"}, {0})
  \union R({"SET_CONFIGURATION"}, {"one"}, {0})
  \union R({"SET_FEATURE", "CLEAR_FEATURE"}, {"ep1", "ep3", "device"}, {0})
  \union R({"OTHER"}, {"-"}, {0})
=============================================================================
