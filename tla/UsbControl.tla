----------------------------- MODULE UsbControl -----------------------------
(***************************************************************************)
(* The control pipe of the USB device, USBFS_IRQHandler of                 *)
(* ch32v30x_usbfs_device.c, against a host that may repeat, give up and    *)
(* begin anew, and lose handshakes.                                        *)
(*                                                                         *)
(* A transaction and its interrupt are one step: the controller answers    *)
(* NAK while the interrupt is pending (USBFS_UC_INT_BUSY), and only the    *)
(* interrupt touches what this module describes, but for uep["ep3"] and    *)
(* Busy, which module UsbCdc shares with the program.  A transaction the   *)
(* device answers with NAK changes nothing and is no step.  A byte is a    *)
(* pair <<what it belongs to, its place>>.                                 *)
(***************************************************************************)
EXTENDS Naturals, Sequences

CONSTANTS
  Packet,        (* DEF_USBD_UEP0_SIZE, 64 *)
  SetupLen,      (* bytes of a SETUP packet, 8 *)
  DescLen,       (* descriptor -> its length *)
  LineLen,       (* bytes of a line coding, 7 *)
  Lines, Line0,  (* line codings a host may set; the one at boot *)
  Requests,      (* the requests of the host *)
  MaxSetups, MaxLosses, MaxResets   (* bounds of the model *)

Descriptors == DOMAIN DescLen
Endpoints == {"ep1", "ep2", "ep3"}
(* A halt of ep3 is undone by the next write of the program, so no host    *)
(* can rely on it.                                                         *)
Lasting == Endpoints \ {"ep3"}

(* What the handler tells requests by. *)
Class == {"GET_LINE_CODING", "SET_LINE_CODING", "SET_LINE_CTLSTE", "SEND_BREAK"}
Reads == {"GET_DESCRIPTOR", "GET_CONFIGURATION", "GET_INTERFACE", "GET_STATUS",
          "GET_LINE_CODING"}

(* The names of things in bytes, addresses and requests. *)
Words == Descriptors \union Lines \union {Line0} \union {r.code : r \in Requests}
         \union {r.arg : r \in Requests}
         \union {"none", "-", "null", "zero", "?", "line", "setup", "halted", "beyond"}

(* Lengths a host asks for are those of chapter 9 and of the CDC class; it *)
(* sends data with class requests only.                                    *)
ASSUME UsbAssumption ==
  /\ Packet \in Nat /\ SetupLen \in 1..Packet /\ LineLen \in 1..Packet /\ Packet >= 2
  /\ "line" \notin Descriptors
  /\ \A d \in Descriptors : DescLen[d] \in Nat \ {0}
  /\ Requests \subseteq [code : Words, arg : Words, len : Nat]
  /\ \A r \in Requests :
       /\ r.code \in {"GET_LINE_CODING", "SET_LINE_CODING"} => r.len = LineLen
       /\ r.code \in {"GET_CONFIGURATION", "GET_INTERFACE"} => r.len = 1
       /\ r.code = "GET_STATUS" => r.len = 2
       /\ r.len > 0 => r.code \in Reads \union Class \union {"OTHER"}
  /\ {MaxSetups, MaxLosses, MaxResets} \subseteq Nat

VARIABLES
  (* USBFS_SetupReqCode with its type, USBFS_SetupReqLen *)
  SetupReqCode, SetupReqLen,
  pUSBFS_Descr,          (* the object pointed into, and the offset *)
  EP0_Buf,
  tx, rx,                (* UEP0_TX_CTRL with UEP0_TX_LEN, UEP0_RX_CTRL *)
  DevAddr, DEV_ADDR,     (* the address to take, and the one in the controller *)
  DevConfig, LineCoding,
  uep, Busy,             (* UEPn_CTRL of the other endpoints; USBFS_Endp_Busy[3] *)
  (* the host *)
  pipe,                  (* the control transfer *)
  hostAddr, known,       (* what the host takes for granted; "?" when it cannot *)
  missed,                (* history: the ACK of the last IN of the stage was lost *)
  setups, losses, resets

endpoint0 == <<SetupReqCode, SetupReqLen, pUSBFS_Descr, EP0_Buf, tx, rx>>
device == <<endpoint0, DevAddr, DEV_ADDR, DevConfig, LineCoding, uep, Busy>>
controlVars == <<device, pipe, hostAddr, known, missed, setups, losses, resets>>

Least(a, b) == IF a <= b THEN a ELSE b
Of(thing, n) == [i \in 1..n |-> <<thing, i>>]
Zero == <<"zero", 1>>

Idle0 == [e \in Endpoints |-> [tog |-> 0, res |-> IF e = "ep2" THEN "ACK" ELSE "NAK"]]
NoTransfer == [stage |-> "idle", r |-> [code |-> "none", arg |-> "-", len |-> 0],
               got |-> <<>>, want |-> 1, due |-> <<>>]
AllClear == [e \in Lasting |-> "clear"]

(* After USBFS_Device_Init. *)
ControlInit ==
  /\ SetupReqCode = "none" /\ SetupReqLen = 0
  /\ pUSBFS_Descr = [of |-> "null", at |-> 0]
  /\ EP0_Buf = [i \in 1..Packet |-> Zero]
  /\ tx = [tog |-> 0, res |-> "NAK", len |-> 0]
  /\ rx = [tog |-> 0, res |-> "ACK"]
  /\ DevAddr = "zero" /\ DEV_ADDR = "zero" /\ DevConfig = "zero"
  /\ LineCoding = Of(Line0, LineLen)
  /\ uep = Idle0 /\ Busy = FALSE
  /\ pipe = NoTransfer /\ hostAddr = "zero"
  /\ known = [conf |-> "zero", line |-> Line0, halt |-> AllClear]
  /\ missed = FALSE /\ setups = 0 /\ losses = 0 /\ resets = 0
-----------------------------------------------------------------------------
(* The interrupt: SETUP. *)

(* errflag = 0xFF.  MyCfgDescr[7] does not announce remote wake-up, so the *)
(* device feature can be cleared but not set.                              *)
Unsupported(r) ==
  \/ r.code = "OTHER"
  \/ r.code = "GET_DESCRIPTOR" /\ r.arg \notin Descriptors
  \/ r.code = "GET_STATUS" /\ r.arg \notin Endpoints \union {"device"}
  \/ r.code = "CLEAR_FEATURE" /\ r.arg \notin Endpoints \union {"device"}
  \/ r.code = "SET_FEATURE" /\ r.arg \notin Endpoints

(* USBFS_SetupReqLen, cut to what there is to send. *)
Cut(r) ==
  CASE r.code = "GET_DESCRIPTOR" ->
         IF r.arg \in Descriptors THEN Least(r.len, DescLen[r.arg]) ELSE 0
    [] r.code \in {"GET_CONFIGURATION", "GET_INTERFACE"} -> Least(r.len, 1)
    [] r.code = "GET_STATUS" -> Least(r.len, 2)
    [] OTHER -> r.len

(* One byte behind a pointer; LineCoding is read where it lies. *)
Behind(p, i) ==
  IF p.of = "line" /\ p.at + i <= LineLen THEN LineCoding[p.at + i]
  ELSE IF p.of \in Descriptors /\ p.at + i <= DescLen[p.of] THEN <<p.of, p.at + i>>
  ELSE <<"beyond", 1>>

(* Mutant: the pointer stays where it is. *)
Past_stays(p, n) == p

(* The pointer behind the n bytes copied, and the part of a length that    *)
(* one packet carries.                                                     *)
Past(p, n) == [p EXCEPT !.at = @ + n]

Chunk(n) == Least(n, Packet)

memcpy(b, p, n) == [i \in 1..Packet |-> IF i <= n THEN Behind(p, i) ELSE b[i]]

(* Where pUSBFS_Descr points before the copy. *)
Pointed(r) ==
  IF r.code = "GET_DESCRIPTOR" /\ r.arg \in Descriptors THEN [of |-> r.arg, at |-> 0]
  ELSE IF r.code = "GET_LINE_CODING" THEN [of |-> "line", at |-> 0]
  ELSE pUSBFS_Descr

(* Every class request copies from the pointer, whatever it points to. *)
Loads(r) == r.code \in Class \union {"GET_DESCRIPTOR"}

Halted(e) == e \in Endpoints /\ uep[e].res = "STALL"

(* EP0_Buf received the SETUP packet before the handler writes the answer. *)
Prepared(r, n) ==
  LET b == [i \in 1..Packet |-> IF i <= SetupLen THEN <<"setup", i>> ELSE EP0_Buf[i]]
  IN CASE Loads(r) -> memcpy(b, Pointed(r), n)
       [] r.code = "GET_CONFIGURATION" -> [b EXCEPT ![1] = <<DevConfig, 1>>]
       [] r.code = "GET_INTERFACE" -> [b EXCEPT ![1] = Zero]
       [] r.code = "GET_STATUS" ->
            [b EXCEPT ![1] = IF Halted(r.arg) THEN <<"halted", 1>> ELSE Zero, ![2] = Zero]
       [] OTHER -> b

(* The features of an endpoint: CLEAR_FEATURE rewinds its toggle and gives *)
(* it the response it has when idle; neither looks at Busy.                *)
Featured(r) ==
  IF r.arg \notin Endpoints THEN uep
  ELSE IF r.code = "CLEAR_FEATURE" THEN [uep EXCEPT ![r.arg] = Idle0[r.arg]]
  ELSE IF r.code = "SET_FEATURE" THEN [uep EXCEPT ![r.arg].res = "STALL"]
  ELSE uep

SETUP(r) ==
  LET n == Chunk(Cut(r))
      reads == r.code \in Reads
      takes == ~reads /\ Cut(r) > 0
  IN /\ SetupReqCode' = r.code
     /\ EP0_Buf' = Prepared(r, n)
     /\ pUSBFS_Descr' =
          IF Loads(r) THEN Past(Pointed(r), n) ELSE pUSBFS_Descr
     /\ SetupReqLen' = IF reads /\ ~Unsupported(r) THEN Cut(r) - n ELSE Cut(r)
     /\ tx' = IF Unsupported(r) THEN [tx EXCEPT !.tog = 1, !.res = "STALL"]
              ELSE IF takes THEN [tx EXCEPT !.tog = 1, !.res = "NAK"]
              ELSE [tog |-> 1, res |-> "ACK", len |-> n]
     /\ rx' = [tog |-> 1, res |-> IF Unsupported(r) THEN "STALL"
                                  ELSE IF takes THEN "ACK" ELSE "NAK"]
     /\ DevAddr' = IF r.code = "SET_ADDRESS" THEN r.arg ELSE DevAddr
     /\ DevConfig' = IF r.code = "SET_CONFIGURATION" THEN r.arg ELSE DevConfig
     /\ uep' = Featured(r)
     /\ UNCHANGED <<DEV_ADDR, LineCoding, Busy>>
-----------------------------------------------------------------------------
(* The interrupt: IN, OUT, bus reset. *)

(* Mutant: the status stage of a read is not prepared. *)
Turned_never == rx

(* Nothing was left to send: the host turns to the status stage. *)
Turned == IF SetupReqLen = 0 THEN [tog |-> 1, res |-> "ACK"] ELSE rx

(* Mutant: the address is taken with any IN. *)
Taken_always == DevAddr

(* The new address, once the status stage of SET_ADDRESS is over. *)
Taken == IF SetupReqCode = "SET_ADDRESS" THEN DevAddr ELSE DEV_ADDR

(* An IN of endpoint 0 was acknowledged. *)
EP0_IN ==
  LET n == Chunk(SetupReqLen)
      more == SetupReqCode = "GET_DESCRIPTOR"
  IN /\ rx' = Turned
     /\ EP0_Buf' = IF more THEN memcpy(EP0_Buf, pUSBFS_Descr, n) ELSE EP0_Buf
     /\ pUSBFS_Descr' = IF more THEN Past(pUSBFS_Descr, n) ELSE pUSBFS_Descr
     /\ SetupReqLen' = IF more THEN SetupReqLen - n ELSE SetupReqLen
     /\ tx' = IF more THEN [tx EXCEPT !.len = n, !.tog = 1 - @] ELSE tx
     /\ DEV_ADDR' = Taken
     /\ UNCHANGED <<SetupReqCode, DevAddr, DevConfig, LineCoding, uep, Busy>>

(* An OUT of endpoint 0 arrived, DATA1, with these bytes: it is looked at  *)
(* only if that is the toggle expected (USBFS_UIS_TOG_OK).                 *)
EP0_OUT(data) ==
  LET b == [i \in 1..Packet |-> IF i <= Len(data) THEN data[i] ELSE EP0_Buf[i]]
      ok == rx.tog = 1
      left == IF SetupReqCode \in Class THEN 0 ELSE SetupReqLen
  IN /\ EP0_Buf' = b
     /\ SetupReqLen' = IF ok THEN left ELSE SetupReqLen
     /\ LineCoding' = IF ok /\ SetupReqCode = "SET_LINE_CODING"
                      THEN SubSeq(b, 1, LineLen) ELSE LineCoding
     /\ tx' = IF ok /\ left = 0 THEN [tog |-> 1, res |-> "ACK", len |-> 0] ELSE tx
     /\ UNCHANGED <<SetupReqCode, pUSBFS_Descr, rx, DevAddr, DEV_ADDR, DevConfig,
                    uep, Busy>>

(* USBFS_UIF_BUS_RST, with USBFS_Device_Endp_Init.  The code and length of *)
(* the last request stay, and so does the line coding.                     *)
BUS_RST ==
  /\ DevConfig' = "zero" /\ DevAddr' = "zero" /\ DEV_ADDR' = "zero"
  /\ tx' = [tx EXCEPT !.tog = 0, !.res = "NAK"]
  /\ rx' = [tog |-> 0, res |-> "ACK"]
  /\ uep' = Idle0 /\ Busy' = FALSE
  /\ UNCHANGED <<SetupReqCode, SetupReqLen, pUSBFS_Descr, EP0_Buf, LineCoding>>
-----------------------------------------------------------------------------
(* The host.  It keeps the rules of chapter 8 of the USB specification:    *)
(* data toggles, a data stage that ends with a short packet or all it      *)
(* asked for, and a status stage in the other direction with DATA1.        *)

(* What the request must bring, by what the host knows of the device. *)
Due(r) ==
  CASE r.code = "GET_DESCRIPTOR" ->
         IF r.arg \in Descriptors THEN Of(r.arg, Least(r.len, DescLen[r.arg])) ELSE <<>>
    [] r.code = "GET_CONFIGURATION" -> <<<<known.conf, 1>>>>
    [] r.code = "GET_INTERFACE" -> <<Zero>>
    [] r.code = "GET_STATUS" ->
         <<IF r.arg = "ep3" THEN <<"?", 1>>
           ELSE IF r.arg \in Lasting /\ known.halt[r.arg] # "clear"
                THEN <<known.halt[r.arg], 1>> ELSE Zero, Zero>>
    [] r.code = "GET_LINE_CODING" -> Of(known.line, LineLen)
    [] OTHER -> <<>>

(* The host's view of what a request sets, once it is known to have v.     *)
Learned(r, v) ==
  CASE r.code = "SET_CONFIGURATION" -> [known EXCEPT !.conf = v]
    [] r.code = "SET_LINE_CODING" -> [known EXCEPT !.line = v]
    [] r.code \in {"SET_FEATURE", "CLEAR_FEATURE"} /\ r.arg \in Lasting ->
         [known EXCEPT !.halt[r.arg] = v]
    [] OTHER -> known

Meant(r) == CASE r.code = "SET_FEATURE" -> "halted"
              [] r.code = "CLEAR_FEATURE" -> "clear"
              [] OTHER -> r.arg

(* A SETUP, possibly in the middle of a transfer, which it ends; what the  *)
(* request is to set is unknown until the transfer is complete.            *)
HostSetup(r) ==
  /\ setups < MaxSetups /\ hostAddr = DEV_ADDR
  /\ pipe' = [stage |-> IF r.code \in Reads THEN "data_in"
                        ELSE IF r.len > 0 THEN "data_out" ELSE "status_in",
              r |-> r, got |-> <<>>, want |-> 1, due |-> Due(r)]
  /\ known' = Learned(r, "?")
  /\ missed' = FALSE /\ setups' = setups + 1
  /\ SETUP(r)
  /\ UNCHANGED <<hostAddr, losses, resets>>

HostStalled ==
  /\ hostAddr = DEV_ADDR
  /\ \/ pipe.stage \in {"data_in", "status_in"} /\ tx.res = "STALL"
     \/ pipe.stage = "data_out" /\ rx.res = "STALL"
  /\ pipe' = [pipe EXCEPT !.stage = "stalled"]
  /\ UNCHANGED <<device, hostAddr, known, missed, setups, losses, resets>>

(* The handshake of a transaction is heard, or lost. *)
Handshake(heard) ==
  /\ heard \/ losses < MaxLosses
  /\ losses' = IF heard THEN losses ELSE losses + 1
  /\ UNCHANGED <<setups, resets>>

(* An IN: the interrupt comes only if the host's ACK is heard.  If the ACK *)
(* of the last packet of a stage is lost, the host does not ask again.     *)
HostIn(heard) ==
  LET fresh == tx.tog = pipe.want
      got == pipe.got \o SubSeq(EP0_Buf, 1, tx.len)
      last == pipe.stage = "status_in" \/ tx.len < Packet \/ Len(got) >= pipe.r.len
  IN /\ pipe.stage \in {"data_in", "status_in"}
     /\ hostAddr = DEV_ADDR /\ tx.res = "ACK"
     /\ Handshake(heard)
     /\ pipe' = IF ~fresh THEN pipe
                ELSE [pipe EXCEPT !.got = got, !.want = 1 - @,
                        !.stage = IF ~last THEN @
                                  ELSE IF @ = "data_in" THEN "status_out" ELSE "idle"]
     /\ IF fresh /\ pipe.stage = "status_in"
        THEN /\ known' = Learned(pipe.r, Meant(pipe.r))
             /\ hostAddr' = IF pipe.r.code = "SET_ADDRESS" THEN pipe.r.arg ELSE hostAddr
        ELSE UNCHANGED <<known, hostAddr>>
     /\ missed' = (fresh /\ last /\ ~heard)
     /\ IF heard THEN EP0_IN ELSE UNCHANGED device

(* An OUT: the device has it, and the host repeats it unless it hears so. *)
HostOut(heard) ==
  /\ pipe.stage \in {"data_out", "status_out"}
  /\ hostAddr = DEV_ADDR /\ rx.res = "ACK"
  /\ Handshake(heard)
  /\ EP0_OUT(IF pipe.stage = "data_out" THEN Of(pipe.r.arg, pipe.r.len) ELSE <<>>)
  /\ pipe' = [pipe EXCEPT !.stage = IF ~heard THEN @
                ELSE IF @ = "data_out" THEN "status_in" ELSE "idle"]
  /\ UNCHANGED <<hostAddr, known, missed>>

HostReset ==
  /\ resets < MaxResets /\ resets' = resets + 1
  /\ pipe' = NoTransfer /\ hostAddr' = "zero" /\ missed' = FALSE
  /\ known' = [known EXCEPT !.conf = "zero", !.halt = AllClear]
  /\ BUS_RST
  /\ UNCHANGED <<setups, losses>>

ControlNext ==
  \/ \E r \in Requests : HostSetup(r)
  \/ HostStalled
  \/ \E heard \in BOOLEAN : HostIn(heard) \/ HostOut(heard)
  \/ HostReset

ControlSpec == ControlInit /\ [][ControlNext]_controlVars
-----------------------------------------------------------------------------
(* Properties. *)

Toggle == {0, 1}
Response == {"ACK", "NAK", "STALL"}

Byte == Words \X Nat
Stage == {"idle", "data_in", "data_out", "status_in", "status_out", "stalled"}

(* Type invariant; the packet announced never exceeds the buffer. *)
DeviceTypeOK ==
  /\ SetupReqCode \in Words /\ SetupReqLen \in Nat
  /\ pUSBFS_Descr \in [of : Words, at : Nat]
  /\ EP0_Buf \in [1..Packet -> Byte] /\ LineCoding \in [1..LineLen -> Byte]
  /\ tx \in [tog : Toggle, res : Response, len : 0..Packet]
  /\ rx \in [tog : Toggle, res : Response]
  /\ DevAddr \in Words /\ DEV_ADDR \in Words /\ DevConfig \in Words
  /\ uep \in [Endpoints -> [tog : Toggle, res : Response]] /\ Busy \in BOOLEAN

HostTypeOK ==
  /\ pipe \in [stage : Stage, r : [code : Words, arg : Words, len : Nat],
               got : Seq(Byte), want : Toggle, due : Seq(Byte)]
  /\ hostAddr \in Words
  /\ known \in [conf : Words, line : Words, halt : [Lasting -> {"?", "clear", "halted"}]]
  /\ missed \in BOOLEAN
  /\ setups \in 0..MaxSetups /\ losses \in 0..MaxLosses /\ resets \in 0..MaxResets

ControlTypeOK == DeviceTypeOK /\ HostTypeOK

(* A control read brings the host the bytes it asked for, in order, each   *)
(* once, and all that exist, whatever was repeated, lost or given up       *)
(* before: descriptors in packets, the configuration it set, the line      *)
(* coding it set, the halts it set.                                        *)
DataExact ==
  pipe.r.code \in Reads =>
    /\ Len(pipe.got) <= Len(pipe.due)
    /\ \A i \in DOMAIN pipe.got : pipe.due[i][1] = "?" \/ pipe.got[i] = pipe.due[i]
    /\ pipe.stage = "status_out" => Len(pipe.got) = Len(pipe.due)

(* The device is always ready for the transaction the host will try next:  *)
(* it never leaves a transfer to the host's time-out, and refuses exactly  *)
(* what it does not support.  There is one exception, which no later step  *)
(* of the transfer mends: the ACK of the last packet of a read was lost,   *)
(* the device still holds that packet for an IN the host will not send,    *)
(* and answers the status stage by NAK.                                    *)
Answered ==
  LET res == IF pipe.stage \in {"data_in", "status_in"} THEN tx.res ELSE rx.res
  IN pipe.stage \in {"data_in", "data_out", "status_in", "status_out"} =>
       \/ res = IF Unsupported(pipe.r) THEN "STALL" ELSE "ACK"
       \/ /\ pipe.stage = "status_out" /\ missed /\ res = "NAK"
          /\ tx.res = "ACK" /\ tx.tog # pipe.want

(* What the host has been told holds in the device: address,               *)
(* configuration, line coding, halts.  An address differs only if the ACK  *)
(* of its status stage was lost, and then until the next bus reset.        *)
HostAgrees ==
  /\ hostAddr = DEV_ADDR \/ missed
  /\ known.conf \in {"?", DevConfig}
  /\ known.line # "?" => LineCoding = Of(known.line, LineLen)
  /\ \A e \in Lasting : known.halt[e] # "?" => (Halted(e) <=> known.halt[e] = "halted")
=============================================================================
