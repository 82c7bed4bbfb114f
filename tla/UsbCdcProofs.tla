---------------------------- MODULE UsbCdcProofs ----------------------------
(***************************************************************************)
(* The control pipe of UsbControl under everything UsbCdc lets happen to   *)
(* it, and the packets of endpoint 3: for every packet size, descriptor    *)
(* and history of losses, resets and transfers given up, a read brings its *)
(* bytes, every transfer is answered, and the host's idea of the device is *)
(* right; and outside the windows of slip no packet is lost or doubled.    *)
(***************************************************************************)
EXTENDS UsbCdc, SequenceTheorems, FiniteSetTheorems, TLAPS

-----------------------------------------------------------------------------
(* Lemmas about the operators of the handler. *)

Request == [code : Words, arg : Words, len : Nat]
Control == [tog : Toggle, res : Response]

(* A request is cut to a natural number of bytes, at most those asked for. *)
LEMMA CutFacts ==
  ASSUME NEW r \in Requests
  PROVE  /\ r \in Request
         /\ Cut(r) \in Nat /\ Cut(r) <= r.len
         /\ r.code \notin Reads => Cut(r) = r.len
         /\ r.code \in Reads /\ r.code # "GET_DESCRIPTOR" => Cut(r) = r.len /\ r.len <= Packet
<1>1. r \in Request
  BY UsbAssumption DEF UsbAssumption, Request
<1>2. r.arg \in Descriptors => DescLen[r.arg] \in Nat
  BY UsbAssumption DEF UsbAssumption
<1> QED
  BY <1>1, <1>2, UsbAssumption DEF UsbAssumption, Request, Cut, Reads, Least

(* A packet carries at most Packet bytes. *)
LEMMA ChunkFacts ==
  ASSUME NEW n \in Nat
  PROVE  /\ Chunk(n) \in 0..Packet /\ Chunk(n) <= n
         /\ Chunk(n) < Packet => Chunk(n) = n
         /\ n <= Packet => Chunk(n) = n
BY UsbAssumption DEF UsbAssumption, Chunk, Least

(* What is copied are bytes, wherever the pointer points. *)
LEMMA CopiedBytes ==
  ASSUME LineCoding \in [1..LineLen -> Byte],
         NEW b \in [1..Packet -> Byte], NEW n \in Nat,
         NEW p \in [of : Words, at : Nat]
  PROVE  memcpy(b, p, n) \in [1..Packet -> Byte]
<1>1. ASSUME NEW i \in 1..Packet
      PROVE  Behind(p, i) \in Byte
  <2>1. p.at + i \in Nat /\ p.at + i >= 1 /\ p.of \in Words
    OBVIOUS
  <2>2. CASE p.of = "line" /\ p.at + i <= LineLen
    <3>1. p.at + i \in 1..LineLen
      BY <2>1, <2>2, UsbAssumption DEF UsbAssumption
    <3> QED BY <3>1, <2>2 DEF Behind
  <2>3. CASE ~(p.of = "line" /\ p.at + i <= LineLen)
    <3>1. <<p.of, p.at + i>> \in Byte /\ <<"beyond", 1>> \in Byte
      BY <2>1 DEF Byte, Words
    <3> QED BY <3>1, <2>3, Zenon DEF Behind
  <2> QED BY <2>2, <2>3
<1> QED BY <1>1 DEF memcpy

(* The first n cells of the buffer, as a sequence. *)
LEMMA FirstCells ==
  ASSUME EP0_Buf \in [1..Packet -> Byte], NEW n \in 0..Packet
  PROVE  /\ SubSeq(EP0_Buf, 1, n) \in Seq(Byte)
         /\ Len(SubSeq(EP0_Buf, 1, n)) = n
         /\ \A i \in 1..n : SubSeq(EP0_Buf, 1, n)[i] = EP0_Buf[i]
<1>1. EP0_Buf \in Seq(Byte) /\ Len(EP0_Buf) = Packet
  BY UsbAssumption DEF UsbAssumption
<1> QED BY <1>1, UsbAssumption DEF UsbAssumption

(* The bytes of a thing. *)
LEMMA OfFacts ==
  ASSUME NEW thing \in Words, NEW n \in Nat
  PROVE  /\ Of(thing, n) \in [1..n -> Byte] /\ Of(thing, n) \in Seq(Byte)
         /\ Len(Of(thing, n)) = n
         /\ \A i \in 1..n : Of(thing, n)[i] = <<thing, i>>
<1>1. Of(thing, n) \in [1..n -> Byte] /\ \A i \in 1..n : Of(thing, n)[i] = <<thing, i>>
  BY DEF Of, Byte
<1>2. Of(thing, n) \in Seq(Byte)
  BY <1>1
<1> QED BY <1>1, <1>2
-----------------------------------------------------------------------------
(* Types. *)

LEMMA WordsFacts ==
  /\ {"none", "-", "null", "zero", "?", "line", "setup", "halted", "beyond"} \subseteq Words
  /\ Line0 \in Words /\ Lines \subseteq Words /\ Descriptors \subseteq Words
  /\ \A w \in Words, n \in Nat : <<w, n>> \in Byte
  /\ Zero \in Byte
BY DEF Words, Byte, Zero

(* What the host must get is a sequence of bytes. *)
LEMMA DueTyped ==
  ASSUME HostTypeOK, NEW r \in Requests
  PROVE  Due(r) \in Seq(Byte)
<1>1. r \in Request /\ Zero \in Byte /\ <<"?", 1>> \in Byte
  BY CutFacts, WordsFacts
<1>2. known.conf \in Words /\ known.line \in Words
      /\ \A e \in Lasting : known.halt[e] \in {"?", "clear", "halted"}
  BY DEF HostTypeOK
<1>3. r.arg \in Descriptors => Least(r.len, DescLen[r.arg]) \in Nat
  BY <1>1, UsbAssumption DEF UsbAssumption, Least, Request
<1>4. CASE r.code = "GET_DESCRIPTOR"
  <2>1. CASE r.arg \in Descriptors
    BY <1>1, <1>3, <1>4, <2>1, OfFacts DEF Due, Request
  <2>2. CASE r.arg \notin Descriptors
    BY <1>4, <2>2 DEF Due
  <2> QED BY <2>1, <2>2
<1>5. CASE r.code = "GET_CONFIGURATION"
  <2>1. <<known.conf, 1>> \in Byte
    BY <1>2, WordsFacts
  <2> QED BY <1>5, <2>1 DEF Due
<1>6. CASE r.code = "GET_INTERFACE"
  BY <1>6, <1>1 DEF Due
<1>7. CASE r.code = "GET_STATUS"
  <2> DEFINE h == IF r.arg = "ep3" THEN <<"?", 1>>
                  ELSE IF r.arg \in Lasting /\ known.halt[r.arg] # "clear"
                       THEN <<known.halt[r.arg], 1>> ELSE Zero
  <2>1. h \in Byte
    <3>1. r.arg \in Lasting /\ known.halt[r.arg] # "clear" => known.halt[r.arg] \in Words
      BY <1>2, WordsFacts
    <3> QED BY <3>1, <1>1, WordsFacts
  <2>2. Due(r) = <<h, Zero>>
    BY <1>7 DEF Due
  <2> HIDE DEF h
  <2> QED BY <2>1, <2>2, <1>1
<1>8. CASE r.code = "GET_LINE_CODING"
  BY <1>8, <1>2, OfFacts, UsbAssumption DEF Due, UsbAssumption
<1>9. CASE r.code \notin Reads
  BY <1>9 DEF Due, Reads
<1> QED BY <1>4, <1>5, <1>6, <1>7, <1>8, <1>9 DEF Reads

(* What the host knows keeps its type. *)
LEMMA LearnedTyped ==
  ASSUME HostTypeOK, NEW r \in Request, NEW v,
         v \in Words \/ r.code \in {"SET_FEATURE", "CLEAR_FEATURE"},
         r.code \in {"SET_FEATURE", "CLEAR_FEATURE"} => v \in {"?", "clear", "halted"}
  PROVE  Learned(r, v) \in [conf : Words, line : Words,
                            halt : [Lasting -> {"?", "clear", "halted"}]]
<1>1. known \in [conf : Words, line : Words, halt : [Lasting -> {"?", "clear", "halted"}]]
  BY DEF HostTypeOK
<1>2. CASE r.code = "SET_CONFIGURATION"
  BY <1>1, <1>2 DEF Learned
<1>3. CASE r.code = "SET_LINE_CODING"
  BY <1>1, <1>3 DEF Learned
<1>4. CASE r.code \in {"SET_FEATURE", "CLEAR_FEATURE"} /\ r.arg \in Lasting
  BY <1>1, <1>4 DEF Learned
<1>5. CASE /\ r.code \notin {"SET_CONFIGURATION", "SET_LINE_CODING"}
           /\ ~(r.code \in {"SET_FEATURE", "CLEAR_FEATURE"} /\ r.arg \in Lasting)
  BY <1>1, <1>5 DEF Learned
<1> QED BY <1>2, <1>3, <1>4, <1>5

LEMMA SetupDeviceTyped ==
  ASSUME DeviceTypeOK, NEW r \in Requests, SETUP(r)
  PROVE  DeviceTypeOK'
<1> USE DEF DeviceTypeOK
<1>1. r \in Request /\ r.code \in Words /\ r.arg \in Words
  BY CutFacts DEF Request
<1>2. Chunk(Cut(r)) \in 0..Packet /\ Cut(r) \in Nat /\ Cut(r) - Chunk(Cut(r)) \in Nat
  BY CutFacts, ChunkFacts
<1>3. Pointed(r) \in [of : Words, at : Nat]
  BY <1>1, WordsFacts DEF Pointed
<1>4. SetupReqCode' \in Words /\ SetupReqLen' \in Nat
  BY <1>1, <1>2 DEF SETUP
<1>5. pUSBFS_Descr' \in [of : Words, at : Nat]
  <2>1. Past(Pointed(r), Chunk(Cut(r))) \in [of : Words, at : Nat]
    BY <1>2, <1>3 DEF Past
  <2> QED BY <2>1 DEF SETUP
<1>6. EP0_Buf' \in [1..Packet -> Byte]
  <2> DEFINE b == [i \in 1..Packet |-> IF i <= SetupLen THEN <<"setup", i>> ELSE EP0_Buf[i]]
  <2>1. b \in [1..Packet -> Byte]
    BY WordsFacts
  <2>2. memcpy(b, Pointed(r), Chunk(Cut(r))) \in [1..Packet -> Byte]
    <3> HIDE DEF b
    <3>1. Chunk(Cut(r)) \in Nat /\ LineCoding \in [1..LineLen -> Byte]
      BY <1>2
    <3> QED BY <2>1, <3>1, <1>3, CopiedBytes
  <2>3. /\ <<DevConfig, 1>> \in Byte /\ <<"halted", 1>> \in Byte /\ Zero \in Byte
        /\ 1 \in 1..Packet /\ 2 \in 1..Packet
    BY WordsFacts, UsbAssumption DEF UsbAssumption
  <2>4. EP0_Buf' = Prepared(r, Chunk(Cut(r)))
    BY DEF SETUP
  <2> HIDE DEF b
  <2>5. Prepared(r, Chunk(Cut(r))) =
          CASE Loads(r) -> memcpy(b, Pointed(r), Chunk(Cut(r)))
            [] r.code = "GET_CONFIGURATION" -> [b EXCEPT ![1] = <<DevConfig, 1>>]
            [] r.code = "GET_INTERFACE" -> [b EXCEPT ![1] = Zero]
            [] r.code = "GET_STATUS" ->
                 [b EXCEPT ![1] = IF Halted(r.arg) THEN <<"halted", 1>> ELSE Zero, ![2] = Zero]
            [] OTHER -> b
    BY DEF b, Prepared
  <2>6. CASE Loads(r)
    BY <2>2, <2>4, <2>5, <2>6 DEF Loads, Class
  <2>7. CASE ~Loads(r)
    BY <2>1, <2>3, <2>4, <2>5, <2>7
  <2> QED BY <2>6, <2>7
<1>7. tx' \in [tog : Toggle, res : Response, len : 0..Packet]
  BY <1>2 DEF SETUP, Toggle, Response
<1>8. rx' \in Control
  BY DEF SETUP, Toggle, Response, Control
<1>9. DevAddr' \in Words /\ DevConfig' \in Words
  BY <1>1 DEF SETUP
<1>10. uep' \in [Endpoints -> Control]
  <2>1. Idle0 \in [Endpoints -> Control]
    BY DEF Idle0, Control, Toggle, Response
  <2>2. uep \in [Endpoints -> Control] /\ uep' = Featured(r)
    BY DEF SETUP, Control
  <2>3. \A e \in Endpoints : [uep[e] EXCEPT !.res = "STALL"] \in Control
    BY <2>2 DEF Control, Response
  <2> QED BY <2>1, <2>2, <2>3 DEF Featured
<1>11. UNCHANGED <<DEV_ADDR, LineCoding, Busy>>
  BY DEF SETUP
<1> QED BY <1>4, <1>5, <1>6, <1>7, <1>8, <1>9, <1>10, <1>11 DEF Control

LEMMA Flipped ==
  ASSUME NEW t \in Toggle
  PROVE  1 - t \in Toggle /\ 1 - t # t
BY DEF Toggle

LEMMA InTyped ==
  ASSUME DeviceTypeOK, EP0_IN
  PROVE  DeviceTypeOK'
<1> USE DEF DeviceTypeOK
<1> DEFINE n == Chunk(SetupReqLen)
<1>1. n \in 0..Packet /\ n \in Nat /\ SetupReqLen - n \in Nat
  BY ChunkFacts
<1> HIDE DEF n
<1>2. memcpy(EP0_Buf, pUSBFS_Descr, n) \in [1..Packet -> Byte]
  BY <1>1, CopiedBytes
<1>3. Past(pUSBFS_Descr, n) \in [of : Words, at : Nat]
  BY <1>1 DEF Past
<1>4. [tx EXCEPT !.len = n, !.tog = 1 - @] \in [tog : Toggle, res : Response, len : 0..Packet]
  <2>1. tx \in [tog : Toggle, res : Response, len : 0..Packet] /\ 1 - tx.tog \in Toggle
    BY Flipped
  <2> QED BY <1>1, <2>1
<1>5. Turned \in Control /\ Taken \in Words
  BY DEF Turned, Taken, Control, Toggle, Response
<1> QED BY <1>1, <1>2, <1>3, <1>4, <1>5 DEF EP0_IN, Control, n

LEMMA OutTyped ==
  ASSUME DeviceTypeOK, NEW data \in Seq(Byte), EP0_OUT(data)
  PROVE  DeviceTypeOK'
<1> USE DEF DeviceTypeOK
<1> DEFINE b == [i \in 1..Packet |-> IF i <= Len(data) THEN data[i] ELSE EP0_Buf[i]]
           left == IF SetupReqCode \in Class THEN 0 ELSE SetupReqLen
<1>1. b \in [1..Packet -> Byte]
  BY UsbAssumption DEF UsbAssumption
<1>2. SubSeq(b, 1, LineLen) \in [1..LineLen -> Byte]
  <2> HIDE DEF b
  <2>1. b \in Seq(Byte) /\ Len(b) = Packet
    BY <1>1, UsbAssumption DEF UsbAssumption
  <2>2. SubSeq(b, 1, LineLen) \in Seq(Byte) /\ Len(SubSeq(b, 1, LineLen)) = LineLen
    BY <2>1, UsbAssumption DEF UsbAssumption
  <2> QED BY <2>2, LenProperties
<1>3. [tog |-> 1, res |-> "ACK", len |-> 0] \in [tog : Toggle, res : Response, len : 0..Packet]
  BY UsbAssumption DEF UsbAssumption, Toggle, Response
<1>4. left \in Nat
  OBVIOUS
<1>5. /\ EP0_Buf' = b
      /\ SetupReqLen' \in {left, SetupReqLen}
      /\ LineCoding' \in {SubSeq(b, 1, LineLen), LineCoding}
      /\ tx' \in {[tog |-> 1, res |-> "ACK", len |-> 0], tx}
      /\ UNCHANGED <<SetupReqCode, pUSBFS_Descr, rx, DevAddr, DEV_ADDR, DevConfig, uep, Busy>>
  BY DEF EP0_OUT
<1> HIDE DEF b, left
<1> QED BY <1>1, <1>2, <1>3, <1>4, <1>5

LEMMA ResetTyped ==
  ASSUME DeviceTypeOK, BUS_RST
  PROVE  DeviceTypeOK'
<1>1. Idle0 \in [Endpoints -> [tog : Toggle, res : Response]]
  BY DEF Idle0, Toggle, Response
<1> QED BY <1>1, WordsFacts DEF DeviceTypeOK, BUS_RST, Toggle, Response

(* The host's side of its five moves. *)
LEMMA HostSetupTyped ==
  ASSUME HostTypeOK, NEW r \in Requests, HostSetup(r)
  PROVE  HostTypeOK'
<1>1. r \in Request /\ Due(r) \in Seq(Byte) /\ "?" \in Words
  BY CutFacts, DueTyped, WordsFacts
<1>2. known' \in [conf : Words, line : Words, halt : [Lasting -> {"?", "clear", "halted"}]]
  BY <1>1, LearnedTyped DEF HostSetup
<1>3. setups' \in 0..MaxSetups
  BY UsbAssumption DEF UsbAssumption, HostSetup, HostTypeOK
<1>4. pipe' \in [stage : Stage, r : [code : Words, arg : Words, len : Nat],
                 got : Seq(Byte), want : Toggle, due : Seq(Byte)]
  BY <1>1 DEF HostSetup, Stage, Toggle, Request
<1> QED BY <1>2, <1>3, <1>4 DEF HostSetup, HostTypeOK

LEMMA StalledTyped ==
  ASSUME HostTypeOK, HostStalled
  PROVE  HostTypeOK'
BY DEF HostTypeOK, HostStalled, Stage

LEMMA HandshakeTyped ==
  ASSUME HostTypeOK, NEW heard \in BOOLEAN, Handshake(heard)
  PROVE  (setups \in 0..MaxSetups /\ losses \in 0..MaxLosses /\ resets \in 0..MaxResets)'
BY UsbAssumption DEF UsbAssumption, HostTypeOK, Handshake

LEMMA HostInTyped ==
  ASSUME DeviceTypeOK, HostTypeOK, NEW heard \in BOOLEAN, HostIn(heard)
  PROVE  HostTypeOK'
<1> USE DEF HostTypeOK
<1> DEFINE got == pipe.got \o SubSeq(EP0_Buf, 1, tx.len)
<1>1. got \in Seq(Byte)
  BY FirstCells DEF DeviceTypeOK
<1>2. pipe' \in [stage : Stage, r : [code : Words, arg : Words, len : Nat],
                 got : Seq(Byte), want : Toggle, due : Seq(Byte)]
  <2>1. 1 - pipe.want \in Toggle
    BY Flipped
  <2>2. /\ pipe \in [stage : Stage, r : [code : Words, arg : Words, len : Nat],
                     got : Seq(Byte), want : Toggle, due : Seq(Byte)]
        /\ {"idle", "status_out"} \subseteq Stage
    BY DEF Stage
  <2>3. \/ pipe' = pipe
        \/ \E s \in {pipe.stage, "idle", "status_out"} :
             pipe' = [pipe EXCEPT !.got = got, !.want = 1 - @, !.stage = s]
    BY DEF HostIn
  <2> HIDE DEF got
  <2>4. ASSUME NEW s \in Stage
        PROVE  [pipe EXCEPT !.got = got, !.want = 1 - @, !.stage = s] \in
                 [stage : Stage, r : [code : Words, arg : Words, len : Nat],
                  got : Seq(Byte), want : Toggle, due : Seq(Byte)]
    BY <1>1, <2>1, <2>2
  <2>5. pipe.stage \in Stage
    BY <2>2
  <2> QED BY <2>2, <2>3, <2>4, <2>5
<1>3. known' \in [conf : Words, line : Words, halt : [Lasting -> {"?", "clear", "halted"}]]
  <2>1. pipe.r \in Request /\ pipe.r.arg \in Words
    BY DEF Request
  <2>2. Learned(pipe.r, Meant(pipe.r)) \in [conf : Words, line : Words,
                            halt : [Lasting -> {"?", "clear", "halted"}]]
    BY <2>1, LearnedTyped DEF Meant
  <2> QED BY <2>2 DEF HostIn
<1>4. hostAddr' \in Words /\ missed' \in BOOLEAN
  BY DEF HostIn
<1> QED BY <1>2, <1>3, <1>4, HandshakeTyped DEF HostIn

LEMMA HostOutTyped ==
  ASSUME HostTypeOK, NEW heard \in BOOLEAN, HostOut(heard)
  PROVE  HostTypeOK'
<1>1. pipe' \in [stage : Stage, r : [code : Words, arg : Words, len : Nat],
                 got : Seq(Byte), want : Toggle, due : Seq(Byte)]
  BY DEF HostTypeOK, HostOut, Stage
<1> QED BY <1>1, HandshakeTyped DEF HostOut, HostTypeOK

LEMMA HostResetTyped ==
  ASSUME HostTypeOK, HostReset
  PROVE  HostTypeOK'
<1>1. pipe' \in [stage : Stage, r : [code : Words, arg : Words, len : Nat],
                 got : Seq(Byte), want : Toggle, due : Seq(Byte)]
  BY WordsFacts DEF HostReset, NoTransfer, Stage, Toggle
<1>2. known' \in [conf : Words, line : Words, halt : [Lasting -> {"?", "clear", "halted"}]]
  BY WordsFacts DEF HostReset, HostTypeOK, AllClear
<1>3. resets' \in 0..MaxResets
  BY UsbAssumption DEF UsbAssumption, HostReset, HostTypeOK
<1> QED BY <1>1, <1>2, <1>3, WordsFacts DEF HostReset, HostTypeOK

(* A whole move of the control pipe. *)
LEMMA ControlTyped ==
  ASSUME ControlTypeOK,
         \/ \E r \in Requests : HostSetup(r)
         \/ HostStalled
         \/ \E heard \in BOOLEAN : HostIn(heard) \/ HostOut(heard)
         \/ HostReset
  PROVE  ControlTypeOK'
<1> USE DEF ControlTypeOK
<1>1. ASSUME NEW r \in Requests, HostSetup(r)
      PROVE  ControlTypeOK'
  BY <1>1, HostSetupTyped, SetupDeviceTyped DEF HostSetup
<1>2. CASE HostStalled
  BY <1>2, StalledTyped DEF HostStalled, device, endpoint0, DeviceTypeOK
<1>3. ASSUME NEW heard \in BOOLEAN, HostIn(heard)
      PROVE  ControlTypeOK'
  <2>1. HostTypeOK'
    BY <1>3, HostInTyped
  <2>2. CASE heard
    BY <1>3, <2>1, <2>2, InTyped DEF HostIn
  <2>3. CASE ~heard
    BY <1>3, <2>1, <2>3 DEF HostIn, device, endpoint0, DeviceTypeOK
  <2> QED BY <2>2, <2>3
<1>4. ASSUME NEW heard \in BOOLEAN, HostOut(heard)
      PROVE  ControlTypeOK'
  <2>1. Of(pipe.r.arg, pipe.r.len) \in Seq(Byte) /\ <<>> \in Seq(Byte)
    BY OfFacts DEF HostTypeOK
  <2>2. PICK data \in Seq(Byte) : EP0_OUT(data)
    BY <1>4, <2>1 DEF HostOut
  <2> QED BY <1>4, <2>2, OutTyped, HostOutTyped
<1>5. CASE HostReset
  BY <1>5, ResetTyped, HostResetTyped DEF HostReset
<1> QED BY <1>1, <1>2, <1>3, <1>4, <1>5

(* What is left of the control variables by a step that is not a move of   *)
(* the control pipe: uep["ep3"], Busy and the losses may change.           *)
Aside ==
  /\ UNCHANGED <<endpoint0, DevAddr, DEV_ADDR, DevConfig, LineCoding>>
  /\ UNCHANGED <<pipe, hostAddr, known, missed>>
  /\ \A e \in Lasting : uep'[e] = uep[e]

Move ==
  \/ \E r \in Requests : HostSetup(r)
  \/ HostStalled
  \/ \E heard \in BOOLEAN : HostIn(heard) \/ HostOut(heard)
  \/ HostReset

(* Every step is a move of the control pipe or leaves it aside. *)
LEMMA MoveOrAside ==
  ASSUME UsbTypeOK, [CdcNext]_cdcVars
  PROVE  Move \/ Aside
<1> USE DEF Aside, endpoint0
<1>1. uep \in [Endpoints -> Control] /\ "ep3" \notin Lasting /\ Lasting \subseteq Endpoints
  BY DEF UsbTypeOK, ControlTypeOK, DeviceTypeOK, Control, Lasting, Endpoints
<1>2. CASE Program
  <2>1. CASE Send \/ Look \/ Load \/ Copy
    BY <2>1 DEF Send, Look, Load, Copy, controlVars, device
  <2>2. CASE StoreNak \/ StoreAck
    BY <2>2, <1>1 DEF StoreNak, StoreAck, Store
  <2>3. CASE Mark
    BY <2>3 DEF Mark
  <2> QED BY <1>2, <2>1, <2>2, <2>3 DEF Program
<1>3. CASE Token
  BY <1>3 DEF Token, controlVars, device
<1>4. ASSUME NEW heard \in BOOLEAN, Done(heard)
      PROVE  Aside
  BY <1>4, <1>1 DEF Done
<1>5. ASSUME NEW r \in Requests, CdcSetup(r)
      PROVE  Move
  BY <1>5 DEF CdcSetup, Move
<1>6. CASE CdcHost
  BY <1>6 DEF CdcHost, Move
<1>7. CASE CdcReset
  BY <1>7 DEF CdcReset, Move
<1>8. CASE UNCHANGED cdcVars
  BY <1>8 DEF cdcVars, controlVars, device
<1> QED BY <1>2, <1>3, <1>4, <1>5, <1>6, <1>7, <1>8 DEF CdcNext

LEMMA InitTyped ==
  ASSUME CdcInit
  PROVE  UsbTypeOK
<1>1. DeviceTypeOK
  <2>1. EP0_Buf \in [1..Packet -> Byte] /\ LineCoding \in [1..LineLen -> Byte]
    BY WordsFacts, OfFacts, UsbAssumption DEF UsbAssumption, CdcInit, ControlInit
  <2>2. tx \in [tog : Toggle, res : Response, len : 0..Packet] /\ rx \in Control
    BY UsbAssumption DEF UsbAssumption, CdcInit, ControlInit, Toggle, Response, Control
  <2>3. uep \in [Endpoints -> Control]
    BY DEF CdcInit, ControlInit, Idle0, Toggle, Response, Control
  <2> QED BY <2>1, <2>2, <2>3, WordsFacts DEF DeviceTypeOK, CdcInit, ControlInit, Control
<1>2. HostTypeOK
  <2>1. pipe \in [stage : Stage, r : [code : Words, arg : Words, len : Nat],
                  got : Seq(Byte), want : Toggle, due : Seq(Byte)]
    BY WordsFacts DEF CdcInit, ControlInit, NoTransfer, Stage, Toggle
  <2>2. known \in [conf : Words, line : Words, halt : [Lasting -> {"?", "clear", "halted"}]]
    BY WordsFacts DEF CdcInit, ControlInit, AllClear
  <2>3. setups \in 0..MaxSetups /\ losses \in 0..MaxLosses /\ resets \in 0..MaxResets
    BY UsbAssumption DEF UsbAssumption, CdcInit, ControlInit
  <2> QED BY <2>1, <2>2, <2>3, WordsFacts DEF HostTypeOK, CdcInit, ControlInit
<1>3. StreamTypeOK
  <2>1. seen \in Control /\ calls \in 0..MaxWrites /\ calls = 0
    BY CdcAssumption
    DEF CdcAssumption, CdcInit, Idle0, Endpoints, Toggle, Response, Control
  <2>2. flight \in [on : BOOLEAN, tog : Toggle, data : SUBSET (1..calls)] /\ want3 \in Toggle
    BY DEF CdcInit, Quiet, Toggle
  <2>3. got3 \in Seq(SUBSET (1..calls))
    BY DEF CdcInit
  <2> QED BY <2>1, <2>2, <2>3 DEF CdcInit, StreamTypeOK, Control
<1> QED BY <1>1, <1>2, <1>3 DEF UsbTypeOK, ControlTypeOK

LEMMA NextTyped ==
  ASSUME UsbTypeOK, [CdcNext]_cdcVars
  PROVE  UsbTypeOK'
<1> USE DEF UsbTypeOK, ControlTypeOK
<1>1. ep3 \in Control /\ uep \in [Endpoints -> Control] /\ "ep3" \in Endpoints
  BY DEF DeviceTypeOK, ep3, Control, Endpoints
<1>2. Withdrawn \subseteq 1..calls
  BY DEF Withdrawn, StreamTypeOK
<1> DEFINE calm == UNCHANGED controlVars
<1>3. calm => ControlTypeOK'
  BY DEF DeviceTypeOK, HostTypeOK, controlVars, device, endpoint0
<1>4. CASE Send
  <2>1. calls' \in 0..MaxWrites /\ 1..calls \subseteq 1..calls'
    BY <1>4, CdcAssumption DEF CdcAssumption, Send, StreamTypeOK
  <2>2. got3 \in Seq(SUBSET (1..calls'))
    BY <2>1, SeqMonotonic DEF StreamTypeOK
  <2>3. flight \in [on : BOOLEAN, tog : Toggle, data : SUBSET (1..calls')]
    BY <2>1 DEF StreamTypeOK
  <2>4. StreamTypeOK'
    BY <1>4, <2>1, <2>2, <2>3 DEF Send, At, StreamTypeOK, stream
  <2> QED BY <1>4, <1>3, <2>4 DEF Send
<1>5. CASE Look \/ Load
  <2>1. seen' \in Control
    BY <1>1, <1>5 DEF Look, Load, StreamTypeOK, Control
  <2> QED BY <1>5, <1>3, <2>1 DEF Look, Forward, Load, At, StreamTypeOK, stream, Control
<1>6. CASE Copy
  <2>1. calls \in 1..calls \/ calls = 0
    BY DEF StreamTypeOK
  <2>2. calls # 0
    BY <1>6 DEF Copy, At, StreamTypeOK
  <2>3. flight' \in [on : BOOLEAN, tog : Toggle, data : SUBSET (1..calls)]
    BY <1>6, <2>1, <2>2 DEF Copy, StreamTypeOK
  <2>4. EP3_Buf' \subseteq 1..calls
    BY <1>6, <2>1, <2>2 DEF Copy
  <2> QED BY <1>6, <1>3, <2>3, <2>4 DEF Copy, At, StreamTypeOK
<1>7. CASE Token
  <2>1. flight' \in [on : BOOLEAN, tog : Toggle, data : SUBSET (1..calls)]
    BY <1>1, <1>7 DEF Token, StreamTypeOK, Control
  <2> QED BY <1>7, <1>3, <2>1 DEF Token, StreamTypeOK, main
<1>8. CASE StoreNak \/ StoreAck
  <2>1. Masked("NAK") \in Control /\ Masked("ACK") \in Control
    BY DEF Masked, StreamTypeOK, Control, Response
  <2>2. uep' \in [Endpoints -> Control]
    BY <1>8, <1>1, <2>1 DEF StoreNak, StoreAck, Store
  <2>3. DeviceTypeOK' /\ HostTypeOK'
    BY <1>8, <2>2 DEF StoreNak, StoreAck, Store, DeviceTypeOK, HostTypeOK, endpoint0, Control
  <2>4. StreamTypeOK'
    BY <1>8, <1>2 DEF StoreNak, StoreAck, StreamTypeOK, At, stream
  <2> QED BY <2>3, <2>4
<1>9. CASE Mark
  BY <1>9 DEF Mark, At, StreamTypeOK, DeviceTypeOK, HostTypeOK, endpoint0, stream
<1>10. ASSUME NEW heard \in BOOLEAN, Done(heard)
      PROVE  UsbTypeOK'
  <2>1. uep' \in [Endpoints -> Control]
    <3>1. ep3.tog \in Toggle /\ [tog |-> 1 - uep["ep3"].tog, res |-> "NAK"] \in Control
      BY <1>1, Flipped DEF ep3, Control, Response
    <3> QED BY <1>1, <1>10, <3>1 DEF Done
  <2>2. DeviceTypeOK' /\ HostTypeOK'
    BY <1>10, <2>1, HandshakeTyped DEF Done, DeviceTypeOK, HostTypeOK, endpoint0, Control
  <2>3. want3' \in Toggle
    BY <1>10, Flipped DEF Done, StreamTypeOK
  <2>4. got3' \in Seq(SUBSET (1..calls))
    BY <1>10 DEF Done, StreamTypeOK
  <2>5. StreamTypeOK'
    BY <1>10, <2>3, <2>4 DEF Done, StreamTypeOK, Quiet, Toggle, main
  <2> QED BY <2>2, <2>5
<1>11. ASSUME NEW r \in Requests, CdcSetup(r)
      PROVE  UsbTypeOK'
  BY <1>11, <1>2, ControlTyped DEF CdcSetup, StreamTypeOK, main, stream
<1>12. CASE CdcHost
  <2>1. ControlTypeOK'
    BY <1>12, ControlTyped DEF CdcHost
  <2>2. want3' \in Toggle /\ slip' \in BOOLEAN
    BY <1>12 DEF CdcHost, StreamTypeOK, Toggle
  <2> QED BY <1>12, <2>1, <2>2 DEF CdcHost, StreamTypeOK, main
<1>13. CASE CdcReset
  BY <1>13, <1>2, ControlTyped DEF CdcReset, StreamTypeOK, Quiet, Toggle, main
<1>14. CASE UNCHANGED cdcVars
  BY <1>14, <1>3 DEF cdcVars, StreamTypeOK, main, stream
<1> QED BY <1>4, <1>5, <1>6, <1>7, <1>8, <1>9, <1>10, <1>11, <1>12, <1>13, <1>14 DEF CdcNext, Program

-----------------------------------------------------------------------------
(* The invariant of the control pipe. *)

(* What the handler answers a request with. *)
Verdict == IF Unsupported(pipe.r) THEN "STALL" ELSE "ACK"
Running == pipe.stage \notin {"idle", "stalled"}

(* The device and the host are at the same request. *)
SameRequest == Running => pipe.r \in Requests /\ SetupReqCode = pipe.r.code

(* The data stage of a read: the packet in EP0_Buf is the next one, or the *)
(* one the host has and the device does not know it has; what SetupReqLen  *)
(* counts comes after it.                                                  *)
Next0 == tx.tog = pipe.want
DataIn ==
  pipe.stage = "data_in" =>
    /\ pipe.r.code \in Reads /\ tx.res = Verdict
    /\ ~Unsupported(pipe.r) =>
         /\ tx.len < Packet => SetupReqLen = 0
         /\ Len(pipe.got) + (IF Next0 THEN tx.len ELSE 0) + SetupReqLen = Cut(pipe.r)
         /\ pipe.r.code # "GET_DESCRIPTOR" => Next0 /\ SetupReqLen = 0 /\ pipe.got = <<>>
         /\ rx.res \in {"ACK", "NAK"}

(* The bytes of that packet, and of those after it. *)
Agree(b, d) == d[1] = "?" \/ b = d
Bytes ==
  (pipe.stage = "data_in" /\ ~Unsupported(pipe.r)) =>
    /\ Next0 => \A i \in 1..tx.len : Agree(EP0_Buf[i], pipe.due[Len(pipe.got) + i])
    /\ pipe.r.code = "GET_DESCRIPTOR" =>
         /\ pipe.due = Of(pipe.r.arg, Cut(pipe.r))
         /\ pUSBFS_Descr = [of |-> pipe.r.arg,
                            at |-> Len(pipe.got) + IF Next0 THEN tx.len ELSE 0]

(* The bytes the host has. *)
Got ==
  pipe.r.code \in Reads =>
    /\ (Running /\ ~Unsupported(pipe.r)) => Len(pipe.due) = Cut(pipe.r)
    /\ Unsupported(pipe.r) => pipe.got = <<>>
    /\ Len(pipe.got) <= Len(pipe.due)
    /\ \A i \in 1..Len(pipe.got) : Agree(pipe.got[i], pipe.due[i])
    /\ pipe.stage = "status_out" => Len(pipe.got) = Len(pipe.due)

DataOut ==
  pipe.stage = "data_out" =>
    /\ pipe.r.code \notin Reads /\ pipe.r.len > 0
    /\ pipe.want = 1 /\ rx.tog = 1 /\ rx.res = Verdict
    /\ pipe.r.code = "SET_LINE_CODING" => known.line = "?"

(* At the status stage of a request that sets something, it is set. *)
StatusIn ==
  pipe.stage = "status_in" =>
    /\ pipe.r.code \notin Reads
    /\ pipe.want = 1 /\ tx.tog = 1 /\ tx.res = Verdict
    /\ pipe.r.code = "SET_ADDRESS" => DevAddr = pipe.r.arg
    /\ pipe.r.code = "SET_CONFIGURATION" => DevConfig = pipe.r.arg
    /\ pipe.r.code = "SET_LINE_CODING" => LineCoding = Of(pipe.r.arg, LineLen)
    /\ pipe.r.arg \in Lasting =>
         /\ pipe.r.code = "SET_FEATURE" => uep[pipe.r.arg].res = "STALL"
         /\ pipe.r.code = "CLEAR_FEATURE" => uep[pipe.r.arg].res # "STALL"

StatusOut ==
  pipe.stage = "status_out" =>
    /\ pipe.r.code \in Reads /\ ~Unsupported(pipe.r)
    /\ \/ rx.res = "ACK"
       \/ rx.res = "NAK" /\ missed /\ tx.res = "ACK" /\ ~Next0

PipeInv ==
  /\ SameRequest /\ DataIn /\ Bytes /\ Got /\ DataOut /\ StatusIn /\ StatusOut
  /\ HostAgrees

LEMMA InitPipe ==
  ASSUME CdcInit
  PROVE  PipeInv
<1> USE DEF CdcInit, ControlInit, NoTransfer
<1>1. SameRequest /\ DataIn /\ Bytes /\ DataOut /\ StatusIn /\ StatusOut
  BY DEF SameRequest, Running, DataIn, Bytes, DataOut, StatusIn, StatusOut
<1>2. Got
  BY DEF Got, Reads
<1>3. HostAgrees
  <2>1. \A e \in Lasting : known.halt[e] = "clear" /\ ~Halted(e)
    BY DEF AllClear, Halted, Idle0
  <2> QED BY <2>1 DEF HostAgrees
<1> QED BY <1>1, <1>2, <1>3 DEF PipeInv

LEMMA AsideKept ==
  ASSUME UsbTypeOK, PipeInv, Aside
  PROVE  PipeInv'
<1> USE DEF Aside, endpoint0, PipeInv
<1>1. \A e \in Lasting : uep'[e] = uep[e] /\ Halted(e)' = Halted(e)
  BY DEF Halted
<1>2. SameRequest' /\ DataIn' /\ Bytes' /\ Got' /\ DataOut' /\ StatusOut'
  BY DEF SameRequest, Running, DataIn, Verdict, Bytes, Next0, Agree, Got, DataOut, StatusOut
<1>3. StatusIn'
  BY <1>1 DEF StatusIn, Verdict
<1>4. HostAgrees'
  BY <1>1 DEF HostAgrees
<1> QED BY <1>2, <1>3, <1>4

(* What a supported read must bring is as long as what the device sends. *)
LEMMA DueLength ==
  ASSUME NEW r \in Requests, r.code \in Reads, ~Unsupported(r), HostTypeOK
  PROVE  /\ Len(Due(r)) = Cut(r)
         /\ r.code = "GET_DESCRIPTOR" =>
              r.arg \in Descriptors /\ Due(r) = Of(r.arg, Cut(r)) /\ Cut(r) <= DescLen[r.arg]
<1>1. r \in Request /\ Cut(r) \in Nat
  BY CutFacts
<1>2. CASE r.code = "GET_DESCRIPTOR"
  <2>1. r.arg \in Descriptors /\ r.arg \in Words
    BY <1>2, WordsFacts DEF Unsupported
  <2>2. Due(r) = Of(r.arg, Cut(r))
    BY <1>2, <2>1 DEF Due, Cut
  <2>3. Cut(r) <= DescLen[r.arg]
    BY <1>1, <1>2, <2>1, UsbAssumption DEF UsbAssumption, Cut, Least, Request
  <2> QED BY <1>1, <2>1, <2>2, <2>3, OfFacts
<1>3. CASE r.code = "GET_CONFIGURATION"
  BY <1>3, CutFacts, UsbAssumption DEF UsbAssumption, Due, Reads
<1>4. CASE r.code = "GET_INTERFACE"
  BY <1>4, CutFacts, UsbAssumption DEF UsbAssumption, Due, Reads
<1>5. CASE r.code = "GET_STATUS"
  BY <1>5, CutFacts, UsbAssumption DEF UsbAssumption, Due, Reads
<1>6. CASE r.code = "GET_LINE_CODING"
  <2>1. Len(Of(known.line, LineLen)) = LineLen
    BY OfFacts, UsbAssumption DEF HostTypeOK, UsbAssumption
  <2> QED BY <1>6, <2>1, CutFacts, UsbAssumption DEF UsbAssumption, Due, Reads
<1> QED BY <1>2, <1>3, <1>4, <1>5, <1>6 DEF Reads

(* What the device puts in the buffer for a read is what the read must bring. *)
LEMMA PreparedRight ==
  ASSUME UsbTypeOK, HostAgrees, NEW r \in Requests, r.code \in Reads, ~Unsupported(r),
         NEW i \in 1..Chunk(Cut(r))
  PROVE  Agree(Prepared(r, Chunk(Cut(r)))[i], Due(r)[i])
<1> DEFINE n == Chunk(Cut(r))
           b == [k \in 1..Packet |-> IF k <= SetupLen THEN <<"setup", k>> ELSE EP0_Buf[k]]
<1>1. /\ r \in Request /\ Cut(r) \in Nat /\ n \in 0..Packet /\ n <= Cut(r)
      /\ i \in 1..Packet /\ i <= n /\ i <= Cut(r) /\ i \in Nat
      /\ 1 \in 1..Packet /\ 2 \in 1..Packet
  BY CutFacts, ChunkFacts, UsbAssumption DEF UsbAssumption
<1>2. HostTypeOK /\ DeviceTypeOK
  BY DEF UsbTypeOK, ControlTypeOK
<1>3. \A p : memcpy(b, p, n)[i] = Behind(p, i)
  BY <1>1 DEF memcpy
<1> HIDE DEF b, n
<1>4. CASE r.code = "GET_DESCRIPTOR"
  <2>1. /\ r.arg \in Descriptors /\ r.arg \in Words /\ r.arg # "line"
        /\ Due(r) = Of(r.arg, Cut(r)) /\ i <= DescLen[r.arg]
    BY <1>1, <1>2, <1>4, DueLength, WordsFacts, UsbAssumption DEF UsbAssumption
  <2>2. Prepared(r, n) = memcpy(b, [of |-> r.arg, at |-> 0], n)
    BY <1>4, <2>1 DEF Prepared, Loads, Pointed, b
  <2>3. Behind([of |-> r.arg, at |-> 0], i) = <<r.arg, i>>
    BY <1>1, <2>1 DEF Behind
  <2>4. Due(r)[i] = <<r.arg, i>>
    <3>1. i \in 1..Cut(r)
      BY <1>1
    <3> QED BY <2>1, <3>1 DEF Of
  <2> QED BY <1>3, <2>2, <2>3, <2>4 DEF Agree, n
<1>5. CASE r.code = "GET_LINE_CODING"
  <2>1. i <= LineLen /\ i \in 1..LineLen
    BY <1>1, <1>5, CutFacts, UsbAssumption DEF UsbAssumption, Reads
  <2>2. Prepared(r, n) = memcpy(b, [of |-> "line", at |-> 0], n)
    BY <1>5 DEF Prepared, Loads, Class, Pointed, b
  <2>3. Behind([of |-> "line", at |-> 0], i) = LineCoding[i]
    BY <1>1, <2>1 DEF Behind
  <2>4. Due(r)[i] = <<known.line, i>>
    BY <1>5, <2>1 DEF Due, Of
  <2>5. known.line # "?" => LineCoding[i] = <<known.line, i>>
    BY <2>1 DEF HostAgrees, Of
  <2> QED BY <1>3, <2>2, <2>3, <2>4, <2>5 DEF Agree, n
<1>6. CASE r.code = "GET_CONFIGURATION"
  <2>1. i = 1
    BY <1>1, <1>6, CutFacts, UsbAssumption DEF UsbAssumption, Reads
  <2>2. Prepared(r, n) = [b EXCEPT ![1] = <<DevConfig, 1>>]
    BY <1>6 DEF Prepared, Loads, Class, b
  <2>3. Prepared(r, n)[i] = <<DevConfig, 1>>
    BY <1>1, <2>1, <2>2 DEF b
  <2>4. Due(r)[i] = <<known.conf, 1>>
    BY <1>6, <2>1 DEF Due
  <2> QED BY <2>3, <2>4 DEF Agree, HostAgrees, n
<1>7. CASE r.code = "GET_INTERFACE"
  <2>1. i = 1
    BY <1>1, <1>7, CutFacts, UsbAssumption DEF UsbAssumption, Reads
  <2>2. Prepared(r, n) = [b EXCEPT ![1] = Zero]
    BY <1>7 DEF Prepared, Loads, Class, b
  <2>3. Prepared(r, n)[i] = Zero
    BY <1>1, <2>1, <2>2 DEF b
  <2>4. Due(r)[i] = Zero
    BY <1>7, <2>1 DEF Due
  <2> QED BY <2>3, <2>4 DEF Agree, n
<1>8. CASE r.code = "GET_STATUS"
  <2> DEFINE h == IF Halted(r.arg) THEN <<"halted", 1>> ELSE Zero
             d == IF r.arg = "ep3" THEN <<"?", 1>>
                  ELSE IF r.arg \in Lasting /\ known.halt[r.arg] # "clear"
                       THEN <<known.halt[r.arg], 1>> ELSE Zero
  <2>1. i \in {1, 2}
    BY <1>1, <1>8, CutFacts, UsbAssumption DEF UsbAssumption, Reads
  <2>2. Prepared(r, n) = [b EXCEPT ![1] = h, ![2] = Zero]
    BY <1>8 DEF Prepared, Loads, Class, b
  <2>3. Due(r) = <<d, Zero>>
    BY <1>8 DEF Due
  <2>4. Agree(h, d)
    <3>1. CASE r.arg = "ep3"
      BY <3>1 DEF Agree
    <3>2. CASE r.arg \in Lasting
      <4>1. known.halt[r.arg] \in {"?", "clear", "halted"} /\ r.arg # "ep3"
        BY <1>2, <3>2 DEF HostTypeOK, Lasting
      <4>2. known.halt[r.arg] # "?" => (Halted(r.arg) <=> known.halt[r.arg] = "halted")
        BY <3>2 DEF HostAgrees
      <4> QED BY <3>2, <4>1, <4>2 DEF Agree
    <3>3. CASE r.arg \notin Endpoints
      BY <3>3 DEF Agree, Halted, Lasting, Endpoints
    <3> QED BY <3>1, <3>2, <3>3 DEF Lasting
  <2> HIDE DEF h, d
  <2>5. Prepared(r, n)[1] = h /\ Prepared(r, n)[2] = Zero
    <3>1. DOMAIN b = 1..Packet
      BY DEF b
    <3> QED BY <1>1, <2>2, <3>1
  <2> QED BY <2>1, <2>3, <2>4, <2>5 DEF Agree, n
<1> QED BY <1>4, <1>5, <1>6, <1>7, <1>8 DEF Reads

LEMMA SetupKept ==
  ASSUME UsbTypeOK, PipeInv, NEW r \in Requests, HostSetup(r)
  PROVE  PipeInv'
<1> DEFINE n == Chunk(Cut(r))
<1>1. /\ r \in Request /\ Cut(r) \in Nat /\ n \in 0..Packet /\ n <= Cut(r)
      /\ n < Packet => n = Cut(r)
      /\ r.code \in Reads /\ r.code # "GET_DESCRIPTOR" => n = Cut(r)
      /\ r.code \notin Reads => Cut(r) = r.len
  BY CutFacts, ChunkFacts
<1>2. /\ pipe'.r = r /\ pipe'.got = <<>> /\ pipe'.want = 1 /\ pipe'.due = Due(r)
      /\ pipe'.stage = IF r.code \in Reads THEN "data_in"
                       ELSE IF r.len > 0 THEN "data_out" ELSE "status_in"
      /\ known' = Learned(r, "?")
      /\ UNCHANGED hostAddr
  BY DEF HostSetup
<1>3. HostTypeOK /\ DeviceTypeOK /\ HostAgrees /\ hostAddr = DEV_ADDR
  BY DEF UsbTypeOK, ControlTypeOK, PipeInv, HostSetup
<1>4. /\ SetupReqCode' = r.code
      /\ EP0_Buf' = Prepared(r, n)
      /\ r.code \in Reads /\ ~Unsupported(r) =>
           SetupReqLen' = Cut(r) - n /\ rx'.res = "NAK"
      /\ Unsupported(r) => tx'.tog = 1 /\ tx'.res = "STALL" /\ rx'.tog = 1 /\ rx'.res = "STALL"
      /\ ~Unsupported(r) /\ (r.code \in Reads \/ Cut(r) = 0) =>
           tx' = [tog |-> 1, res |-> "ACK", len |-> n]
      /\ ~Unsupported(r) /\ r.code \notin Reads /\ Cut(r) > 0 => rx' = [tog |-> 1, res |-> "ACK"]
      /\ uep' = Featured(r)
      /\ UNCHANGED <<DEV_ADDR, LineCoding>>
  BY <1>1, <1>3 DEF HostSetup, SETUP, DeviceTypeOK
<1>5. /\ DevAddr' = IF r.code = "SET_ADDRESS" THEN r.arg ELSE DevAddr
      /\ DevConfig' = IF r.code = "SET_CONFIGURATION" THEN r.arg ELSE DevConfig
  BY DEF HostSetup, SETUP
<1>6. Verdict' = IF Unsupported(r) THEN "STALL" ELSE "ACK"
  BY <1>2 DEF Verdict, Unsupported
<1>7. Next0' /\ Len(<<>>) = 0
  <2>1. tx'.tog = 1
    BY <1>1, <1>4 DEF HostSetup, SETUP, DeviceTypeOK
  <2> QED BY <1>2, <2>1 DEF Next0
<1> HIDE DEF n
<1>8. SameRequest'
  BY <1>2, <1>4 DEF SameRequest
<1>9. DataIn'
  BY <1>1, <1>2, <1>4, <1>6, <1>7 DEF DataIn
<1>10. Bytes'
  <2> SUFFICES ASSUME r.code \in Reads, ~Unsupported(r)
               PROVE  Bytes'
    BY <1>2 DEF Bytes, Unsupported
  <2>1. tx'.len = n
    BY <1>4
  <2>2. \A i \in 1..n : Agree(EP0_Buf'[i], Due(r)[0 + i])
    BY <1>1, <1>3, <1>4, PreparedRight DEF n
  <2>3. r.code = "GET_DESCRIPTOR" =>
          /\ r.arg \in Descriptors /\ Due(r) = Of(r.arg, Cut(r))
          /\ pUSBFS_Descr' = [of |-> r.arg, at |-> 0 + n]
    BY <1>3, DueLength DEF HostSetup, SETUP, Loads, Pointed, Past, n
  <2> QED BY <1>2, <1>7, <2>1, <2>2, <2>3 DEF Bytes, Agree
<1>11. Got'
  <2>1. r.code \in Reads => Len(Due(r)) \in Nat
    BY <1>3, DueTyped
  <2>2. r.code \in Reads /\ ~Unsupported(r) => Len(Due(r)) = Cut(r)
    BY <1>3, DueLength
  <2> QED BY <1>2, <1>7, <2>1, <2>2 DEF Got
<1>12. DataOut'
  <2>1. r.code = "SET_LINE_CODING" => known'.line = "?"
    BY <1>2, <1>3 DEF Learned, HostTypeOK
  <2> QED BY <1>1, <1>2, <1>4, <1>6, <2>1 DEF DataOut
<1>13. StatusIn'
  <2> SUFFICES ASSUME r.code \notin Reads, ~(r.len > 0)
               PROVE  StatusIn'
    BY <1>2 DEF StatusIn
  <2>1. Cut(r) = 0 /\ r.code # "SET_LINE_CODING"
    BY <1>1, UsbAssumption DEF UsbAssumption, Request
  <2>2. tx'.tog = 1 /\ tx'.res = Verdict'
    BY <1>4, <1>6, <2>1
  <2>3. r.arg \in Lasting =>
          /\ r.code = "SET_FEATURE" => uep'[r.arg].res = "STALL"
          /\ r.code = "CLEAR_FEATURE" => uep'[r.arg].res # "STALL"
    BY <1>3, <1>4 DEF Featured, DeviceTypeOK, Lasting, Idle0
  <2> QED BY <1>2, <1>5, <2>1, <2>2, <2>3 DEF StatusIn
<1>14. StatusOut'
  BY <1>2 DEF StatusOut
<1>15. HostAgrees'
  <2>1. known'.conf \in {"?", DevConfig'}
    BY <1>2, <1>3, <1>5 DEF Learned, HostTypeOK, HostAgrees
  <2>2. known'.line # "?" => LineCoding' = Of(known'.line, LineLen)
    <3>1. known'.line \in {"?", known.line}
      BY <1>2, <1>3 DEF Learned, HostTypeOK
    <3> QED BY <1>3, <1>4, <3>1 DEF HostAgrees, Of
  <2>3. ASSUME NEW e \in Lasting, known'.halt[e] # "?"
        PROVE  Halted(e)' <=> known'.halt[e] = "halted"
    <3>1. known'.halt[e] = known.halt[e]
      BY <1>2, <1>3, <2>3 DEF Learned, HostTypeOK
    <3>2. ~(r.code \in {"SET_FEATURE", "CLEAR_FEATURE"} /\ r.arg = e)
      BY <1>2, <1>3, <2>3 DEF Learned, HostTypeOK
    <3>3. uep'[e] = uep[e]
      BY <1>3, <1>4, <3>2 DEF Featured, DeviceTypeOK, Lasting
    <3> QED BY <1>3, <2>3, <3>1, <3>3 DEF HostAgrees, Halted
  <2> QED BY <1>2, <1>3, <1>4, <2>1, <2>2, <2>3 DEF HostAgrees
<1> QED BY <1>8, <1>9, <1>10, <1>11, <1>12, <1>13, <1>14, <1>15 DEF PipeInv

LEMMA StalledKept ==
  ASSUME UsbTypeOK, PipeInv, HostStalled
  PROVE  PipeInv'
<1>1. /\ pipe' = [pipe EXCEPT !.stage = "stalled"] /\ pipe'.stage = "stalled"
      /\ pipe'.r = pipe.r /\ pipe'.got = pipe.got /\ pipe'.due = pipe.due
      /\ UNCHANGED <<device, endpoint0, hostAddr, known, missed>>
  BY DEF HostStalled, device, UsbTypeOK, ControlTypeOK, HostTypeOK
<1>2. SameRequest' /\ DataIn' /\ Bytes' /\ DataOut' /\ StatusIn' /\ StatusOut'
  BY <1>1 DEF SameRequest, Running, DataIn, Bytes, DataOut, StatusIn, StatusOut
<1>3. Got'
  BY <1>1 DEF PipeInv, Got, Running, Agree, Unsupported
<1>4. HostAgrees'
  BY <1>1 DEF PipeInv, HostAgrees, Halted, device
<1> QED BY <1>2, <1>3, <1>4 DEF PipeInv

LEMMA ResetKept ==
  ASSUME UsbTypeOK, PipeInv, HostReset
  PROVE  PipeInv'
<1>1. pipe' = NoTransfer /\ pipe'.stage = "idle" /\ pipe'.r.code = "none"
  BY DEF HostReset, NoTransfer
<1>2. SameRequest' /\ DataIn' /\ Bytes' /\ DataOut' /\ StatusIn' /\ StatusOut'
  BY <1>1 DEF SameRequest, Running, DataIn, Bytes, DataOut, StatusIn, StatusOut
<1>3. Got'
  BY <1>1 DEF Got, Reads
<1>4. HostAgrees'
  <2>1. /\ known'.conf = "zero" /\ known'.line = known.line
        /\ known'.halt = AllClear /\ uep' = Idle0
        /\ hostAddr' = DEV_ADDR' /\ DevConfig' = "zero" /\ LineCoding' = LineCoding
    BY DEF HostReset, BUS_RST, UsbTypeOK, ControlTypeOK, HostTypeOK
  <2>2. \A e \in Lasting : known'.halt[e] = "clear" /\ ~Halted(e)'
    BY <2>1 DEF AllClear, Halted, Idle0
  <2> QED BY <2>1, <2>2 DEF PipeInv, HostAgrees, Of
<1> QED BY <1>2, <1>3, <1>4 DEF PipeInv

(* An acknowledged packet of a descriptor is followed by the next one. *)
LEMMA Rearmed ==
  ASSUME UsbTypeOK, EP0_IN, SetupReqCode = "GET_DESCRIPTOR",
         NEW d \in Descriptors, NEW l \in Nat,
         l + SetupReqLen <= DescLen[d], pUSBFS_Descr = [of |-> d, at |-> l]
  PROVE  /\ tx'.len \in Nat /\ SetupReqLen' \in Nat
         /\ SetupReqLen = tx'.len + SetupReqLen'
         /\ tx'.len < Packet => SetupReqLen' = 0
         /\ tx'.tog = 1 - tx.tog /\ tx'.res = tx.res
         /\ pUSBFS_Descr' = [of |-> d, at |-> l + tx'.len]
         /\ \A i \in 1..tx'.len : EP0_Buf'[i] = <<d, l + i>>
<1> DEFINE n == Chunk(SetupReqLen)
<1>1. DeviceTypeOK /\ SetupReqLen \in Nat
  BY DEF UsbTypeOK, ControlTypeOK, DeviceTypeOK
<1>2. n \in 0..Packet /\ n <= SetupReqLen /\ (n < Packet => n = SetupReqLen)
  BY <1>1, ChunkFacts
<1>3. /\ SetupReqLen' = SetupReqLen - n
      /\ tx' = [tx EXCEPT !.len = n, !.tog = 1 - @]
      /\ EP0_Buf' = memcpy(EP0_Buf, pUSBFS_Descr, n)
      /\ pUSBFS_Descr' = Past(pUSBFS_Descr, n)
  BY DEF EP0_IN
<1> HIDE DEF n
<1>4. tx'.len = n /\ tx'.tog = 1 - tx.tog /\ tx'.res = tx.res
  BY <1>1, <1>3 DEF DeviceTypeOK
<1>5. pUSBFS_Descr' = [of |-> d, at |-> l + n]
  BY <1>3 DEF Past
<1>6. ASSUME NEW i \in 1..n
      PROVE  EP0_Buf'[i] = <<d, l + i>>
  <2>1. i \in 1..Packet /\ i <= n /\ l + i <= DescLen[d] /\ d # "line"
    BY <1>1, <1>2, UsbAssumption DEF UsbAssumption
  <2>2. Behind(pUSBFS_Descr, i) = <<d, l + i>>
    BY <2>1 DEF Behind
  <2> QED BY <1>3, <2>1, <2>2 DEF memcpy
<1> QED BY <1>1, <1>2, <1>3, <1>4, <1>5, <1>6

(* The status stage of a request that sets something. *)
LEMMA StatusInKept ==
  ASSUME UsbTypeOK, PipeInv, NEW heard \in BOOLEAN, HostIn(heard), pipe.stage = "status_in"
  PROVE  PipeInv'
<1> DEFINE r == pipe.r
<1>1. /\ r.code \notin Reads /\ pipe.want = 1 /\ tx.tog = 1
      /\ SetupReqCode = r.code /\ r \in Requests
      /\ HostTypeOK /\ DeviceTypeOK /\ HostAgrees
  BY DEF PipeInv, StatusIn, SameRequest, Running, UsbTypeOK, ControlTypeOK
<1>2. /\ pipe'.stage = "idle" /\ pipe'.r = r
      /\ known' = Learned(r, Meant(r))
      /\ hostAddr' = IF r.code = "SET_ADDRESS" THEN r.arg ELSE hostAddr
      /\ missed' = ~heard
  BY <1>1 DEF HostIn, HostTypeOK
<1>3. UNCHANGED <<DevConfig, LineCoding, uep>>
  BY DEF HostIn, EP0_IN, device
<1>4. hostAddr' = DEV_ADDR' \/ missed'
  <2>1. hostAddr = DEV_ADDR /\ (r.code = "SET_ADDRESS" => DevAddr = r.arg)
    BY DEF HostIn, PipeInv, StatusIn
  <2>2. heard => DEV_ADDR' = IF r.code = "SET_ADDRESS" THEN DevAddr ELSE DEV_ADDR
    BY <1>1 DEF HostIn, EP0_IN, Taken
  <2> QED BY <1>2, <2>1, <2>2
<1>5. known'.conf \in {"?", DevConfig'}
  <2>1. r.code = "SET_CONFIGURATION" => DevConfig = r.arg
    BY DEF PipeInv, StatusIn
  <2> QED BY <1>1, <1>2, <1>3, <2>1 DEF Learned, Meant, HostTypeOK, HostAgrees
<1>6. known'.line # "?" => LineCoding' = Of(known'.line, LineLen)
  <2>1. r.code = "SET_LINE_CODING" => LineCoding = Of(r.arg, LineLen)
    BY DEF PipeInv, StatusIn
  <2>2. CASE r.code = "SET_LINE_CODING"
    <3>1. known'.line = r.arg
      BY <1>1, <1>2, <2>2 DEF Learned, Meant, HostTypeOK
    <3> QED BY <1>3, <2>1, <2>2, <3>1 DEF Of
  <2>3. CASE r.code # "SET_LINE_CODING"
    <3>1. known'.line = known.line
      BY <1>1, <1>2, <2>3 DEF Learned, Meant, HostTypeOK
    <3> QED BY <1>1, <1>3, <3>1 DEF HostAgrees, Of
  <2> QED BY <2>2, <2>3
<1>7. ASSUME NEW e \in Lasting, known'.halt[e] # "?"
      PROVE  Halted(e)' <=> known'.halt[e] = "halted"
  <2>1. Halted(e)' = Halted(e) /\ (Halted(e) <=> uep[e].res = "STALL")
    BY <1>3 DEF Halted, Lasting
  <2>2. CASE r.code \in {"SET_FEATURE", "CLEAR_FEATURE"} /\ r.arg = e
    <3>1. known'.halt[e] = Meant(r)
      BY <1>1, <1>2, <2>2 DEF Learned, HostTypeOK
    <3>2. r.code = "SET_FEATURE" => uep[e].res = "STALL"
      BY <2>2 DEF PipeInv, StatusIn
    <3>3. r.code = "CLEAR_FEATURE" => uep[e].res # "STALL"
      BY <2>2 DEF PipeInv, StatusIn
    <3> QED BY <2>1, <2>2, <3>1, <3>2, <3>3 DEF Meant
  <2>3. CASE ~(r.code \in {"SET_FEATURE", "CLEAR_FEATURE"} /\ r.arg = e)
    <3>1. known'.halt[e] = known.halt[e]
      BY <1>1, <1>2, <2>3 DEF Learned, HostTypeOK
    <3> QED BY <1>1, <1>7, <2>1, <3>1 DEF HostAgrees
  <2> QED BY <2>2, <2>3
<1>8. HostAgrees'
  BY <1>4, <1>5, <1>6, <1>7 DEF HostAgrees
<1>9. SameRequest' /\ DataIn' /\ Bytes' /\ DataOut' /\ StatusIn' /\ StatusOut'
  BY <1>2 DEF SameRequest, Running, DataIn, Bytes, DataOut, StatusIn, StatusOut
<1>10. Got'
  BY <1>1, <1>2 DEF Got
<1> QED BY <1>8, <1>9, <1>10 DEF PipeInv

(* The data stage of a read. *)
LEMMA DataInKept ==
  ASSUME UsbTypeOK, PipeInv, NEW heard \in BOOLEAN, HostIn(heard), pipe.stage = "data_in"
  PROVE  PipeInv'
<1> DEFINE r == pipe.r
           got == pipe.got \o SubSeq(EP0_Buf, 1, tx.len)
           last == tx.len < Packet \/ Len(got) >= r.len
<1>1. /\ r \in Requests /\ r.code \in Reads /\ ~Unsupported(r)
      /\ SetupReqCode = r.code /\ tx.res = "ACK"
      /\ HostTypeOK /\ DeviceTypeOK /\ HostAgrees /\ hostAddr = DEV_ADDR
  BY DEF PipeInv, DataIn, Verdict, SameRequest, Running, HostIn, UsbTypeOK, ControlTypeOK
<1>2. /\ Cut(r) \in Nat /\ r.len \in Nat /\ Cut(r) <= r.len /\ SetupReqLen \in Nat
      /\ tx.len \in 0..Packet /\ Packet \in Nat
      /\ pipe.got \in Seq(Byte) /\ Len(pipe.got) \in Nat
      /\ r.code # "GET_DESCRIPTOR" => Cut(r) = r.len
  BY <1>1, CutFacts, UsbAssumption DEF UsbAssumption, DeviceTypeOK, HostTypeOK
<1>3. /\ got \in Seq(Byte) /\ Len(got) = Len(pipe.got) + tx.len
      /\ \A i \in 1..Len(pipe.got) : got[i] = pipe.got[i]
      /\ \A i \in 1..tx.len : got[Len(pipe.got) + i] = EP0_Buf[i]
  <2>1. /\ SubSeq(EP0_Buf, 1, tx.len) \in Seq(Byte) /\ Len(SubSeq(EP0_Buf, 1, tx.len)) = tx.len
        /\ \A i \in 1..tx.len : SubSeq(EP0_Buf, 1, tx.len)[i] = EP0_Buf[i]
    BY <1>1, <1>2, FirstCells DEF DeviceTypeOK
  <2> QED BY <1>2, <2>1
<1>4. /\ tx.len < Packet => SetupReqLen = 0
      /\ Len(pipe.got) + (IF Next0 THEN tx.len ELSE 0) + SetupReqLen = Cut(r)
      /\ r.code # "GET_DESCRIPTOR" => Next0 /\ SetupReqLen = 0 /\ pipe.got = <<>>
  BY <1>1 DEF PipeInv, DataIn
<1>5. /\ Len(pipe.due) = Cut(r)
      /\ \A i \in 1..Len(pipe.got) : Agree(pipe.got[i], pipe.due[i])
      /\ Next0 => \A i \in 1..tx.len : Agree(EP0_Buf[i], pipe.due[Len(pipe.got) + i])
      /\ r.code = "GET_DESCRIPTOR" =>
           /\ pipe.due = Of(r.arg, Cut(r))
           /\ pUSBFS_Descr = [of |-> r.arg, at |-> Len(pipe.got) + IF Next0 THEN tx.len ELSE 0]
  BY <1>1 DEF PipeInv, Got, Bytes, Running
<1>6. r.code = "GET_DESCRIPTOR" => r.arg \in Descriptors /\ Cut(r) <= DescLen[r.arg]
  BY <1>1, DueLength
<1>7. /\ pipe'.r = r /\ pipe'.due = pipe.due /\ UNCHANGED <<hostAddr, known>>
      /\ missed' = (Next0 /\ last /\ ~heard)
      /\ ~Next0 => pipe' = pipe
      /\ Next0 => /\ pipe'.got = got /\ pipe'.want = 1 - pipe.want
                  /\ pipe'.stage = IF last THEN "status_out" ELSE "data_in"
  BY <1>1 DEF HostIn, HostTypeOK, Next0
<1>8. UNCHANGED <<SetupReqCode, DEV_ADDR, DevConfig, LineCoding, uep>>
  BY <1>1 DEF HostIn, EP0_IN, device, endpoint0, Taken, Reads
<1> HIDE DEF got, last
<1>9. HostAgrees'
  BY <1>1, <1>7, <1>8 DEF HostAgrees, Halted, Of
<1>10. SameRequest'
  BY <1>1, <1>7, <1>8 DEF SameRequest
<1>11. DataOut' /\ StatusIn'
  BY <1>7 DEF DataOut, StatusIn
<1>12. Got'
  <2>1. CASE ~Next0
    BY <1>7, <2>1 DEF PipeInv, Got, Running, Agree, Unsupported
  <2>2. CASE Next0
    <3>1. Len(got) <= Cut(r) /\ (last => Len(got) = Cut(r))
      BY <1>2, <1>3, <1>4, <2>2 DEF last
    <3>2. ASSUME NEW i \in 1..Len(got)
          PROVE  Agree(got[i], pipe.due[i])
      <4>1. CASE i \in 1..Len(pipe.got)
        BY <1>3, <1>5, <4>1
      <4>2. CASE i \notin 1..Len(pipe.got)
        <5>1. PICK k \in 1..tx.len : i = Len(pipe.got) + k
          <6>1. i - Len(pipe.got) \in 1..tx.len /\ i = Len(pipe.got) + (i - Len(pipe.got))
            BY <1>2, <1>3, <4>2
          <6> QED BY <6>1
        <5> QED BY <1>3, <1>5, <2>2, <5>1
      <4> QED BY <4>1, <4>2
    <3> QED BY <1>1, <1>5, <1>7, <2>2, <3>1, <3>2 DEF Got, Agree, Unsupported
  <2> QED BY <2>1, <2>2
<1>13. StatusOut'
  <2> SUFFICES ASSUME pipe'.stage = "status_out"
               PROVE  \/ rx'.res = "ACK"
                      \/ rx'.res = "NAK" /\ missed' /\ tx'.res = "ACK" /\ ~Next0'
    BY <1>1, <1>7 DEF StatusOut, Unsupported
  <2>1. Next0 /\ last /\ SetupReqLen = 0
    BY <1>1, <1>2, <1>3, <1>4, <1>7 DEF last
  <2>2. CASE heard
    BY <2>1, <2>2 DEF HostIn, EP0_IN, Turned
  <2>3. CASE ~heard
    <3>1. UNCHANGED <<tx, rx>> /\ missed' /\ pipe'.want = 1 - pipe.want
      BY <1>7, <2>1, <2>3 DEF HostIn, device, endpoint0
    <3>2. ~Next0'
      BY <1>1, <2>1, <3>1 DEF Next0, DeviceTypeOK, Toggle
    <3> QED BY <1>1, <3>1, <3>2 DEF PipeInv, DataIn
  <2> QED BY <2>2, <2>3
<1>14. DataIn' /\ Bytes'
  <2> SUFFICES ASSUME pipe'.stage = "data_in"
               PROVE  DataIn' /\ Bytes'
    BY DEF DataIn, Bytes
  <2> DEFINE l == Len(pipe.got) + IF Next0 THEN tx.len ELSE 0
  <2>1. r.code = "GET_DESCRIPTOR"
    <3> SUFFICES ASSUME r.code # "GET_DESCRIPTOR", Next0, ~last
                 PROVE  FALSE
      BY <1>4, <1>7
    <3>1. Len(pipe.got) = 0
      BY <1>4
    <3>2. Len(got) = r.len
      BY <1>2, <1>3, <1>4, <3>1
    <3> QED BY <1>2, <3>2 DEF last
  <2>2. /\ l \in Nat /\ Len(pipe'.got) = l /\ l + SetupReqLen = Cut(r)
        /\ l + SetupReqLen <= DescLen[r.arg]
        /\ pUSBFS_Descr = [of |-> r.arg, at |-> l]
    BY <1>2, <1>3, <1>4, <1>5, <1>6, <1>7, <2>1, UsbAssumption DEF UsbAssumption
  <2>3. Verdict' = "ACK" /\ ~Unsupported(r)' /\ Cut(r)' = Cut(r)
    BY <1>1, <1>7 DEF Verdict, Unsupported, Cut
  <2>4. rx'.res \in {"ACK", "NAK"}
    <3>1. rx.res \in {"ACK", "NAK"}
      BY <1>1 DEF PipeInv, DataIn
    <3> QED BY <3>1 DEF HostIn, EP0_IN, Turned, device, endpoint0
  <2>5. CASE ~heard /\ ~Next0
    <3>1. UNCHANGED <<pipe, rx, tx, SetupReqLen, pUSBFS_Descr, EP0_Buf>>
      BY <1>7, <2>5 DEF HostIn, device, endpoint0
    <3> QED BY <3>1 DEF PipeInv, DataIn, Bytes, Next0, Verdict, Agree, Unsupported, Cut
  <2>6. CASE ~heard /\ Next0
    <3>1. UNCHANGED <<tx, SetupReqLen, pUSBFS_Descr, EP0_Buf>>
      BY <2>6 DEF HostIn, device, endpoint0
    <3>2. ~Next0'
      BY <1>1, <1>7, <2>6, <3>1, Flipped DEF Next0, HostTypeOK
    <3>3. DataIn'
      BY <1>1, <1>4, <1>7, <2>1, <2>2, <2>3, <2>4, <3>1, <3>2 DEF DataIn
    <3>4. Bytes'
      BY <1>5, <1>7, <2>1, <2>2, <2>3, <3>1, <3>2 DEF Bytes
    <3> QED BY <3>3, <3>4
  <2>7. CASE heard
    <3>1. /\ tx'.len \in Nat /\ SetupReqLen' \in Nat
          /\ SetupReqLen = tx'.len + SetupReqLen'
          /\ tx'.len < Packet => SetupReqLen' = 0
          /\ tx'.tog = 1 - tx.tog /\ tx'.res = tx.res
          /\ pUSBFS_Descr' = [of |-> r.arg, at |-> l + tx'.len]
          /\ \A i \in 1..tx'.len : EP0_Buf'[i] = <<r.arg, l + i>>
      <4> HIDE DEF l
      <4> QED BY <1>1, <1>6, <2>1, <2>2, <2>7, Rearmed DEF HostIn
    <3>2. Next0'
      BY <1>1, <1>7, <3>1 DEF Next0, HostTypeOK, DeviceTypeOK, Toggle
    <3>3. DataIn'
      BY <1>1, <1>7, <2>1, <2>2, <2>3, <2>4, <3>1, <3>2 DEF DataIn
    <3>4. ASSUME NEW i \in 1..tx'.len
          PROVE  EP0_Buf'[i] = pipe'.due[Len(pipe'.got) + i]
      <4>1. l + i \in 1..Cut(r)
        BY <2>2, <3>1
      <4> QED BY <1>5, <1>7, <2>1, <2>2, <3>1, <4>1 DEF Of
    <3>5. Bytes'
      BY <1>5, <1>7, <2>1, <2>2, <2>3, <3>1, <3>2, <3>4 DEF Bytes, Agree
    <3> QED BY <3>3, <3>5
  <2> QED BY <2>5, <2>6, <2>7
<1> QED BY <1>9, <1>10, <1>11, <1>12, <1>13, <1>14 DEF PipeInv

(* Data, or the empty packet of a status stage, from the host. *)
LEMMA OutKept ==
  ASSUME UsbTypeOK, PipeInv, NEW heard \in BOOLEAN, HostOut(heard)
  PROVE  PipeInv'
<1> DEFINE r == pipe.r
           data == IF pipe.stage = "data_out" THEN Of(r.arg, r.len) ELSE <<>>
           b == [i \in 1..Packet |-> IF i <= Len(data) THEN data[i] ELSE EP0_Buf[i]]
<1>1. /\ pipe.stage \in {"data_out", "status_out"}
      /\ pipe'.r = r /\ pipe'.due = pipe.due /\ pipe'.got = pipe.got /\ pipe'.want = pipe.want
      /\ pipe'.stage = IF ~heard THEN pipe.stage
                       ELSE IF pipe.stage = "data_out" THEN "status_in" ELSE "idle"
      /\ EP0_OUT(data)
      /\ UNCHANGED <<hostAddr, known, missed>>
  BY DEF HostOut, UsbTypeOK, ControlTypeOK, HostTypeOK
<1>2. /\ r \in Requests /\ SetupReqCode = r.code
      /\ HostTypeOK /\ DeviceTypeOK /\ HostAgrees /\ hostAddr = DEV_ADDR
      /\ r.code \in Reads <=> pipe.stage = "status_out"
      /\ ~Unsupported(r)
  BY <1>1 DEF PipeInv, DataOut, StatusOut, Verdict, SameRequest, Running, HostOut,
     UsbTypeOK, ControlTypeOK
<1>3. /\ UNCHANGED <<SetupReqCode, rx, DevAddr, DEV_ADDR, DevConfig, uep>>
      /\ LineCoding' = IF rx.tog = 1 /\ r.code = "SET_LINE_CODING"
                       THEN SubSeq(b, 1, LineLen) ELSE LineCoding
      /\ (rx.tog = 1 /\ r.code \in Class) => tx' = [tog |-> 1, res |-> "ACK", len |-> 0]
  BY <1>1, <1>2 DEF EP0_OUT
<1> HIDE DEF b, data
<1>4. SameRequest' /\ DataIn' /\ Bytes'
  BY <1>1, <1>2, <1>3 DEF SameRequest, Running, DataIn, Bytes
<1>5. Got'
  BY <1>1 DEF PipeInv, Got, Running, Agree, Unsupported
<1>6. StatusOut'
  BY <1>1, <1>3 DEF PipeInv, StatusOut, Unsupported, HostOut
<1>7. DataOut'
  BY <1>1, <1>3 DEF PipeInv, DataOut, Verdict, Unsupported
<1>8. CASE pipe.stage = "status_out"
  <2>1. LineCoding' = LineCoding
    BY <1>2, <1>3, <1>8 DEF Reads
  <2>2. HostAgrees'
    BY <1>1, <1>2, <1>3, <2>1 DEF HostAgrees, Halted, Of
  <2>3. StatusIn'
    BY <1>1, <1>8 DEF StatusIn
  <2> QED BY <1>4, <1>5, <1>6, <1>7, <2>2, <2>3 DEF PipeInv
<1>9. CASE pipe.stage = "data_out"
  <2>1. /\ pipe.want = 1 /\ rx.tog = 1 /\ r.len > 0 /\ r.code \notin Reads
        /\ r.code = "SET_LINE_CODING" => known.line = "?"
    BY <1>9 DEF PipeInv, DataOut
  <2>2. r.code \in Class
    BY <1>2, <2>1, UsbAssumption DEF UsbAssumption, Unsupported
  <2>3. r.code = "SET_LINE_CODING" => LineCoding' = Of(r.arg, LineLen)
    <3> SUFFICES ASSUME r.code = "SET_LINE_CODING"
                 PROVE  LineCoding' = Of(r.arg, LineLen)
      OBVIOUS
    <3>1. r \in Request /\ r.arg \in Words /\ r.len = LineLen /\ LineLen \in 1..Packet
      BY <1>2, CutFacts, UsbAssumption DEF UsbAssumption, Request
    <3>2. data \in Seq(Byte) /\ Len(data) = LineLen /\ \A i \in 1..LineLen : data[i] = <<r.arg, i>>
      BY <1>9, <3>1, OfFacts DEF data
    <3>3. b \in [1..Packet -> Byte]
      BY <1>2, <3>1, <3>2, UsbAssumption DEF UsbAssumption, b, DeviceTypeOK
    <3>4. b \in Seq(Byte) /\ Len(b) = Packet
      BY <3>3, UsbAssumption DEF UsbAssumption
    <3>5. ASSUME NEW i \in 1..LineLen
          PROVE  b[i] = <<r.arg, i>>
      <4>1. i \in 1..Packet /\ i <= Len(data)
        BY <3>1, <3>2, UsbAssumption DEF UsbAssumption
      <4>2. b[i] = data[i]
        BY <4>1 DEF b
      <4> QED BY <3>2, <4>2
    <3>6. SubSeq(b, 1, LineLen) = [i \in 1..LineLen |-> b[i]]
      BY <3>1, <3>4, UsbAssumption DEF UsbAssumption
    <3> QED BY <1>3, <2>1, <3>5, <3>6 DEF Of
  <2>4. StatusIn'
    <3>1. tx'.tog = 1 /\ tx'.res = "ACK"
      BY <1>3, <2>1, <2>2
    <3>2. pipe'.stage = "status_in" => pipe'.want = 1
      BY <1>1, <2>1
    <3> QED BY <1>1, <1>2, <1>9, <2>1, <2>2, <2>3, <3>1, <3>2
        DEF StatusIn, Verdict, Unsupported, Class, Of
  <2>5. HostAgrees'
    <3>1. known.line # "?" => LineCoding' = LineCoding
      BY <1>3, <2>1
    <3> QED BY <1>1, <1>2, <1>3, <3>1 DEF HostAgrees, Halted, Of
  <2> QED BY <1>4, <1>5, <1>6, <1>7, <2>4, <2>5 DEF PipeInv
<1> QED BY <1>1, <1>8, <1>9

-----------------------------------------------------------------------------
(* The invariant of the stream, as long as no window was hit. *)

(* The call that owns the endpoint, and the calls that returned.           *)
Owner == pc \in {"free", "copy", "mark", "load_ack", "store_ack"}
Sent == IF pc = "idle" THEN calls ELSE calls - 1

(* No packet is armed and none on the wire where main writes, or believes  *)
(* it may (Busy is clear), and the next toggle is the one the host awaits. *)
Free == ep3.res # "ACK" /\ ~flight.on /\ ep3.tog = Awaited
Owned == (Owner \/ ~Busy) => Free

(* A transaction carries the armed packet. *)
Flying ==
  flight.on => /\ ep3.res = "ACK" /\ flight.tog = ep3.tog /\ flight.data = EP3_Buf
               /\ ~Rewinding

Loaded ==
  /\ pc \in {"mark", "load_ack", "store_ack"} => EP3_Buf = {calls}
  /\ ep3.res = "ACK" => EP3_Buf = {Sent}

(* What the host took: packets of calls that returned, in their order, the *)
(* armed one among them if its toggle is not the one awaited.              *)
Taken3 ==
  /\ \A i \in DOMAIN got3 : \E k \in 1..Sent : got3[i] = {k}
  /\ \A i, j \in DOMAIN got3 : i < j => \A a \in got3[i], b \in got3[j] : a < b
  /\ (ep3.res = "ACK" /\ ep3.tog = Awaited) => \A i \in DOMAIN got3 : Sent \notin got3[i]

StreamInv ==
  ~slip => Owned /\ Flying /\ Loaded /\ Taken3 /\ PacketsAccounted

LEMMA InitStream ==
  ASSUME CdcInit
  PROVE  StreamInv
<1> USE DEF CdcInit, ControlInit
<1>1. Owned
  BY DEF Owned, Free, ep3, Idle0, Endpoints, Quiet, Awaited, Unhalting, NoTransfer
<1>2. Flying /\ Loaded
  BY DEF Flying, Quiet, Loaded, ep3, Idle0, Endpoints
<1>3. Taken3 /\ PacketsAccounted
  BY DEF Taken3, ep3, Idle0, Endpoints, PacketsAccounted, Accepted
<1> QED BY <1>1, <1>2, <1>3 DEF StreamInv

(* A step of the host or the wire that leaves main and what the host has   *)
(* alone keeps the invariant if it leaves an armed packet as it is, or     *)
(* withdraws it and says so.                                               *)
LEMMA StreamKept ==
  ASSUME UsbTypeOK, StreamInv, ~slip, UNCHANGED <<main, got3>>, ~flight'.on,
         (Busy' = Busy /\ (Free => Free')) \/ Free',
         ep3'.res = "ACK" => ep3' = ep3 /\ Awaited' = Awaited /\ Busy' = Busy,
         dropped \subseteq dropped',
         ep3.res = "ACK" /\ ep3'.res # "ACK" => EP3_Buf \subseteq dropped'
  PROVE  StreamInv'
<1>1. Owned /\ Loaded /\ Taken3 /\ PacketsAccounted
  BY DEF StreamInv
<1>2. UNCHANGED <<pc, calls, seen, EP3_Buf>> /\ Sent' = Sent /\ Accepted' = Accepted /\ Owner' = Owner
  BY DEF main, Sent, Accepted, Owner
<1>3. Owned'
  BY <1>1, <1>2 DEF Owned
<1>4. Flying'
  BY DEF Flying
<1>5. Loaded'
  BY <1>1, <1>2 DEF Loaded
<1>6. Taken3'
  BY <1>1, <1>2 DEF Taken3
<1>7. PacketsAccounted'
  <2> SUFFICES ASSUME NEW k \in Accepted
               PROVE  \/ \E i \in DOMAIN got3 : k \in got3[i]
                      \/ k \in dropped'
                      \/ Armed' /\ k \in EP3_Buf /\ ep3'.tog = Awaited'
    BY <1>2 DEF PacketsAccounted
  <2>1. \/ \E i \in DOMAIN got3 : k \in got3[i]
        \/ k \in dropped
        \/ Armed /\ k \in EP3_Buf /\ ep3.tog = Awaited
    BY <1>1 DEF PacketsAccounted
  <2>2. CASE Armed /\ k \in EP3_Buf /\ ep3.tog = Awaited
    BY <2>2 DEF Armed
  <2> QED BY <2>1, <2>2
<1> QED BY <1>3, <1>4, <1>5, <1>6, <1>7 DEF StreamInv

LEMMA CdcSetupKept ==
  ASSUME UsbTypeOK, PipeInv, StreamInv, NEW r \in Requests, CdcSetup(r)
  PROVE  StreamInv'
<1> SUFFICES ASSUME ~slip'
             PROVE  StreamInv'
  BY DEF StreamInv
<1>1. /\ ~slip /\ ~Unhalting /\ UNCHANGED <<main, stream, Busy>> /\ ~flight.on
      /\ dropped' = IF ep3'.res = "ACK" THEN dropped ELSE Withdrawn
  BY DEF CdcSetup, HostSetup, SETUP, ep3
<1>2. Awaited = want3
  BY <1>1 DEF Awaited
<1>3. uep \in [Endpoints -> Control] /\ uep' = Featured(r) /\ "ep3" \in Endpoints
  BY DEF UsbTypeOK, ControlTypeOK, DeviceTypeOK, Control, Endpoints, CdcSetup, HostSetup, SETUP
<1>4. CASE EndsHalt(r)
  <2>1. ep3' = [tog |-> 0, res |-> "NAK"]
    BY <1>3, <1>4 DEF EndsHalt, Featured, ep3, Idle0
  <2>2. r.len = 0
    BY <1>4, CutFacts, UsbAssumption DEF UsbAssumption, EndsHalt, Reads, Class, Request
  <2>3. Unhalting'
    BY <1>4, <2>2 DEF Unhalting, EndsHalt, CdcSetup, HostSetup, Reads
  <2>4. Free'
    BY <1>1, <2>1, <2>3 DEF Free, Awaited, stream
  <2> QED BY <1>1, <2>1, <2>4, StreamKept DEF Withdrawn, stream
<1>5. CASE ~EndsHalt(r)
  <2>1. Awaited' = want3
    BY <1>1, <1>5 DEF Awaited, Unhalting, EndsHalt, CdcSetup, HostSetup, stream
  <2>2. ep3' = ep3 \/ ep3' = [ep3 EXCEPT !.res = "STALL"]
    BY <1>3, <1>5 DEF EndsHalt, Featured, ep3
  <2>3. /\ ep3'.tog = ep3.tog
        /\ ep3'.res = ep3.res \/ ep3'.res = "STALL"
        /\ ep3'.res = "ACK" => ep3' = ep3
    BY <1>3, <2>2 DEF ep3, Control
  <2>4. Free => Free'
    BY <1>1, <1>2, <2>1, <2>3 DEF Free, stream
  <2> QED BY <1>1, <1>2, <2>1, <2>3, <2>4, StreamKept DEF Withdrawn, stream
<1> QED BY <1>4, <1>5

LEMMA CdcHostKept ==
  ASSUME UsbTypeOK, PipeInv, StreamInv, CdcHost
  PROVE  StreamInv'
<1> SUFFICES ASSUME ~slip'
             PROVE  StreamInv'
  BY DEF StreamInv
<1>1. /\ ~slip /\ UNCHANGED <<main, flight, got3, dropped>> /\ ~flight.on
      /\ want3' = IF Rewound THEN 0 ELSE want3
      /\ ~(Rewound /\ Configures(pipe.r) /\ want3 # 0)
  BY DEF CdcHost
<1>2. UNCHANGED <<uep, Busy>> /\ pipe'.r = pipe.r
  BY DEF CdcHost, HostStalled, HostIn, HostOut, EP0_IN, EP0_OUT, device,
     UsbTypeOK, ControlTypeOK, HostTypeOK
<1>3. EndsHalt(pipe.r) =>
        /\ pipe.stage # "data_out" /\ pipe.stage # "data_in" /\ pipe.stage # "status_out"
        /\ ~(pipe.stage = "status_in" /\ tx.res = "STALL")
  <2>1. EndsHalt(pipe.r) => pipe.r.code \notin Reads \union Class \union {"OTHER"} /\ ~Unsupported(pipe.r)
    BY DEF EndsHalt, Reads, Class, Unsupported, Endpoints
  <2>2. pipe.stage = "data_out" => pipe.r \in Requests /\ pipe.r.len > 0
    BY DEF PipeInv, DataOut, SameRequest, Running
  <2>3. pipe.stage = "data_in" \/ pipe.stage = "status_out" => pipe.r.code \in Reads
    BY DEF PipeInv, DataIn, StatusOut
  <2>4. pipe.stage = "status_in" => tx.res = Verdict
    BY DEF PipeInv, StatusIn
  <2> QED BY <2>1, <2>2, <2>3, <2>4, UsbAssumption DEF UsbAssumption, Verdict
<1>4. Unhalting => Rewound \/ Unhalting'
  <2> SUFFICES ASSUME Unhalting
               PROVE  pipe'.stage = "idle" \/ pipe'.stage = "status_in"
    BY <1>2 DEF Unhalting, Rewound, Rewinding, EndsHalt
  <2>1. pipe.stage = "status_in" /\ tx.res # "STALL"
    BY <1>3 DEF Unhalting
  <2> QED BY <2>1 DEF CdcHost, HostStalled, HostIn, HostOut, UsbTypeOK, ControlTypeOK, HostTypeOK
<1>5. Unhalting' => Unhalting /\ ~Rewound
  <2> SUFFICES ASSUME Unhalting'
               PROVE  pipe.stage = "status_in" /\ ~Rewound
    BY <1>2 DEF Unhalting, EndsHalt
  <2>1. pipe'.stage = "status_in" /\ EndsHalt(pipe.r)
    BY <1>2 DEF Unhalting, EndsHalt
  <2> QED BY <1>3, <2>1
      DEF CdcHost, HostStalled, HostIn, HostOut, Rewound, UsbTypeOK, ControlTypeOK, HostTypeOK
<1>6. Awaited' = Awaited
  <2>1. CASE Rewound /\ Configures(pipe.r)
    BY <1>1, <1>5, <2>1 DEF Awaited, Unhalting, EndsHalt, Configures
  <2>2. CASE Rewound /\ EndsHalt(pipe.r)
    BY <1>1, <1>5, <2>2 DEF Awaited, Rewound, Rewinding, Unhalting
  <2>3. CASE ~Rewound
    BY <1>1, <1>4, <1>5, <2>3 DEF Awaited
  <2> QED BY <2>1, <2>2, <2>3 DEF Rewound, Rewinding
<1>7. ep3' = ep3 /\ (Free => Free')
  BY <1>1, <1>2, <1>6 DEF ep3, Free
<1> QED BY <1>1, <1>2, <1>6, <1>7, StreamKept

LEMMA CdcResetKept ==
  ASSUME UsbTypeOK, StreamInv, CdcReset
  PROVE  StreamInv'
<1> SUFFICES ASSUME ~slip
             PROVE  StreamInv'
  BY DEF StreamInv, CdcReset
<1>1. ep3' = [tog |-> 0, res |-> "NAK"]
  BY DEF CdcReset, HostReset, BUS_RST, ep3, Idle0, Endpoints
<1>2. Free' /\ ~flight'.on
  BY <1>1 DEF CdcReset, HostReset, NoTransfer, Free, Awaited, Unhalting, Quiet
<1> QED BY <1>1, <1>2, StreamKept DEF CdcReset, Withdrawn

(* main. *)
LEMMA ProgramKept ==
  ASSUME UsbTypeOK, StreamInv, Program
  PROVE  StreamInv'
<1> SUFFICES ASSUME ~slip'
             PROVE  StreamInv'
  BY DEF StreamInv
<1>1. ~slip
  BY DEF Program, Send, Look, Load, StoreNak, Mark, Copy, StoreAck
<1>2. Owned /\ Flying /\ Loaded /\ Taken3 /\ PacketsAccounted
  BY <1>1 DEF StreamInv
<1>3. /\ UNCHANGED <<pipe, want3, got3>> /\ Awaited' = Awaited
      /\ Unhalting' = Unhalting /\ Rewinding' = Rewinding
  BY DEF Program, Send, Look, Load, StoreNak, Mark, Copy, StoreAck, Store, controlVars, stream,
     Awaited, Unhalting, Rewinding
<1>4. /\ StreamTypeOK /\ calls \in Nat /\ (pc # "idle" => calls >= 1)
      /\ uep \in [Endpoints -> Control] /\ "ep3" \in Endpoints
  BY CdcAssumption DEF CdcAssumption, UsbTypeOK, StreamTypeOK, ControlTypeOK, DeviceTypeOK,
     Control, Endpoints
<1>5. CASE Send
  <2>1. /\ UNCHANGED <<EP3_Buf, flight, dropped, Busy>> /\ ep3' = ep3
        /\ pc = "idle" /\ pc' = "look" /\ calls' = calls + 1
    BY <1>5 DEF Send, At, controlVars, device, stream, ep3
  <2>2. Sent' = Sent /\ Accepted' = Accepted /\ Owner' = Owner
    BY <1>4, <2>1 DEF Sent, Accepted, Owner
  <2>3. Free' = Free /\ Armed' = Armed
    BY <1>3, <2>1 DEF Free, Armed
  <2>4. Owned' /\ Flying'
    BY <1>2, <1>3, <2>1, <2>2, <2>3 DEF Owned, Flying
  <2>5. Loaded'
    BY <1>2, <2>1, <2>2 DEF Loaded
  <2>6. Taken3'
    BY <1>2, <1>3, <2>1, <2>2 DEF Taken3
  <2>7. PacketsAccounted'
    BY <1>1, <1>2, <1>3, <2>1, <2>2, <2>3 DEF PacketsAccounted
  <2> QED BY <2>4, <2>5, <2>6, <2>7 DEF StreamInv
<1>6. CASE Look \/ Load
  <2>1. /\ UNCHANGED <<calls, EP3_Buf, flight, dropped, Busy>> /\ ep3' = ep3
        /\ pc # "idle" /\ pc' # "idle"
        /\ Owner' => Owner \/ ~Busy
        /\ pc' \in {"mark", "load_ack", "store_ack"} => pc \in {"mark", "load_ack", "store_ack"}
    BY <1>6 DEF Look, Forward, Load, At, controlVars, device, stream, ep3, Owner
  <2>2. Sent' = Sent /\ Accepted' = Accepted
    BY <2>1 DEF Sent, Accepted
  <2>3. Free' = Free /\ Armed' = Armed
    BY <1>3, <2>1 DEF Free, Armed
  <2>4. Owned' /\ Flying'
    BY <1>2, <1>3, <2>1, <2>2, <2>3 DEF Owned, Flying
  <2>5. Loaded'
    BY <1>2, <2>1, <2>2 DEF Loaded
  <2>6. Taken3'
    BY <1>2, <1>3, <2>1, <2>2 DEF Taken3
  <2>7. PacketsAccounted'
    BY <1>1, <1>2, <1>3, <2>1, <2>2, <2>3 DEF PacketsAccounted
  <2> QED BY <2>4, <2>5, <2>6, <2>7 DEF StreamInv
<1>7. CASE StoreNak
  <2>1. /\ UNCHANGED <<calls, EP3_Buf, flight, Busy>>
        /\ pc = "store_nak" /\ pc' = "free"
        /\ dropped' = Withdrawn
        /\ ep3' = [tog |-> seen.tog, res |-> "NAK"]
        /\ seen.tog = ep3.tog /\ ~flight.on /\ ep3.tog = Awaited
    BY <1>4, <1>7 DEF StoreNak, Store, Masked, At, stream, ep3
  <2>2. Sent' = Sent /\ Accepted' = Accepted /\ Free'
    BY <1>3, <2>1 DEF Sent, Accepted, Free
  <2>3. PacketsAccounted'
    BY <1>1, <1>2, <1>3, <2>1, <2>2 DEF PacketsAccounted, Armed, Withdrawn
  <2> QED BY <1>2, <1>3, <2>1, <2>2, <2>3
      DEF StreamInv, Owned, Flying, Loaded, Taken3
<1>8. CASE Mark
  <2>1. /\ UNCHANGED <<calls, EP3_Buf, flight, dropped>> /\ ep3' = ep3
        /\ pc # "idle" /\ pc' # "idle" /\ Owner /\ Owner'
        /\ pc' \in {"mark", "load_ack", "store_ack"} => pc \in {"mark", "load_ack", "store_ack"}
    BY <1>8 DEF Mark, At, stream, ep3, Owner
  <2>2. Sent' = Sent /\ Accepted' = Accepted /\ Free /\ Free'
    BY <1>2, <1>3, <2>1 DEF Sent, Accepted, Owned, Free
  <2> QED BY <1>1, <1>2, <1>3, <2>1, <2>2
      DEF StreamInv, Owned, Free, Flying, Loaded, Taken3, PacketsAccounted, Armed
<1>9. CASE Copy
  <2>1. /\ UNCHANGED <<calls, dropped, Busy>> /\ ep3' = ep3 /\ EP3_Buf' = {calls}
        /\ pc # "idle" /\ pc' # "idle" /\ Owner /\ Owner' /\ flight'.on = flight.on
    BY <1>4, <1>9 DEF Copy, At, controlVars, device, ep3, Owner, StreamTypeOK
  <2>2. Sent' = Sent /\ Accepted' = Accepted /\ Free /\ Free'
    BY <1>2, <1>3, <2>1 DEF Sent, Accepted, Owned, Free
  <2> QED BY <1>1, <1>2, <1>3, <2>1, <2>2
      DEF StreamInv, Owned, Free, Flying, Loaded, Taken3, PacketsAccounted, Armed
<1>10. CASE StoreAck
  <2>1. /\ UNCHANGED <<calls, EP3_Buf, flight, dropped, Busy>>
        /\ pc = "store_ack" /\ pc' = "idle"
        /\ ep3' = [tog |-> seen.tog, res |-> "ACK"]
        /\ seen.tog = ep3.tog /\ Busy
    BY <1>4, <1>10 DEF StoreAck, Store, Masked, At, stream, ep3
  <2>2. Free /\ EP3_Buf = {calls} /\ Sent = calls - 1 /\ Sent' = calls
        /\ Accepted = 1..(calls - 1) /\ Accepted' = 1..calls
    BY <1>2, <2>1 DEF Owned, Owner, Loaded, Sent, Accepted
  <2>3. ep3'.tog = Awaited' /\ Armed'
    BY <1>3, <2>1, <2>2 DEF Free, Armed
  <2>4. Taken3'
    <3>1. \A i \in DOMAIN got3 : \E k \in 1..(calls - 1) : got3[i] = {k}
      BY <1>2, <2>2 DEF Taken3
    <3>2. \A i \in DOMAIN got3 : calls \notin got3[i] /\ \E k \in 1..calls : got3[i] = {k}
      BY <1>4, <3>1
    <3> QED BY <1>2, <1>3, <2>2, <3>2 DEF Taken3
  <2>5. PacketsAccounted'
    <3>1. \A k \in 1..calls : k = calls \/ k \in 1..(calls - 1)
      BY <1>4
    <3>2. ~Armed
      BY <2>2 DEF Free, Armed
    <3> QED BY <1>1, <1>2, <1>3, <2>1, <2>2, <2>3, <3>1, <3>2 DEF PacketsAccounted
  <2> QED BY <2>1, <2>2, <2>4, <2>5 DEF StreamInv, Owned, Owner, Flying, Loaded, Free
<1> QED BY <1>5, <1>6, <1>7, <1>8, <1>9, <1>10 DEF Program

LEMMA TokenKept ==
  ASSUME UsbTypeOK, StreamInv, Token
  PROVE  StreamInv'
<1> SUFFICES ASSUME ~slip
             PROVE  StreamInv'
  BY DEF StreamInv, Token
<1>1. Owned /\ Flying /\ Loaded /\ Taken3 /\ PacketsAccounted
  BY DEF StreamInv
<1>2. /\ UNCHANGED <<pc, calls, EP3_Buf, want3, got3, dropped, Busy, pipe, uep>>
      /\ ep3.res = "ACK" /\ ~Rewinding
      /\ flight' = [on |-> TRUE, tog |-> ep3.tog, data |-> EP3_Buf]
  BY DEF Token, controlVars, device, main
<1>3. /\ ep3' = ep3 /\ Awaited' = Awaited /\ ~Rewinding' /\ Sent' = Sent /\ Accepted' = Accepted
      /\ Owner' = Owner /\ Armed' = Armed /\ ~Owner /\ Busy
  BY <1>1, <1>2 DEF ep3, Awaited, Unhalting, Rewinding, Sent, Accepted, Owner, Armed, Owned, Free
<1> QED BY <1>1, <1>2, <1>3
    DEF StreamInv, Owned, Flying, Loaded, Taken3, PacketsAccounted

(* The end of a transaction. *)
LEMMA DoneKept ==
  ASSUME UsbTypeOK, StreamInv, NEW heard \in BOOLEAN, Done(heard)
  PROVE  StreamInv'
<1> SUFFICES ASSUME ~slip
             PROVE  StreamInv'
  BY DEF StreamInv, Done
<1>1. Owned /\ Flying /\ Loaded /\ Taken3 /\ PacketsAccounted
  BY DEF StreamInv
<1>2. /\ UNCHANGED <<pc, calls, EP3_Buf, dropped, pipe>>
      /\ flight.on /\ ~flight'.on
      /\ heard => Busy' = FALSE /\ ep3' = [tog |-> 1 - ep3.tog, res |-> "NAK"]
      /\ ~heard => UNCHANGED <<uep, Busy>> /\ ep3' = ep3
  BY DEF Done, Quiet, main, ep3, UsbTypeOK, ControlTypeOK, DeviceTypeOK, Endpoints
<1>3. /\ ep3.res = "ACK" /\ flight.tog = ep3.tog /\ flight.data = {Sent} /\ EP3_Buf = {Sent}
      /\ ~Rewinding /\ ~Owner /\ Busy
      /\ Awaited = want3 /\ Awaited' = want3'
      /\ Sent' = Sent /\ Accepted' = Accepted /\ ~Owner'
  BY <1>1, <1>2 DEF Flying, Loaded, Owned, Free, Awaited, Unhalting, Rewinding, Sent, Accepted, Owner
<1>4. ep3.tog \in Toggle /\ want3 \in Toggle /\ Sent \in 1..calls /\ calls \in Nat
      /\ got3 \in Seq(SUBSET (1..calls))
  BY <1>3, CdcAssumption DEF CdcAssumption, UsbTypeOK, ControlTypeOK, DeviceTypeOK, StreamTypeOK, ep3, Endpoints
<1>5. CASE ep3.tog # want3
  <2>1. UNCHANGED <<got3, want3>>
    BY <1>3, <1>5 DEF Done
  <2>2. heard => Free'
    BY <1>2, <1>3, <1>4, <1>5, <2>1 DEF Free, Toggle
  <2>3. PacketsAccounted'
    BY <1>1, <1>2, <1>3, <1>5, <2>1 DEF PacketsAccounted
  <2>4. ep3'.res = "ACK" => ep3' = ep3 /\ Awaited' = Awaited
    <3>1. heard => ep3'.res = "NAK"
      BY <1>2
    <3>2. ~heard => ep3' = ep3
      BY <1>2
    <3>3. Awaited' = Awaited
      BY <1>3, <2>1
    <3> QED BY <3>1, <3>2, <3>3
  <2>5. Owned'
    BY <1>2, <1>3, <2>2 DEF Owned
  <2>6. Flying' /\ Loaded'
    BY <1>1, <1>2, <1>3, <2>4 DEF Flying, Loaded, Owner
  <2>7. Taken3'
    BY <1>1, <1>3, <2>1, <2>4 DEF Taken3
  <2> QED BY <2>3, <2>5, <2>6, <2>7 DEF StreamInv
<1>6. CASE ep3.tog = want3
  <2>1. got3' = Append(got3, {Sent}) /\ want3' = 1 - want3
    BY <1>3, <1>6 DEF Done
  <2>2. heard => Free'
    BY <1>2, <1>3, <1>6, <2>1 DEF Free
  <2>3. ~heard => ep3'.tog # Awaited'
    BY <1>2, <1>3, <1>4, <1>6, <2>1 DEF Toggle
  <2>4. /\ DOMAIN got3 = 1..Len(got3) /\ DOMAIN got3' = 1..(Len(got3) + 1) /\ Len(got3) \in Nat
        /\ \A i \in 1..Len(got3) : got3'[i] = got3[i]
        /\ got3'[Len(got3) + 1] = {Sent}
    BY <1>4, <2>1
  <2>5. \A i \in 1..Len(got3) : \E k \in 1..Sent : got3[i] = {k} /\ k < Sent
    BY <1>1, <1>3, <1>4, <1>6, <2>4 DEF Taken3
  <2>6. Taken3'
    <3>1. ASSUME NEW i \in DOMAIN got3'
          PROVE  \E k \in 1..Sent : got3'[i] = {k}
      <4>1. CASE i = Len(got3) + 1
        BY <1>4, <2>4, <4>1
      <4>2. CASE i # Len(got3) + 1
        BY <2>4, <2>5, <4>2
      <4> QED BY <4>1, <4>2
    <3>2. ASSUME NEW i \in DOMAIN got3', NEW j \in DOMAIN got3', i < j,
                 NEW a \in got3'[i], NEW b \in got3'[j]
          PROVE  a < b
      <4>1. i \in 1..Len(got3) /\ got3'[i] = got3[i]
        BY <2>4, <3>2
      <4>2. CASE j = Len(got3) + 1
        BY <2>4, <2>5, <3>2, <4>1, <4>2
      <4>3. CASE j # Len(got3) + 1
        BY <1>1, <2>4, <3>2, <4>1, <4>3 DEF Taken3
      <4> QED BY <4>2, <4>3
    <3>3. ~(ep3'.res = "ACK" /\ ep3'.tog = Awaited')
      BY <1>2, <2>3
    <3> QED BY <1>3, <3>1, <3>2, <3>3 DEF Taken3
  <2>7. PacketsAccounted'
    <3> SUFFICES ASSUME NEW k \in Accepted
                 PROVE  (\E i \in DOMAIN got3' : k \in got3'[i]) \/ k \in dropped'
      BY <1>3 DEF PacketsAccounted
    <3>1. CASE k = Sent
      BY <2>4, <3>1
    <3>2. CASE k # Sent
      <4>1. (\E i \in DOMAIN got3 : k \in got3[i]) \/ k \in dropped
        BY <1>1, <1>3, <3>2 DEF PacketsAccounted
      <4> QED BY <1>2, <2>4, <4>1
    <3> QED BY <3>1, <3>2
  <2> QED BY <1>1, <1>2, <1>3, <2>2, <2>6, <2>7
      DEF StreamInv, Owned, Flying, Loaded, Owner
<1> QED BY <1>5, <1>6

-----------------------------------------------------------------------------
(* Theorems. *)

LEMMA NextPipe ==
  ASSUME UsbTypeOK, PipeInv, [CdcNext]_cdcVars
  PROVE  PipeInv'
<1>1. CASE Aside
  BY <1>1, AsideKept
<1>2. ASSUME NEW r \in Requests, HostSetup(r)
      PROVE  PipeInv'
  BY <1>2, SetupKept
<1>3. CASE HostStalled
  BY <1>3, StalledKept
<1>4. ASSUME NEW heard \in BOOLEAN, HostIn(heard)
      PROVE  PipeInv'
  BY <1>4, StatusInKept, DataInKept DEF HostIn
<1>5. ASSUME NEW heard \in BOOLEAN, HostOut(heard)
      PROVE  PipeInv'
  BY <1>5, OutKept
<1>6. CASE HostReset
  BY <1>6, ResetKept
<1> QED BY <1>1, <1>2, <1>3, <1>4, <1>5, <1>6, MoveOrAside DEF Move

(* Every variable of the device, the host, the program and the wire keeps  *)
(* its type, whatever is given up, lost or reset.                          *)
THEOREM UsbTypesHold == CdcSpec => []UsbTypeOK
<1>1. CdcInit => UsbTypeOK
  BY InitTyped
<1>2. UsbTypeOK /\ [CdcNext]_cdcVars => UsbTypeOK'
  BY NextTyped
<1> QED BY <1>1, <1>2, PTL DEF CdcSpec

(* USBFS_IRQHandler and the host stay at the same point of a transfer.     *)
THEOREM PipeInvariant == CdcSpec => []PipeInv
<1>1. CdcInit => PipeInv
  BY InitPipe
<1>2. UsbTypeOK /\ PipeInv /\ [CdcNext]_cdcVars => PipeInv'
  BY NextPipe
<1> QED BY <1>1, <1>2, UsbTypesHold, PTL DEF CdcSpec

(* A control read brings exactly its bytes, for every length of a packet   *)
(* and of a descriptor (the EP0 branches of USBFS_IRQHandler).             *)
THEOREM ReadsAreExact == CdcSpec => []DataExact
<1>1. UsbTypeOK /\ PipeInv => DataExact
  <2> SUFFICES ASSUME UsbTypeOK, PipeInv, pipe.r.code \in Reads
               PROVE  /\ Len(pipe.got) <= Len(pipe.due)
                      /\ \A i \in DOMAIN pipe.got :
                           pipe.due[i][1] = "?" \/ pipe.got[i] = pipe.due[i]
                      /\ pipe.stage = "status_out" => Len(pipe.got) = Len(pipe.due)
    BY DEF DataExact
  <2>1. DOMAIN pipe.got = 1..Len(pipe.got)
    BY DEF UsbTypeOK, ControlTypeOK, HostTypeOK
  <2> QED BY <2>1 DEF PipeInv, Got, Agree
<1> QED BY <1>1, UsbTypesHold, PipeInvariant, PTL

(* The device answers the transaction the host tries next, or refuses it   *)
(* if it does not support the request.  After a lost last ACK of a read it *)
(* may be left with that packet, answering NAK: no other transfer is left  *)
(* to a time-out.                                                          *)
THEOREM TransfersAreAnswered == CdcSpec => []Answered
<1>1. PipeInv => Answered
  BY DEF PipeInv, Answered, DataIn, DataOut, StatusIn, StatusOut, Verdict, Next0
<1> QED BY <1>1, PipeInvariant, PTL

(* Address, configuration, line coding and halts are in the device what    *)
(* the host was told, after every lost handshake and every transfer given  *)
(* up.                                                                     *)
THEOREM HostIsRight == CdcSpec => []HostAgrees
<1>1. PipeInv => HostAgrees
  BY DEF PipeInv
<1> QED BY <1>1, PipeInvariant, PTL

LEMMA NextStream ==
  ASSUME UsbTypeOK, PipeInv, StreamInv, [CdcNext]_cdcVars
  PROVE  StreamInv'
<1>1. CASE UNCHANGED cdcVars
  BY <1>1 DEF cdcVars, controlVars, device, main, stream, StreamInv, Owned, Owner, Free, ep3,
     Awaited, Unhalting, Flying, Rewinding, Loaded, Sent, Taken3, PacketsAccounted, Accepted, Armed
<1> QED BY <1>1, ProgramKept, TokenKept, DoneKept, CdcSetupKept, CdcHostKept, CdcResetKept
    DEF CdcNext

THEOREM StreamInvariant == CdcSpec => []StreamInv
<1>1. CdcInit => StreamInv
  BY InitStream
<1>2. UsbTypeOK /\ PipeInv /\ StreamInv /\ [CdcNext]_cdcVars => StreamInv'
  BY NextStream
<1> QED BY <1>1, <1>2, UsbTypesHold, PipeInvariant, PTL DEF CdcSpec

(* Outside the windows of slip, the packets of usb_cdc_write reach the     *)
(* host whole, in order and once, for every number of calls, losses,       *)
(* resets and halts.                                                       *)
THEOREM StreamIsHonest == CdcSpec => []StreamHonest
<1>1. UsbTypeOK /\ StreamInv => StreamHonest
  <2> SUFFICES ASSUME ~slip, Taken3
               PROVE  StreamHonest
    BY DEF StreamInv, StreamHonest
  <2>1. ASSUME NEW i \in DOMAIN got3
        PROVE  Cardinality(got3[i]) = 1
    <3>1. PICK k \in 1..Sent : got3[i] = {k}
      BY DEF Taken3
    <3> QED BY <3>1, FS_Singleton
  <2> QED BY <2>1 DEF Taken3, StreamHonest
<1> QED BY <1>1, UsbTypesHold, StreamInvariant, PTL

(* Every packet whose call returned is at the host, armed with a toggle    *)
(* the host will take, or known to be withdrawn.                           *)
THEOREM PacketsAreAccounted == CdcSpec => []PacketsAccounted
<1>1. StreamInv => PacketsAccounted
  BY DEF StreamInv, PacketsAccounted
<1> QED BY <1>1, StreamInvariant, PTL

=============================================================================
