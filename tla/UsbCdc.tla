------------------------------- MODULE UsbCdc -------------------------------
(***************************************************************************)
(* Endpoint 3, the bulk IN of the virtual COM port: usb_cdc_write and      *)
(* usb_printf in main, USBFS_IRQHandler, and a host that polls, over the   *)
(* control pipe of UsbControl.  main and the interrupt share               *)
(* UEP3_TX_CTRL, which main changes by a load and a store, and Busy.       *)
(*                                                                         *)
(* usb_cdc_write first waits for Busy to clear, up to 100000 looks; with   *)
(* no clock in the model the wait is invisible, and the two functions are  *)
(* one Send.  A packet is the number of the call that sent it.             *)
(***************************************************************************)
EXTENDS UsbControl, FiniteSets

CONSTANTS
  MaxWrites, MaxWork   (* bounds: calls; calls, transfers, resets together *)

ASSUME CdcAssumption == MaxWrites \in Nat /\ MaxWork \in Nat

VARIABLES
  pc, calls, seen,     (* main: its place, its call, the register it loaded *)
  EP3_Buf,
  flight,              (* a transaction of ep3 on the wire *)
  want3, got3,         (* the host's toggle; what it took, in order *)
  dropped,             (* history: packets withdrawn before they were ACKed *)
  slip                 (* history: one of the windows of this module was hit *)

main == <<pc, calls, seen, EP3_Buf>>
stream == <<flight, want3, got3>>
cdcVars == <<controlVars, main, stream, dropped, slip>>

ep3 == uep["ep3"]
Room == calls + setups + resets < MaxWork
Quiet == [on |-> FALSE, tog |-> 0, data |-> {}]

CdcInit ==
  /\ ControlInit
  /\ pc = "idle" /\ calls = 0 /\ seen = Idle0["ep3"] /\ EP3_Buf = {}
  /\ flight = Quiet /\ want3 = 0 /\ got3 = <<>>
  /\ dropped = {} /\ slip = FALSE

(* An armed packet is withdrawn: the endpoint answers ACK no longer.       *)
Withdrawn == IF ep3.res = "ACK" THEN dropped \union EP3_Buf ELSE dropped

(* Requests that rewind ep3, for the host at least: the end of a halt, and *)
(* a new configuration, with which the toggles of all endpoints start anew.*)
Configures(r) == r.code = "SET_CONFIGURATION"
EndsHalt(r) == r.code = "CLEAR_FEATURE" /\ r.arg = "ep3"
Rewinding == pipe.stage = "status_in" /\ (Configures(pipe.r) \/ EndsHalt(pipe.r))
Unhalting == pipe.stage = "status_in" /\ EndsHalt(pipe.r)

(* The toggle of the next packet the host will take for new. *)
Awaited == IF Unhalting THEN 0 ELSE want3
-----------------------------------------------------------------------------
(* main. *)

At(here, there) == pc = here /\ pc' = there

(* The entry of usb_cdc_write or usb_printf. *)
Send ==
  /\ calls < MaxWrites /\ Room
  /\ At("idle", "look") /\ calls' = calls + 1
  /\ UNCHANGED <<controlVars, seen, EP3_Buf, stream, dropped, slip>>

(* Mutant: the forced reset is forgotten. *)
Forward_unlooked == "copy"

Forward == IF Busy THEN "load_nak" ELSE "copy"

(* The look at Busy: force a reset, or go on to USBFS_Endp_DataUp. *)
Look ==
  /\ At("look", Forward)
  /\ UNCHANGED <<controlVars, calls, seen, EP3_Buf, stream, dropped, slip>>

(* The load of UEP3_TX_CTRL, for one of its two changes. *)
Load ==
  /\ \/ At("load_nak", "store_nak")
     \/ At("load_ack", "store_ack")
  /\ seen' = ep3
  /\ UNCHANGED <<controlVars, calls, EP3_Buf, stream, dropped, slip>>

(* Mutant: the register is written whole. *)
Masked_whole(res) == [tog |-> 0, res |-> res]

(* Only the response changes: the loaded toggle is put back. *)
Masked(res) == [tog |-> seen.tog, res |-> res]

Store(res) ==
  /\ uep' = [uep EXCEPT !["ep3"] = Masked(res)]
  /\ UNCHANGED <<endpoint0, DevAddr, DEV_ADDR, DevConfig, LineCoding, Busy,
                 pipe, hostAddr, known, missed, setups, losses, resets>>

(* The forced reset.  It slips if the interrupt changed the toggle since   *)
(* the load, if the packet is on the wire, or if the host took it and its  *)
(* ACK was lost: the next packet will have a toggle the host has seen.     *)
StoreNak ==
  /\ At("store_nak", "free")
  /\ Store("NAK")
  /\ dropped' = Withdrawn
  /\ slip' = (slip \/ seen.tog # ep3.tog \/ flight.on \/ ep3.tog # Awaited)
  /\ UNCHANGED <<calls, seen, EP3_Buf, stream>>

(* Busy is cleared, or set, by main. *)
Mark ==
  /\ \/ At("free", "copy") /\ Busy' = FALSE
     \/ At("mark", "load_ack") /\ Busy' = TRUE
  /\ UNCHANGED <<endpoint0, DevAddr, DEV_ADDR, DevConfig, LineCoding, uep,
                 pipe, hostAddr, known, missed, setups, losses, resets>>
  /\ UNCHANGED <<calls, seen, EP3_Buf, stream, dropped, slip>>

(* memcpy; a transaction on the wire reads from both packets. *)
Copy ==
  /\ At("copy", "mark")
  /\ EP3_Buf' = {calls}
  /\ flight' = [flight EXCEPT !.data = IF flight.on THEN @ \union {calls} ELSE @]
  /\ UNCHANGED <<controlVars, calls, seen, want3, got3, dropped, slip>>

(* The packet is armed, and the call returns 0.  It slips if the toggle    *)
(* was rewound since the load, or a bus reset has cleared Busy.            *)
StoreAck ==
  /\ At("store_ack", "idle")
  /\ Store("ACK")
  /\ slip' = (slip \/ seen.tog # ep3.tog \/ ~Busy)
  /\ UNCHANGED <<calls, seen, EP3_Buf, stream, dropped>>
-----------------------------------------------------------------------------
(* The host and the controller. *)

(* The host polls once it has configured the device, and not while it      *)
(* rewinds the endpoint.                                                   *)
Token ==
  /\ ~flight.on /\ hostAddr = DEV_ADDR /\ known.conf \notin {"zero", "?"}
  /\ ~Rewinding
  /\ ep3.res = "ACK"
  /\ flight' = [on |-> TRUE, tog |-> ep3.tog, data |-> EP3_Buf]
  /\ UNCHANGED <<controlVars, main, want3, got3, dropped, slip>>

(* The transaction ends; the interrupt comes if the host's ACK is heard.   *)
Done(heard) ==
  /\ flight.on /\ flight' = Quiet
  /\ Handshake(heard)
  /\ IF flight.tog = want3
     THEN got3' = Append(got3, flight.data) /\ want3' = 1 - want3
     ELSE UNCHANGED <<got3, want3>>
  /\ IF heard
     THEN /\ uep' = [uep EXCEPT !["ep3"] = [tog |-> 1 - @.tog, res |-> "NAK"]]
          /\ Busy' = FALSE
     ELSE UNCHANGED <<uep, Busy>>
  /\ UNCHANGED <<endpoint0, DevAddr, DEV_ADDR, DevConfig, LineCoding,
                 pipe, hostAddr, known, missed, main, dropped, slip>>

(* Control transfers share the wire.  A CLEAR_FEATURE given up half-way    *)
(* slips: the device has rewound its toggle, the host has not.             *)
CdcSetup(r) ==
  /\ ~flight.on /\ Room
  /\ HostSetup(r)
  /\ dropped' = IF uep'["ep3"].res = "ACK" THEN dropped ELSE Withdrawn
  /\ slip' = (slip \/ Unhalting)
  /\ UNCHANGED <<main, stream>>

(* The end of a rewinding.  The handler of SET_CONFIGURATION does not      *)
(* touch the endpoints: it slips unless the toggles were zero anyhow.      *)
Rewound == Rewinding /\ pipe'.stage = "idle"

CdcHost ==
  /\ ~flight.on
  /\ HostStalled \/ \E heard \in BOOLEAN : HostIn(heard) \/ HostOut(heard)
  /\ want3' = IF Rewound THEN 0 ELSE want3
  /\ slip' = (slip \/ (Rewound /\ Configures(pipe.r) /\ want3 # 0))
  /\ UNCHANGED <<main, flight, got3, dropped>>

CdcReset ==
  /\ Room /\ HostReset
  /\ flight' = Quiet /\ want3' = 0
  /\ dropped' = Withdrawn
  /\ UNCHANGED <<main, got3, slip>>

Program == Send \/ Look \/ Load \/ StoreNak \/ Mark \/ Copy \/ StoreAck

CdcNext ==
  \/ Program
  \/ Token
  \/ \E heard \in BOOLEAN : Done(heard)
  \/ \E r \in Requests : CdcSetup(r)
  \/ CdcHost
  \/ CdcReset

CdcSpec == CdcInit /\ [][CdcNext]_cdcVars
-----------------------------------------------------------------------------
(* Properties. *)

(* Type invariant. *)
StreamTypeOK ==
  /\ pc \in {"idle", "look", "load_nak", "store_nak", "free", "copy", "mark",
             "load_ack", "store_ack"}
  /\ calls \in 0..MaxWrites /\ (pc # "idle" => calls > 0)
  /\ seen \in [tog : Toggle, res : Response]
  /\ EP3_Buf \subseteq 1..calls /\ dropped \subseteq 1..calls
  /\ flight \in [on : BOOLEAN, tog : Toggle, data : SUBSET (1..calls)]
  /\ want3 \in Toggle /\ got3 \in Seq(SUBSET (1..calls)) /\ slip \in BOOLEAN

UsbTypeOK == ControlTypeOK /\ StreamTypeOK

(* The host receives whole packets, in the order of the calls, none twice: *)
(* the buffer is never overwritten under a transaction, and a packet sent  *)
(* again after a lost ACK carries the toggle that tells so.                *)
StreamHonest ==
  ~slip =>
    /\ \A i \in DOMAIN got3 : Cardinality(got3[i]) = 1
    /\ \A i, j \in DOMAIN got3 : i < j => \A a \in got3[i], b \in got3[j] : a < b

(* Every packet whose call returned 0 is at the host, or armed for it, or  *)
(* was withdrawn by a forced reset, a halt or a bus reset: none is thrown  *)
(* away by the host as a repetition, none waits in a silent endpoint.      *)
Accepted == IF pc = "idle" THEN 1..calls ELSE 1..(calls - 1)
Armed == ep3.res = "ACK" /\ Busy

PacketsAccounted ==
  ~slip =>
    \A k \in Accepted :
      \/ \E i \in DOMAIN got3 : k \in got3[i]
      \/ k \in dropped
      \/ Armed /\ k \in EP3_Buf /\ ep3.tog = Awaited
=============================================================================
