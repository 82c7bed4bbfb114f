----------------------------- MODULE UsartDmaRx -----------------------------
(***************************************************************************)
(* The double-buffered reception of User/main.c: DMA1 channel 5 writes     *)
(* USART1 bytes into one half of Rx_Buffer; USART1_IRQHandler (line idle)  *)
(* and DMA1_Channel5_IRQHandler (half full) swap the halves and push the   *)
(* finished one into the ring.  Both run at preemption priority 1, so they *)
(* never nest, and the DMA channel, with the lower number, goes first when *)
(* both are pending.  The hardware goes on between any two instructions of *)
(* an interrupt: that is what this module is about.                        *)
(*                                                                         *)
(* Timing the module takes from the hardware: a character lasts 95 us at   *)
(* 115200 baud and an interrupt a few, so at most one event of the line    *)
(* falls into one interrupt, and none while the data register is occupied. *)
(* Bytes are their number on the wire, 0 is the content at boot.  The ring *)
(* is module RxRing; here log is everything pushed, without its clamp.     *)
(***************************************************************************)
EXTENDS Integers, Sequences

CONSTANTS
  BufLen,   (* RX_BUFFER_LEN, 128 *)
  MaxBytes  (* bound of the model: bytes on the wire *)

ASSUME DmaAssumption == BufLen \in Nat /\ BufLen > 2 /\ MaxBytes \in Nat

VARIABLES
  (* hardware *)
  Rx_Buffer, CNTR, MADDR, enabled,
  DATAR,           (* a byte the DMA has not fetched, or 0 *)
  IDLE, TC,        (* the two interrupt flags *)
  arrived, heard,  (* bytes so far; a byte came since the last idle line *)
  (* software *)
  DMA_USE_BUFFER, isr, handler, rxlen, oldbuffer,
  log,
  (* bookkeeping *)
  spent,           (* the line's event inside the running interrupt is used *)
  slip             (* history: a byte fell into a window of LandsBadly *)

line == <<arrived, heard, spent, slip>>
dma  == <<Rx_Buffer, CNTR, MADDR, enabled, DATAR>>
soft == <<DMA_USE_BUFFER, handler, rxlen, oldbuffer>>
dmaVars == <<line, dma, soft, IDLE, TC, isr, log>>

Halves == {0, 1}
Empty == [i \in 0..BufLen - 1 |-> 0]

DmaInit ==
  /\ Rx_Buffer = [h \in Halves |-> Empty]
  /\ CNTR = BufLen /\ MADDR = 0 /\ enabled = TRUE /\ DATAR = 0
  /\ IDLE = FALSE /\ TC = FALSE
  /\ arrived = 0 /\ heard = FALSE
  /\ DMA_USE_BUFFER = 0
  /\ isr = "none" /\ handler = "none" /\ rxlen = 0 /\ oldbuffer = 0
  /\ log = <<>>
  /\ spent = FALSE /\ slip = FALSE
-----------------------------------------------------------------------------
(* The hardware. *)

(* The two places of USART1_IRQHandler where a byte goes astray: between   *)
(* the read of CNTR and the disabling of the channel, and, if it is the    *)
(* last of the half, anywhere before the channel is armed again.           *)
LandsBadly ==
  /\ handler = "idle"
  /\ isr = "disable" \/ (isr = "read" /\ CNTR = 1)

LineEvent == ~spent /\ spent' = (isr # "none")

Arrive ==
  /\ LineEvent
  /\ arrived < MaxBytes
  /\ DATAR = 0
  /\ arrived' = arrived + 1
  /\ heard' = TRUE
  /\ slip' = (slip \/ LandsBadly)
  /\ IF enabled /\ CNTR > 0
     THEN /\ Rx_Buffer' = [Rx_Buffer EXCEPT ![MADDR][BufLen - CNTR] = arrived + 1]
          /\ CNTR' = CNTR - 1
          /\ TC' = (TC \/ CNTR = 1)
          /\ UNCHANGED DATAR
     ELSE /\ DATAR' = arrived + 1
          /\ UNCHANGED <<Rx_Buffer, CNTR, TC>>
  /\ UNCHANGED <<MADDR, enabled, IDLE, soft, isr, log>>

LineIdle ==
  /\ LineEvent
  /\ heard
  /\ heard' = FALSE
  /\ IDLE' = TRUE
  /\ UNCHANGED <<arrived, slip, dma, TC, soft, isr, log>>
-----------------------------------------------------------------------------
(* The two interrupts. *)

(* Mutant: the idle interrupt goes first when both are pending. *)
IdleEnterFirst ==
  /\ isr = "none"
  /\ IDLE
  /\ isr' = "read" /\ handler' = "idle"
  /\ UNCHANGED <<line, dma, IDLE, TC, DMA_USE_BUFFER, rxlen, oldbuffer, log>>

IdleEnter ==
  /\ isr = "none"
  /\ IDLE /\ ~TC
  /\ isr' = "read" /\ handler' = "idle"
  /\ UNCHANGED <<line, dma, IDLE, TC, DMA_USE_BUFFER, rxlen, oldbuffer, log>>

Swap(len) ==
  /\ rxlen' = len
  /\ oldbuffer' = DMA_USE_BUFFER
  /\ DMA_USE_BUFFER' = 1 - DMA_USE_BUFFER
  /\ isr' = "disable"

IdleRead ==
  /\ isr = "read"
  /\ Swap(BufLen - CNTR)
  /\ UNCHANGED <<line, dma, IDLE, TC, handler, log>>

FullEnter ==
  /\ isr = "none"
  /\ TC
  /\ Swap(BufLen)
  /\ handler' = "full"
  /\ UNCHANGED <<line, dma, IDLE, TC, log>>

(* Mutant: IDLE is cleared while the channel is still off. *)
DisableThenClear ==
  /\ isr = "disable"
  /\ enabled' = FALSE
  /\ isr' = IF handler = "idle" THEN "clear" ELSE "arm"
  /\ UNCHANGED <<line, Rx_Buffer, CNTR, MADDR, DATAR, IDLE, TC, soft, log>>

Disable ==
  /\ isr = "disable"
  /\ enabled' = FALSE
  /\ isr' = "arm"
  /\ UNCHANGED <<line, Rx_Buffer, CNTR, MADDR, DATAR, IDLE, TC, soft, log>>

(* Mutant: the channel is armed on the half it has filled. *)
ArmSameHalf ==
  /\ isr = "arm"
  /\ MADDR' = oldbuffer
  /\ enabled' = TRUE
  /\ CNTR' = BufLen
  /\ isr' = IF handler = "idle" THEN "clear" ELSE "push"
  /\ UNCHANGED <<line, Rx_Buffer, DATAR, TC, IDLE, soft, log>>

(* A byte that waited in the data register is fetched at once. *)
Arm ==
  /\ isr = "arm"
  /\ MADDR' = DMA_USE_BUFFER
  /\ enabled' = TRUE
  /\ IF DATAR = 0
     THEN CNTR' = BufLen /\ UNCHANGED <<Rx_Buffer, TC>>
     ELSE /\ CNTR' = BufLen - 1
          /\ Rx_Buffer' = [Rx_Buffer EXCEPT ![DMA_USE_BUFFER][0] = DATAR]
          /\ TC' = (TC \/ BufLen = 1)
  /\ DATAR' = 0
  /\ isr' = IF handler = "idle" THEN "clear" ELSE "push"
  /\ UNCHANGED <<line, IDLE, soft, log>>

(* USART_ReceiveData reads the data register to clear IDLE. *)
ClearIdle ==
  /\ isr = "clear"
  /\ IDLE' = FALSE
  /\ DATAR' = 0
  /\ isr' = "push"
  /\ UNCHANGED <<line, Rx_Buffer, CNTR, MADDR, enabled, TC, soft, log>>

Leave == isr' = "none" /\ handler' = "none" /\ spent' = FALSE

Chunk == [i \in 1..rxlen |-> Rx_Buffer[oldbuffer][i - 1]]

PushChunk ==
  /\ isr = "push"
  /\ log' = log \o Chunk
  /\ \/ handler = "idle" /\ Leave
     \/ handler = "full" /\ isr' = "ack" /\ UNCHANGED <<handler, spent>>
  /\ UNCHANGED <<arrived, heard, slip, dma, IDLE, TC, DMA_USE_BUFFER, rxlen, oldbuffer>>

(* Mutant: both flags are cleared. *)
FullAckClearsBoth ==
  /\ isr = "ack"
  /\ TC' = FALSE
  /\ IDLE' = FALSE
  /\ Leave
  /\ UNCHANGED <<arrived, heard, slip, dma, DMA_USE_BUFFER, rxlen, oldbuffer, log>>

FullAck ==
  /\ isr = "ack"
  /\ TC' = FALSE
  /\ Leave
  /\ UNCHANGED <<arrived, heard, slip, dma, IDLE, DMA_USE_BUFFER, rxlen, oldbuffer, log>>

InterruptStep ==
  \/ IdleEnter \/ IdleRead \/ FullEnter \/ Disable \/ Arm \/ ClearIdle
  \/ PushChunk \/ FullAck

DmaNext == Arrive \/ LineIdle \/ InterruptStep

(* A pending interrupt is taken and runs to its end, and a line that has   *)
(* gone quiet is seen to be idle; no byte is owed.                         *)
DmaSpec ==
  DmaInit /\ [][DmaNext]_dmaVars
    /\ WF_dmaVars(InterruptStep) /\ WF_dmaVars(LineIdle)
-----------------------------------------------------------------------------
DmaTypeOK ==
  /\ Rx_Buffer \in [Halves -> [0..BufLen - 1 -> 0..MaxBytes]]
  /\ CNTR \in 0..BufLen
  /\ MADDR \in Halves /\ DMA_USE_BUFFER \in Halves /\ oldbuffer \in Halves
  /\ DATAR \in 0..MaxBytes
  /\ enabled \in BOOLEAN /\ IDLE \in BOOLEAN /\ TC \in BOOLEAN
  /\ heard \in BOOLEAN /\ spent \in BOOLEAN /\ slip \in BOOLEAN
  /\ arrived \in 0..MaxBytes
  /\ isr \in {"none", "read", "disable", "arm", "clear", "push", "ack"}
  /\ handler \in {"none", "idle", "full"}
  /\ rxlen \in 0..BufLen
  /\ log \in Seq(0..MaxBytes)

(* DMA_USE_BUFFER is the half the channel writes whenever no interrupt is  *)
(* between its two updates, and the half being pushed is never that one.   *)
NoTearing ==
  /\ isr \notin {"disable", "arm"} => MADDR = DMA_USE_BUFFER
  /\ isr \in {"clear", "push"} => MADDR # oldbuffer

(* What the channel has stored in its half, and the byte it has not fetched. *)
InHardware ==
  [i \in 1..BufLen - CNTR |-> Rx_Buffer[MADDR][i - 1]]
    \o (IF DATAR = 0 THEN <<>> ELSE <<DATAR>>)

(* Between interrupts, the bytes pushed followed by those in the hardware  *)
(* are the wire's, each once and in order, unless one fell into one of the *)
(* two windows of the idle interrupt: there is no third window, and none   *)
(* at all in the full one, though it clears its flag last.                 *)
NothingLost ==
  (isr = "none" /\ ~slip) => log \o InHardware = [k \in 1..arrived |-> k]

(* A byte leaves the data register only into memory, as the last one of    *)
(* the half the channel writes: no read of the register by the handler,    *)
(* the one that clears IDLE included, eats a byte that was not fetched.    *)
ClearEatsNothing ==
  [][DATAR # 0 /\ DATAR' # DATAR =>
       CNTR' < BufLen /\ Rx_Buffer'[MADDR'][BufLen - 1 - CNTR'] = DATAR]_dmaVars

(* A byte that arrived is pushed once the line pauses or the half is full: *)
(* no idle or full event is merged away with bytes behind it.              *)
Pushed ==
  \A k \in 1..MaxBytes : (arrived >= k) ~> (Len(log) >= k \/ slip)
=============================================================================
