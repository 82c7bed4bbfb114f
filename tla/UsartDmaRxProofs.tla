-------------------------- MODULE UsartDmaRxProofs --------------------------
(***************************************************************************)
(* The receive interrupts of main.c against their DMA channel, for every   *)
(* length of the halves.                                                   *)
(***************************************************************************)
EXTENDS UsartDmaRx, TLAPS

(* Where an interrupt is, and which half the channel writes meanwhile. *)
Swapping ==
  /\ isr \in {"read", "clear"} => handler = "idle"
  /\ isr = "ack" => handler = "full"
  /\ isr \in {"push", "disable", "arm"} => handler # "none"
  /\ isr = "none" => handler = "none"
  /\ isr \in {"disable", "arm"} => MADDR = oldbuffer
  /\ isr \in {"disable", "arm", "clear", "push"} => DMA_USE_BUFFER = 1 - oldbuffer
  /\ isr \notin {"disable", "arm"} => MADDR = DMA_USE_BUFFER
  /\ enabled <=> isr # "arm"

(* A byte waits only while the channel is off or its half full, and in the *)
(* interrupt that has just armed it the half is nearly empty.              *)
Fetched ==
  /\ (DATAR # 0 /\ isr # "arm") => CNTR = 0
  /\ isr \in {"clear", "push", "ack"} =>
       CNTR >= BufLen - 2 /\ (~spent => CNTR >= BufLen - 1)

Chunked == IF isr \in {"clear", "push"} THEN rxlen ELSE 0

(* What the bytes are, until one falls into a window. *)
FullSeen ==
  /\ handler # "full" => (TC <=> CNTR = 0)
  /\ (handler = "full" /\ isr \in {"disable", "arm"}) => CNTR = 0
  /\ (handler = "idle" /\ isr \in {"read", "disable", "arm"}) => CNTR # 0

Counted ==
  /\ isr \in {"disable", "arm"} => rxlen = BufLen - CNTR
  /\ arrived = Len(log) + Chunked + (BufLen - CNTR) + (IF DATAR = 0 THEN 0 ELSE 1)
  /\ DATAR \in {0, arrived}

Numbered ==
  /\ \A k \in 1..Len(log) : log[k] = k
  /\ \A i \in 0..BufLen - 1 :
       i < BufLen - CNTR => Rx_Buffer[MADDR][i] = Len(log) + Chunked + i + 1
  /\ isr \in {"clear", "push"} =>
       \A i \in 0..BufLen - 1 : i < rxlen => Rx_Buffer[oldbuffer][i] = Len(log) + i + 1

Faithful == FullSeen /\ Counted /\ Numbered

DmaInv ==
  /\ DmaTypeOK
  /\ Swapping
  /\ Fetched
  /\ ~slip => Faithful
-----------------------------------------------------------------------------
LEMMA InitDmaInv == DmaInit => DmaInv
<1> SUFFICES ASSUME DmaInit PROVE DmaInv
  OBVIOUS
<1>1. BufLen \in Nat /\ BufLen > 2 /\ MaxBytes \in Nat
  BY DmaAssumption
<1>2. DmaTypeOK
  <2>1. Empty \in [0..BufLen - 1 -> 0..MaxBytes]
    BY <1>1 DEF Empty
  <2>2. Rx_Buffer \in [Halves -> [0..BufLen - 1 -> 0..MaxBytes]]
    BY <2>1 DEF DmaInit
  <2>3. CNTR \in 0..BufLen /\ rxlen \in 0..BufLen
    BY <1>1 DEF DmaInit
  <2>4. DATAR \in 0..MaxBytes /\ arrived \in 0..MaxBytes
    BY <1>1 DEF DmaInit
  <2>5. log \in Seq(0..MaxBytes)
    BY <1>1 DEF DmaInit
  <2> QED
    BY <2>2, <2>3, <2>4, <2>5 DEF DmaInit, DmaTypeOK, Halves
<1>3. Swapping /\ Fetched
  BY <1>1 DEF DmaInit, Swapping, Fetched
<1>4. Faithful
  BY <1>1 DEF DmaInit, Faithful, FullSeen, Counted, Numbered, Chunked
<1> QED
  BY <1>2, <1>3, <1>4 DEF DmaInv

(* A step of the line or of an interrupt keeps the types. *)
LEMMA TypesKept ==
  ASSUME DmaTypeOK, [DmaNext]_dmaVars
  PROVE  DmaTypeOK'
<1> USE DmaAssumption
<1> DEFINE cells == [0..BufLen - 1 -> 0..MaxBytes]
<1>1. CASE Arrive
  <2>1. arrived + 1 \in 0..MaxBytes
    BY <1>1 DEF Arrive, DmaTypeOK
  <2>2. CASE enabled /\ CNTR > 0
    <3>1. BufLen - CNTR \in 0..BufLen - 1
      BY <2>2 DEF DmaTypeOK
    <3>2. Rx_Buffer' = [Rx_Buffer EXCEPT ![MADDR] =
                          [Rx_Buffer[MADDR] EXCEPT ![BufLen - CNTR] = arrived + 1]]
      BY <1>1, <2>2 DEF Arrive
    <3>3. [Rx_Buffer[MADDR] EXCEPT ![BufLen - CNTR] = arrived + 1] \in cells
      BY <2>1, <3>1 DEF DmaTypeOK
    <3>4. Rx_Buffer' \in [Halves -> cells]
      BY <3>2, <3>3 DEF DmaTypeOK
    <3>5. CNTR' \in 0..BufLen /\ TC' \in BOOLEAN
      BY <1>1, <2>2 DEF Arrive, DmaTypeOK
    <3> QED
      BY <1>1, <2>1, <2>2, <3>4, <3>5
      DEF Arrive, LineEvent, LandsBadly, DmaTypeOK, soft
  <2>3. CASE ~(enabled /\ CNTR > 0)
    BY <1>1, <2>1, <2>3 DEF Arrive, LineEvent, LandsBadly, DmaTypeOK, soft
  <2> QED
    BY <2>2, <2>3
<1>2. CASE LineIdle
  BY <1>2 DEF LineIdle, LineEvent, DmaTypeOK, dma, soft
<1>3. CASE IdleEnter
  BY <1>3 DEF IdleEnter, DmaTypeOK, line, dma
<1>4. CASE IdleRead \/ FullEnter
  <2>1. rxlen' \in 0..BufLen /\ oldbuffer' \in Halves /\ DMA_USE_BUFFER' \in Halves
    BY <1>4 DEF IdleRead, FullEnter, Swap, DmaTypeOK, Halves
  <2>2. isr' = "disable" /\ handler' \in {"none", "idle", "full"}
    BY <1>4 DEF IdleRead, FullEnter, Swap, DmaTypeOK
  <2>3. UNCHANGED <<line, dma, IDLE, TC, log>>
    BY <1>4 DEF IdleRead, FullEnter
  <2> QED
    BY <2>1, <2>2, <2>3 DEF DmaTypeOK, line, dma
<1>5. CASE Disable
  BY <1>5 DEF Disable, DmaTypeOK, line, soft
<1>6. CASE Arm
  <2>1. CASE DATAR = 0
    BY <1>6, <2>1 DEF Arm, DmaTypeOK, line, soft
  <2>2. CASE DATAR # 0
    <3>1. Rx_Buffer' = [Rx_Buffer EXCEPT ![DMA_USE_BUFFER] =
                          [Rx_Buffer[DMA_USE_BUFFER] EXCEPT ![0] = DATAR]]
      BY <1>6, <2>2 DEF Arm
    <3>2. [Rx_Buffer[DMA_USE_BUFFER] EXCEPT ![0] = DATAR] \in cells
      BY DEF DmaTypeOK
    <3>3. Rx_Buffer' \in [Halves -> cells]
      BY <3>1, <3>2 DEF DmaTypeOK
    <3>4. CNTR' \in 0..BufLen /\ MADDR' \in Halves /\ DATAR' \in 0..MaxBytes
      BY <1>6, <2>2 DEF Arm, DmaTypeOK
    <3>5. enabled' \in BOOLEAN /\ TC' \in BOOLEAN
      BY <1>6, <2>2 DEF Arm, DmaTypeOK
    <3>6. isr' \in {"clear", "push"} /\ UNCHANGED <<line, IDLE, soft, log>>
      BY <1>6 DEF Arm
    <3> QED
      BY <3>3, <3>4, <3>5, <3>6 DEF DmaTypeOK, line, soft
  <2> QED
    BY <2>1, <2>2
<1>7. CASE ClearIdle
  <2>1. IDLE' = FALSE /\ DATAR' = 0 /\ isr' = "push"
    BY <1>7 DEF ClearIdle
  <2>2. UNCHANGED <<line, Rx_Buffer, CNTR, MADDR, enabled, TC, soft, log>>
    BY <1>7 DEF ClearIdle
  <2>3. rxlen' \in 0..BufLen /\ log' \in Seq(0..MaxBytes) /\ CNTR' \in 0..BufLen
    BY <2>2 DEF DmaTypeOK, soft
  <2>4. arrived' \in 0..MaxBytes
    BY <2>2 DEF DmaTypeOK, line
  <2>5. Rx_Buffer' \in [Halves -> cells]
    BY <2>2 DEF DmaTypeOK
  <2>6. DATAR' \in 0..MaxBytes
    BY <2>1
  <2>7. UNCHANGED <<MADDR, enabled, TC, heard, spent, slip>>
    BY <2>2 DEF line
  <2>8. UNCHANGED <<handler, DMA_USE_BUFFER, oldbuffer>>
    BY <2>2 DEF soft
  <2> QED
    BY <2>1, <2>3, <2>4, <2>5, <2>6, <2>7, <2>8 DEF DmaTypeOK
<1>8. CASE PushChunk
  <2>1. Chunk \in Seq(0..MaxBytes)
    BY DEF Chunk, DmaTypeOK
  <2>2. log' \in Seq(0..MaxBytes)
    BY <1>8, <2>1 DEF PushChunk, DmaTypeOK
  <2> QED
    BY <1>8, <2>2 DEF PushChunk, Leave, DmaTypeOK, dma
<1>9. CASE FullAck
  BY <1>9 DEF FullAck, Leave, DmaTypeOK, dma
<1>10. CASE UNCHANGED dmaVars
  BY <1>10 DEF dmaVars, line, dma, soft, DmaTypeOK
<1> QED
  BY <1>1, <1>2, <1>3, <1>4, <1>5, <1>6, <1>7, <1>8, <1>9, <1>10
  DEF DmaNext, InterruptStep

(* The swap is complete before the half is touched again. *)
LEMMA SwappingKept ==
  ASSUME DmaTypeOK, Swapping, [DmaNext]_dmaVars
  PROVE  Swapping'
<1>1. CASE Arrive
  BY <1>1 DEF Arrive, Swapping, soft
<1>2. CASE LineIdle
  BY <1>2 DEF LineIdle, Swapping, dma, soft
<1>3. CASE IdleEnter
  BY <1>3 DEF IdleEnter, Swapping, dma
<1>4. CASE IdleRead \/ FullEnter
  BY <1>4 DEF IdleRead, FullEnter, Swap, Swapping, dma
<1>5. CASE Disable
  BY <1>5 DEF Disable, Swapping, soft
<1>6. CASE Arm
  BY <1>6 DEF Arm, Swapping, soft
<1>7. CASE ClearIdle
  BY <1>7 DEF ClearIdle, Swapping, soft
<1>8. CASE PushChunk
  BY <1>8 DEF PushChunk, Leave, Swapping, dma
<1>9. CASE FullAck
  BY <1>9 DEF FullAck, Leave, Swapping, dma
<1>10. CASE UNCHANGED dmaVars
  BY <1>10 DEF dmaVars, dma, soft, Swapping
<1> QED
  BY <1>1, <1>2, <1>3, <1>4, <1>5, <1>6, <1>7, <1>8, <1>9, <1>10
  DEF DmaNext, InterruptStep

LEMMA FetchedKept ==
  ASSUME DmaTypeOK, Swapping, Fetched, [DmaNext]_dmaVars
  PROVE  Fetched'
<1> USE DmaAssumption
<1>1. CASE Arrive
  <2>1. ~spent /\ DATAR = 0 /\ UNCHANGED isr /\ spent' = (isr # "none")
    BY <1>1 DEF Arrive, LineEvent
  <2>2. CASE enabled /\ CNTR > 0
    <3>1. CNTR' = CNTR - 1 /\ DATAR' = 0
      BY <1>1, <2>1, <2>2 DEF Arrive
    <3>2. isr \in {"clear", "push", "ack"} => spent' /\ CNTR >= BufLen - 1
      BY <2>1 DEF Fetched
    <3>3. CNTR \in Int
      BY DEF DmaTypeOK
    <3>4. isr \in {"clear", "push", "ack"} => spent' /\ CNTR' >= BufLen - 2
      BY <3>1, <3>2, <3>3
    <3> QED
      BY <2>1, <3>1, <3>4 DEF Fetched
  <2>3. CASE ~(enabled /\ CNTR > 0)
    <3>1. UNCHANGED CNTR
      BY <1>1, <2>3 DEF Arrive
    <3>2. isr = "arm" \/ CNTR = 0
      BY <2>3 DEF Swapping, DmaTypeOK
    <3>3. isr \in {"clear", "push", "ack"} => CNTR >= BufLen - 1
      BY <2>1 DEF Fetched
    <3> QED
      BY <2>1, <3>1, <3>2, <3>3 DEF Fetched, DmaTypeOK
  <2> QED
    BY <2>2, <2>3
<1>2. CASE LineIdle
  BY <1>2 DEF LineIdle, LineEvent, Fetched, DmaTypeOK, dma, soft
<1>3. CASE IdleEnter
  BY <1>3 DEF IdleEnter, Fetched, line, dma
<1>4. CASE IdleRead \/ FullEnter
  BY <1>4 DEF IdleRead, FullEnter, Swap, Fetched, line, dma
<1>5. CASE Disable
  BY <1>5 DEF Disable, Fetched, line
<1>6. CASE Arm
  BY <1>6 DEF Arm, Fetched, line
<1>7. CASE ClearIdle
  BY <1>7 DEF ClearIdle, Fetched, DmaTypeOK, line
<1>8. CASE PushChunk
  BY <1>8 DEF PushChunk, Leave, Fetched, Swapping, DmaTypeOK, dma
<1>9. CASE FullAck
  BY <1>9 DEF FullAck, Leave, Fetched, DmaTypeOK, dma
<1>10. CASE UNCHANGED dmaVars
  BY <1>10 DEF dmaVars, line, dma, Fetched
<1> QED
  BY <1>1, <1>2, <1>3, <1>4, <1>5, <1>6, <1>7, <1>8, <1>9, <1>10
  DEF DmaNext, InterruptStep
-----------------------------------------------------------------------------
(* What a push adds to the log. *)
LEMMA ChunkAdded ==
  ASSUME DmaTypeOK
  PROVE  /\ Len(log \o Chunk) = Len(log) + rxlen
         /\ \A k \in 1..Len(log) : (log \o Chunk)[k] = log[k]
         /\ \A k \in Len(log) + 1..Len(log) + rxlen :
              (log \o Chunk)[k] = Rx_Buffer[oldbuffer][k - Len(log) - 1]
<1>1. Chunk \in Seq(0..MaxBytes)
  BY DmaAssumption DEF Chunk, DmaTypeOK
<1>2. Len(Chunk) = rxlen
  BY <1>1 DEF Chunk, DmaTypeOK
<1>3. Len(log) \in Nat /\ rxlen \in Nat /\ log \in Seq(0..MaxBytes)
  BY DEF DmaTypeOK
<1>4. \A k \in 1..Len(log) : (log \o Chunk)[k] = log[k]
  BY <1>1, <1>2, <1>3
<1>5. ASSUME NEW k \in Len(log) + 1..Len(log) + rxlen
      PROVE  (log \o Chunk)[k] = Rx_Buffer[oldbuffer][k - Len(log) - 1]
  <2>1. (log \o Chunk)[k] = Chunk[k - Len(log)]
    BY <1>1, <1>2, <1>3
  <2>2. k - Len(log) \in 1..rxlen
    BY <1>3
  <2> QED
    BY <2>1, <2>2 DEF Chunk
<1>6. Len(log \o Chunk) = Len(log) + rxlen
  BY <1>1, <1>2, <1>3
<1> QED
  BY <1>4, <1>5, <1>6

LEMMA FullSeenKept ==
  ASSUME DmaInv, [DmaNext]_dmaVars, ~slip'
  PROVE  FullSeen'
<1> USE DmaAssumption
<1>0. ~slip
  BY DEF DmaNext, Arrive, LineIdle, InterruptStep, IdleEnter, IdleRead, FullEnter,
         Disable, Arm, ClearIdle, PushChunk, FullAck, dmaVars, line
<1>1. FullSeen /\ DmaTypeOK /\ Swapping /\ Fetched
  BY <1>0 DEF DmaInv, Faithful
<1>2. CNTR \in 0..BufLen
  BY <1>1 DEF DmaTypeOK
<1>3. CASE Arrive
  <2>1. ~LandsBadly /\ UNCHANGED <<handler, isr>>
    BY <1>3 DEF Arrive, soft
  <2>2. CASE enabled /\ CNTR > 0
    <3>1. CNTR' = CNTR - 1 /\ (TC' <=> (TC \/ CNTR = 1))
      BY <1>3, <2>2 DEF Arrive
    <3>2. CNTR' # 0 \/ (isr # "disable" /\ ~(isr = "read" /\ handler = "idle"))
             \/ handler # "idle"
      BY <1>2, <2>1, <2>2, <3>1 DEF LandsBadly
    <3>3. isr # "arm"
      BY <1>1, <2>2 DEF Swapping
    <3> QED
      BY <1>1, <1>2, <2>1, <2>2, <3>1, <3>2, <3>3 DEF FullSeen
  <2>3. CASE ~(enabled /\ CNTR > 0)
    BY <1>1, <1>3, <2>1, <2>3 DEF Arrive, FullSeen
  <2> QED
    BY <2>2, <2>3
<1>4. CASE LineIdle
  BY <1>1, <1>4 DEF LineIdle, dma, soft, FullSeen
<1>5. CASE IdleEnter
  BY <1>1, <1>5 DEF IdleEnter, dma, FullSeen, Swapping
<1>6. CASE IdleRead
  BY <1>1, <1>6 DEF IdleRead, Swap, dma, FullSeen, Swapping
<1>7. CASE FullEnter
  BY <1>1, <1>7 DEF FullEnter, Swap, dma, FullSeen, Swapping
<1>8. CASE Disable
  BY <1>1, <1>8 DEF Disable, soft, FullSeen
<1>9. CASE Arm
  <2>1. CNTR' # 0 /\ UNCHANGED handler /\ isr' \notin {"disable", "arm"}
    BY <1>2, <1>9 DEF Arm, soft
  <2>2. CASE handler = "full"
    BY <2>1, <2>2 DEF FullSeen
  <2>3. CASE handler # "full"
    <3>1. CNTR # 0
      BY <1>1, <1>9, <2>3 DEF Arm, FullSeen, Swapping, DmaTypeOK
    <3>2. TC' <=> TC
      BY <1>1, <1>9 DEF Arm, DmaTypeOK
    <3> QED
      BY <1>1, <2>1, <2>3, <3>1, <3>2 DEF FullSeen
  <2> QED
    BY <2>2, <2>3
<1>10. CASE ClearIdle
  BY <1>1, <1>10 DEF ClearIdle, soft, FullSeen
<1>11. CASE PushChunk
  BY <1>1, <1>11 DEF PushChunk, Leave, dma, FullSeen, Swapping
<1>12. CASE FullAck
  <2>1. CNTR # 0
    BY <1>1, <1>2, <1>12 DEF FullAck, Fetched
  <2> QED
    BY <1>12, <2>1 DEF FullAck, Leave, dma, FullSeen
<1>13. CASE UNCHANGED dmaVars
  BY <1>1, <1>13 DEF dmaVars, dma, soft, FullSeen
<1> QED
  BY <1>3, <1>4, <1>5, <1>6, <1>7, <1>8, <1>9, <1>10, <1>11, <1>12, <1>13
  DEF DmaNext, InterruptStep

LEMMA CountedKept ==
  ASSUME DmaInv, [DmaNext]_dmaVars, ~slip'
  PROVE  Counted'
<1> USE DmaAssumption
<1>0. ~slip
  BY DEF DmaNext, Arrive, LineIdle, InterruptStep, IdleEnter, IdleRead, FullEnter,
         Disable, Arm, ClearIdle, PushChunk, FullAck, dmaVars, line
<1>1. FullSeen /\ Counted /\ DmaTypeOK /\ Swapping /\ Fetched
  BY <1>0 DEF DmaInv, Faithful
<1>2. /\ CNTR \in 0..BufLen /\ rxlen \in 0..BufLen /\ Len(log) \in Nat
      /\ arrived \in Nat /\ DATAR \in Nat
  BY <1>1 DEF DmaTypeOK
<1>3. CASE Arrive
  <2>1. ~LandsBadly /\ DATAR = 0 /\ arrived' = arrived + 1
    BY <1>3 DEF Arrive
  <2>2. UNCHANGED <<isr, handler, rxlen, log>>
    BY <1>3 DEF Arrive, soft
  <2>3. UNCHANGED Chunked
    BY <2>2 DEF Chunked
  <2>4. Chunked \in Nat
    BY <1>2 DEF Chunked
  <2>5. arrived = Len(log) + Chunked + (BufLen - CNTR)
    BY <1>1, <1>2, <2>1, <2>4 DEF Counted
  <2>6. CASE enabled /\ CNTR > 0
    <3>1. CNTR' = CNTR - 1 /\ DATAR' = 0
      BY <1>3, <2>1, <2>6 DEF Arrive
    <3>2. isr \notin {"disable", "arm"}
      <4>1. isr # "arm"
        BY <1>1, <2>6 DEF Swapping
      <4>2. ~(isr = "disable" /\ handler = "idle")
        BY <2>1 DEF LandsBadly
      <4>3. ~(isr = "disable" /\ handler = "full")
        BY <1>1, <1>2, <2>6 DEF FullSeen
      <4> QED
        BY <1>1, <4>1, <4>2, <4>3 DEF Swapping, DmaTypeOK
    <3>3. arrived' = Len(log') + Chunked' + (BufLen - CNTR')
      BY <1>2, <2>1, <2>2, <2>3, <2>4, <2>5, <3>1
    <3> QED
      BY <2>2, <3>1, <3>2, <3>3 DEF Counted
  <2>7. CASE ~(enabled /\ CNTR > 0)
    <3>1. UNCHANGED CNTR /\ DATAR' = arrived'
      BY <1>3, <2>1, <2>7 DEF Arrive
    <3>2. arrived' = Len(log') + Chunked' + (BufLen - CNTR') + 1
      BY <1>2, <2>1, <2>2, <2>3, <2>4, <2>5, <3>1
    <3>3. DATAR' # 0
      BY <1>2, <2>1, <3>1
    <3> QED
      BY <1>1, <2>2, <3>1, <3>2, <3>3 DEF Counted
  <2> QED
    BY <2>6, <2>7
<1>4. CASE LineIdle
  BY <1>1, <1>4 DEF LineIdle, dma, soft, Counted, Chunked
<1>5. CASE IdleEnter
  BY <1>1, <1>5 DEF IdleEnter, line, dma, Counted, Chunked
<1>6. CASE IdleRead
  BY <1>1, <1>2, <1>6 DEF IdleRead, Swap, line, dma, Counted, Chunked
<1>7. CASE FullEnter
  <2>1. CNTR = 0
    BY <1>1, <1>7 DEF FullEnter, FullSeen, Swapping
  <2> QED
    BY <1>1, <1>2, <1>7, <2>1 DEF FullEnter, Swap, line, dma, Counted, Chunked
<1>8. CASE Disable
  BY <1>1, <1>8 DEF Disable, line, soft, Counted, Chunked
<1>9. CASE Arm
  <2>1. /\ isr = "arm" /\ isr' \in {"clear", "push"} /\ DATAR' = 0
        /\ UNCHANGED <<arrived, rxlen, log>>
    BY <1>9 DEF Arm, line, soft
  <2>2. CNTR' = BufLen - (IF DATAR = 0 THEN 0 ELSE 1)
    BY <1>9 DEF Arm
  <2>3. arrived = Len(log) + rxlen + (IF DATAR = 0 THEN 0 ELSE 1)
    BY <1>1, <1>2, <2>1 DEF Counted, Chunked
  <2> QED
    BY <1>2, <2>1, <2>2, <2>3 DEF Counted, Chunked
<1>10. CASE ClearIdle
  <2>1. DATAR = 0
    BY <1>1, <1>2, <1>10 DEF ClearIdle, Fetched
  <2> QED
    BY <1>1, <1>10, <2>1 DEF ClearIdle, line, soft, Counted, Chunked
<1>11. CASE PushChunk
  <2>1. Len(log') = Len(log) + rxlen
    BY <1>1, <1>11, ChunkAdded DEF PushChunk
  <2>2. isr = "push" /\ isr' \in {"none", "ack"}
    BY <1>11 DEF PushChunk, Leave
  <2>3. UNCHANGED <<arrived, CNTR, DATAR>>
    BY <1>11 DEF PushChunk, dma
  <2> QED
    BY <1>1, <1>2, <2>1, <2>2, <2>3 DEF Counted, Chunked
<1>12. CASE FullAck
  BY <1>1, <1>12 DEF FullAck, Leave, dma, Counted, Chunked
<1>13. CASE UNCHANGED dmaVars
  BY <1>1, <1>13 DEF dmaVars, line, dma, soft, Counted, Chunked
<1> QED
  BY <1>3, <1>4, <1>5, <1>6, <1>7, <1>8, <1>9, <1>10, <1>11, <1>12, <1>13
  DEF DmaNext, InterruptStep

(* The bytes stored in the half the channel writes. *)
LEMMA NumberedKept ==
  ASSUME DmaInv, [DmaNext]_dmaVars, ~slip'
  PROVE  Numbered'
<1> USE DmaAssumption
<1>0. ~slip
  BY DEF DmaNext, Arrive, LineIdle, InterruptStep, IdleEnter, IdleRead, FullEnter,
         Disable, Arm, ClearIdle, PushChunk, FullAck, dmaVars, line
<1>1. FullSeen /\ Counted /\ Numbered /\ DmaTypeOK /\ Swapping /\ Fetched
  BY <1>0 DEF DmaInv, Faithful
<1>2. /\ CNTR \in 0..BufLen /\ rxlen \in 0..BufLen /\ Len(log) \in Nat
      /\ arrived \in Nat /\ DATAR \in Nat
      /\ MADDR \in Halves /\ oldbuffer \in Halves /\ DMA_USE_BUFFER \in Halves
      /\ Rx_Buffer \in [Halves -> [0..BufLen - 1 -> 0..MaxBytes]]
  BY <1>1 DEF DmaTypeOK
<1>3. CASE Arrive
  <2>1. UNCHANGED <<isr, handler, rxlen, oldbuffer, log, MADDR>>
    BY <1>3 DEF Arrive, soft
  <2>2. UNCHANGED Chunked /\ Chunked \in Nat
    BY <1>2, <2>1 DEF Chunked
  <2>3. CASE enabled /\ CNTR > 0
    <3> DEFINE at == BufLen - CNTR
    <3>1. at \in 0..BufLen - 1 /\ BufLen - CNTR' = at + 1
      BY <1>2, <1>3, <2>3 DEF Arrive
    <3>2. arrived = Len(log) + Chunked + at
      BY <1>1, <1>2, <1>3, <2>2 DEF Arrive, Counted
    <3>3. Rx_Buffer' = [Rx_Buffer EXCEPT ![MADDR] =
                          [Rx_Buffer[MADDR] EXCEPT ![at] = arrived + 1]]
      BY <1>3, <2>3 DEF Arrive
    <3>4. Rx_Buffer'[MADDR] = [Rx_Buffer[MADDR] EXCEPT ![at] = arrived + 1]
      BY <1>2, <3>3
    <3>5. Rx_Buffer'[MADDR][at] = Len(log) + Chunked + at + 1
      BY <1>2, <3>1, <3>2, <3>4
    <3>6. \A i \in 0..BufLen - 1 : i # at => Rx_Buffer'[MADDR][i] = Rx_Buffer[MADDR][i]
      BY <1>2, <3>1, <3>4
    <3>7. \A i \in 0..BufLen - 1 :
            i < at + 1 => Rx_Buffer'[MADDR][i] = Len(log) + Chunked + i + 1
      <4> SUFFICES ASSUME NEW i \in 0..BufLen - 1, i < at + 1
                   PROVE  Rx_Buffer'[MADDR][i] = Len(log) + Chunked + i + 1
        OBVIOUS
      <4>1. CASE i = at
        BY <3>5, <4>1
      <4>2. CASE i # at
        <5>1. i < BufLen - CNTR
          BY <3>1, <4>2
        <5> QED
          BY <1>1, <3>6, <4>2, <5>1 DEF Numbered
      <4> QED
        BY <4>1, <4>2
    <3>8. isr \in {"clear", "push"} => Rx_Buffer'[oldbuffer] = Rx_Buffer[oldbuffer]
      <4>1. isr \in {"clear", "push"} => MADDR # oldbuffer
        BY <1>1, <1>2 DEF Swapping, Halves
      <4> QED
        BY <1>2, <3>3, <4>1
    <3> QED
      BY <1>1, <2>1, <2>2, <3>1, <3>7, <3>8 DEF Numbered
  <2>4. CASE ~(enabled /\ CNTR > 0)
    <3>1. UNCHANGED <<Rx_Buffer, CNTR>>
      BY <1>3, <2>4 DEF Arrive
    <3> QED
      BY <1>1, <2>1, <2>2, <3>1 DEF Numbered
  <2> QED
    BY <2>3, <2>4
<1>4. CASE LineIdle \/ IdleEnter \/ Disable \/ UNCHANGED dmaVars
  <2>1. UNCHANGED <<Rx_Buffer, CNTR, MADDR, rxlen, oldbuffer, log>>
    BY <1>4 DEF LineIdle, IdleEnter, Disable, dmaVars, dma, soft
  <2>2. isr' \in {"clear", "push"} <=> isr \in {"clear", "push"}
    BY <1>4 DEF LineIdle, IdleEnter, Disable, dmaVars, soft
  <2>3. UNCHANGED Chunked
    BY <2>1, <2>2 DEF Chunked
  <2> QED
    BY <1>1, <2>1, <2>2, <2>3 DEF Numbered
<1>5. CASE IdleRead \/ FullEnter
  <2>1. UNCHANGED <<Rx_Buffer, CNTR, MADDR, log>>
    BY <1>5 DEF IdleRead, FullEnter, dma
  <2>2. isr \notin {"clear", "push"} /\ isr' \notin {"clear", "push"}
    BY <1>5 DEF IdleRead, FullEnter, Swap
  <2>3. Chunked' = 0 /\ Chunked = 0
    BY <2>2 DEF Chunked
  <2> QED
    BY <1>1, <2>1, <2>2, <2>3 DEF Numbered
<1>6. CASE Arm
  <2>1. /\ isr = "arm" /\ isr' \in {"clear", "push"} /\ DATAR' = 0
        /\ MADDR' = DMA_USE_BUFFER
        /\ UNCHANGED <<arrived, rxlen, log, oldbuffer>>
    BY <1>6 DEF Arm, line, soft
  <2>2. Chunked = 0 /\ Chunked' = rxlen
    BY <2>1 DEF Chunked
  <2>3. /\ rxlen = BufLen - CNTR /\ MADDR = oldbuffer /\ DMA_USE_BUFFER # oldbuffer
    BY <1>1, <1>2, <2>1 DEF Counted, Swapping, Halves
  <2>4. Rx_Buffer'[oldbuffer] = Rx_Buffer[oldbuffer]
    BY <1>2, <1>6, <2>3 DEF Arm
  <2>5. \A i \in 0..BufLen - 1 :
          i < rxlen => Rx_Buffer'[oldbuffer][i] = Len(log) + i + 1
    BY <1>1, <1>2, <2>2, <2>3, <2>4 DEF Numbered
  <2>6. \A i \in 0..BufLen - 1 :
          i < BufLen - CNTR' => Rx_Buffer'[MADDR'][i] = Len(log) + rxlen + i + 1
    <3>1. CASE DATAR = 0
      BY <1>6, <3>1 DEF Arm
    <3>2. CASE DATAR # 0
      <4>1. DATAR = Len(log) + rxlen + 1
        BY <1>1, <1>2, <2>2, <2>3, <3>2 DEF Counted
      <4>2. Rx_Buffer' = [Rx_Buffer EXCEPT ![DMA_USE_BUFFER] =
                            [Rx_Buffer[DMA_USE_BUFFER] EXCEPT ![0] = DATAR]]
        BY <1>6, <3>2 DEF Arm
      <4>3. Rx_Buffer'[DMA_USE_BUFFER][0] = DATAR
        BY <1>2, <4>2
      <4>4. \A i \in 0..BufLen - 1 : i < BufLen - CNTR' => i = 0
        BY <1>6, <3>2 DEF Arm
      <4> QED
        BY <1>2, <2>1, <4>1, <4>3, <4>4
    <3> QED
      BY <3>1, <3>2
  <2> QED
    BY <1>1, <2>1, <2>2, <2>5, <2>6 DEF Numbered
<1>7. CASE ClearIdle
  BY <1>1, <1>7 DEF ClearIdle, soft, Numbered, Chunked
<1>8. CASE PushChunk
  <2>1. isr = "push" /\ isr' \in {"none", "ack"} /\ log' = log \o Chunk
    BY <1>8 DEF PushChunk, Leave
  <2>2. UNCHANGED <<Rx_Buffer, CNTR, MADDR>>
    BY <1>8 DEF PushChunk, dma
  <2>3. Chunked = rxlen /\ Chunked' = 0
    BY <2>1 DEF Chunked
  <2>4. Len(log') = Len(log) + rxlen
    BY <1>1, <2>1, ChunkAdded
  <2>5. \A k \in 1..Len(log') : log'[k] = k
    <3> SUFFICES ASSUME NEW k \in 1..Len(log') PROVE log'[k] = k
      OBVIOUS
    <3>1. CASE k <= Len(log)
      BY <1>1, <1>2, <2>1, <3>1, ChunkAdded DEF Numbered
    <3>2. CASE k > Len(log)
      <4>1. /\ k \in Len(log) + 1..Len(log) + rxlen
            /\ k - Len(log) - 1 \in 0..BufLen - 1 /\ k - Len(log) - 1 < rxlen
        BY <1>2, <2>4, <3>2
      <4>2. log'[k] = Rx_Buffer[oldbuffer][k - Len(log) - 1]
        BY <1>1, <2>1, <4>1, ChunkAdded
      <4>3. Rx_Buffer[oldbuffer][k - Len(log) - 1] = Len(log) + (k - Len(log) - 1) + 1
        BY <1>1, <2>1, <4>1 DEF Numbered
      <4> QED
        BY <1>2, <4>1, <4>2, <4>3
    <3> QED
      BY <1>2, <2>4, <3>1, <3>2
  <2>6. \A i \in 0..BufLen - 1 :
          i < BufLen - CNTR => Rx_Buffer[MADDR][i] = Len(log) + rxlen + i + 1
    BY <1>1, <2>3 DEF Numbered
  <2>7. \A i \in 0..BufLen - 1 :
          i < BufLen - CNTR' => Rx_Buffer'[MADDR'][i] = Len(log') + Chunked' + i + 1
    BY <1>2, <2>2, <2>3, <2>4, <2>6
  <2> QED
    BY <2>1, <2>5, <2>7 DEF Numbered
<1>9. CASE FullAck
  BY <1>1, <1>9 DEF FullAck, Leave, dma, Numbered, Chunked
<1> QED
  BY <1>3, <1>4, <1>5, <1>6, <1>7, <1>8, <1>9 DEF DmaNext, InterruptStep

LEMMA NextDmaInv ==
  ASSUME DmaInv, [DmaNext]_dmaVars
  PROVE  DmaInv'
BY TypesKept, SwappingKept, FetchedKept, FullSeenKept, CountedKept, NumberedKept
   DEF DmaInv, Faithful

THEOREM DmaInvariant == DmaSpec => []DmaInv
BY InitDmaInv, NextDmaInv, PTL DEF DmaSpec
-----------------------------------------------------------------------------
(* The state of the two receive interrupts and of their channel stays in   *)
(* its types: no index leaves a half.                                      *)
THEOREM DmaTypesHold == DmaSpec => []DmaTypeOK
<1>1. DmaInv => DmaTypeOK
  BY DEF DmaInv
<1> QED
  BY <1>1, DmaInvariant, PTL

(* The half that is pushed into the ring is never the one being written.   *)
THEOREM HalvesDoNotTear == DmaSpec => []NoTearing
<1>1. DmaInv => NoTearing
  BY DEF DmaInv, DmaTypeOK, Swapping, NoTearing, Halves
<1> QED
  BY <1>1, DmaInvariant, PTL

(* One step: a byte that waits is fetched by Arm; the handler that reads    *)
(* the register finds it empty, because the channel is armed before.       *)
LEMMA StepFetches ==
  ASSUME DmaInv, DmaNext, DATAR # 0, DATAR' # DATAR
  PROVE  CNTR' < BufLen /\ Rx_Buffer'[MADDR'][BufLen - 1 - CNTR'] = DATAR
<1> USE DmaAssumption
<1>1. DmaTypeOK /\ Fetched
  BY DEF DmaInv
<1>2. ~Arrive /\ ~LineIdle
  BY DEF Arrive, LineIdle, dma
<1>3. ~(IdleEnter \/ IdleRead \/ FullEnter \/ Disable \/ PushChunk \/ FullAck)
  BY DEF IdleEnter, IdleRead, FullEnter, Disable, PushChunk, FullAck, dma
<1>4. ~ClearIdle
  BY <1>1 DEF ClearIdle, Fetched, DmaTypeOK
<1>5. Arm
  BY <1>2, <1>3, <1>4 DEF DmaNext, InterruptStep
<1>6. /\ MADDR' = DMA_USE_BUFFER /\ DMA_USE_BUFFER \in Halves
      /\ CNTR' = BufLen - 1
      /\ Rx_Buffer' = [Rx_Buffer EXCEPT ![DMA_USE_BUFFER] =
                         [Rx_Buffer[DMA_USE_BUFFER] EXCEPT ![0] = DATAR]]
  BY <1>1, <1>5 DEF Arm, DmaTypeOK
<1>7. Rx_Buffer'[MADDR'][0] = DATAR
  BY <1>1, <1>6 DEF DmaTypeOK
<1> QED
  BY <1>6, <1>7

(* A byte leaves the data register only into memory: reading the register  *)
(* to clear the idle flag discards none.                                   *)
THEOREM ClearIsHarmless == DmaSpec => ClearEatsNothing
<1>1. DmaInv /\ [DmaNext]_dmaVars =>
        [DATAR # 0 /\ DATAR' # DATAR =>
           CNTR' < BufLen /\ Rx_Buffer'[MADDR'][BufLen - 1 - CNTR'] = DATAR]_dmaVars
  BY StepFetches
<1> QED
  BY <1>1, DmaInvariant, PTL DEF DmaSpec, ClearEatsNothing

(* Two runs of consecutive numbers make one. *)
LEMMA NumbersJoin ==
  ASSUME NEW s \in Seq(Nat), NEW t \in Seq(Nat), NEW a \in Nat,
         \A i \in 1..Len(s) : s[i] = a + i,
         \A i \in 1..Len(t) : t[i] = a + Len(s) + i
  PROVE  /\ s \o t \in Seq(Nat)
         /\ Len(s \o t) = Len(s) + Len(t)
         /\ \A i \in 1..Len(s) + Len(t) : (s \o t)[i] = a + i
<1>1. s \o t \in Seq(Nat) /\ Len(s \o t) = Len(s) + Len(t)
  OBVIOUS
<1>2. ASSUME NEW i \in 1..Len(s) + Len(t) PROVE (s \o t)[i] = a + i
  <2>1. CASE i <= Len(s)
    BY <2>1
  <2>2. CASE i > Len(s)
    <3>1. i - Len(s) \in 1..Len(t) /\ (s \o t)[i] = t[i - Len(s)]
      BY <2>2
    <3>2. t[i - Len(s)] = a + Len(s) + (i - Len(s))
      BY <3>1
    <3> QED
      BY <3>1, <3>2
  <2> QED
    BY <2>1, <2>2
<1> QED
  BY <1>1, <1>2

(* The wire is what was pushed and what the hardware holds, unless a byte  *)
(* fell into one of the two windows of USART1_IRQHandler.                  *)
THEOREM WireIsKept == DmaSpec => []NothingLost
<1>1. ASSUME DmaInv, isr = "none", ~slip
      PROVE  log \o InHardware = [k \in 1..arrived |-> k]
  <2> USE DmaAssumption
  <2>1. Counted /\ Numbered
    BY <1>1 DEF DmaInv, Faithful
  <2>2. /\ CNTR \in 0..BufLen /\ log \in Seq(0..MaxBytes) /\ DATAR \in 0..MaxBytes
        /\ arrived \in Nat /\ MADDR \in Halves
        /\ Rx_Buffer \in [Halves -> [0..BufLen - 1 -> 0..MaxBytes]]
    BY <1>1 DEF DmaInv, DmaTypeOK
  <2>3. log \in Seq(Nat) /\ Len(log) \in Nat
    BY <2>2
  <2> DEFINE n == BufLen - CNTR
             held == [i \in 1..n |-> Rx_Buffer[MADDR][i - 1]]
             late == IF DATAR = 0 THEN <<>> ELSE <<DATAR>>
  <2>4. n \in Nat /\ held \in Seq(Nat) /\ Len(held) = n
    BY <2>2
  <2>5. arrived = Len(log) + n + (IF DATAR = 0 THEN 0 ELSE 1) /\ DATAR \in {0, arrived}
    BY <1>1, <2>1, <2>2, <2>3 DEF Counted, Chunked
  <2>6. \A i \in 1..Len(held) : held[i] = Len(log) + i
    <3> SUFFICES ASSUME NEW i \in 1..n PROVE held[i] = Len(log) + i
      BY <2>4
    <3>1. i - 1 \in 0..BufLen - 1 /\ i - 1 < BufLen - CNTR
      BY <2>2
    <3>2. Rx_Buffer[MADDR][i - 1] = Len(log) + 0 + (i - 1) + 1
      BY <1>1, <2>1, <3>1 DEF Numbered, Chunked
    <3> QED
      BY <2>3, <3>2
  <2>7. /\ late \in Seq(Nat) /\ Len(late) = (IF DATAR = 0 THEN 0 ELSE 1)
        /\ \A i \in 1..Len(late) : late[i] = Len(log) + Len(held) + i
    <3>1. CASE DATAR = 0
      BY <3>1
    <3>2. CASE DATAR # 0
      <4>1. late = <<DATAR>> /\ DATAR = Len(log) + Len(held) + 1 /\ DATAR \in Nat
        BY <2>2, <2>3, <2>4, <2>5, <3>2
      <4> HIDE DEF held
      <4> QED
        BY <3>2, <4>1
    <3> QED
      BY <3>1, <3>2
  <2>8. InHardware = held \o late
    BY DEF InHardware
  <2> HIDE DEF n, held, late
  <2>9. /\ held \o late \in Seq(Nat) /\ Len(held \o late) = Len(held) + Len(late)
        /\ \A i \in 1..Len(held) + Len(late) : (held \o late)[i] = Len(log) + i
    BY <2>3, <2>4, <2>6, <2>7, NumbersJoin
  <2> DEFINE tail == held \o late
             all == log \o tail
  <2>10. /\ tail \in Seq(Nat)
         /\ \A i \in 1..Len(tail) : tail[i] = 0 + Len(log) + i
    BY <2>3, <2>9
  <2>11. \A i \in 1..Len(log) : log[i] = 0 + i
    BY <2>1 DEF Numbered
  <2>12. Len(log) + Len(tail) = arrived
    BY <2>3, <2>4, <2>5, <2>7, <2>9
  <2> HIDE DEF tail
  <2>13. /\ all \in Seq(Nat) /\ Len(all) = arrived
         /\ \A i \in 1..arrived : all[i] = 0 + i
    <3>1. /\ all \in Seq(Nat) /\ Len(all) = Len(log) + Len(tail)
          /\ \A i \in 1..Len(log) + Len(tail) : all[i] = 0 + i
      <4>1. 0 \in Nat
        OBVIOUS
      <4> QED
        BY <4>1, <2>3, <2>10, <2>11, NumbersJoin, Zenon
    <3> QED
      BY <2>12, <3>1
  <2> HIDE DEF all
  <2>14. all = [k \in 1..arrived |-> k]
    BY <2>2, <2>13
  <2> QED
    BY <2>8, <2>14 DEF all, tail
<1>2. DmaInv => NothingLost
  BY <1>1 DEF NothingLost
<1> QED
  BY <1>2, DmaInvariant, PTL
-----------------------------------------------------------------------------
(* Nobody merges an event away: while a byte is in the hardware, the line  *)
(* is still to go idle or a flag is set that the running interrupt will    *)
(* not clear.  What came during an interrupt is the interrupt's one event. *)
Waiting == CNTR # BufLen \/ DATAR # 0

EventDue ==
  /\ (isr \in {"none", "read"} /\ Waiting) => heard \/ IDLE \/ TC
  /\ (handler = "idle" /\ isr \in {"disable", "arm"} /\ DATAR # 0) => heard /\ spent
  /\ (handler = "idle" /\ isr \in {"clear", "push"} /\ Waiting) => heard /\ spent
  /\ (handler = "full" /\ isr \in {"disable", "arm"} /\ DATAR # 0) => heard \/ IDLE
  /\ (handler = "full" /\ isr \in {"push", "ack"} /\ Waiting) => heard \/ IDLE

(* A byte that waits beside a full half raises nothing of its own.         *)
LateDue == (isr \in {"none", "read"} /\ DATAR # 0) => heard \/ IDLE

DueInv == DmaInv /\ (~slip => EventDue /\ LateDue)

LEMMA NextDueInv ==
  ASSUME DueInv, [DmaNext]_dmaVars
  PROVE  DueInv'
<1> USE DmaAssumption
<1>1. DmaInv' /\ DmaInv
  BY NextDmaInv DEF DueInv
<1>2. ~slip' => ~slip
  BY DEF DmaNext, Arrive, LineIdle, InterruptStep, IdleEnter, IdleRead, FullEnter, Disable,
     Arm, ClearIdle, PushChunk, FullAck, dmaVars, line
<1> SUFFICES ASSUME ~slip, ~slip' PROVE EventDue' /\ LateDue'
  BY <1>1, <1>2 DEF DueInv
<1>3. /\ EventDue /\ LateDue /\ Swapping /\ Fetched /\ FullSeen /\ FullSeen'
      /\ CNTR \in 0..BufLen /\ DATAR \in Nat
      /\ isr \in {"none", "read", "disable", "arm", "clear", "push", "ack"}
      /\ handler \in {"none", "idle", "full"}
  BY <1>1 DEF DueInv, DmaInv, Faithful, DmaTypeOK
<1>4. CASE Arrive
  <2>1. heard' = TRUE /\ spent' = (isr # "none") /\ UNCHANGED <<isr, handler>>
    BY <1>4 DEF Arrive, LineEvent, soft
  <2> QED
    BY <2>1 DEF EventDue, LateDue
<1>5. CASE LineIdle
  <2>1. ~spent /\ IDLE' = TRUE /\ UNCHANGED <<isr, handler, CNTR, DATAR>>
    BY <1>5 DEF LineIdle, LineEvent, soft, dma
  <2> QED
    BY <1>3, <2>1 DEF EventDue, LateDue, Waiting
<1>6. CASE IdleEnter
  <2>1. UNCHANGED <<heard, IDLE, TC, CNTR, DATAR>> /\ isr' = "read" /\ isr = "none"
    BY <1>6 DEF IdleEnter, line, dma
  <2> QED
    BY <1>3, <2>1 DEF EventDue, LateDue, Waiting
<1>7. CASE IdleRead
  <2>1. isr = "read" /\ handler = "idle" /\ isr' = "disable" /\ handler' = "idle"
        /\ UNCHANGED DATAR
    BY <1>3, <1>7 DEF IdleRead, Swap, Swapping, dma
  <2>2. CNTR # 0 /\ DATAR = 0
    BY <1>3, <2>1 DEF FullSeen, Fetched
  <2> QED
    BY <2>1, <2>2 DEF EventDue, LateDue
<1>8. CASE FullEnter
  <2>1. /\ isr = "none" /\ isr' = "disable" /\ handler' = "full"
        /\ UNCHANGED <<DATAR, heard, IDLE>>
    BY <1>8 DEF FullEnter, Swap, dma, line
  <2> QED
    BY <1>3, <2>1 DEF EventDue, LateDue
<1>9. CASE Disable
  <2>1. /\ isr = "disable" /\ isr' = "arm" /\ UNCHANGED <<DATAR, heard, IDLE, handler, spent>>
    BY <1>9 DEF Disable, line, soft
  <2> QED
    BY <1>3, <2>1 DEF EventDue, LateDue
<1>10. CASE Arm
  <2>1. /\ isr = "arm" /\ DATAR' = 0 /\ UNCHANGED <<heard, IDLE, handler, spent>>
        /\ DATAR = 0 => CNTR' = BufLen
        /\ isr' = (IF handler = "idle" THEN "clear" ELSE "push")
    BY <1>10 DEF Arm, line, soft
  <2> QED
    BY <1>3, <2>1 DEF EventDue, LateDue, Waiting, Swapping
<1>11. CASE ClearIdle
  <2>1. /\ isr = "clear" /\ isr' = "push" /\ DATAR' = 0
        /\ UNCHANGED <<heard, handler, spent, CNTR>> /\ handler = "idle"
    BY <1>3, <1>11 DEF ClearIdle, line, soft, Swapping
  <2> QED
    BY <1>3, <2>1 DEF EventDue, LateDue, Waiting
<1>12. CASE PushChunk
  <2>1. isr = "push" /\ UNCHANGED <<heard, IDLE, CNTR, DATAR>>
        /\ \/ handler = "idle" /\ isr' = "none"
           \/ handler = "full" /\ isr' = "ack" /\ handler' = "full"
    BY <1>12 DEF PushChunk, Leave, dma
  <2> QED
    BY <1>3, <2>1 DEF EventDue, LateDue, Waiting
<1>13. CASE FullAck
  <2>1. isr = "ack" /\ handler = "full" /\ isr' = "none" /\ UNCHANGED <<heard, IDLE, CNTR, DATAR>>
    BY <1>3, <1>13 DEF FullAck, Leave, dma, Swapping
  <2> QED
    BY <1>3, <2>1 DEF EventDue, LateDue, Waiting
<1>14. CASE UNCHANGED dmaVars
  BY <1>3, <1>14 DEF dmaVars, line, dma, soft, EventDue, LateDue, Waiting
<1> QED
  BY <1>4, <1>5, <1>6, <1>7, <1>8, <1>9, <1>10, <1>11, <1>12, <1>13, <1>14
  DEF DmaNext, InterruptStep

(* When the line has gone quiet and no interrupt is left to take, all of   *)
(* it has been pushed.                                                     *)
QuietMeansPushed ==
  (isr = "none" /\ ~heard /\ ~IDLE /\ ~TC /\ ~slip) => log = [k \in 1..arrived |-> k]

(* No idle or full event is merged away with bytes behind it: the state    *)
(* Pushed leads to.                                                        *)
THEOREM QuietLineIsPushed == DmaSpec => []QuietMeansPushed
<1>1. DmaInit => DueInv
  BY InitDmaInv DEF DmaInit, DueInv, EventDue, LateDue, Waiting
<1>2. DueInv /\ [DmaNext]_dmaVars => DueInv'
  BY NextDueInv
<1>3. DueInv => QuietMeansPushed
  <2> SUFFICES ASSUME DueInv, isr = "none", ~heard, ~IDLE, ~TC, ~slip
               PROVE  log = [k \in 1..arrived |-> k]
    BY DEF QuietMeansPushed
  <2>1. CNTR = BufLen /\ DATAR = 0
    BY DEF DueInv, EventDue, Waiting
  <2>2. /\ Counted /\ Numbered /\ log \in Seq(0..MaxBytes) /\ BufLen \in Nat
        /\ arrived \in Nat
    BY DmaAssumption DEF DueInv, DmaInv, Faithful, DmaTypeOK
  <2>3. arrived = Len(log)
    BY <2>1, <2>2 DEF Counted, Chunked
  <2>4. \A k \in 1..Len(log) : log[k] = k
    BY <2>2 DEF Numbered
  <2> QED
    BY <2>2, <2>3, <2>4
<1> QED
  BY <1>1, <1>2, <1>3, PTL DEF DmaSpec
=============================================================================
