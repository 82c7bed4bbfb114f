----------------------------- MODULE I2cMaster -----------------------------
(***************************************************************************)
(* The I2C master of Drivers/i2c_util.c: i2c_util_write with its recovery  *)
(* and one retry, i2c_read_once and dac_read_once, against a bus that may  *)
(* answer, refuse, fail or say nothing.  A step of the program is one look *)
(* at the flags, with all it does up to the next look.                     *)
(*                                                                         *)
(* The clock is SysTick, which every Delay_Ms and Delay_Us reprograms and  *)
(* stops.  i2c_util.c never says which way it counts (bit 4 of CTLR), so   *)
(* dir is either; bit 5 makes each start begin at the end it counts from.  *)
(* CNT is the part under the mask of i2c_get_ticks, in units of one look.  *)
(***************************************************************************)
EXTENDS Integers

CONSTANTS
  Regs,        (* what a write addresses: a device register or the DAC *)
  Lap,         (* 2^24, that is 1398 ms at 12 ticks per us *)
  Timeout,     (* I2C_TIMEOUT_MS, 1000 *)
  DelayTicks,  (* the Delay_Ms(10) after the address *)
  MaxPolls,    (* 100 or 10000, the bound of each bounded wait of a read *)
  MaxCalls     (* bound of the model: calls are numbered 1..MaxCalls in turn *)

ASSUME I2cAssumption ==
  /\ Lap \in Nat /\ Timeout \in 1..Lap - 1 /\ DelayTicks \in 0..Lap - 1
  /\ MaxPolls \in Nat /\ MaxCalls \in Nat \ {0}
  /\ "none" \notin Regs

VARIABLES
  (* the bus and the peripheral *)
  BUSY, event, AF, ERR,  (* status flags; ERR stands for BERR and ARLO *)
  open,                  (* a START of ours has no STOP yet *)
  wire,                  (* the data byte on the bus, or Nothing *)
  held,                  (* what each register holds, by the call's number *)
  (* SysTick *)
  dir, ticking, CNT,
  (* the program *)
  pc, kind, reg, call, attempt, start, waiting, byteNo, status,
  (* history *)
  waited,                (* units since start was taken, while the clock runs *)
  nacked                 (* the device refused something in this attempt *)

flags  == <<event, AF, ERR>>
bus    == <<BUSY, flags, open, wire, held, nacked>>
clock  == <<dir, ticking, CNT, start, waited>>
params == <<kind, reg, call>>
i2cVars == <<bus, clock, params, pc, attempt, waiting, byteNo, status>>

Nothing == [byte |-> 0, reg |-> "none", call |-> 0]
Wires == {Nothing} \union [byte : 1..3, reg : Regs, call : 1..MaxCalls]

(* Where a transfer waits; the clock of the time-out runs in Clocked. *)
Clocked   == {"w_busy", "w_start"}
WriteWait == {"w_start", "w_addr", "w_byte"}
ReadWait  == {"r_start", "r_addr", "r_reg", "r_again", "r_recv", "r_first", "r_last"}
Bounded   == {"r_busy", "r_addr", "r_reg", "r_recv"}

Ok == 0
TimedOut == -1
Nack == -3
Failed == 1    (* FALSE of ina226.h, and the literal 1 *)

I2cInit ==
  /\ BUSY \in BOOLEAN /\ event = FALSE /\ AF = FALSE /\ ERR = FALSE
  /\ open = FALSE /\ wire = Nothing /\ held = [r \in Regs |-> 0]
  /\ dir \in {1, -1} /\ ticking = FALSE /\ CNT = 0 /\ start = 0 /\ waited = 0
  /\ pc = "none" /\ kind = "none" /\ reg \in Regs /\ call = 0
  /\ attempt = 0 /\ waiting = 0 /\ byteNo = 0 /\ status = Ok
  /\ nacked = FALSE
-----------------------------------------------------------------------------
(* The bus and the device: external. *)
Outside == UNCHANGED <<clock, params, pc, attempt, waiting, byteNo, status>>

(* The STOP is over, or whoever held the bus lets it go. *)
BusFrees ==
  /\ BUSY /\ ~open /\ wire = Nothing
  /\ BUSY' = FALSE
  /\ UNCHANGED <<flags, open, wire, held, nacked>> /\ Outside

(* The device takes the byte; a write takes effect with its third one. *)
DeviceTakes ==
  /\ wire # Nothing
  /\ wire' = Nothing
  /\ held' = IF wire.byte = 3 THEN [held EXCEPT ![wire.reg] = wire.call] ELSE held
  /\ UNCHANGED <<BUSY, flags, open, nacked>> /\ Outside

(* What the program waits for happens. *)
Answer ==
  /\ pc \in WriteWait \union ReadWait
  /\ open /\ wire = Nothing /\ ~nacked /\ ~event
  /\ event' = TRUE
  /\ UNCHANGED <<BUSY, AF, ERR, open, wire, held, nacked>> /\ Outside

(* The device refuses its address, a byte or the register pointer. *)
Refuse ==
  /\ pc \in {"w_addr", "w_byte", "r_addr", "r_reg", "r_recv"}
  /\ open /\ ~event /\ ~nacked /\ (pc = "w_byte" => wire # Nothing)
  /\ AF' = TRUE /\ nacked' = TRUE /\ wire' = Nothing
  /\ UNCHANGED <<BUSY, event, ERR, open, held>> /\ Outside

(* A bus error or a lost arbitration. *)
Fault ==
  /\ open /\ ~ERR
  /\ ERR' = TRUE
  /\ UNCHANGED <<BUSY, event, AF, open, wire, held, nacked>> /\ Outside

Respond == DeviceTakes \/ Answer \/ Refuse
Hardware == BusFrees \/ Respond \/ Fault
-----------------------------------------------------------------------------
(* SysTick and i2c_has_timed_out. *)
Origin == IF dir = 1 THEN 0 ELSE Lap - 1

(* CNT one look later. *)
Later ==
  IF ~ticking THEN CNT
  ELSE IF dir = 1 THEN (IF CNT = Lap - 1 THEN 0 ELSE CNT + 1)
  ELSE (IF CNT = 0 THEN Lap - 1 ELSE CNT - 1)

(* Mutant: the difference is not masked, a lap makes it huge. *)
ElapsedUnmasked == IF Later >= start THEN Later - start ELSE Lap

(* (current - start_ticks) & 0x00FFFFFF: right if the clock counts up. *)
Elapsed == IF Later >= start THEN Later - start ELSE Later - start + Lap

LookClock ==
  /\ CNT' = Later
  /\ waited' = IF ticking THEN waited + 1 ELSE waited
  /\ UNCHANGED <<dir, ticking, start>>

(* i2c_timeout_start, and start_ticks = i2c_get_ticks(). *)
StartClock ==
  /\ ticking' = TRUE /\ CNT' = Origin /\ start' = Origin /\ waited' = 0
  /\ UNCHANGED dir

(* i2c_timeout_stop, at the end of the attempt; start is a local. *)
StopClock ==
  /\ ticking' = FALSE /\ CNT' = 0 /\ start' = 0 /\ waited' = 0
  /\ UNCHANGED dir

(* Delay_Ms counts from one end to the other and leaves the clock stopped. *)
DelayClock ==
  /\ ticking' = FALSE /\ CNT' = (IF dir = 1 THEN DelayTicks ELSE 0)
  /\ waited' = 0
  /\ UNCHANGED <<dir, start>>
-----------------------------------------------------------------------------
NextCall == IF call = MaxCalls THEN 1 ELSE call + 1

(* i2c_util_write. *)
CallWrite(r) ==
  /\ pc = "none"
  /\ kind' = "write" /\ reg' = r /\ call' = NextCall
  /\ attempt' = 1 /\ pc' = "w_busy" /\ byteNo' = 0
  /\ status' = Ok /\ nacked' = FALSE
  /\ StartClock
  /\ UNCHANGED <<BUSY, flags, open, wire, held, waiting>>

(* An attempt ends: with success or after the retry the call returns. *)
EndAttempt(code) ==
  /\ \/ (code = Ok \/ attempt = 2) /\ pc' = "none" /\ status' = code
     \/ code # Ok /\ attempt = 1 /\ pc' = "recover" /\ UNCHANGED status
  /\ StopClock

WriteBusy ==
  /\ pc = "w_busy"
  /\ \/ /\ ~BUSY
        /\ BUSY' = TRUE /\ open' = TRUE /\ event' = FALSE
        /\ pc' = "w_start"
        /\ start' = CNT /\ waited' = 0
        /\ UNCHANGED <<AF, ERR, dir, ticking, CNT, status>>
     \/ BUSY /\ Elapsed < Timeout /\ LookClock /\ UNCHANGED <<bus, pc, status>>
     \/ BUSY /\ Elapsed >= Timeout /\ EndAttempt(TimedOut) /\ UNCHANGED bus
  /\ UNCHANGED <<wire, held, nacked, params, attempt, waiting, byteNo>>

(* Mutant: the branch for a refusal forgets the STOP. *)
WriteLookNoStop ==
  /\ pc \in WriteWait
  /\ ~event
  /\ \/ AF /\ AF' = FALSE /\ EndAttempt(Nack) /\ UNCHANGED <<open, ERR>>
     \/ ~AF /\ ERR /\ ERR' = FALSE /\ EndAttempt(TimedOut) /\ open' = FALSE /\ UNCHANGED AF
     \/ /\ ~AF /\ ~ERR /\ Elapsed < Timeout
        /\ LookClock
        /\ UNCHANGED <<AF, ERR, open, pc, status>>
     \/ /\ ~AF /\ ~ERR /\ Elapsed >= Timeout
        /\ EndAttempt(TimedOut) /\ open' = FALSE
        /\ UNCHANGED <<AF, ERR>>
  /\ UNCHANGED <<BUSY, event, wire, held, nacked, params, attempt, waiting, byteNo>>

(* i2c_wait_event_ex when the event is not there.  A failed wait is        *)
(* followed by a STOP, which lets a byte on the wire finish.               *)
WriteLook ==
  /\ pc \in WriteWait
  /\ ~event
  /\ \/ AF /\ AF' = FALSE /\ EndAttempt(Nack) /\ open' = FALSE /\ UNCHANGED ERR
     \/ ~AF /\ ERR /\ ERR' = FALSE /\ EndAttempt(TimedOut) /\ open' = FALSE /\ UNCHANGED AF
     \/ /\ ~AF /\ ~ERR /\ Elapsed < Timeout
        /\ LookClock
        /\ UNCHANGED <<AF, ERR, open, pc, status>>
     \/ /\ ~AF /\ ~ERR /\ Elapsed >= Timeout
        /\ EndAttempt(TimedOut) /\ open' = FALSE
        /\ UNCHANGED <<AF, ERR>>
  /\ UNCHANGED <<BUSY, event, wire, held, nacked, params, attempt, waiting, byteNo>>

(* The address goes out, and Delay_Ms(10) takes the clock away. *)
WriteStarted ==
  /\ pc = "w_start" /\ event
  /\ event' = FALSE /\ pc' = "w_addr"
  /\ DelayClock
  /\ UNCHANGED <<BUSY, AF, ERR, open, wire, held, nacked, params, attempt, waiting,
                 byteNo, status>>

NextByte == IF pc = "w_addr" THEN 1 ELSE byteNo + 1

AtByte ==
  /\ event
  /\ \/ pc = "w_addr"
     \/ pc = "w_byte" /\ byteNo < 3

WriteSend ==
  /\ AtByte
  /\ wire' = [byte |-> NextByte, reg |-> reg, call |-> call]
  /\ byteNo' = NextByte /\ event' = FALSE /\ pc' = "w_byte"
  /\ UNCHANGED <<BUSY, AF, ERR, open, held, nacked, clock, params, attempt, waiting,
                 status>>

(* TXE is not set: a bus error may have cleared it. *)
WriteNoTxe ==
  /\ AtByte /\ ERR
  /\ open' = FALSE /\ EndAttempt(TimedOut)
  /\ UNCHANGED <<BUSY, flags, wire, held, nacked, params, attempt, waiting, byteNo>>

(* Mutant: the loop ends one byte early. *)
WriteDoneEarly ==
  /\ pc = "w_byte" /\ event /\ byteNo = 2
  /\ open' = FALSE /\ EndAttempt(Ok)
  /\ UNCHANGED <<BUSY, flags, wire, held, nacked, params, attempt, waiting, byteNo>>

WriteDone ==
  /\ pc = "w_byte" /\ event /\ byteNo = 3
  /\ open' = FALSE /\ EndAttempt(Ok)
  /\ UNCHANGED <<BUSY, flags, wire, held, nacked, params, attempt, waiting, byteNo>>

(* Mutant: the flags survive the recovery. *)
RecoverKeepsFlags ==
  /\ pc = "recover"
  /\ BUSY' \in BOOLEAN /\ event' = FALSE
  /\ open' = FALSE /\ wire' = Nothing /\ nacked' = FALSE
  /\ attempt' = 2 /\ pc' = "w_busy"
  /\ StartClock
  /\ UNCHANGED <<AF, ERR, held, params, waiting, byteNo, status>>

(* Mutant: the clock is not started again for the second attempt. *)
RecoverColdClock ==
  /\ pc = "recover"
  /\ BUSY' \in BOOLEAN /\ event' = FALSE /\ AF' = FALSE /\ ERR' = FALSE
  /\ open' = FALSE /\ wire' = Nothing /\ nacked' = FALSE
  /\ attempt' = 2 /\ pc' = "w_busy"
  /\ UNCHANGED <<clock, held, params, waiting, byteNo, status>>

(* i2c_util_bus_recovery, whose result is dropped, and the second attempt: *)
(* the peripheral is reset, and the bus may still be held by a device.     *)
Recover ==
  /\ pc = "recover"
  /\ BUSY' \in BOOLEAN /\ event' = FALSE /\ AF' = FALSE /\ ERR' = FALSE
  /\ open' = FALSE /\ wire' = Nothing /\ nacked' = FALSE
  /\ attempt' = 2 /\ pc' = "w_busy"
  /\ StartClock
  /\ UNCHANGED <<held, params, waiting, byteNo, status>>

WriteStep ==
  \/ WriteBusy \/ WriteLook \/ WriteStarted \/ WriteSend \/ WriteNoTxe
  \/ WriteDone \/ Recover
-----------------------------------------------------------------------------
(* i2c_read_once ("reg") and dac_read_once ("dac"), which has no pointer.  *)
CallRead(k, r) ==
  /\ pc = "none"
  /\ kind' = k /\ reg' = r /\ call' = NextCall
  /\ attempt' = 1 /\ pc' = "r_busy" /\ waiting' = 0
  /\ byteNo' = 0 /\ status' = Ok /\ nacked' = FALSE
  /\ UNCHANGED <<BUSY, flags, open, wire, held, clock>>

ReadBusy ==
  /\ pc = "r_busy" /\ ~BUSY
  /\ BUSY' = TRUE /\ open' = TRUE /\ event' = FALSE
  /\ pc' = "r_start"
  /\ UNCHANGED <<AF, ERR, wire, held, nacked, clock, params, attempt, waiting,
                 byteNo, status>>

(* What follows what in a read. *)
ReadOrder ==
  {<<"r_start", "r_addr">>, <<"r_again", "r_recv">>, <<"r_recv", "r_first">>,
   <<"r_first", "r_last">>}
    \union IF kind = "reg" THEN {<<"r_addr", "r_reg">>, <<"r_reg", "r_again">>}
           ELSE {<<"r_addr", "r_again">>}

ReadStep ==
  /\ event
  /\ \E step \in ReadOrder : pc = step[1] /\ pc' = step[2]
  /\ event' = FALSE /\ waiting' = 0
  /\ UNCHANGED <<BUSY, AF, ERR, open, wire, held, nacked, clock, params, attempt,
                 byteNo, status>>

(* Both bytes are there for the caller. *)
ReadDone ==
  /\ pc = "r_last" /\ event
  /\ open' = FALSE /\ pc' = "none" /\ status' = Ok
  /\ UNCHANGED <<BUSY, flags, wire, held, nacked, clock, params, attempt, waiting,
                 byteNo>>

Pending == IF pc = "r_busy" THEN BUSY ELSE ~event

(* Mutant: only the wait for BUSY counts its looks. *)
ReadLookForever ==
  /\ pc \in Bounded /\ Pending
  /\ waiting' = waiting + (IF pc = "r_busy" THEN 1 ELSE 0)
  /\ \/ waiting' <= MaxPolls /\ UNCHANGED <<open, pc, status>>
     \/ waiting' > MaxPolls /\ open' = FALSE /\ pc' = "none" /\ status' = Failed
  /\ UNCHANGED <<BUSY, flags, wire, held, nacked, clock, params, attempt, byteNo>>

(* A look in a bounded wait; in the others looking changes nothing.  No    *)
(* read looks at AF, BERR or ARLO, nor clears them.  What its delays leave *)
(* in SysTick is of no account: the next write starts the clock afresh.    *)
ReadLook ==
  /\ pc \in Bounded /\ Pending
  /\ waiting' = waiting + 1
  /\ \/ waiting' <= MaxPolls /\ UNCHANGED <<open, pc, status>>
     \/ /\ waiting' > MaxPolls
        /\ open' = FALSE /\ pc' = "none"
        /\ status' = IF kind = "dac" /\ pc \in {"r_busy", "r_addr"} THEN TimedOut ELSE Failed
  /\ UNCHANGED <<BUSY, flags, wire, held, nacked, clock, params, attempt, byteNo>>

Program == WriteStep \/ ReadBusy \/ ReadStep \/ ReadDone \/ ReadLook
-----------------------------------------------------------------------------
BusTypes ==
  /\ BUSY \in BOOLEAN /\ event \in BOOLEAN /\ AF \in BOOLEAN /\ ERR \in BOOLEAN
  /\ open \in BOOLEAN /\ nacked \in BOOLEAN
  /\ wire \in Wires /\ held \in [Regs -> 0..MaxCalls]

ClockTypes ==
  /\ dir \in {1, -1} /\ ticking \in BOOLEAN
  /\ CNT \in 0..Lap - 1 /\ start \in 0..Lap - 1 /\ waited \in Nat

ProgramTypes ==
  /\ pc \in {"none", "w_busy", "recover", "r_busy"} \union WriteWait \union ReadWait
  /\ kind \in {"none", "write", "reg", "dac"} /\ reg \in Regs /\ call \in 0..MaxCalls
  /\ attempt \in 0..2 /\ waiting \in 0..MaxPolls + 1 /\ byteNo \in 0..3
  /\ status \in {Ok, TimedOut, Nack, Failed}

I2cTypeOK == BusTypes /\ ClockTypes /\ ProgramTypes

(* A write that returns ok has taken effect, in the attempt that said so:  *)
(* no byte of an earlier attempt or call undoes it or stands in for it.    *)
OkMeansHeld == pc = "none" /\ kind = "write" /\ status = Ok => held[reg] = call

(* Whatever the way out of a call, a START of ours has had its STOP: the   *)
(* next call finds the bus held by a device at worst, never by us.         *)
StartsAreStopped == pc = "none" => ~open

(* No read clears AF, so the first attempt of the next write may answer    *)
(* NACK for a refusal that was not its own.  The recovery clears the       *)
(* flags: a NACK the caller gets to see is the device's answer to it.      *)
HonestNack ==
  pc = "none" /\ kind = "write" /\ status = Nack => attempt = 2 /\ nacked

(* With a clock that counts up, a wait before the address neither outlasts *)
(* the time-out nor ends before it, though the 24-bit counter may lap.     *)
ClockHonest ==
  /\ dir = 1 /\ pc \in Clocked => waited < Timeout
  /\ dir = 1 /\ pc \in Clocked => Elapsed = waited + 1
=============================================================================
