------------------------- MODULE I2cDriversProofs -------------------------
(***************************************************************************)
(* Theorems about the I2C master and its callers for every lap of the      *)
(* clock, time-out, delay, bound of the waits of a read, set of registers  *)
(* and number of calls.  One inductive invariant per question, each resting *)
(* on the types: where the bus is open, whose refusal AF is, what the      *)
(* register holds, how far the clock has come, and what ina226_init knows. *)
(***************************************************************************)
EXTENDS I2cDrivers, TLAPS

(* A step of the master, whoever calls it. *)
MasterStep ==
  \/ \E r \in Regs : CallWrite(r)
  \/ \E k \in {"reg", "dac"}, r \in Regs : CallRead(k, r)
  \/ Program
  \/ Hardware
  \/ UNCHANGED i2cVars

InWrite == {"w_busy", "recover"} \union WriteWait
InRead  == {"r_busy"} \union ReadWait

(* The types; a call that runs has a number, and a wait of a read that     *)
(* goes on has not used up its looks.                                      *)
CallInv ==
  /\ pc # "none" => call \in 1..MaxCalls
  /\ pc \in Bounded => waiting <= MaxPolls
  /\ pc \in InWrite => kind = "write" /\ attempt \in {1, 2} /\ status = Ok
  /\ pc \in InRead => kind \in {"reg", "dac"}
  /\ pc = "w_byte" => byteNo \in 1..3
  /\ pc = "recover" => attempt = 1

TypeInv == I2cTypeOK /\ CallInv

(* A transfer is open only where the program waits inside it. *)
BusInv == open => pc \in WriteWait \union ReadWait

(* In a second attempt AF stands for a refusal of that attempt. *)
NackInv ==
  /\ HonestNack
  /\ pc \in InWrite /\ attempt = 2 /\ AF => nacked

(* The byte on the wire is the one sent last, and when the last one is     *)
(* off it, taken and not refused, the register holds this call's number.   *)
HeldInv ==
  /\ pc = "w_byte" /\ wire # Nothing => wire = [byte |-> byteNo, reg |-> reg, call |-> call]
  /\ pc = "w_byte" /\ event => wire = Nothing /\ ~nacked
  /\ pc = "w_byte" /\ byteNo = 3 /\ wire = Nothing /\ ~nacked => held[reg] = call
  /\ pc = "none" /\ kind = "write" /\ status = Ok => wire = Nothing /\ held[reg] = call

(* While the clock of a time-out runs upwards it is as far from its start, *)
(* modulo the lap, as the program has waited.  If it runs downwards the    *)
(* first look finds the time-out over, so it has not moved.                *)
ClockInv ==
  pc \in Clocked =>
    /\ ticking
    /\ dir = 1 => waited < Timeout /\ (CNT = start + waited \/ CNT + Lap = start + waited)
    /\ dir = -1 => waited = 0 /\ CNT = start

(* What the two halves of ina226_init know: the calibration stays written  *)
(* while the configuration is on its way.                                  *)
InitInv ==
  /\ job = "cal" => kind = "write" /\ reg = "cal" /\ call = first
  /\ job = "cfg" => /\ kind = "write" /\ reg = "cfg" /\ held["cal"] = first
                    /\ wire # Nothing => wire.reg = "cfg"
-----------------------------------------------------------------------------
(* Whatever main does, the master makes one of its own steps. *)
LEMMA DriverIsMaster ==
  ASSUME [DriverNext]_driverVars
  PROVE  MasterStep
BY DriverAssumption DEF DriverNext, driverVars, Call, InaInit, InaConfigure, DacSet,
   ReadOnce, Returned, MasterStep

(* A read that goes on goes from one of its waits to the next. *)
LEMMA ReadGoesOn ==
  ASSUME ReadStep
  PROVE  /\ pc \in ReadWait /\ pc' \in ReadWait
         /\ event' = FALSE /\ waiting' = 0
         /\ UNCHANGED <<BUSY, AF, ERR, open, wire, held, nacked, clock, params, attempt,
                        byteNo, status>>
BY DEF ReadStep, ReadOrder, ReadWait

LEMMA ClockMoves ==
  ASSUME TypeInv, StartClock \/ StopClock \/ LookClock \/ DelayClock \/ UNCHANGED clock
  PROVE  ClockTypes'
<1> USE I2cAssumption DEF TypeInv, I2cTypeOK, ClockTypes
<1>1. CASE StartClock
  BY <1>1 DEF StartClock, Origin
<1> 0 \in 0..Lap - 1
  OBVIOUS
<1>2. CASE StopClock
  BY <1>2 DEF StopClock
<1>3. CASE LookClock
  BY <1>3 DEF LookClock, Later
<1>4. CASE DelayClock
  BY <1>4 DEF DelayClock
<1>5. CASE UNCHANGED clock
  BY <1>5 DEF clock
<1> QED
  BY <1>1, <1>2, <1>3, <1>4, <1>5

(* Every step of the master keeps the types of the bus. *)
LEMMA BusTypeStep ==
  ASSUME TypeInv, MasterStep
  PROVE  BusTypes'
<1> USE I2cAssumption DEF TypeInv, I2cTypeOK, BusTypes, ClockTypes, ProgramTypes, CallInv,
           InWrite, InRead,
           Ok, TimedOut, Nack, Failed, WriteWait, ReadWait, flags, clock, params
<1>1. ASSUME NEW r \in Regs, CallWrite(r)
      PROVE  BusTypes'
  BY <1>1 DEF CallWrite, NextCall
<1>2. ASSUME NEW k \in {"reg", "dac"}, NEW r \in Regs, CallRead(k, r)
      PROVE  BusTypes'
  BY <1>2 DEF CallRead, NextCall
<1>3. CASE WriteBusy
  BY <1>3 DEF WriteBusy, EndAttempt, bus
<1>4. CASE WriteLook
  BY <1>4 DEF WriteLook, EndAttempt
<1>5. CASE WriteStarted
  BY <1>5 DEF WriteStarted
<1>6. CASE WriteSend
  <2>1. NextByte \in 1..3 /\ reg \in Regs /\ call \in 1..MaxCalls
    BY <1>6 DEF WriteSend, AtByte, NextByte
  <2>2. wire' \in Wires
    BY <1>6, <2>1 DEF WriteSend, Wires
  <2> QED
    BY <1>6, <2>2 DEF WriteSend
<1>7. CASE WriteNoTxe
  BY <1>7 DEF WriteNoTxe, AtByte, EndAttempt
<1>8. CASE WriteDone
  BY <1>8 DEF WriteDone, EndAttempt
<1>9. CASE Recover
  BY <1>9 DEF Recover, Wires
<1>10. CASE ReadBusy
  BY <1>10 DEF ReadBusy
<1>11. CASE ReadStep
  BY <1>11, ReadGoesOn
<1>12. CASE ReadDone
  BY <1>12 DEF ReadDone
<1>13. CASE ReadLook
  BY <1>13 DEF ReadLook, Pending
<1>14. CASE BusFrees
  BY <1>14 DEF BusFrees, Outside
<1>15. CASE DeviceTakes
  <2>1. wire' \in Wires
    BY <1>15 DEF DeviceTakes, Wires
  <2>2. wire \in [byte : 1..3, reg : Regs, call : 1..MaxCalls]
    BY <1>15 DEF DeviceTakes, Wires
  <2>3. held' \in [Regs -> 0..MaxCalls]
    BY <1>15, <2>2 DEF DeviceTakes
  <2> QED
    BY <1>15, <2>1, <2>3 DEF DeviceTakes, Outside
<1>16. CASE Answer
  BY <1>16 DEF Answer, Outside
<1>17. CASE Refuse
  BY <1>17 DEF Refuse, Outside, Wires
<1>18. CASE Fault
  BY <1>18 DEF Fault, Outside
<1>19. CASE UNCHANGED i2cVars
  BY <1>19 DEF i2cVars, bus
<1> HIDE DEF TypeInv, I2cTypeOK, BusTypes, ClockTypes, ProgramTypes, CallInv,
           InWrite, InRead,
           Ok, TimedOut, Nack, Failed, WriteWait, ReadWait, flags, clock, params
<1> QED
  BY <1>1, <1>2, <1>3, <1>4, <1>5, <1>6, <1>7, <1>8, <1>9, <1>10,
     <1>11, <1>12, <1>13, <1>14, <1>15, <1>16, <1>17, <1>18, <1>19
  DEF MasterStep, Program, WriteStep, Hardware, Respond

(* The types of the clock. *)
LEMMA ClockTypeStep ==
  ASSUME TypeInv, MasterStep
  PROVE  ClockTypes'
<1> USE I2cAssumption DEF WriteWait, flags
<1>1. ASSUME NEW r \in Regs, CallWrite(r)
      PROVE  ClockTypes'
  BY <1>1, ClockMoves DEF CallWrite, NextCall
<1>2. ASSUME NEW k \in {"reg", "dac"}, NEW r \in Regs, CallRead(k, r)
      PROVE  ClockTypes'
  BY <1>2, ClockMoves DEF CallRead, NextCall
<1>3. CASE WriteBusy
  <2>1. CASE ~BUSY
    BY <1>3, <2>1 DEF WriteBusy, TypeInv, I2cTypeOK, ClockTypes
  <2>2. CASE BUSY
    BY <1>3, <2>2, ClockMoves DEF WriteBusy, EndAttempt
  <2> QED BY <2>1, <2>2
<1>4. CASE WriteLook
  BY <1>4, ClockMoves DEF WriteLook, EndAttempt
<1>5. CASE WriteStarted
  BY <1>5, ClockMoves DEF WriteStarted
<1>6. CASE WriteSend
  BY <1>6, ClockMoves DEF WriteSend, AtByte, NextByte
<1>7. CASE WriteNoTxe
  BY <1>7, ClockMoves DEF WriteNoTxe, AtByte, EndAttempt
<1>8. CASE WriteDone
  BY <1>8, ClockMoves DEF WriteDone, EndAttempt
<1>9. CASE Recover
  BY <1>9, ClockMoves DEF Recover
<1>10. CASE ReadBusy
  BY <1>10, ClockMoves DEF ReadBusy
<1>11. CASE ReadStep
  BY <1>11, ReadGoesOn, ClockMoves
<1>12. CASE ReadDone
  BY <1>12, ClockMoves DEF ReadDone
<1>13. CASE ReadLook
  BY <1>13, ClockMoves DEF ReadLook, Pending
<1>14. CASE BusFrees
  BY <1>14, ClockMoves DEF BusFrees, Outside
<1>15. CASE DeviceTakes
  BY <1>15, ClockMoves DEF DeviceTakes, Outside
<1>16. CASE Answer
  BY <1>16, ClockMoves DEF Answer, Outside
<1>17. CASE Refuse
  BY <1>17, ClockMoves DEF Refuse, Outside
<1>18. CASE Fault
  BY <1>18, ClockMoves DEF Fault, Outside
<1>19. CASE UNCHANGED i2cVars
  BY <1>19, ClockMoves DEF i2cVars, bus
<1> HIDE DEF WriteWait, flags
<1> QED
  BY <1>1, <1>2, <1>3, <1>4, <1>5, <1>6, <1>7, <1>8, <1>9, <1>10,
     <1>11, <1>12, <1>13, <1>14, <1>15, <1>16, <1>17, <1>18, <1>19
  DEF MasterStep, Program, WriteStep, Hardware, Respond

(* The types of the program. *)
LEMMA ProgramTypeStep ==
  ASSUME TypeInv, MasterStep
  PROVE  ProgramTypes'
<1> USE I2cAssumption DEF TypeInv, I2cTypeOK, ProgramTypes, CallInv, InWrite, InRead,
           Bounded, Ok, TimedOut, Nack, Failed, WriteWait, ReadWait, flags, clock, params
<1>1. ASSUME NEW r \in Regs, CallWrite(r)
      PROVE  ProgramTypes'
  BY <1>1 DEF CallWrite, NextCall
<1>2. ASSUME NEW k \in {"reg", "dac"}, NEW r \in Regs, CallRead(k, r)
      PROVE  ProgramTypes'
  BY <1>2 DEF CallRead, NextCall
<1>3. CASE WriteBusy
  BY <1>3 DEF WriteBusy, EndAttempt, bus
<1>4. CASE WriteLook
  BY <1>4 DEF WriteLook, EndAttempt
<1>5. CASE WriteStarted
  BY <1>5 DEF WriteStarted
<1>6. CASE WriteSend
  BY <1>6 DEF WriteSend, AtByte, NextByte
<1>7. CASE WriteNoTxe
  BY <1>7 DEF WriteNoTxe, AtByte, EndAttempt
<1>8. CASE WriteDone
  BY <1>8 DEF WriteDone, EndAttempt
<1>9. CASE Recover
  BY <1>9 DEF Recover
<1>10. CASE ReadBusy
  BY <1>10 DEF ReadBusy
<1>11. CASE ReadStep
  BY <1>11, ReadGoesOn
<1>12. CASE ReadDone
  BY <1>12 DEF ReadDone
<1>13. CASE ReadLook
  BY <1>13 DEF ReadLook, Pending
<1>14. CASE BusFrees
  BY <1>14 DEF BusFrees, Outside
<1>15. CASE DeviceTakes
  BY <1>15 DEF DeviceTakes, Outside
<1>16. CASE Answer
  BY <1>16 DEF Answer, Outside
<1>17. CASE Refuse
  BY <1>17 DEF Refuse, Outside
<1>18. CASE Fault
  BY <1>18 DEF Fault, Outside
<1>19. CASE UNCHANGED i2cVars
  BY <1>19 DEF i2cVars, bus
<1> HIDE DEF TypeInv, I2cTypeOK, ProgramTypes, CallInv, InWrite, InRead,
           Bounded, Ok, TimedOut, Nack, Failed, WriteWait, ReadWait, flags, clock, params
<1> QED
  BY <1>1, <1>2, <1>3, <1>4, <1>5, <1>6, <1>7, <1>8, <1>9, <1>10,
     <1>11, <1>12, <1>13, <1>14, <1>15, <1>16, <1>17, <1>18, <1>19
  DEF MasterStep, Program, WriteStep, Hardware, Respond

(* What a running call is. *)
LEMMA CallStep ==
  ASSUME TypeInv, MasterStep
  PROVE  CallInv'
<1> USE I2cAssumption DEF TypeInv, I2cTypeOK, ProgramTypes, CallInv, InWrite, InRead,
           Bounded, Ok, TimedOut, Nack, Failed, WriteWait, ReadWait, flags, clock, params
<1>1. ASSUME NEW r \in Regs, CallWrite(r)
      PROVE  CallInv'
  BY <1>1 DEF CallWrite, NextCall
<1>2. ASSUME NEW k \in {"reg", "dac"}, NEW r \in Regs, CallRead(k, r)
      PROVE  CallInv'
  BY <1>2 DEF CallRead, NextCall
<1>3. CASE WriteBusy
  BY <1>3 DEF WriteBusy, EndAttempt, bus
<1>4. CASE WriteLook
  BY <1>4 DEF WriteLook, EndAttempt
<1>5. CASE WriteStarted
  BY <1>5 DEF WriteStarted
<1>6. CASE WriteSend
  BY <1>6 DEF WriteSend, AtByte, NextByte
<1>7. CASE WriteNoTxe
  BY <1>7 DEF WriteNoTxe, AtByte, EndAttempt
<1>8. CASE WriteDone
  BY <1>8 DEF WriteDone, EndAttempt
<1>9. CASE Recover
  BY <1>9 DEF Recover
<1>10. CASE ReadBusy
  BY <1>10 DEF ReadBusy
<1>11. CASE ReadStep
  BY <1>11, ReadGoesOn
<1>12. CASE ReadDone
  BY <1>12 DEF ReadDone
<1>13. CASE ReadLook
  BY <1>13 DEF ReadLook, Pending
<1>14. CASE BusFrees
  BY <1>14 DEF BusFrees, Outside
<1>15. CASE DeviceTakes
  BY <1>15 DEF DeviceTakes, Outside
<1>16. CASE Answer
  BY <1>16 DEF Answer, Outside
<1>17. CASE Refuse
  BY <1>17 DEF Refuse, Outside
<1>18. CASE Fault
  BY <1>18 DEF Fault, Outside
<1>19. CASE UNCHANGED i2cVars
  BY <1>19 DEF i2cVars, bus
<1> HIDE DEF TypeInv, I2cTypeOK, ProgramTypes, CallInv, InWrite, InRead,
           Bounded, Ok, TimedOut, Nack, Failed, WriteWait, ReadWait, flags, clock, params
<1> QED
  BY <1>1, <1>2, <1>3, <1>4, <1>5, <1>6, <1>7, <1>8, <1>9, <1>10,
     <1>11, <1>12, <1>13, <1>14, <1>15, <1>16, <1>17, <1>18, <1>19
  DEF MasterStep, Program, WriteStep, Hardware, Respond

(* Every way out of a transfer closes it. *)
LEMMA BusStep ==
  ASSUME BusInv, MasterStep
  PROVE  BusInv'
<1> USE I2cAssumption DEF BusInv, Ok, TimedOut, Nack, Failed, WriteWait, ReadWait, flags, clock, params
<1>1. ASSUME NEW r \in Regs, CallWrite(r)
      PROVE  BusInv'
  BY <1>1 DEF CallWrite, NextCall
<1>2. ASSUME NEW k \in {"reg", "dac"}, NEW r \in Regs, CallRead(k, r)
      PROVE  BusInv'
  BY <1>2 DEF CallRead, NextCall
<1>3. CASE WriteBusy
  BY <1>3 DEF WriteBusy, EndAttempt, bus
<1>4. CASE WriteLook
  BY <1>4 DEF WriteLook, EndAttempt
<1>5. CASE WriteStarted
  BY <1>5 DEF WriteStarted
<1>6. CASE WriteSend
  BY <1>6 DEF WriteSend, AtByte, NextByte
<1>7. CASE WriteNoTxe
  BY <1>7 DEF WriteNoTxe, AtByte, EndAttempt
<1>8. CASE WriteDone
  BY <1>8 DEF WriteDone, EndAttempt
<1>9. CASE Recover
  BY <1>9 DEF Recover
<1>10. CASE ReadBusy
  BY <1>10 DEF ReadBusy
<1>11. CASE ReadStep
  BY <1>11, ReadGoesOn
<1>12. CASE ReadDone
  BY <1>12 DEF ReadDone
<1>13. CASE ReadLook
  BY <1>13 DEF ReadLook, Pending
<1>14. CASE BusFrees
  BY <1>14 DEF BusFrees, Outside
<1>15. CASE DeviceTakes
  BY <1>15 DEF DeviceTakes, Outside
<1>16. CASE Answer
  BY <1>16 DEF Answer, Outside
<1>17. CASE Refuse
  BY <1>17 DEF Refuse, Outside
<1>18. CASE Fault
  BY <1>18 DEF Fault, Outside
<1>19. CASE UNCHANGED i2cVars
  BY <1>19 DEF i2cVars, bus
<1> HIDE DEF BusInv, Ok, TimedOut, Nack, Failed, WriteWait, ReadWait, flags, clock, params
<1> QED
  BY <1>1, <1>2, <1>3, <1>4, <1>5, <1>6, <1>7, <1>8, <1>9, <1>10,
     <1>11, <1>12, <1>13, <1>14, <1>15, <1>16, <1>17, <1>18, <1>19
  DEF MasterStep, Program, WriteStep, Hardware, Respond

(* A refusal of the second attempt is its own. *)
LEMMA NackStep ==
  ASSUME TypeInv, NackInv, MasterStep
  PROVE  NackInv'
<1> USE I2cAssumption DEF TypeInv, CallInv, NackInv, HonestNack, InWrite, InRead,
           Ok, TimedOut, Nack, Failed, WriteWait, ReadWait, flags, clock, params
<1>1. ASSUME NEW r \in Regs, CallWrite(r)
      PROVE  NackInv'
  BY <1>1 DEF CallWrite, NextCall
<1>2. ASSUME NEW k \in {"reg", "dac"}, NEW r \in Regs, CallRead(k, r)
      PROVE  NackInv'
  BY <1>2 DEF CallRead, NextCall
<1>3. CASE WriteBusy
  BY <1>3 DEF WriteBusy, EndAttempt, bus
<1>4. CASE WriteLook
  BY <1>4 DEF WriteLook, EndAttempt
<1>5. CASE WriteStarted
  BY <1>5 DEF WriteStarted
<1>6. CASE WriteSend
  BY <1>6 DEF WriteSend, AtByte, NextByte
<1>7. CASE WriteNoTxe
  BY <1>7 DEF WriteNoTxe, AtByte, EndAttempt
<1>8. CASE WriteDone
  BY <1>8 DEF WriteDone, EndAttempt
<1>9. CASE Recover
  BY <1>9 DEF Recover
<1>10. CASE ReadBusy
  BY <1>10 DEF ReadBusy
<1>11. CASE ReadStep
  BY <1>11, ReadGoesOn
<1>12. CASE ReadDone
  BY <1>12 DEF ReadDone
<1>13. CASE ReadLook
  BY <1>13 DEF ReadLook, Pending
<1>14. CASE BusFrees
  BY <1>14 DEF BusFrees, Outside
<1>15. CASE DeviceTakes
  BY <1>15 DEF DeviceTakes, Outside
<1>16. CASE Answer
  BY <1>16 DEF Answer, Outside
<1>17. CASE Refuse
  BY <1>17 DEF Refuse, Outside
<1>18. CASE Fault
  BY <1>18 DEF Fault, Outside
<1>19. CASE UNCHANGED i2cVars
  BY <1>19 DEF i2cVars, bus
<1> HIDE DEF TypeInv, CallInv, NackInv, HonestNack, InWrite, InRead,
           Ok, TimedOut, Nack, Failed, WriteWait, ReadWait, flags, clock, params
<1> QED
  BY <1>1, <1>2, <1>3, <1>4, <1>5, <1>6, <1>7, <1>8, <1>9, <1>10,
     <1>11, <1>12, <1>13, <1>14, <1>15, <1>16, <1>17, <1>18, <1>19
  DEF MasterStep, Program, WriteStep, Hardware, Respond

(* Bytes go out in order and one by one. *)
LEMMA HeldStep ==
  ASSUME TypeInv, HeldInv, MasterStep
  PROVE  HeldInv'
<1> USE I2cAssumption DEF TypeInv, I2cTypeOK, BusTypes, ClockTypes, ProgramTypes, CallInv, HeldInv, Nothing, InWrite, InRead,
           Ok, TimedOut, Nack, Failed, WriteWait, ReadWait, flags, clock, params
<1>1. ASSUME NEW r \in Regs, CallWrite(r)
      PROVE  HeldInv'
  BY <1>1 DEF CallWrite, NextCall
<1>2. ASSUME NEW k \in {"reg", "dac"}, NEW r \in Regs, CallRead(k, r)
      PROVE  HeldInv'
  BY <1>2 DEF CallRead, NextCall
<1>3. CASE WriteBusy
  BY <1>3 DEF WriteBusy, EndAttempt, bus
<1>4. CASE WriteLook
  BY <1>4 DEF WriteLook, EndAttempt
<1>5. CASE WriteStarted
  BY <1>5 DEF WriteStarted
<1>6. CASE WriteSend
  BY <1>6 DEF WriteSend, AtByte, NextByte
<1>7. CASE WriteNoTxe
  BY <1>7 DEF WriteNoTxe, AtByte, EndAttempt
<1>8. CASE WriteDone
  BY <1>8 DEF WriteDone, EndAttempt
<1>9. CASE Recover
  BY <1>9 DEF Recover
<1>10. CASE ReadBusy
  BY <1>10 DEF ReadBusy
<1>11. CASE ReadStep
  BY <1>11, ReadGoesOn
<1>12. CASE ReadDone
  BY <1>12 DEF ReadDone
<1>13. CASE ReadLook
  BY <1>13 DEF ReadLook, Pending
<1>14. CASE BusFrees
  BY <1>14 DEF BusFrees, Outside
<1>15. CASE DeviceTakes
  BY <1>15 DEF DeviceTakes, Outside
<1>16. CASE Answer
  BY <1>16 DEF Answer, Outside
<1>17. CASE Refuse
  BY <1>17 DEF Refuse, Outside
<1>18. CASE Fault
  BY <1>18 DEF Fault, Outside
<1>19. CASE UNCHANGED i2cVars
  BY <1>19 DEF i2cVars, bus
<1> HIDE DEF TypeInv, I2cTypeOK, BusTypes, ClockTypes, ProgramTypes, CallInv, HeldInv, Nothing, InWrite, InRead,
           Ok, TimedOut, Nack, Failed, WriteWait, ReadWait, flags, clock, params
<1> QED
  BY <1>1, <1>2, <1>3, <1>4, <1>5, <1>6, <1>7, <1>8, <1>9, <1>10,
     <1>11, <1>12, <1>13, <1>14, <1>15, <1>16, <1>17, <1>18, <1>19
  DEF MasterStep, Program, WriteStep, Hardware, Respond

LEMMA ElapsedIsInt ==
  ASSUME ClockTypes
  PROVE  Elapsed \in Int
BY I2cAssumption DEF ClockTypes, Elapsed, Later

(* A look that finds the time-out not yet over has waited one unit more.   *)
LEMMA LookIsOneUnit ==
  ASSUME I2cTypeOK, ClockInv, pc \in Clocked, dir = 1
  PROVE  Elapsed = waited + 1
BY I2cAssumption DEF I2cTypeOK, ClockTypes, ClockInv, Elapsed, Later

LEMMA LookDownIsALap ==
  ASSUME I2cTypeOK, ClockInv, pc \in Clocked, dir = -1
  PROVE  Elapsed = Lap - 1
BY I2cAssumption DEF I2cTypeOK, ClockTypes, ClockInv, Elapsed, Later

LEMMA LookKeepsDistance ==
  ASSUME I2cTypeOK, ClockInv, pc \in Clocked, LookClock, Elapsed < Timeout, pc' = pc
  PROVE  ClockInv'
<1>1. dir = 1
  BY I2cAssumption, LookDownIsALap DEF I2cTypeOK, ClockTypes
<1> QED
  BY <1>1, I2cAssumption, LookIsOneUnit DEF I2cTypeOK, ClockTypes, ClockInv, LookClock, Later

(* The distance grows with the wait, across the end of the lap. *)
LEMMA ClockStep ==
  ASSUME TypeInv, ClockInv, MasterStep
  PROVE  ClockInv'
<1> USE I2cAssumption DEF TypeInv, I2cTypeOK, ClockTypes, ClockInv, Clocked, Bounded,
           WriteWait, ReadWait, flags, clock, params
<1>1. ASSUME NEW r \in Regs, CallWrite(r)
      PROVE  ClockInv'
  BY <1>1 DEF CallWrite, StartClock, Origin
<1>2. ASSUME NEW k \in {"reg", "dac"}, NEW r \in Regs, CallRead(k, r)
      PROVE  ClockInv'
  BY <1>2 DEF CallRead, NextCall
<1>3. CASE WriteBusy
  <2>1. CASE ~BUSY
    <3>1. ticking /\ ticking' /\ CNT' = CNT /\ start' = CNT /\ waited' = 0
      BY <1>3, <2>1 DEF WriteBusy
    <3> QED
      BY <3>1
  <2>2. CASE BUSY
    <3>1. Elapsed \in Int
      BY ElapsedIsInt
    <3>2. CASE Elapsed < Timeout
      <4>1. LookClock /\ pc' = pc /\ pc = "w_busy"
        BY <1>3, <2>2, <3>1, <3>2 DEF WriteBusy
      <4> QED
        BY <3>2, <4>1, LookKeepsDistance
    <3>3. CASE Elapsed >= Timeout
      <4>1. EndAttempt(TimedOut)
        BY <1>3, <2>2, <3>1, <3>3 DEF WriteBusy
      <4> QED
        BY <4>1 DEF EndAttempt
    <3> QED
      BY <3>1, <3>2, <3>3
  <2> QED
    BY <2>1, <2>2
<1>4. CASE WriteLook
  <2>1. CASE EndAttempt(Nack) \/ EndAttempt(TimedOut)
    BY <1>4, <2>1 DEF EndAttempt
  <2>2. CASE Elapsed < Timeout /\ LookClock /\ pc' = pc
    BY <1>4, <2>2, LookKeepsDistance DEF WriteLook
  <2> QED BY <1>4, <2>1, <2>2 DEF WriteLook
<1>5. CASE WriteStarted
  BY <1>5 DEF WriteStarted
<1>6. CASE WriteSend
  BY <1>6 DEF WriteSend, AtByte, NextByte
<1>7. CASE WriteNoTxe
  BY <1>7 DEF WriteNoTxe, AtByte, EndAttempt
<1>8. CASE WriteDone
  BY <1>8 DEF WriteDone, EndAttempt
<1>9. CASE Recover
  BY <1>9 DEF Recover, StartClock, Origin
<1>10. CASE ReadBusy
  BY <1>10 DEF ReadBusy
<1>11. CASE ReadStep
  BY <1>11, ReadGoesOn
<1>12. CASE ReadDone
  BY <1>12 DEF ReadDone
<1>13. CASE ReadLook
  BY <1>13 DEF ReadLook, Pending
<1>14. CASE BusFrees
  BY <1>14 DEF BusFrees, Outside
<1>15. CASE DeviceTakes
  BY <1>15 DEF DeviceTakes, Outside
<1>16. CASE Answer
  BY <1>16 DEF Answer, Outside
<1>17. CASE Refuse
  BY <1>17 DEF Refuse, Outside
<1>18. CASE Fault
  BY <1>18 DEF Fault, Outside
<1>19. CASE UNCHANGED i2cVars
  BY <1>19 DEF i2cVars, bus
<1> HIDE DEF TypeInv, I2cTypeOK, ClockTypes, ClockInv, Clocked, Bounded,
           WriteWait, ReadWait, flags, clock, params
<1> QED
  BY <1>1, <1>2, <1>3, <1>4, <1>5, <1>6, <1>7, <1>8, <1>9, <1>10,
     <1>11, <1>12, <1>13, <1>14, <1>15, <1>16, <1>17, <1>18, <1>19
  DEF MasterStep, Program, WriteStep, Hardware, Respond
-----------------------------------------------------------------------------
(* What the master does to a call's parameters, the wire and the registers *)
(* while the call runs.                                                    *)
Transfer ==
  /\ UNCHANGED params
  /\ \/ wire' = wire
     \/ wire' = Nothing
     \/ wire' = [byte |-> NextByte, reg |-> reg, call |-> call]
  /\ \/ held' = held
     \/ wire # Nothing /\ held' = [held EXCEPT ![wire.reg] = wire.call]

LEMMA RunIsTransfer ==
  ASSUME Program \/ Hardware
  PROVE  Transfer
<1> USE DEF Transfer, params
<1>1. CASE WriteBusy
  BY <1>1 DEF WriteBusy, bus
<1>2. CASE WriteLook \/ WriteStarted \/ WriteNoTxe \/ WriteDone
  BY <1>2 DEF WriteLook, WriteStarted, WriteNoTxe, WriteDone
<1>3. CASE WriteSend
  BY <1>3 DEF WriteSend
<1>4. CASE Recover
  BY <1>4 DEF Recover
<1>5. CASE ReadBusy \/ ReadDone \/ ReadLook
  BY <1>5 DEF ReadBusy, ReadDone, ReadLook
<1>6. CASE ReadStep
  BY <1>6, ReadGoesOn
<1>7. CASE BusFrees \/ Answer \/ Fault
  BY <1>7 DEF BusFrees, Answer, Fault, Outside
<1>8. CASE Refuse
  BY <1>8 DEF Refuse, Outside
<1>9. CASE DeviceTakes
  BY <1>9 DEF DeviceTakes, Outside
<1> QED
  BY <1>1, <1>2, <1>3, <1>4, <1>5, <1>6, <1>7, <1>8, <1>9
  DEF Program, WriteStep, Hardware, Respond

(* Between the two writes of ina226_init nothing reaches the calibration   *)
(* register: when the first has returned ok its last byte is off the wire. *)
LEMMA InitStep ==
  ASSUME TypeInv, HeldInv, InitInv, [DriverNext]_driverVars
  PROVE  InitInv'
<1> USE DriverAssumption DEF InitInv
<1>1. CASE InaInit
  BY <1>1 DEF InaInit, CallWrite
<1>2. CASE InaConfigure
  <2>1. /\ job = "cal" /\ pc = "none" /\ kind = "write" /\ reg = "cal" /\ status = Ok
        /\ call = first
    BY <1>2 DEF InaConfigure
  <2>2. wire = Nothing /\ held["cal"] = first
    BY <2>1 DEF HeldInv
  <2>3. UNCHANGED <<wire, held, first>> /\ job' = "cfg" /\ kind' = "write" /\ reg' = "cfg"
    BY <1>2 DEF InaConfigure, CallWrite
  <2> QED
    BY <2>2, <2>3 DEF Nothing
<1>3. CASE DacSet \/ ReadOnce
  BY <1>3 DEF DacSet, ReadOnce
<1>4. CASE Returned
  BY <1>4 DEF Returned
<1>5. CASE (Program \/ Hardware) /\ UNCHANGED <<job, first>>
  <2>1. Transfer
    BY <1>5, RunIsTransfer
  <2>2. CASE job = "cal"
    BY <1>5, <2>1, <2>2 DEF Transfer, params
  <2>3. CASE job = "cfg"
    <3>1. kind = "write" /\ reg = "cfg" /\ held["cal"] = first
      BY <2>3
    <3>2. kind' = "write" /\ reg' = "cfg" /\ first' = first /\ job' = "cfg"
      BY <1>5, <2>1, <2>3, <3>1 DEF Transfer, params
    <3>3. held'["cal"] = held["cal"]
      BY <2>1, <2>3 DEF Transfer, TypeInv, I2cTypeOK, BusTypes
    <3>4. wire' # Nothing => wire'.reg = "cfg"
      BY <2>1, <2>3, <3>1 DEF Transfer
    <3> QED
      BY <3>1, <3>2, <3>3, <3>4
  <2>4. CASE job \notin {"cal", "cfg"}
    BY <1>5, <2>4
  <2> QED
    BY <2>2, <2>3, <2>4
<1>6. CASE UNCHANGED driverVars
  BY <1>6 DEF driverVars, i2cVars, params, bus
<1> QED
  BY <1>1, <1>2, <1>3, <1>4, <1>5, <1>6 DEF DriverNext, Call
-----------------------------------------------------------------------------
DriverInv == TypeInv /\ BusInv /\ NackInv /\ HeldInv /\ ClockInv /\ InitInv

LEMMA DriverInvInit ==
  ASSUME DriverInit
  PROVE  DriverInv
<1> USE I2cAssumption DEF DriverInit, I2cInit
<1>1. TypeInv
  <2>1. BusTypes
    <3>1. held \in [Regs -> 0..MaxCalls]
      OBVIOUS
    <3> QED
      BY <3>1 DEF BusTypes, Wires
  <2>2. ClockTypes
    <3>1. 0 \in 0..Lap - 1
      BY I2cAssumption
    <3> QED
      BY <3>1 DEF ClockTypes
  <2>3. ProgramTypes
    BY DEF ProgramTypes, Ok
  <2>4. CallInv
    BY DEF CallInv, Bounded, InWrite, InRead, WriteWait, ReadWait
  <2> QED
    BY <2>1, <2>2, <2>3, <2>4 DEF TypeInv, I2cTypeOK
<1>2. BusInv /\ NackInv /\ HeldInv /\ InitInv
  BY DEF BusInv, NackInv, HonestNack, HeldInv, InitInv, InWrite, WriteWait
<1>3. ClockInv
  BY DEF ClockInv, Clocked
<1> QED
  BY <1>1, <1>2, <1>3 DEF DriverInv

LEMMA DriverInvStep ==
  ASSUME DriverInv, [DriverNext]_driverVars
  PROVE  DriverInv'
<1>1. TypeInv /\ BusInv /\ NackInv /\ HeldInv /\ ClockInv /\ InitInv /\ MasterStep
  BY DriverIsMaster DEF DriverInv
<1>2. TypeInv'
  BY <1>1, BusTypeStep, ClockTypeStep, ProgramTypeStep, CallStep DEF TypeInv, I2cTypeOK
<1> QED
  BY <1>1, <1>2, BusStep, NackStep, HeldStep, ClockStep, InitStep DEF DriverInv

THEOREM DriverInvariant == DriverSpec => []DriverInv
<1>1. DriverInit => DriverInv
  BY DriverInvInit
<1>2. DriverInv /\ [DriverNext]_driverVars => DriverInv'
  BY DriverInvStep
<1> QED
  BY <1>1, <1>2, PTL DEF DriverSpec

(* Flags, clock, counters and status stay in range, whatever the bus does. *)
THEOREM I2cTypeCorrect == DriverSpec => []I2cTypeOK
<1>1. DriverInv => I2cTypeOK
  BY DEF DriverInv, TypeInv
<1> QED
  BY <1>1, DriverInvariant, PTL

(* A write that returned ok is in the device, from this call.              *)
THEOREM OkIsHeld == DriverSpec => []OkMeansHeld
<1>1. DriverInv => OkMeansHeld
  BY DEF DriverInv, HeldInv, OkMeansHeld
<1> QED
  BY <1>1, DriverInvariant, PTL

(* No way out of a transfer keeps the bus.                                 *)
THEOREM EveryStartIsStopped == DriverSpec => []StartsAreStopped
<1>1. DriverInv => StartsAreStopped
  BY DEF DriverInv, BusInv, StartsAreStopped, WriteWait, ReadWait
<1> QED
  BY <1>1, DriverInvariant, PTL

(* The NACK a caller sees is the device's answer to the second attempt.    *)
THEOREM NackIsHonest == DriverSpec => []HonestNack
<1>1. DriverInv => HonestNack
  BY DEF DriverInv, NackInv
<1> QED
  BY <1>1, DriverInvariant, PTL

(* With a clock that counts up, no wait before the address is cut short or *)
(* drawn out by the end of the lap.                                        *)
THEOREM ClockIsHonest == DriverSpec => []ClockHonest
<1>1. DriverInv => ClockHonest
  <2> SUFFICES ASSUME DriverInv, dir = 1, pc \in Clocked
               PROVE  waited < Timeout /\ Elapsed = waited + 1
    BY DEF ClockHonest
  <2>1. I2cTypeOK /\ ClockInv
    BY DEF DriverInv, TypeInv
  <2> QED
    BY <2>1, LookIsOneUnit DEF ClockInv
<1> QED
  BY <1>1, DriverInvariant, PTL

(* An ok of ina226_init means both registers, for any bus behaviour.       *)
THEOREM InitWritesBoth == DriverSpec => []InitMeansBoth
<1>1. DriverInv => InitMeansBoth
  BY DEF DriverInv, HeldInv, InitInv, InitMeansBoth
<1> QED
  BY <1>1, DriverInvariant, PTL
-----------------------------------------------------------------------------
(* How far a call is from its return: every wait has its place on the way, *)
(* and a retry starts below the attempt before it.                         *)
WriteStage ==
  CASE pc = "w_busy"  -> 6
    [] pc = "w_start" -> 5
    [] pc = "w_addr"  -> 4
    [] pc = "w_byte"  -> 4 - byteNo
    [] pc = "recover" -> 0

ReadStage ==
  CASE pc = "r_busy"  -> 8
    [] pc = "r_start" -> 7
    [] pc = "r_addr"  -> 6
    [] pc = "r_reg"   -> 5
    [] pc = "r_again" -> 4
    [] pc = "r_recv"  -> 3
    [] pc = "r_first" -> 2
    [] pc = "r_last"  -> 1

Stage ==
  IF pc \in InWrite THEN WriteStage + (IF attempt = 1 THEN 7 ELSE 0)
  ELSE IF pc \in InRead THEN ReadStage ELSE 0

(* The looks a wait with a clock or a count still has. *)
LooksLeft ==
  IF pc \in Clocked THEN Timeout - waited
  ELSE IF pc \in Bounded THEN MaxPolls + 1 - waiting
  ELSE 0

(* Whatever the bus does, a call passes each of its waits at most once,    *)
(* and each look in a wait with a clock or a count is one of a number      *)
(* fixed when the wait began: nothing the hardware does gives one back.    *)
ForwardOnly ==
  [][ pc # "none" =>
        \/ Stage' \in 0..Stage - 1
        \/ /\ UNCHANGED <<pc, Stage>>
           /\ LooksLeft' \in 0..LooksLeft
           /\ Program /\ pc \in Clocked \union Bounded => LooksLeft' # LooksLeft
    ]_driverVars

GoesForward ==
  \/ Stage' \in 0..Stage - 1
  \/ /\ UNCHANGED <<pc, Stage>>
     /\ LooksLeft' \in 0..LooksLeft
     /\ Program /\ pc \in Clocked \union Bounded => LooksLeft' # LooksLeft

(* Every wait has its place. *)
Places ==
  /\ Stage \in Nat
  /\ pc = "none"    => Stage = 0
  /\ pc = "recover" => Stage = (IF attempt = 1 THEN 7 ELSE 0)
  /\ pc = "w_busy"  => Stage = (IF attempt = 1 THEN 13 ELSE 6)
  /\ pc = "w_start" => Stage = (IF attempt = 1 THEN 12 ELSE 5)
  /\ pc = "w_addr"  => Stage = (IF attempt = 1 THEN 11 ELSE 4)
  /\ pc = "w_byte"  => Stage = (IF attempt = 1 THEN 11 ELSE 4) - byteNo /\ byteNo \in 1..3
  /\ pc = "r_busy"  => Stage = 8
  /\ pc = "r_start" => Stage = 7
  /\ pc = "r_addr"  => Stage = 6
  /\ pc = "r_reg"   => Stage = 5
  /\ pc = "r_again" => Stage = 4
  /\ pc = "r_recv"  => Stage = 3
  /\ pc = "r_first" => Stage = 2
  /\ pc = "r_last"  => Stage = 1

LEMMA StageIs == TypeInv => Places
<1> SUFFICES ASSUME TypeInv PROVE Places
  OBVIOUS
<1> USE DEF TypeInv, I2cTypeOK, ProgramTypes, CallInv, InWrite, InRead, WriteWait, ReadWait
<1>1. /\ pc = "none" \/ pc \in InWrite \/ pc \in InRead
      /\ pc \in InWrite => attempt \in {1, 2}
      /\ pc = "w_byte" => byteNo \in 1..3
  OBVIOUS
<1>2. /\ pc = "recover" => WriteStage = 0
      /\ pc = "w_busy"  => WriteStage = 6
      /\ pc = "w_start" => WriteStage = 5
      /\ pc = "w_addr"  => WriteStage = 4
      /\ pc = "w_byte"  => WriteStage = 4 - byteNo
  BY DEF WriteStage
<1>3. /\ pc = "r_busy"  => ReadStage = 8
      /\ pc = "r_start" => ReadStage = 7
      /\ pc = "r_addr"  => ReadStage = 6
      /\ pc = "r_reg"   => ReadStage = 5
      /\ pc = "r_again" => ReadStage = 4
      /\ pc = "r_recv"  => ReadStage = 3
      /\ pc = "r_first" => ReadStage = 2
      /\ pc = "r_last"  => ReadStage = 1
  BY DEF ReadStage
<1> QED
  BY <1>1, <1>2, <1>3 DEF Stage, Places

LEMMA NextStageIs == TypeInv' => Places'
BY StageIs, PTL

LooksTyped == LooksLeft \in Nat

LEMMA LooksLeftIs == TypeInv /\ ClockInv => LooksTyped
<1> SUFFICES ASSUME TypeInv, ClockInv PROVE LooksLeft \in Nat
  BY DEF LooksTyped
<1>1. pc \in Clocked => waited < Timeout
  BY I2cAssumption DEF ClockInv, TypeInv, I2cTypeOK, ClockTypes
<1>2. pc \in Bounded => waiting <= MaxPolls
  BY DEF TypeInv, CallInv
<1> QED
  BY <1>1, <1>2, I2cAssumption
  DEF LooksLeft, TypeInv, I2cTypeOK, ClockTypes, ProgramTypes

LEMMA NextLooksLeftIs == TypeInv' /\ ClockInv' => LooksTyped'
BY LooksLeftIs, PTL

(* The hardware moves neither the program nor its clock and counter. *)
LEMMA HardwareWaits ==
  ASSUME TypeInv, ClockInv, Hardware \/ UNCHANGED i2cVars
  PROVE  UNCHANGED <<pc, Stage, LooksLeft>>
<1>1. UNCHANGED <<pc, attempt, byteNo, waiting, waited>>
  BY DEF Hardware, Respond, BusFrees, DeviceTakes, Answer, Refuse, Fault, Outside,
     i2cVars, clock
<1> QED
  BY <1>1 DEF Stage, WriteStage, ReadStage, LooksLeft

(* An attempt that ends leaves the call or starts it again below. *)
LEMMA EndGoesDown ==
  ASSUME TypeInv, TypeInv', pc \in InWrite \ {"recover"}, UNCHANGED <<attempt, byteNo>>,
         NEW code, EndAttempt(code)
  PROVE  Stage' \in 0..Stage - 1
<1>1. pc' = "none" \/ (attempt = 1 /\ pc' = "recover")
  BY DEF EndAttempt
<1> QED
  BY <1>1, StageIs, NextStageIs
  DEF Places, InWrite, WriteWait, TypeInv, CallInv, I2cTypeOK, ProgramTypes

(* Every step of a running call goes forward. *)
LEMMA ProgramGoesForward ==
  ASSUME DriverInv, DriverInv', Program
  PROVE  GoesForward
<1>1. TypeInv /\ ClockInv /\ TypeInv' /\ ClockInv' /\ I2cTypeOK
  BY DEF DriverInv, TypeInv
<1>2. Places /\ Places' /\ LooksLeft \in Nat /\ LooksLeft' \in Nat
  BY <1>1, StageIs, NextStageIs, LooksLeftIs, NextLooksLeftIs DEF LooksTyped
<1>3. waited \in Nat /\ waiting \in Nat /\ Timeout \in Nat /\ MaxPolls \in Nat
  BY <1>1, I2cAssumption DEF I2cTypeOK, ClockTypes, ProgramTypes
<1>4. /\ pc \in InWrite => attempt \in {1, 2}
      /\ Elapsed \in Int
  BY <1>1, ElapsedIsInt DEF TypeInv, CallInv, I2cTypeOK
<1> USE DEF GoesForward
<1>5. CASE WriteBusy
  <2>1. pc = "w_busy" /\ UNCHANGED <<attempt, byteNo>>
    BY <1>5 DEF WriteBusy
  <2>2. CASE pc' = "w_start"
    BY <1>2, <1>4, <2>1, <2>2 DEF Places, InWrite
  <2>3. CASE LookClock /\ pc' = pc
    <3>1. waited' = waited + 1
      BY <1>1, <2>1, <2>3 DEF LookClock, ClockInv, Clocked
    <3>2. LooksLeft' = LooksLeft - 1
      BY <1>3, <2>1, <2>3, <3>1 DEF LooksLeft, Clocked
    <3>3. Stage' = Stage
      BY <1>2, <2>1, <2>3 DEF Places
    <3> QED
      BY <1>2, <2>3, <3>2, <3>3
  <2>4. CASE EndAttempt(TimedOut)
    BY <1>1, <2>1, <2>4, EndGoesDown DEF InWrite
  <2> QED
    BY <1>4, <1>5, <2>2, <2>3, <2>4 DEF WriteBusy
<1>6. CASE WriteLook
  <2>1. pc \in WriteWait /\ UNCHANGED <<attempt, byteNo>>
    BY <1>6 DEF WriteLook
  <2>2. CASE LookClock /\ pc' = pc
    <3>1. Stage' = Stage
      BY <2>1, <2>2 DEF Stage, WriteStage, ReadStage
    <3>2. CASE pc = "w_start"
      <4>1. waited' = waited + 1
        BY <1>1, <2>2, <3>2 DEF LookClock, ClockInv, Clocked
      <4>2. LooksLeft' = LooksLeft - 1
        BY <1>3, <2>2, <3>2, <4>1 DEF LooksLeft, Clocked
      <4> QED
        BY <1>2, <2>2, <3>1, <4>2
    <3>3. CASE pc # "w_start"
      <4>1. pc \notin Clocked \union Bounded
        BY <2>1, <3>3 DEF WriteWait, Clocked, Bounded
      <4>2. LooksLeft' = LooksLeft
        BY <2>2, <4>1 DEF LooksLeft
      <4> QED
        BY <1>2, <2>2, <3>1, <4>1, <4>2
    <3> QED
      BY <3>2, <3>3
  <2>3. CASE EndAttempt(Nack) \/ EndAttempt(TimedOut)
    BY <1>1, <2>1, <2>3, EndGoesDown DEF InWrite, WriteWait
  <2> QED
    BY <1>6, <2>2, <2>3 DEF WriteLook
<1>7. CASE WriteStarted
  BY <1>2, <1>4, <1>7 DEF WriteStarted, Places, InWrite, WriteWait
<1>8. CASE WriteSend
  <2>1. /\ pc = "w_addr" \/ (pc = "w_byte" /\ byteNo \in 1..2)
        /\ pc' = "w_byte" /\ byteNo' = (IF pc = "w_addr" THEN 1 ELSE byteNo + 1)
        /\ attempt' = attempt
    BY <1>2, <1>8 DEF WriteSend, AtByte, NextByte, Places
  <2> QED
    BY <1>2, <1>4, <2>1 DEF Places, InWrite, WriteWait
<1>9. CASE WriteNoTxe \/ WriteDone
  <2>1. pc \in {"w_addr", "w_byte"} /\ UNCHANGED <<attempt, byteNo>>
        /\ (EndAttempt(TimedOut) \/ EndAttempt(Ok))
    BY <1>9 DEF WriteNoTxe, WriteDone, AtByte
  <2> QED
    BY <1>1, <2>1, EndGoesDown DEF InWrite, WriteWait
<1>10. CASE Recover
  <2>1. pc = "recover" /\ attempt = 1 /\ pc' = "w_busy" /\ attempt' = 2
    BY <1>1, <1>10 DEF Recover, TypeInv, CallInv
  <2> QED
    BY <1>2, <2>1 DEF Places
<1>11. CASE ReadBusy \/ ReadDone
  BY <1>2, <1>11 DEF ReadBusy, ReadDone, Places
<1>12. CASE ReadStep
  <2>1. \E step \in ReadOrder : pc = step[1] /\ pc' = step[2]
    BY <1>12 DEF ReadStep
  <2> QED
    BY <1>2, <2>1 DEF Places, ReadOrder
<1>13. CASE ReadLook
  <2>1. pc \in Bounded /\ waiting' = waiting + 1
    BY <1>13 DEF ReadLook
  <2>2. CASE pc' = "none"
    BY <1>2, <2>1, <2>2 DEF Places, Bounded
  <2>3. CASE pc' = pc
    <3>1. LooksLeft' = LooksLeft - 1
      BY <1>3, <2>1, <2>3 DEF LooksLeft, Bounded, Clocked
    <3>2. Stage' = Stage
      BY <1>2, <2>1, <2>3 DEF Places, Bounded
    <3> QED
      BY <1>2, <2>3, <3>1, <3>2
  <2> QED
    BY <1>13, <2>2, <2>3 DEF ReadLook
<1> QED
  BY <1>5, <1>6, <1>7, <1>8, <1>9, <1>10, <1>11, <1>12, <1>13 DEF Program, WriteStep

(* A call goes from wait to wait towards its return, never back, and each  *)
(* wait with a clock or a count has a fixed number of looks, at most       *)
(* Timeout or MaxPolls + 1: what BoundedUntilAddress and ReturnsIfAnswered *)
(* rest on besides main's fairness.                                        *)
THEOREM CallsGoForward == DriverSpec => ForwardOnly /\ []LooksTyped
<1> DEFINE Forward ==
      pc # "none" =>
        \/ Stage' \in 0..Stage - 1
        \/ /\ UNCHANGED <<pc, Stage>>
           /\ LooksLeft' \in 0..LooksLeft
           /\ Program /\ pc \in Clocked \union Bounded => LooksLeft' # LooksLeft
<1>1. ASSUME DriverInv, [DriverNext]_driverVars
      PROVE  [Forward]_driverVars
  <2> SUFFICES ASSUME pc # "none" PROVE GoesForward
    BY DEF GoesForward
  <2>1. DriverInv'
    BY <1>1, DriverInvStep
  <2>2. CASE Program
    BY <1>1, <2>1, <2>2, ProgramGoesForward
  <2>3. CASE ~Program
    <3>1. Hardware \/ UNCHANGED i2cVars
      BY <1>1, <2>3 DEF DriverNext, Call, InaInit, InaConfigure, DacSet, ReadOnce,
         CallWrite, CallRead, Returned, driverVars
    <3>2. TypeInv /\ ClockInv
      BY <1>1 DEF DriverInv
    <3>3. UNCHANGED <<pc, Stage, LooksLeft>>
      BY <3>1, <3>2, HardwareWaits
    <3>4. LooksLeft \in Nat
      BY <3>2, LooksLeftIs DEF LooksTyped
    <3> QED
      BY <2>3, <3>3, <3>4 DEF GoesForward
  <2> QED
    BY <2>2, <2>3
<1>2. []DriverInv /\ [][DriverNext]_driverVars => [][Forward]_driverVars
  BY <1>1, PTL
<1>3. DriverInv => LooksTyped
  BY LooksLeftIs DEF DriverInv
<1> QED
  BY <1>2, <1>3, DriverInvariant, PTL DEF DriverSpec, ForwardOnly
=============================================================================
