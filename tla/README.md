# A formal model of the CH32V303 electronic load

The firmware under `src/` drives a programmable electronic load: a bare-metal
RISC-V program (one `main`, a handful of interrupts, no operating system) that
receives framed JSON commands on USART1, engages constant current or constant
voltage, watches for over-current and over-power faults, and reads INA226 monitors,
sets a DAC8571 over I2C, and drives a fan. This directory holds TLA+ models of its control logic,
the TLC runs that check them on small instances, and TLAPS proofs for every value of
the constants.

## 1. Inventory

| Part | State | Operations | Who calls it |
|---|---|---|---|
| Receive ring (`Drivers/protocol.c`) | `ring_buffer`: cells, `RecvPos`, `SendPos`, volatile `RemainCount` | `ring_buffer_push_huge`, `ring_buffer_pop` | the two receive interrupts push, `main` pops |
| Line assembly (`protocol.c`) | `line_buf`, `line_pos` | `protocol_poll` | `main` |
| DMA reception (`User/main.c`, `DMA_INIT`) | `Rx_Buffer[2][128]`, `DMA_USE_BUFFER`, the DMA channel, the flags IDLE and TC | `USART1_IRQHandler`, `DMA1_Channel5_IRQHandler` | hardware |
| Fault handling (`Drivers/fault.c`) | `fault_status_register`, `system_mode`, `cooldown_counter`, `fault_triggered`, `fault_source_mask` | `fault_handler_hw`, `fault_handler_opp`, `fault_state_machine`, `fault_clear`, `fault_init` | the control loop, the alarm interrupt |
| Command dispatch (`protocol.c`, `main.c`) | `system_mode`, targets, stored targets | `protocol_process_command`, `engage_cc`, `engage_cv` | the control loop |
| I2C master (`Drivers/i2c_util.c`) and its drivers (`ina226.c`, `dac8571.c`) | the bus, SysTick, DAC output, sensor registers | `i2c_util_write`, `i2c_read_once`, `i2c_util_bus_recovery`, `ina226_init`, `dac8571_set_output` | `main`, `fault_clear` |
| Frames, JSON, telemetry (`protocol.c`, `Drivers/cjson`) | bump arena, what is left in `line_buf` | `protocol_parse_frame`, `cJSON_Parse`, `cJSON_PrintUnformatted`, `protocol_send_telemetry`, `cdc_send_telemetry` | the control loop |
| Fan and tachometer (`fan.c`, `ch32v30x_it.c`) | duty, captures, period, stall counter | `fan_update`, `TIM3_IRQHandler` | the control loop, hardware |
| Status LED (`ws2812.c`) | DMA buffer, busy flag | `ws2812_*` | the control loop |
| USB CDC (`usb_cdc.c`, `ch32v30x_usbfs_device.c`) | endpoint buffers, busy flags, control-transfer state | `usb_cdc_write`, `usb_printf`, `USBFS_IRQHandler` | the host; the control loop |
| PID (`pid.c`), temperature (`temp_sensor.c`) | integral, last feedback, output; none | `pid_compute`, `pid_reset`, `pid_set_integral`; `temp_sensor_read` | `fan_update`; the control loop |

How they meet: the interrupts and `main` share the ring without a lock; `main` and
the alarm interrupt share `fault_triggered` and `fault_source_mask`; commands and the
fault logic both write `system_mode`; `fault_clear` writes the DAC over I2C; every
delay and every I2C time-out uses the same SysTick; `fan_update` and the capture
interrupt share four tachometer variables; commands and telemetry share one arena.

What is hard here: interrupts between two instructions of `main`, hardware going on
between two instructions of an interrupt, faults and alarms and commands in an order
nobody tried, retries that must be bounded, counters that wrap, and time-outs
measured with a timer the transfer itself reprograms. `PROJECT.json` lists each such
place under `hazards`, with the property that watches it.

**What the current `main` runs.** At this commit the loop of `main` reads sensors and
prints; its calls to `protocol_poll` and `protocol_process_command` are commented out
and nothing calls the fault handlers. The control loop those parts were written for is
laid out in `.planning/phases/02-control-loop-protection/04-PLAN.md` (lines 145-176). The
same plan resets the count of faults after 30 s without one (lines 178-191, D-03); no code
does, and no model does (section 5).
The models take each of these parts through its interface, with a caller that may
call any operation at any time it is `main`'s turn; Init is the state after the part's
own initialisation (`fault_init`, a zeroed ring).

## 2. Modules

| Module | Models | Uses |
|---|---|---|
| `BoundedFifo` | abstract: a bounded queue that may announce the end of its promise | |
| `RxRing` | the ring and the race inside `RemainCount--` | `BoundedFifo` (refinement) |
| `LinePoll` | `protocol_poll` over the ring | EXTENDS `RxRing`; refines it |
| `UsartDmaRx` | the two receive interrupts against the DMA channel | |
| `Protection` | abstract: trip, recover, lock, release | |
| `Fault` | `fault.c` and the alarm interrupt | |
| `LoadControl` | commands and modes composed with `Fault` | EXTENDS `Fault`; refines `Protection` |
| `FaultHistory` | `Fault` with history variables, for what its comments claim | EXTENDS `Fault` |
| `I2cMaster` | transfers, time-outs, recovery and retry over a bus that may fail | |
| `I2cDrivers` | `ina226_init`, the DAC writes and the reads of `main` | EXTENDS `I2cMaster` |
| `UsbControl` | the control pipe of the USB device, against a host that repeats and gives up | |
| `UsbCdc` | endpoint 3: packets from `main` to the host | EXTENDS `UsbControl` |
| `Pid` | one PID instance | |
| `TempSensor` | ADC reading to temperature | |
| `FanControl` | `fan_update` beside the capture interrupt | EXTENDS `Pid`, `TempSensor` |
| `CJson` | parser, builders and printer of `cJSON.c` on the bump arena | |
| `JsonLink` | frames, commands and telemetry over one `line_buf` and one arena | EXTENDS `CJson` |
| `ReceiveProofs` | theorems about `RxRing` and `LinePoll` | EXTENDS `LinePoll` and `TLAPS` |
| `UsartDmaRxProofs`, `LoadControlProofs`, `I2cDriversProofs`, `UsbCdcProofs`, `FanControlProofs`, `JsonLinkProofs` | theorems | EXTEND the modules they name and `TLAPS` (`LoadControlProofs` also `FaultHistory`) |
| `Recursion` | a function defined by recursion on the naturals is what its definition says | instantiated by `JsonLinkProofs`, once for each such function of `CJson` |
| `MC*` | values for TLC | |

A definition whose comment starts with "Mutant" is a plausible mistake in the
definition that follows it. No specification uses it; it exists so that one can
substitute it and see the property it names fail.

### 2.1 RxRing

One push is one step: both receive interrupts have preemption priority 1, so they do
not nest, and `main` cannot run inside them. `main` is a program counter: "poll" is
the test `RemainCount > 0`, "read" reads the cell and advances `SendPos` (only `main`
touches it), "load" and "store" are the two halves of `RemainCount--`. Bytes are
numbered in the order the ring accepts them, so order, loss and duplication show in
the cells themselves. The history variables `pushed`, `popped` and `lost` do not exist
in the code.

What it says: `CountAccounted` gives the exact error of the counter (short by what was
pushed between the load and the store, never repaired); `NoPhantom` that `main` never
reads an unfilled cell even so; `InOrder` and `Delivered` what holds until the first
lost increment; `ImplementsFifo` that up to there the ring is a bounded FIFO.

### 2.2 LinePoll

The ring's actions, driven by `protocol_poll`: gather a byte, look at the cell behind
a delimiter without popping it, swallow the second half of a pair, return a non-empty
line. The kind of each byte (CR, LF, NUL, other) is chosen at the start; every stream
of 5 bytes is checked with every chunking. `LinesFaithful` compares what was returned
with `LineAt(k)`, the line the k-th byte ends if it is a delimiter: a reference that
looks for the delimiter before it in the stream and knows nothing of chunks. A pair cut between two chunks yields a blank second line, which
is not returned: that is why the reference holds.

### 2.3 UsartDmaRx

Each register access of the two interrupts that the hardware can race with is a step.
The hardware may receive one byte or see the line go idle between any two of them, at
most one such event per interrupt: a character takes 95 us at 115200 baud, an
interrupt a few. The ring here is a log without a clamp. `NothingLost` names exactly
two windows in which a byte goes astray (`LandsBadly`, recorded in `slip`): between
the read of CNTR and the disabling of the channel in the idle interrupt, and, for the
last byte of a half, also before the read. Everywhere else the log and the hardware
hold the wire's bytes, once each.

### 2.4 Fault, LoadControl, Protection, FaultHistory

A handler is two steps (its body, then `fault_triggered = 0`) because the alarm
interrupt may land in between; every other call is one step, since nothing else in
`main` runs meanwhile and no interrupt writes what it reads. `fault_type` starts and is
cleared as "OC", which is what enumerator 0 means in the code. `Reboot` is the reset
that `HardFault_Handler` performs. `last_dac_value` is left out: every assignment to it
stores 0.

`FaultHistory` records whether an alarm waits that no handler was given (`pending`), and
whether it met another handler (`overlap`): an alarm landed while one ran, or the
over-power handler started over it.

`BoundedRetries` counts the retries made on one count of faults: `autoRetries` starts anew
when the count is zeroed, as it would if something zeroed the count in the middle of a run. In the
code only `fault_clear` and a reset do. `Protection` allows a `Release` at any time the
load is not locked, so the missing reset by time would refine it too: neither property tells
a program that has it from one that has not (section 5).

`LoadControl` adds the commands. A command's JSON is abstracted to its fields
(`NoField` when absent or not a string), currents and voltages are the integers
`atoi` returns. `reply` is the answer of the last step only. `ImplementsProtection`
maps the register to "running", "tripped" or "locked". `RangeChecked` says that no step
outside IDLE takes a target, stored or engaged, out of the hardware range; in IDLE the
code does not look (section 5), which is why the property is about steps and not
states. `ActiveTargetStored` says that the engaged target is the stored one, by whichever command
and in whichever mode it came there. What an ok to command 101 means in IDLE the documents and
the code do not agree on: the comment says it stores, the branch engages what is positive.
The model follows the branch, and no property says which is right (section 5).

### 2.5 I2cMaster, I2cDrivers

A step of the program is one look at the flags together with what it does up to the
next look; `pc` names the flag it waits for. The bus and the device may do anything in
between, or nothing: take the byte, let the awaited event happen, refuse (AF), raise
BERR or ARLO, free the bus. The payload is the number of the call that sent it, so
`held[r]`, what register `r` holds, tells which call wrote it last. The write of a
STOP lets a byte already on the wire finish; the recovery, which disables the
peripheral, loses it. Every caller in `src/` sends three bytes, of which the device
acts on the third.

SysTick is the clock of the time-out and also what `Delay_Ms` runs on. The code never
says which way it counts, so `dir` is either; nothing but `ClockHonest` depends on it.
`i2c_timeout_start` starts it, the wait for BUSY and the one for START run under it, and
`Delay_Ms(10)` after the address leaves it stopped, so that from there on
`i2c_has_timed_out` gives the same answer for ever, "yes" or "no" by what the stopped
counter happens to hold. The run `i2c_hang` shows the "no". `ClockHonest` speaks of a clock
that counts up, before `Delay_Ms` has stopped it. The reads do not use it: they count looks, and wait without bound for
START, for RXNE and for the second byte. A failed `i2c_read_once` returns 1 (`FALSE`
of `ina226.h`), which is not `I2C_OK`.

What it says: `OkMeansHeld` that an ok is not owed to a byte of an earlier attempt or
call; `HonestNack` that a NACK is not a flag some read left behind, thanks to the
reset inside the recovery; `StartsAreStopped` that all ways out give the bus back;
`ClockHonest` that the 24-bit difference is the time waited even across a lap;
`BoundedUntilAddress` and `ReturnsIfAnswered` which waits end by themselves and which
only on an answer; `InitMeansBoth` that the two writes of `ina226_init` stand together.

### 2.6 UsbControl, UsbCdc

`UsbControl` is `USBFS_IRQHandler` for endpoint 0. The controller answers NAK while its
interrupt is pending, so a transaction and its interrupt are one step. The host follows
chapter 8 of the USB specification and takes its liberties: it may give a transfer up
for another at any point, lose a handshake, reset the bus. A byte is a pair of what it
belongs to and its place; `Due` is what the host must get, computed from the request and
from what the host has set before, without looking into the device. `known` is "?"
between the SETUP of a request that sets something and its status stage.

`UsbCdc` adds the bulk endpoint. `main` changes `UEP3_TX_CTRL` by a load and a store, and
clears and sets `Busy` by itself; the interrupt does both at the end of a transaction; a
SETUP and a bus reset do either. A transaction is two steps, since the program runs
while a packet is on the wire. The wait of `usb_cdc_write` takes time only, so it and
`usb_printf` are one `Send`. Nothing calls either at this commit (the redirection in
`debug.c:221-235` is a comment); enumeration, by contrast, runs.

What it says: `DataExact` that a read gets its bytes, once each and all of them, after
any history; `Answered` that the device never lets a transfer run into the host's
time-out, but for one case, which it describes instead of leaving it out: when the ACK of the
last packet of a read is lost, the device may still hold that packet for an IN the host
will not send, and then answers the status stage by NAK for ever, since only the interrupt
of that ACK arms it;
`HostAgrees` that what the host was told holds. `StreamHonest` and `PacketsAccounted`
hold outside `slip`, the list of windows in which a packet is lost or doubled: an
interrupt between a load and a store that moves the toggle, a forced reset while the
packet is on the wire or after its ACK was lost, a bus reset between setting `Busy` and
arming, a CLEAR_FEATURE given up after its SETUP, and SET_CONFIGURATION, whose handler
does not rewind the endpoints' toggles as the host does. Each window is needed: without
any one of them the run fails.

The host of the model sends data only with class requests, as the CDC class does: a
standard or vendor request with data from the host and no such stage in the standard
would be accepted by the device and never answered.

### 2.7 Pid, TempSensor, FanControl

`Pid` is `pid_compute` over integers in the unit of the output, with the time step folded
into the gains; `saturated` remembers which limit cut the last output, which decides
whether the integral moves. `TempSensor` is the whole table with its clamps, in tenths
of a degree.

`fan_update` is cut at each access to a variable `TIM3_IRQHandler` writes; `pc` is the
place. The interrupt's difference is the 32-bit one of the code over a counter that
starts again after `Lap` ticks: a capture after a lap gives a period near 2^32 and a
speed of 0. `stall_cycle_counter`, `tacho_timeout` and `fan_rpm` wrap at their widths.
`steady`, `moved`, `missed`, `silent` and `hot` are histories, counted up to what the
properties ask for.

What it says: `NoFalseStall`, that one forward edge outside the update is enough for a
cycle to count as turning, whatever the others race with; `StallSeen` and `NoStaleSpeed`,
that a stopped fan is seen and shows 0, also when the counters wrap; `StallFlagReturns`,
that the register regains the bit `fault_clear` zeroed; `IntegralNotWound`, that, whatever
the three gains, the integral goes below 0 by at most one step of an error beyond what the
two other terms can outweigh, although the error is negative for as long as the heatsink
is hot. It is about the low limit only: above, `PID_INTEGRAL_MAX` is `PID_OUTPUT_MAX`, and the
clamp says more than the freeze.

`StallSeen` is conditioned on the gains the code runs with. `fan_pid` is never
initialised, so they are 0 and a hot fan always gets its minimum of 30 percent. With
other gains the PID acts in reverse (hotter gives less), and an output above `PidMax`
makes the sum of the duty wrap in its byte: a hot fan may then get less than 30 percent,
and a fan that is not driven is not watched.

### 2.8 CJson, JsonLink

A text is a sequence of tokens, and the arena gives out memory from `used` upwards and
takes none back, so parser, builders and printer are functions from what is used to a
result and what is used then; each allocation may fail. The recursion of the C functions is
a function of how many calls may still nest (`Parsers[n]` calls `Parsers[n - 1]`), which is
what makes it possible to prove something about it, and so are the loops over the children
(`AddChildren`, `PrintList`); `Nested`, where it begins, is at least
the length of `line_buf` and never felt: a level of nesting takes a token. `JsonLink` is what
`protocol.c` does with a line and with a record: `line_buf` is filled over what an
earlier line left, the header is taken off, the body parsed, and telemetry built and
printed in the same arena. `Render` and `Needs`, the text JSON gives a tree and the memory
it takes, are no code: they are what the parser and the printer are compared with.

What it says: `FitMeansAccepted`, that a whole body is taken, as the tree it was made
from, exactly when it fits, after any history of refused bodies, commands and records;
`OwnLineOnly`, that a body with closed strings is taken only as what it says, whatever is left
in `line_buf`;
`TelemetryWhole`, that a record whose tree fits is printed with every field or not at all.
Each of the three stops at a fact of the code. A string that is not closed ends at the
NUL, and the parser steps over it into the leftover (`cJSON.c:207`), so "what is
dispatched is the line's own body" is false: a body that is one string without its last
quote is taken as that string, and one that ends inside a string may be taken with what an
earlier line left. (Should the line fill `line_buf`, the step ends behind it; the model reads
a NUL there.) The printer of an object has one byte too few
for every name but the first (`cJSON.c:503`), so colons are cut. And in an arena too small
for the tree a record is printed with fields missing, down to `{}`.

## 3. Runs

| Run | Instance | What it shows |
|---|---|---|
| `rx_ring` | 4 cells, chunks up to 3, 10 bytes | two and a half laps: each wrap, `RecvPos = RingLen`, a full ring, a clamped chunk, a push at each instruction of a pop |
| `line_poll` | 3 cells, chunks up to 2, lines of 2, every stream of 5 bytes | lines across the wrap, too long, blank, cut inside a pair |
| `line_stuck` | violation | a lost increment leaves a complete line unread for ever |
| `usart_dma` | halves of 3, 8 bytes | swaps at every fill level, both interrupts pending, stale content of both halves |
| `load_control` | the code's latch threshold 5, a cooldown of 3 cycles for its 30, channels {0, 4} | every order of commands, faults, alarms, clears, resets; a retry on each count below the threshold |
| `i2c` | three registers, a lap of 7 looks, a time-out of 5, a delay of 1, one look per bounded wait of a read, two call numbers in turn | every driver call in any order over a bus that refuses, fails or falls silent at any point; what a status means to its caller |
| `i2c_hang` | violation | a device silent after its address stops `main` |
| `usb` | packets of 2 bytes; descriptors shorter than a packet, of 3 and of 4 bytes; 3 transfers, 3 packets, 5 of them and the reset together; one lost handshake, one bus reset | every request, given up anywhere, and every interleaving of `main`, interrupt and host |
| `fan` | a shorted sensor and a cool reading, gains {0, 0, 0} and {1, 1, 1}, a counter of 3 ticks, time-out 2 in a width of 4, stall after 2 in a width of 4 | edges anywhere in an update, across the end of the counter; counters that wrap; the clear; the PID from limit to limit |
| `json` | arenas of 104 bytes and of the real 4096; four bodies, whole, cut, or with a token lost; other chip, response, damaged header; two records with the real field names and widths | what is taken and as what; what a record needs |
| `telemetry_json` | violation, the real arena | no record leaves the load as the JSON the comments promise |
| `fault_alarm` | violation | an alarm that lands while a handler runs is cleared unseen |

Why the bounds are enough. The ring's behaviour depends on the distance of its
positions to the end and to each other, and 4 cells with chunks of 3 give every
relation between them; the proofs remove the bound. The line module needs a
line longer than `LineMax` behind a delimiter and a pair across the wrap, which 5 bytes
hold. The DMA module needs a half filled, a half caught part-way, and each half reused
with stale content: 8 bytes over halves of 3. The load needs as many faults as the
threshold between two clears, alarms at every point of a cooldown, and a value on each
side of each limit. The I2C module needs a wait for BUSY long enough that the next one crosses
the end of the lap (5 of 7, as 1000 ms of 1398 ms) and a call to tell from the one
before it; calls have no other memory than the flags. The USB module needs a configuration, a second
transfer and a third that ends it, or one with two packets whose toggles differ; a third
packet shows whether the toggles agree again. The fan needs a hot and a cool reading, one
error twice the other so that sums reach neither limit exactly, an output past `PidMax`,
and every counter to wrap: the real limits are 5 in 65536 and 20 in 256, and what matters
is limit < width. `Target` is 49.4 degrees for the code's 50, which puts the errors at -506 and
+253 tenths. The JSON module needs a body that fits the small arena and one that does not, and a
second line behind a longer one; the cuts are those inside a string, behind a colon and
behind a whole value. `usart_dma` and `usb` switch deadlock
checking off: when all bytes, calls and transfers of the bound are done, nothing is left
to do.

Fairness. `main` never blocks inside the modelled calls and keeps polling, so its steps
are weakly fair; a pending interrupt is taken; a handler reaches its end; the state
machine runs once per control cycle; `fan_update` is called once per cycle and finishes; a
transfer keeps looking at its flags. Nothing
outside owes anything: no fairness on bytes, edges, commands, alarms, clears or resets.
`ReturnsIfAnswered` alone has a premise, that the device answers, and states it.

## 4. Proofs

All theorems hold for every value of the constants, from the named assumptions in the
modules (`RingAssumption`, `LineAssumption`, `DmaAssumption`, `FaultAssumption`,
`LoadAssumption`, `I2cAssumption`, `DriverAssumption`, `PidAssumption`, `FanAssumption`,
`UsbAssumption`, `CdcAssumption`, `JsonAssumption`, `LinkAssumption`). They say what a constant
is; four say more.
`DmaAssumption` wants a buffer longer than two bytes: with fewer a byte that lands in
the full interrupt could refill the half and have its own flag cleared.
`FanAssumption` wants the widths above the limits they count to, and
a speed that does not come out as 0 for a fan that turns. `UsbAssumption` gives the class and
standard requests the lengths the standard gives them, and data from the host to class
requests only. `LinkAssumption` lets the calls nest as deep as `line_buf` is long, which no
body needs, and makes the record a tree of no greater depth.

* `ReceiveProofs`, the ring. The inductive invariant adds to `RingTypeOK` and `CountAccounted`
  that a pop past its guard has a byte to read, that the count register is below the
  counter by at most what was pushed since, and, while nothing is lost, where
  `RecvPos` stands relative to `SendPos` and which byte each occupied cell holds. From
  it: `RingTypeCorrect`, `CountIsAccounted`, `NoPhantomBytes`, `BytesInOrder`, and
  `RingImplementsFifo` (every step maps to `Offer`, `Take`, `Degrade` or a stutter).
* `ReceiveProofs`, the lines. `LinePollImplementsRing`: each step of `protocol_poll` is a step
  of the ring's `main`; the only thing to carry is that the unguarded pop of the second
  half of a pair finds `RemainCount > 0`. `LinePollReadsFifo` composes it with the ring's
  refinement. `LineTypesHold`: the line buffer keeps room for
  its terminator. `LinesAreFaithful` needs `CutInv`, which says at each place of the loop
  how far the stream has been cut: up to the bytes popped while a line is gathered, one
  byte less while a delimiter is looked behind, and, for a pair, one byte more once its
  second half is popped. A step extends the reference by one byte, so each case is a
  lemma about `Piece`, `LastDelimiter` and `CString` (`GatherCuts`, `FinishCuts`,
  `PairCuts`); a second half makes an empty piece, which the reference forgets as the code does.
  `IdleMeansReturned` follows for a `main` that finds the counter at 0.
* `UsartDmaRxProofs`. `NothingLost` alone is not inductive. The invariant adds which half
  the channel writes at each place of a handler (`Swapping`), that a byte waits unfetched only
  while the channel is off or its half full (`Fetched`), and, while no window was hit, that a
  full half has its flag set (`FullSeen`), that the bytes pushed plus those in the half
  being pushed plus those in the hardware count up to what arrived (`Counted`) and are
  numbered in that order (`Numbered`). `ClearIsHarmless` is about steps: only `Arm` empties an
  occupied data register, into the first cell of the half it arms, because `Fetched` leaves
  nothing for the clear of IDLE to read. `QuietLineIsPushed` adds `EventDue`: while a byte is in
  the hardware, the line is still to go idle or a flag is up that the running handler will
  not clear.
* `LoadControlProofs`. `LatchConsistent` is inductive together with the types;
  `BoundedRetries` (for one count of faults) needs its three parts together: the retries alone are not inductive,
  but "fewer retries than counted faults while in FAULT" is. `TargetsAreStored`,
  `NackHasNoEffect` and `FaultIsIsolated` follow from the types and the action
  definitions; `LoadImplementsProtection` from `LatchConsistent`.
  `RangesAreKept` needs only that no limit is below 0. `AlarmsDropByOverlapOnly` is about
  `FaultHistory`, whose run shows that alarms are dropped: these are the only ways.
* `FanControlProofs`. Each property has a part that ties a counter of the code to a
  history: the stall counter is at most `missed` (`StallCounted`), the time-out at least `silent` until it
  expires (`Aged`), a fan hot for a cycle is driven (`Driven`), so that silence is counted
  (`StillCounted`). For the integral the part is `Outweighed`: an output not cut to 0
  bounds a negative integral by the proportional and the derivative term, and the next step
  down starts from there; the last feedback is a reading, or the 0 of the start.
* `I2cDriversProofs`. The invariant has a part per question: where a transfer may be
  open; that AF in a second attempt is a refusal of that attempt; that the wire holds
  the byte sent last, so that an event after the third byte means the register holds
  this call's number; that the clock's distance from its start, modulo one lap, is the
  time waited; that nothing reaches the calibration register between the two writes of
  `ina226_init`. `InitMeansBoth` needs the third part: when the first write has
  returned ok, none of its bytes is left on the wire. `CallsGoForward` ranks the waits of a
  call and the looks left in each; both only go down.
* `UsbCdcProofs`. Every step of the system is a move of the control pipe or leaves it
  alone, and every move keeps `PipeInv`: for each stage of a transfer, what the device has
  armed, with which toggle, and how many bytes are left, so that the bytes the host has are a
  prefix of those due. At the status stage of a read it says that the device is ready, or that
  the last ACK was lost and the packet is still armed, with the toggle the host has left behind. `DataExact`, `Answered` and `HostAgrees` follow for every packet size,
  descriptor and set of requests. `StreamInv`, outside the windows, says who owns
  endpoint 3: `main`, or a clear `Busy`, means nothing is armed or on the wire and the toggle is
  the one the host expects. It needs `PipeInv` for the toggle of CLEAR_FEATURE: its status
  stage is neither stalled nor reached from a data stage.
* `JsonLinkProofs`. `OwnLineOnly` is inductive once the arena is known to be empty between two
  lines; what it rests on is `ParseTakesTheLine`, about `cJSON_Parse` alone, for every line,
  length of the buffer and size of the arena: what the parser makes of a text is, written out
  again, that text. The proof is an induction over the nesting left: if the calls one level
  down read what they stand at (`Told`), so do the loops of `parse_array` and `parse_object` and
  `parse_value` (`ElementsStep`, `MembersStep`, `ValueStep`). The part that carries it past the
  end of the line is the parity of the quotes: behind a part of the line with an even number
  the parser stands outside a string, so it gets over the NUL only inside a string the line
  leaves open, and then the number in the body is odd. The induction itself is about a set
  of naturals (`Recursion`), from the well-foundedness of `<`, and `Recursion` shows that each
  recursive function of `CJson` exists and is what its definition says.
  `FitMeansAccepted` is the converse: `ParseTakesTheTree` says that `cJSON_Parse`, given the text
  of a tree, leaves that tree if the arena has the `Needs` of it to spare, and refuses it
  if not. Its induction is over the nesting left too (`Fits`): with `d` levels left a call takes
  the texts of at most `d` tokens, since each call stands at least one token behind the one
  that made it (`ElementsStepFits`, `MembersStepFits`, `ValueStepFits`), and a body has no more
  tokens than `Nested` (the assumption `BufLen <= Nested`). A list that does not fit leaves
  nothing; a string that does not fit leaves the place where it was, on its opening quote
  (`ValueFits`), and it is the caller that finds no comma, bracket or NUL there. The texts come
  apart where the parser cuts them (`ListComesApart`, `MemberComesApart`, `StringStands`), and
  what a tree takes is the sum of what its parts take (`TreeShapes`), so the arena runs out
  in the middle of a tree only if the whole does not fit.
  `TelemetryWhole` (`RecordsArePrintedWhole`) rests on `TreeIsPrinted`, about builders and printer
  alone, for every tree, arena and place in it: with room for the tree's `Needs` the builders
  leave that tree, and take that much; and the printer leaves NULL or a text that differs from
  the tree's in its colons at most. Both are inductions over the nesting (`BuildStep`, `PrintStep`), and
  inside one over the children (`ChildrenAdded`, `LoopPrints`). For the builders it is that a
  list built so far is the beginning of the list, and takes what its members take (`TotalsGrow`).
  For the printer, that the text so far, with what is still to come behind it (`Behind`), is
  the whole text but for colons (`Same`). The character `snprintf` may cut (`Printf`) is then the
  question. Behind an element there is always room (`ElementPrinted`). Behind the name of a member
  that is not the first there is one byte too few, and the last character of that text is the
  colon (`MemberPrinted`), which takes one byte: the assumption that no mark is wider.

The prover does not reach what holds under fairness. For each such property a theorem says
what the code has to get right for it, a rank that only goes down or the state the
property leads to:

| Checked under fairness | Proved |
|---|---|
| `Delivered`, `LineReturned` | `IdleMeansReturned`: a `main` with nothing to pop has returned all lines, if no increment was lost |
| `Pushed` | `QuietLineIsPushed`: a quiet line with no flag up has been pushed whole |
| `FaultEnds` | `CooldownNeverRestarts`: each pass in FAULT is one cycle less to go |
| `BoundedUntilAddress`, `ReturnsIfAnswered` | `CallsGoForward`: no wait comes twice, no look is given back |
| `StallFlagReturns` | `StallFlagIsDue`: the bit is back, or the stall over, after at most `StallCycles + 1` updates |
| the liveness halves of `ImplementsFifo`, `ImplementsRing`, `ImplementsProtection` | their safety halves |

Only model-checked: the leads-to itself in these. Every invariant and every action property
of a passing run is a theorem.

## 5. Where the documents and the code part

Shown by a run (see `findings` in `PROJECT.json`): the lost increment, an alarm cleared
unseen, the time-out whose clock the transfer stops, and telemetry that never leaves as
JSON: the colons of all members but the first of an object are cut, and the record of a
load that runs needs 4536 bytes of an arena of 4096 (3984 for the shortest record), so it
is not sent at all. Seen while reading or in exploratory
runs, with no run of their own, first two that the models of section 2.4 step around. The
retry counter is reset by `fault_clear` and a processor reset only: `fault.h:9-10` and
`fault.c:9` promise a "30-second fault-free retry counter reset", `fault.h:91-92` declares
the register "so main.c can access retry_count" for it, `04-PLAN.md:178-191` gives the code
and `02-VERIFICATION.md:41` and `88` tick it off at `main.c:389-398`, but `main.c` has 315 lines,
`FAULT_FREE_RESET_MS` is used nowhere, and `fault_free_ms` is zeroed once and never
counted, so faults hours apart add up to the permanent latch. Command 101 in IDLE engages a
positive target at once, as the comments at `protocol.c:671` and `684` say, while its
heading (`protocol.c:608`) says "values stored for later use by command 102" and its test
(`test_protocol.py:177`) "store only"; that test sends the command in CV mode and so
does not notice. There the command also checks no range. Further: the fault type is BOTH
after a first over-power fault; a malformed frame gets no answer at all, while a malformed body in a response gets an error
frame; error 103 is never sent; `fault_clear` tests no
mode; `ring_buffer_pop` reads the cell whether or not the ring is empty, which its
callers prevent. Of the I2C code: a time-out on BUSY returns without the STOP the
comment at `i2c_util.c:138` promises (there is nothing to stop); no read turns ACK off
before the last byte (comment at 233); the waits of a read are not all bounded,
`.planning/phases/01-hardware-foundation/01-VERIFICATION.md:33` notwithstanding;
`i2c_util_read` is declared and never defined; `main` ignores the status of its reads
and prints what the variable held before. Of the USB code: `usb_cdc.h:44-45` says
`usb_printf` drops its data if the endpoint is busy, while it withdraws the packet that
waits and sends the new one (as `usb_cdc.c:37-38` says); its length is not cut to the
packet; GET_LINE_CODING sets a length of 7 and overwrites it with the host's; the
next packet undoes a halt the host has set on endpoint 3. Of the fan: the comment at
`ch32v30x_it.c:206` that a 32-bit subtraction handles the 16-bit wrap is wrong, the period
comes out near 2^32 and the speed 0; an open sensor reads -40 degrees and stops the fan; the
last entry of the temperature table is never used; a reading of 51 gives 172.9 degrees and one of
50 gives 100; `tacho_timeout++` races with the interrupt that clears it. Of the parser: names are
compared without case and the first of two equal names wins.

## 6. Not modelled

The LED (`ws2812.c`): nothing initialises it, its DMA channel belongs to the USART reception,
and the handler that would end a transfer is a comment, so as built there is no behaviour to
model. `cdc_send_telemetry` prints one line with `snprintf` and keeps a sequence number.
Of the USB device: endpoint 2, whose data is acknowledged and thrown away, endpoint 1, which
nothing arms, suspend, vendor requests, and packet lengths, with `usb_printf`'s uncut one. Of
cJSON: escapes, white space, the spelling of numbers, and the functions nothing in `Drivers/`
calls. Lines longer than `line_buf` are in `LinePoll` only. The rounding of the PID's
floating point and the conversions `main` prints. `main`'s start-up sequence: straight-line
calls. In the I2C part: the bits of a byte, what a read returns to its caller (it is only
printed), and the level of the bus lines during a recovery, whose outcome is either a free
or a held bus. That `fault_clear` declares the load IDLE whatever its DAC write returned is
in `Fault` (it drops the status) and `OkMeansHeld` says what that status would have told;
the two are not composed.

Vendor code (`Peripheral/`, `Core/`, `Startup/`, `Ld/`, `example/`) is the chip maker's
library and sample programs, nearly all of the repository's lines; the firmware's own code is
`User/` and `Drivers/`. Only what these use of the library appears, marked external.

## 7. Plan

1. `fault_clear` composed with the I2C master: a load declared IDLE whose DAC write failed.
2. Proofs: nothing that a run checks is left but what holds under fairness. How many bytes a
   printed text takes of the arena could be a function like `Needs`; with it, which records
   are sent at all would be a theorem as well.
