----------------------------- MODULE I2cDrivers -----------------------------
(***************************************************************************)
(* The callers of the I2C master: ina226_init (Drivers/ina226.c), which    *)
(* writes the calibration and then the configuration and gives up after    *)
(* the first failure, the single writes of Drivers/dac8571.c, and the      *)
(* reads of the loop of main (User/main.c).  main calls them in any order. *)
(***************************************************************************)
EXTENDS I2cMaster

ASSUME DriverAssumption == {"cal", "cfg", "dac"} \subseteq Regs

VARIABLES
  job,   (* the driver call that runs: "cal" and "cfg" are ina226_init *)
  first  (* history: number of the calibration write of ina226_init *)

driverVars == <<i2cVars, job, first>>

DriverInit == I2cInit /\ job = "none" /\ first = 0

Idle == pc = "none" /\ job = "none"

InaInit ==
  /\ Idle
  /\ CallWrite("cal")
  /\ job' = "cal" /\ first' = NextCall

(* Mutant: the status of the calibration is not looked at. *)
InaConfigureAlways ==
  /\ job = "cal" /\ pc = "none"
  /\ CallWrite("cfg")
  /\ job' = "cfg" /\ UNCHANGED first

InaConfigure ==
  /\ job = "cal" /\ pc = "none" /\ status = Ok
  /\ CallWrite("cfg")
  /\ job' = "cfg" /\ UNCHANGED first

(* ina226_init, or a single call, has returned the status to main. *)
Returned ==
  /\ pc = "none"
  /\ \/ job \in {"cfg", "single"}
     \/ job = "cal" /\ status # Ok
  /\ job' = "none" /\ first' = 0
  /\ UNCHANGED i2cVars

(* dac8571_init and dac8571_set_output, and fault_clear through it. *)
DacSet == Idle /\ CallWrite("dac") /\ job' = "single" /\ UNCHANGED first

ReadOnce ==
  /\ Idle
  /\ \/ \E r \in {"cal", "cfg"} : CallRead("reg", r)
     \/ CallRead("dac", "dac")
  /\ job' = "single" /\ UNCHANGED first

Call == InaInit \/ InaConfigure \/ DacSet \/ ReadOnce

DriverNext ==
  \/ Call
  \/ Returned
  \/ (Program \/ Hardware) /\ UNCHANGED <<job, first>>

(* The program keeps looking; nothing on the bus owes it an answer. *)
DriverSpec ==
  DriverInit /\ [][DriverNext]_driverVars
    /\ WF_driverVars(Program /\ UNCHANGED <<job, first>>)
-----------------------------------------------------------------------------
(* ina226.h: ina226_init "Returns the combined status (fail if either      *)
(* write fails)": an ok means that both registers hold what it wrote.      *)
InitMeansBoth ==
  pc = "none" /\ job = "cfg" /\ status = Ok =>
    held["cal"] = first /\ held["cfg"] = call

(* Up to the address every wait of a write ends, in both attempts, even    *)
(* with a dead bus: the clock runs and is started again after a recovery.  *)
BoundedUntilAddress == pc \in Clocked ~> pc \notin Clocked

(* On a bus where a device takes, refuses or answers what is asked of it   *)
(* in the end, every call returns: no wait misses the answer it waits for. *)
ReturnsIfAnswered ==
  WF_driverVars(Respond /\ UNCHANGED <<job, first>>) => (pc # "none" ~> pc = "none")

(* i2c_util.h promises a "timeout at each step" of a write.  Delay_Ms      *)
(* stops the clock after the address, so a silent device stops main.       *)
WriteReturns == (kind = "write" /\ pc # "none") ~> pc = "none"
=============================================================================
