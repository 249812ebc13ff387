--------------------------- MODULE Adxl345Device ---------------------------
(***************************************************************************)
(* The register protocol of the ADXL345 (DeviceState): the byte registers *)
(* the driver configures, the read-modify-write of POWER_CTL bit 3, the   *)
(* 6-byte block read of the data registers, and the device functions of   *)
(* utility.rs built from them, one SMBus transaction per step.            *)
(*                                                                         *)
(* Every caller holds the device SpinLock for a whole function, so one    *)
(* function runs at a time; the accelerometer samples concurrently with   *)
(* it.  adxl345_device_init drops the lock for its 2 ms sleep, but runs   *)
(* inside probe, before any other caller can reach the device.            *)
(***************************************************************************)
EXTENDS Integers, Adxl345Decode

CONSTANTS
    InitRegs,     \* register files the device may hold when the driver starts
    RawSamples,   \* raw full-resolution readings the device may produce
    Faults        \* TRUE: every transaction may fail

Regs == {"POWER_CTL", "INT_ENABLE", "BW_RATE", "DATA_FORMAT", "INT_MAP", "FIFO_CTL"}
Axes == {"x", "y", "z"}

ASSUME InitRegsAssumption == InitRegs \subseteq [Regs -> Byte] /\ InitRegs # {}
ASSUME RawSamplesAssumption == RawSamples \subseteq [Axes -> FullRes] /\ RawSamples # {}
ASSUME FaultsAssumption == Faults \in BOOLEAN

\* The device functions of utility.rs (and read_data, called from read).
Ops == {"init", "clean", "open", "release", "read"}
Pcs == {"idle", "cfg_standby", "cfg_int", "cfg_bw_read", "cfg_bw_write",
        "cfg_format", "cfg_map", "cfg_fifo_read", "cfg_fifo_write",
        "en_read", "en_write", "init_sleep", "init_read", "dis_read",
        "dis_write", "clean_int", "clean_power", "rd_block"}
Results == {"none", "ok", "EIO", "EINVAL"}

IoOk == IF Faults THEN BOOLEAN ELSE {TRUE}
\* What read_i2c_block(DATAX0, 6, ..) returns: 6 bytes, fewer, or an error.
BlockOutcomes == IF Faults THEN {"full", "short", "err"} ELSE {"full"}

VARIABLES
    reg,        \* the configuration registers
    dataReady,  \* INT_SOURCE bit 7 (DATA_READY)
    dataRegs,   \* DATAX0 .. DATAZ1, as a 6-tuple of bytes
    raw,        \* the raw reading the data registers hold
    pc,         \* where the running function is; "idle" when none runs
    op,         \* the function running, or the last one run
    tmp,        \* the byte a read-modify-write has read
    cont,       \* where enable_measure / disable_measure return to
    sample,     \* the sample the last successful read_data returned
    result,     \* what the last function returned
    bound,      \* probe's device_init succeeded and remove has not run
    probed      \* probe has published the device at least once

hw == <<dataReady, dataRegs, raw>>
life == <<bound, probed>>
vars == <<reg, dataReady, dataRegs, raw, pc, op, tmp, cont, sample, result, life>>

\* POWER_CTL bit 3 (Measure).
MeasureBit(v) == (v \div 8) % 2 = 1
\* ret |= 1 << 3
SetMeasure(v) == IF MeasureBit(v) THEN v ELSE v + 8
\* Mutant: ret &= 1 << 3, the negation missing.
ClearMeasureNoNot(v) == IF MeasureBit(v) THEN 8 ELSE 0
\* ret &= !(1 << 3)
ClearMeasure(v) == IF MeasureBit(v) THEN v - 8 ELSE v
\* Mutant: the bit subtracted whether or not it is set.
ClearLowPowerSub(v) == v - 16
\* value &= !(1 << 4): BW_RATE's LOW_POWER bit.
ClearLowPower(v) == IF (v \div 16) % 2 = 1 THEN v - 16 ELSE v
\* value &= !(3 << 6): FIFO_CTL's FIFO_MODE bits, leaving bypass mode.
ClearFifoMode(v) == v % 64

\* The data registers as the device drives them for raw reading r.
Encode(r) == <<LowByte(r.x), HighByte(r.x), LowByte(r.y), HighByte(r.y),
               LowByte(r.z), HighByte(r.z)>>

\* Mutant: each axis decoded from its bytes in big-endian order.
ReadDataSampleSwapped(d) ==
    [x |-> DecodeAxis(d[2], d[1]), y |-> DecodeAxis(d[4], d[3]),
     z |-> DecodeAxis(d[6], d[5])]

\* read_data's decoding of the 6 bytes it read.
ReadDataSample(d) ==
    [x |-> DecodeAxis(d[1], d[2]), y |-> DecodeAxis(d[3], d[4]),
     z |-> DecodeAxis(d[5], d[6])]

Init ==
    /\ reg \in InitRegs
    /\ raw \in RawSamples
    /\ dataRegs = Encode(raw)
    /\ dataReady \in BOOLEAN
    /\ pc = "idle"
    /\ op = "none"
    /\ tmp = 0
    /\ cont = "done"
    /\ sample = [a \in Axes |-> 0]
    /\ result = "none"
    /\ bound = FALSE
    /\ probed = FALSE

-----------------------------------------------------------------------------
(* Control flow shared by the transactions.                               *)

\* The function returns res to its caller and releases the lock.  probe
\* goes on to publish the device when adxl345_device_init is Ok (and
\* panics in expect otherwise); remove ignores device_clean's result.
Finish(res) ==
    /\ pc' = "idle"
    /\ result' = res
    /\ bound' = CASE op = "init"  -> res = "ok"
                 [] op = "clean" -> FALSE
                 [] OTHER        -> bound
    /\ probed' = (probed \/ (op = "init" /\ res = "ok"))
    /\ UNCHANGED cont

\* Return from enable_measure / disable_measure, or from the function.
Return ==
    IF cont = "done"
    THEN Finish("ok")
    ELSE pc' = cont /\ UNCHANGED <<result, cont, life>>

Goto(next) ==
    IF next = "return" THEN Return ELSE pc' = next /\ UNCHANGED <<result, cont, life>>

\* A transaction failed: the error is returned at once, with no rollback.
Fail(err) == Finish(err)

\* write_register(r, v): a failed write may or may not have reached the
\* device (the NACK may come after the data byte).
WriteStep(from, r, v, next) ==
    /\ pc = from
    /\ \E ok \in IoOk :
         \/ ok /\ reg' = [reg EXCEPT ![r] = v] /\ Goto(next)
         \/ ~ok /\ reg' \in {reg, [reg EXCEPT ![r] = v]} /\ Fail("EIO")
    /\ UNCHANGED <<hw, op, tmp, sample>>

\* read_register(r), keeping the byte for the write that follows.
ReadStep(from, r, next) ==
    /\ pc = from
    /\ \E ok \in IoOk :
         \/ ok /\ tmp' = reg[r] /\ Goto(next)
         \/ ~ok /\ Fail("EIO") /\ UNCHANGED tmp
    /\ UNCHANGED <<reg, hw, op, sample>>

-----------------------------------------------------------------------------
(* The caller takes the device lock and enters one of the functions.      *)
(* probe calls adxl345_device_init on an unbound device, remove calls     *)
(* adxl345_device_clean on a bound one; open, read and release reach the  *)
(* device through DEVICE_PTR, which remove clears only after              *)
(* device_clean (adxl345_core.rs:127), so they may follow it.  After a    *)
(* failed device_init probe has panicked and nothing calls the device.    *)

Entry == [init |-> "cfg_standby", clean |-> "clean_int", open |-> "en_read",
          release |-> "dis_read", read |-> "rd_block"]

Allowed(o) ==
    CASE o = "init"  -> ~bound
      [] o = "clean" -> bound
      [] OTHER       -> probed

Start(o) ==
    /\ pc = "idle"
    /\ ~(op = "init" /\ result \notin {"none", "ok"})
    /\ Allowed(o)
    /\ pc' = Entry[o]
    /\ op' = o
    /\ cont' = IF o = "init" THEN "init_sleep" ELSE "done"
    /\ result' = "none"
    /\ UNCHANGED <<reg, hw, tmp, sample, life>>

(* set_default_config *)
CfgStandby == WriteStep("cfg_standby", "POWER_CTL", 0, "cfg_int")
CfgIntDisable == WriteStep("cfg_int", "INT_ENABLE", 0, "cfg_bw_read")
CfgBwRead == ReadStep("cfg_bw_read", "BW_RATE", "cfg_bw_write")
CfgBwWrite == WriteStep("cfg_bw_write", "BW_RATE", ClearLowPower(tmp), "cfg_format")
CfgFormat == WriteStep("cfg_format", "DATA_FORMAT", 11, "cfg_map")
CfgMap == WriteStep("cfg_map", "INT_MAP", 0, "cfg_fifo_read")
CfgFifoRead == ReadStep("cfg_fifo_read", "FIFO_CTL", "cfg_fifo_write")
\* set_default_config returns Ok and adxl345_device_init calls enable_measure.
CfgFifoWrite == WriteStep("cfg_fifo_write", "FIFO_CTL", ClearFifoMode(tmp), "en_read")

(* enable_measure and disable_measure *)
EnableRead == ReadStep("en_read", "POWER_CTL", "en_write")
\* Mutant: the byte read is written back unmodified.
EnableWriteUnmodified == WriteStep("en_write", "POWER_CTL", tmp, "return")
EnableWrite == WriteStep("en_write", "POWER_CTL", SetMeasure(tmp), "return")
DisableRead == ReadStep("dis_read", "POWER_CTL", "dis_write")
DisableWrite == WriteStep("dis_write", "POWER_CTL", ClearMeasure(tmp), "return")

\* adxl345_device_init drops the lock, sleeps 2 ms and takes it again.
InitSleep ==
    /\ pc = "init_sleep"
    /\ pc' = "init_read"
    /\ cont' = "done"
    /\ UNCHANGED <<reg, hw, op, tmp, sample, result, life>>

\* read_data: read_i2c_block(DATAX0, 6, ..) and the decoding.  Reading the
\* data registers clears DATA_READY.  In adxl345_device_init, an Ok sample
\* is followed by disable_measure and an error is returned at once.
ReadData ==
    /\ pc \in {"init_read", "rd_block"}
    /\ \E n \in BlockOutcomes :
         \/ /\ n = "full"
            /\ sample' = ReadDataSample(dataRegs)
            /\ dataReady' = FALSE
            /\ IF pc = "init_read" THEN Goto("dis_read") ELSE Return
         \/ /\ n = "short"
            /\ dataReady' \in {dataReady, FALSE}
            /\ Fail("EINVAL") /\ UNCHANGED sample
         \/ /\ n = "err"
            /\ dataReady' \in {dataReady, FALSE}
            /\ Fail("EIO") /\ UNCHANGED sample
    /\ UNCHANGED <<reg, dataRegs, raw, op, tmp>>

(* adxl345_device_clean *)
\* disabling interrupts through the wrong register
CleanIntWrongReg == WriteStep("clean_int", "DATA_FORMAT", 0, "clean_power")
CleanInt == WriteStep("clean_int", "INT_ENABLE", 0, "clean_power")
CleanPower == WriteStep("clean_power", "POWER_CTL", 0, "return")

\* The accelerometer, while measuring, latches a new reading.
HwSample ==
    /\ MeasureBit(reg["POWER_CTL"])
    /\ \E r \in RawSamples :
         /\ raw' = r
         /\ dataRegs' = Encode(r)
         /\ dataReady' = TRUE
    /\ UNCHANGED <<reg, pc, op, tmp, cont, sample, result, life>>

ConfigStep ==
    \/ CfgStandby \/ CfgIntDisable \/ CfgBwRead \/ CfgBwWrite
    \/ CfgFormat \/ CfgMap \/ CfgFifoRead \/ CfgFifoWrite

Next ==
    \/ \E o \in Ops : Start(o)
    \/ ConfigStep
    \/ EnableRead \/ EnableWrite \/ DisableRead \/ DisableWrite
    \/ InitSleep \/ ReadData \/ CleanInt \/ CleanPower
    \/ HwSample

Spec == Init /\ [][Next]_vars

-----------------------------------------------------------------------------
(* Properties.                                                             *)

Sample16 == [Axes -> I16]

\* Type correctness of the register model.
TypeOK ==
    /\ reg \in [Regs -> Byte]
    /\ dataReady \in BOOLEAN
    /\ dataRegs \in [1..6 -> Byte]
    /\ raw \in RawSamples
    /\ pc \in Pcs
    /\ op \in Ops \cup {"none"}
    /\ tmp \in Byte
    /\ cont \in {"done", "init_sleep"}
    /\ sample \in Sample16
    /\ result \in Results
    /\ bound \in BOOLEAN
    /\ probed \in BOOLEAN

\* The configuration the driver promises after a successful
\* adxl345_device_init (spec 8: set_default_config, enable_measure,
\* disable_measure end with the measurement bit clear whatever its initial
\* state): standby, no interrupts, full power, full resolution +-16 g,
\* interrupts on INT1, FIFO bypassed.
DefaultConfig ==
    /\ ~MeasureBit(reg["POWER_CTL"])
    /\ reg["INT_ENABLE"] = 0
    /\ (reg["BW_RATE"] \div 16) % 2 = 0
    /\ reg["DATA_FORMAT"] = 11
    /\ reg["INT_MAP"] = 0
    /\ reg["FIFO_CTL"] \div 64 = 0

\* After adxl345_device_init returns Ok (and before the next function
\* runs), the device holds the default configuration, whatever register
\* values it started from and whatever it sampled in between.
ConfigApplied == (op = "init" /\ result = "ok") => DefaultConfig

\* What Adxl345Driver takes each function to do to the power state, as
\* one atomic step: when open's enable returns Ok the device measures, and
\* when device_init, device_clean or release's disable returns Ok it is in
\* standby, whatever the accelerometer did between the transactions.
PowerContract ==
    (pc = "idle" /\ result = "ok") =>
        /\ op = "open" => MeasureBit(reg["POWER_CTL"])
        /\ op \in {"init", "clean", "release"} => ~MeasureBit(reg["POWER_CTL"])

\* Every sample read_data returns is the reading the data registers held,
\* in units of 1/4 LSB (four times the raw value), on every axis.
DecodeExact ==
    [][sample' # sample => sample' = [a \in Axes |-> Scaled(raw[a])] ]_vars

\* The settings set_default_config writes that no other function touches:
\* full power, full resolution +-16 g, interrupts on INT1, FIFO bypassed.
Configured ==
    /\ (reg["BW_RATE"] \div 16) % 2 = 0
    /\ reg["DATA_FORMAT"] = 11
    /\ reg["INT_MAP"] = 0
    /\ reg["FIFO_CTL"] \div 64 = 0

\* The register model seen as calls: a function is in progress while pc is
\* away from idle.
Calls == INSTANCE Adxl345DeviceCalls
    WITH measuring <- MeasureBit(reg["POWER_CTL"]),
         configured <- Configured,
         busy <- pc # "idle"

\* The functions of utility.rs, transaction by transaction and with every
\* transaction able to fail, implement the calls Adxl345Driver assumes:
\* read_data writes no register, only device_init changes the
\* configuration, EINVAL comes only from read_data's short block, and an
\* Ok leaves the power state the caller takes it to leave.
CallsRefined == Calls!Spec

\* Spec 7: configuration failure during probe is fatal and the device is
\* not activated: a device found in standby is left in standby when
\* adxl345_device_init fails.  It returns the first error after the Measure
\* bit reached POWER_CTL with measurement still on: an enable_measure write
\* reported failed after the byte landed (utility.rs:55), or the read_data
\* or disable_measure error (utility.rs:79, :84).
FailedInitStandby ==
    (op = "init" /\ result \notin {"none", "ok"}) => ~MeasureBit(reg["POWER_CTL"])

=============================================================================
