------------------------ MODULE Adxl345DeviceProofs ------------------------
(***************************************************************************)
(* Proofs about the register model: the device functions leave the power  *)
(* state and the configuration they promise, for every register file the *)
(* device may start from and every set of readings.                       *)
(***************************************************************************)
EXTENDS Adxl345Device, TLAPS

CfgPcs == {"cfg_standby", "cfg_int", "cfg_bw_read", "cfg_bw_write",
           "cfg_format", "cfg_map", "cfg_fifo_read", "cfg_fifo_write"}
EnPcs == {"en_read", "en_write"}
DisPcs == {"dis_read", "dis_write"}
CleanPcs == {"clean_int", "clean_power"}

\* What each place belongs to: set_default_config and the sleep and the
\* verification read only run inside device_init, enable_measure inside
\* device_init and open, disable_measure inside device_init and release.
PcOK ==
    /\ pc \in CfgPcs \cup {"init_sleep", "init_read"} => op = "init"
    /\ pc \in EnPcs => op \in {"init", "open"}
    /\ pc \in DisPcs => op \in {"init", "release"}
    /\ pc \in CleanPcs => op = "clean"
    /\ pc = "rd_block" => op = "read"

\* enable_measure returns to the sleep of device_init when device_init
\* called it, and every other call returns to the caller's caller.
ContOK ==
    /\ pc \in CfgPcs \cup {"init_sleep"} => cont = "init_sleep"
    /\ pc \in EnPcs => (cont = "init_sleep" <=> op = "init")
    /\ pc \in DisPcs \cup CleanPcs \cup {"init_read", "rd_block"} => cont = "done"

\* The registers set_default_config has written by each place of
\* device_init keep the value it wrote.
InitTail == EnPcs \cup DisPcs \cup {"init_sleep", "init_read"}
AfterMap == {"cfg_fifo_read", "cfg_fifo_write"} \cup InitTail
AfterFormat == {"cfg_map"} \cup AfterMap
AfterBw == {"cfg_format"} \cup AfterFormat
AfterInt == {"cfg_bw_read", "cfg_bw_write"} \cup AfterBw

ConfigInv ==
    op = "init" =>
        /\ pc \in AfterInt => reg["INT_ENABLE"] = 0
        /\ pc \in AfterBw => (reg["BW_RATE"] \div 16) % 2 = 0
        /\ pc \in AfterFormat => reg["DATA_FORMAT"] = 11
        /\ pc \in AfterMap => reg["INT_MAP"] = 0
        /\ pc \in InitTail => reg["FIFO_CTL"] \div 64 = 0

\* A function in progress has not returned yet: the result the caller
\* sees is set only when the lock is released.
ResultOK == pc # "idle" => result = "none"

\* The inductive invariant: the properties, with what each place of the
\* functions has established so far.
Rest == PcOK /\ ContOK /\ ResultOK /\ ConfigInv /\ ConfigApplied /\ PowerContract
IInv == TypeOK /\ Rest

-----------------------------------------------------------------------------
(* Lemmas on the byte operations of the register functions.               *)

\* ret |= 1 << 3 keeps a byte and sets the Measure bit; ret &= !(1 << 3)
\* keeps a byte and clears it; so does writing 0.
LEMMA MeasureOps ==
    ASSUME NEW v \in Byte
    PROVE  /\ SetMeasure(v) \in Byte /\ MeasureBit(SetMeasure(v))
           /\ ClearMeasure(v) \in Byte /\ ~MeasureBit(ClearMeasure(v))
           /\ ~MeasureBit(0)
BY SMT DEF SetMeasure, ClearMeasure, MeasureBit, Byte

\* value &= !(1 << 4) and value &= !(3 << 6) keep a byte and clear the
\* LOW_POWER bit and the FIFO_MODE bits.
LEMMA ConfigOps ==
    ASSUME NEW v \in Byte
    PROVE  /\ ClearLowPower(v) \in Byte /\ (ClearLowPower(v) \div 16) % 2 = 0
           /\ ClearFifoMode(v) \in Byte /\ ClearFifoMode(v) \div 64 = 0
BY SMT DEF ClearLowPower, ClearFifoMode, Byte

\* The constant bytes set_default_config and device_clean write.
LEMMA ConstBytes == 0 \in Byte /\ 11 \in Byte
BY SMT DEF Byte

\* Every decoded axis is an i16, whatever bytes were read.
LEMMA DecodeType ==
    ASSUME NEW lo \in Byte, NEW hi \in Byte
    PROVE  DecodeAxis(lo, hi) \in I16
BY SMT DEF DecodeAxis, Shl2, FromLeBytes, Wrap16, Byte, I16

LEMMA SampleType ==
    ASSUME NEW d \in [1..6 -> Byte]
    PROVE  ReadDataSample(d) \in Sample16
<1>1. \A i \in 1..6 : d[i] \in Byte
  OBVIOUS
<1>2. /\ DecodeAxis(d[1], d[2]) \in I16
      /\ DecodeAxis(d[3], d[4]) \in I16
      /\ DecodeAxis(d[5], d[6]) \in I16
  BY <1>1, DecodeType
<1> QED
  BY <1>2 DEF ReadDataSample, Sample16, Axes

\* The device lays out every full-resolution reading as six bytes.
LEMMA EncodeType ==
    ASSUME NEW r \in [Axes -> FullRes]
    PROVE  Encode(r) \in [1..6 -> Byte]
<1>1. \A a \in Axes : r[a] \in I16
  BY DEF FullRes, I16
<1>2. \A a \in Axes : LowByte(r[a]) \in Byte /\ HighByte(r[a]) \in Byte
  BY <1>1, BytesAreBytes
<1> QED
  BY <1>2 DEF Encode, Axes

-----------------------------------------------------------------------------
(* The shapes of a step.                                                   *)

\* A register write either goes on to next, returns from enable_measure or
\* disable_measure (to the sleep of device_init, or out of the function),
\* or fails and returns EIO with the write possibly done.
LEMMA WriteShape ==
    ASSUME NEW from, NEW r, NEW v, NEW next, WriteStep(from, r, v, next)
    PROVE  /\ pc = from
           /\ UNCHANGED <<hw, op, tmp, sample>>
           /\ \/ /\ reg' = [reg EXCEPT ![r] = v]
                 /\ next # "return" /\ pc' = next /\ UNCHANGED <<result, cont, life>>
              \/ /\ reg' = [reg EXCEPT ![r] = v]
                 /\ next = "return" /\ cont = "done" /\ Finish("ok")
              \/ /\ reg' = [reg EXCEPT ![r] = v]
                 /\ next = "return" /\ cont # "done" /\ pc' = cont
                 /\ UNCHANGED <<result, cont, life>>
              \/ /\ reg' \in {reg, [reg EXCEPT ![r] = v]}
                 /\ Finish("EIO")
BY DEF WriteStep, Goto, Return, Fail

\* A register read keeps the byte and goes on to next, or fails.
LEMMA ReadShape ==
    ASSUME NEW from, NEW r, NEW next, ReadStep(from, r, next), next # "return"
    PROVE  /\ pc = from
           /\ UNCHANGED <<reg, hw, op, sample>>
           /\ \/ tmp' = reg[r] /\ pc' = next /\ UNCHANGED <<result, cont, life>>
              \/ UNCHANGED tmp /\ Finish("EIO")
BY DEF ReadStep, Goto, Fail

\* A function returning res leaves the types of the control state.
LEMMA FinishType ==
    ASSUME TypeOK, NEW res \in Results, Finish(res)
    PROVE  /\ pc' \in Pcs /\ result' \in Results /\ cont' \in {"done", "init_sleep"}
           /\ bound' \in BOOLEAN /\ probed' \in BOOLEAN
BY DEF Finish, TypeOK, Pcs

-----------------------------------------------------------------------------
(* The initial states.                                                     *)

LEMMA InitIInv == Init => IInv
<1> SUFFICES ASSUME Init PROVE IInv
  OBVIOUS
<1>1. reg \in [Regs -> Byte] /\ raw \in RawSamples
  BY InitRegsAssumption DEF Init
<1>2. dataRegs \in [1..6 -> Byte]
  BY <1>1, RawSamplesAssumption, EncodeType DEF Init
<1>3. 0 \in Byte /\ 0 \in I16
  BY SMT DEF Byte, I16
<1>4. TypeOK
  BY <1>1, <1>2, <1>3 DEF Init, TypeOK, Pcs, Sample16, Results
<1>5. Rest
  BY DEF Init, Rest, PcOK, ContOK, ResultOK, ConfigInv, ConfigApplied, PowerContract, CfgPcs,
         EnPcs, DisPcs, CleanPcs, InitTail, AfterMap, AfterFormat, AfterBw, AfterInt
<1> QED
  BY <1>4, <1>5 DEF IInv

-----------------------------------------------------------------------------
(* Types after a transaction.                                             *)

LEMMA WriteType ==
    ASSUME TypeOK, NEW from, NEW r \in Regs, NEW v \in Byte,
           NEW next \in Pcs \cup {"return"}, WriteStep(from, r, v, next)
    PROVE  TypeOK'
<1>1. [reg EXCEPT ![r] = v] \in [Regs -> Byte]
  BY DEF TypeOK
<1>2. reg' \in [Regs -> Byte]
  BY <1>1, WriteShape DEF TypeOK
<1>3. UNCHANGED <<hw, op, tmp, sample>>
  BY WriteShape
<1>4. /\ pc' \in Pcs /\ result' \in Results /\ cont' \in {"done", "init_sleep"}
      /\ bound' \in BOOLEAN /\ probed' \in BOOLEAN
  <2>1. CASE next # "return" /\ pc' = next /\ UNCHANGED <<result, cont, life>>
    BY <2>1 DEF TypeOK, life
  <2>2. CASE cont = "done" /\ Finish("ok")
    BY <2>2, FinishType DEF Results
  <2>3. CASE cont # "done" /\ pc' = cont /\ UNCHANGED <<result, cont, life>>
    BY <2>3 DEF TypeOK, life, Pcs
  <2>4. CASE Finish("EIO")
    BY <2>4, FinishType DEF Results
  <2> QED
    BY <2>1, <2>2, <2>3, <2>4, WriteShape
<1> QED
  BY <1>2, <1>3, <1>4 DEF TypeOK, hw

LEMMA ReadType ==
    ASSUME TypeOK, NEW from, NEW r \in Regs, NEW next \in Pcs,
           ReadStep(from, r, next)
    PROVE  TypeOK'
<1>1. next # "return"
  BY DEF Pcs
<1>2. UNCHANGED <<reg, hw, op, sample>>
  BY <1>1, ReadShape
<1>3. CASE tmp' = reg[r] /\ pc' = next /\ UNCHANGED <<result, cont, life>>
  BY <1>2, <1>3 DEF TypeOK, hw, life
<1>4. CASE UNCHANGED tmp /\ Finish("EIO")
  BY <1>2, <1>4, FinishType DEF TypeOK, hw, Results
<1> QED
  BY <1>1, <1>3, <1>4, ReadShape

-----------------------------------------------------------------------------
(* Steps that keep the invariant whatever place they leave.               *)

\* A function that fails returns to idle, where the invariant asks nothing
\* but of a successful result.
LEMMA FailRest ==
    ASSUME NEW err, err # "ok", Finish(err)
    PROVE  Rest'
BY DEF Finish, Rest, PcOK, ContOK, ResultOK, ConfigInv, ConfigApplied, PowerContract,
       CfgPcs, EnPcs, DisPcs, CleanPcs, InitTail, AfterMap, AfterFormat, AfterBw, AfterInt

\* While a function runs, no result is visible.
LEMMA BusyRest ==
    ASSUME Rest, pc # "idle", pc' # "idle", result' = result
    PROVE  (ResultOK /\ ConfigApplied /\ PowerContract)'
BY DEF Rest, ResultOK, ConfigApplied, PowerContract

\* A register write that goes on to another place keeps the invariant when
\* it keeps what that place asks of the control state and the registers.
LEMMA WriteGotoIInv ==
    ASSUME IInv, NEW from, NEW r \in Regs, NEW v \in Byte, NEW next \in Pcs,
           from # "idle", next # "idle", WriteStep(from, r, v, next),
           (/\ pc = from /\ pc' = next /\ reg' = [reg EXCEPT ![r] = v]
            /\ UNCHANGED <<result, cont, op, tmp>>) => (PcOK /\ ContOK /\ ConfigInv)'
    PROVE  IInv'
<1>1. TypeOK'
  BY WriteType DEF IInv, Pcs
<1>2. next # "return"
  BY DEF Pcs
<1>3. CASE reg' = [reg EXCEPT ![r] = v] /\ pc' = next /\ UNCHANGED <<result, cont, life>>
  <2>1. pc = from /\ UNCHANGED <<op, tmp>>
    BY WriteShape
  <2>2. (PcOK /\ ContOK /\ ConfigInv)'
    BY <1>3, <2>1
  <2>3. pc # "idle"
    BY <2>1
  <2>4. (ResultOK /\ ConfigApplied /\ PowerContract)'
    BY <1>3, <2>3, BusyRest DEF IInv
  <2> QED
    BY <1>1, <2>2, <2>4 DEF IInv, Rest
<1>4. CASE Finish("EIO")
  BY <1>1, <1>4, FailRest DEF IInv
<1> QED
  BY <1>2, <1>3, <1>4, WriteShape

\* The same for a register read, which changes no register.
LEMMA ReadGotoIInv ==
    ASSUME IInv, NEW from, NEW r \in Regs, NEW next \in Pcs,
           from # "idle", next # "idle", ReadStep(from, r, next),
           (/\ pc = from /\ pc' = next /\ UNCHANGED <<reg, result, cont, op>>)
               => (PcOK /\ ContOK /\ ConfigInv)'
    PROVE  IInv'
<1>1. TypeOK'
  BY ReadType DEF IInv
<1>2. next # "return"
  BY DEF Pcs
<1>3. CASE tmp' = reg[r] /\ pc' = next /\ UNCHANGED <<result, cont, life>>
  <2>1. pc = from /\ UNCHANGED <<reg, op>>
    BY <1>2, ReadShape
  <2>2. (PcOK /\ ContOK /\ ConfigInv)'
    BY <1>3, <2>1
  <2>3. (ResultOK /\ ConfigApplied /\ PowerContract)'
    BY <1>3, <2>1, BusyRest DEF IInv
  <2> QED
    BY <1>1, <2>2, <2>3 DEF IInv, Rest
<1>4. CASE UNCHANGED tmp /\ Finish("EIO")
  BY <1>1, <1>4, FailRest DEF IInv
<1> QED
  BY <1>2, <1>3, <1>4, ReadShape

-----------------------------------------------------------------------------
(* set_default_config, step by step.                                      *)

USE DEF CfgPcs, EnPcs, DisPcs, CleanPcs, InitTail, AfterMap, AfterFormat, AfterBw, AfterInt

LEMMA CfgStandbyIInv == IInv /\ CfgStandby => IInv'
<1> SUFFICES ASSUME IInv, CfgStandby PROVE IInv'
  OBVIOUS
<1>1. (/\ pc = "cfg_standby" /\ pc' = "cfg_int" /\ reg' = [reg EXCEPT !["POWER_CTL"] = 0]
       /\ UNCHANGED <<result, cont, op, tmp>>) => (PcOK /\ ContOK /\ ConfigInv)'
  BY DEF IInv, Rest, PcOK, ContOK, ConfigInv
<1> QED
  BY <1>1, ConstBytes, WriteGotoIInv DEF CfgStandby, Pcs, Regs

LEMMA CfgIntDisableIInv == IInv /\ CfgIntDisable => IInv'
<1> SUFFICES ASSUME IInv, CfgIntDisable PROVE IInv'
  OBVIOUS
<1>0. 0 \in Byte
  BY ConstBytes DEF IInv, TypeOK
<1>1. (/\ pc = "cfg_int" /\ pc' = "cfg_bw_read" /\ reg' = [reg EXCEPT !["INT_ENABLE"] = 0]
       /\ UNCHANGED <<result, cont, op, tmp>>) => (PcOK /\ ContOK /\ ConfigInv)'
  BY <1>0, ConstBytes DEF IInv, TypeOK, Rest, PcOK, ContOK, ConfigInv, Regs
<1> QED
  BY <1>0, <1>1, WriteGotoIInv DEF CfgIntDisable, Pcs, Regs

LEMMA CfgBwReadIInv == IInv /\ CfgBwRead => IInv'
<1> SUFFICES ASSUME IInv, CfgBwRead PROVE IInv'
  OBVIOUS
<1>1. (/\ pc = "cfg_bw_read" /\ pc' = "cfg_bw_write" /\ UNCHANGED <<reg, result, cont, op>>)
          => (PcOK /\ ContOK /\ ConfigInv)'
  BY DEF IInv, Rest, PcOK, ContOK, ConfigInv
<1> QED
  BY <1>1, ReadGotoIInv DEF CfgBwRead, Pcs, Regs

LEMMA CfgBwWriteIInv == IInv /\ CfgBwWrite => IInv'
<1> SUFFICES ASSUME IInv, CfgBwWrite PROVE IInv'
  OBVIOUS
<1>0. ClearLowPower(tmp) \in Byte
  BY ConfigOps DEF IInv, TypeOK
<1>1. (/\ pc = "cfg_bw_write" /\ pc' = "cfg_format" /\ reg' = [reg EXCEPT !["BW_RATE"] = ClearLowPower(tmp)]
       /\ UNCHANGED <<result, cont, op, tmp>>) => (PcOK /\ ContOK /\ ConfigInv)'
  BY <1>0, ConfigOps DEF IInv, TypeOK, Rest, PcOK, ContOK, ConfigInv, Regs
<1> QED
  BY <1>0, <1>1, WriteGotoIInv DEF CfgBwWrite, Pcs, Regs

LEMMA CfgFormatIInv == IInv /\ CfgFormat => IInv'
<1> SUFFICES ASSUME IInv, CfgFormat PROVE IInv'
  OBVIOUS
<1>0. 11 \in Byte
  BY ConstBytes DEF IInv, TypeOK
<1>1. (/\ pc = "cfg_format" /\ pc' = "cfg_map" /\ reg' = [reg EXCEPT !["DATA_FORMAT"] = 11]
       /\ UNCHANGED <<result, cont, op, tmp>>) => (PcOK /\ ContOK /\ ConfigInv)'
  BY <1>0, ConstBytes DEF IInv, TypeOK, Rest, PcOK, ContOK, ConfigInv, Regs
<1> QED
  BY <1>0, <1>1, WriteGotoIInv DEF CfgFormat, Pcs, Regs

LEMMA CfgMapIInv == IInv /\ CfgMap => IInv'
<1> SUFFICES ASSUME IInv, CfgMap PROVE IInv'
  OBVIOUS
<1>0. 0 \in Byte
  BY ConstBytes DEF IInv, TypeOK
<1>1. (/\ pc = "cfg_map" /\ pc' = "cfg_fifo_read" /\ reg' = [reg EXCEPT !["INT_MAP"] = 0]
       /\ UNCHANGED <<result, cont, op, tmp>>) => (PcOK /\ ContOK /\ ConfigInv)'
  BY <1>0, ConstBytes DEF IInv, TypeOK, Rest, PcOK, ContOK, ConfigInv, Regs
<1> QED
  BY <1>0, <1>1, WriteGotoIInv DEF CfgMap, Pcs, Regs

LEMMA CfgFifoReadIInv == IInv /\ CfgFifoRead => IInv'
<1> SUFFICES ASSUME IInv, CfgFifoRead PROVE IInv'
  OBVIOUS
<1>1. (/\ pc = "cfg_fifo_read" /\ pc' = "cfg_fifo_write" /\ UNCHANGED <<reg, result, cont, op>>)
          => (PcOK /\ ContOK /\ ConfigInv)'
  BY DEF IInv, Rest, PcOK, ContOK, ConfigInv
<1> QED
  BY <1>1, ReadGotoIInv DEF CfgFifoRead, Pcs, Regs

\* set_default_config returns Ok into enable_measure.

LEMMA CfgFifoWriteIInv == IInv /\ CfgFifoWrite => IInv'
<1> SUFFICES ASSUME IInv, CfgFifoWrite PROVE IInv'
  OBVIOUS
<1>0. ClearFifoMode(tmp) \in Byte
  BY ConfigOps DEF IInv, TypeOK
<1>1. (/\ pc = "cfg_fifo_write" /\ pc' = "en_read" /\ reg' = [reg EXCEPT !["FIFO_CTL"] = ClearFifoMode(tmp)]
       /\ UNCHANGED <<result, cont, op, tmp>>) => (PcOK /\ ContOK /\ ConfigInv)'
  BY <1>0, ConfigOps DEF IInv, TypeOK, Rest, PcOK, ContOK, ConfigInv, Regs
<1> QED
  BY <1>0, <1>1, WriteGotoIInv DEF CfgFifoWrite, Pcs, Regs

-----------------------------------------------------------------------------
(* enable_measure and disable_measure.                                    *)

LEMMA EnableReadIInv == IInv /\ EnableRead => IInv'
<1> SUFFICES ASSUME IInv, EnableRead PROVE IInv'
  OBVIOUS
<1>1. (/\ pc = "en_read" /\ pc' = "en_write" /\ UNCHANGED <<reg, result, cont, op>>)
          => (PcOK /\ ContOK /\ ConfigInv)'
  BY DEF IInv, Rest, PcOK, ContOK, ConfigInv
<1> QED
  BY <1>1, ReadGotoIInv DEF EnableRead, Pcs, Regs

LEMMA DisableReadIInv == IInv /\ DisableRead => IInv'
<1> SUFFICES ASSUME IInv, DisableRead PROVE IInv'
  OBVIOUS
<1>1. (/\ pc = "dis_read" /\ pc' = "dis_write" /\ UNCHANGED <<reg, result, cont, op>>)
          => (PcOK /\ ContOK /\ ConfigInv)'
  BY DEF IInv, Rest, PcOK, ContOK, ConfigInv
<1> QED
  BY <1>1, ReadGotoIInv DEF DisableRead, Pcs, Regs

\* A function returning Ok keeps the invariant when it leaves the power
\* state its caller takes it to leave and, for device_init, the default
\* configuration.
LEMMA OkRest ==
    ASSUME Finish("ok"), op' = op,
           op = "open" => MeasureBit(reg'["POWER_CTL"]),
           op \in {"init", "clean", "release"} => ~MeasureBit(reg'["POWER_CTL"]),
           op = "init" => DefaultConfig'
    PROVE  Rest'
BY DEF Finish, Rest, PcOK, ContOK, ResultOK, ConfigInv, ConfigApplied, PowerContract

\* enable_measure returns Ok to open with the Measure bit set, or goes back
\* to the sleep of device_init.
LEMMA EnableWriteIInv == IInv /\ EnableWrite => IInv'
<1> SUFFICES ASSUME IInv, EnableWrite PROVE IInv'
  OBVIOUS
<1> DEFINE w == [reg EXCEPT !["POWER_CTL"] = SetMeasure(tmp)]
<1>1. SetMeasure(tmp) \in Byte /\ MeasureBit(SetMeasure(tmp))
  BY MeasureOps DEF IInv, TypeOK
<1>2. TypeOK'
  BY <1>1, WriteType DEF IInv, EnableWrite, Pcs, Regs
<1>3. pc = "en_write" /\ UNCHANGED <<hw, op, tmp, sample>>
  BY WriteShape DEF EnableWrite
<1>4. CASE reg' = w /\ cont = "done" /\ Finish("ok")
  <2>1. op = "open"
    BY <1>3, <1>4 DEF IInv, Rest, PcOK, ContOK
  <2>2. reg'["POWER_CTL"] = SetMeasure(tmp)
    BY <1>4 DEF IInv, TypeOK, Regs
  <2>3. Rest'
    BY <1>1, <1>3, <1>4, <2>1, <2>2, OkRest
  <2> QED
    BY <1>2, <2>3 DEF IInv
<1>5. CASE reg' = w /\ cont # "done" /\ pc' = cont /\ UNCHANGED <<result, cont, life>>
  <2>1. cont = "init_sleep" /\ op = "init"
    BY <1>3, <1>5 DEF IInv, TypeOK, Rest, PcOK, ContOK
  <2>2. (PcOK /\ ContOK /\ ConfigInv)'
    BY <1>3, <1>5, <2>1 DEF IInv, TypeOK, Rest, PcOK, ContOK, ConfigInv, Regs
  <2>3. (ResultOK /\ ConfigApplied /\ PowerContract)'
    BY <1>3, <1>5, <2>1, BusyRest DEF IInv
  <2> QED
    BY <1>2, <2>2, <2>3 DEF IInv, Rest
<1>6. CASE Finish("EIO")
  BY <1>2, <1>6, FailRest DEF IInv
<1> QED
  BY <1>4, <1>5, <1>6, WriteShape DEF EnableWrite

\* disable_measure returns Ok with the Measure bit clear; inside
\* device_init the configuration set before it is still in place.
LEMMA DisableWriteIInv == IInv /\ DisableWrite => IInv'
<1> SUFFICES ASSUME IInv, DisableWrite PROVE IInv'
  OBVIOUS
<1> DEFINE w == [reg EXCEPT !["POWER_CTL"] = ClearMeasure(tmp)]
<1>1. ClearMeasure(tmp) \in Byte /\ ~MeasureBit(ClearMeasure(tmp))
  BY MeasureOps DEF IInv, TypeOK
<1>2. TypeOK'
  BY <1>1, WriteType DEF IInv, DisableWrite, Pcs, Regs
<1>3. pc = "dis_write" /\ UNCHANGED <<hw, op, tmp, sample>>
  BY WriteShape DEF DisableWrite
<1>4. cont = "done" /\ op \in {"init", "release"}
  BY <1>3 DEF IInv, Rest, PcOK, ContOK
<1>5. CASE reg' = w /\ Finish("ok")
  <2>1. reg'["POWER_CTL"] = ClearMeasure(tmp)
    BY <1>5 DEF IInv, TypeOK, Regs
  <2>2. op = "init" => DefaultConfig'
    BY <1>1, <1>3, <1>5, <2>1 DEF IInv, TypeOK, Rest, ConfigInv, DefaultConfig, Regs
  <2>3. Rest'
    BY <1>1, <1>3, <1>4, <1>5, <2>1, <2>2, OkRest
  <2> QED
    BY <1>2, <2>3 DEF IInv
<1>6. CASE Finish("EIO")
  BY <1>2, <1>6, FailRest DEF IInv
<1> QED
  BY <1>4, <1>5, <1>6, WriteShape DEF DisableWrite

-----------------------------------------------------------------------------
(* adxl345_device_clean, the sleep of device_init, read_data.             *)

LEMMA CleanIntIInv == IInv /\ CleanInt => IInv'
<1> SUFFICES ASSUME IInv, CleanInt PROVE IInv'
  OBVIOUS
<1>1. (/\ pc = "clean_int" /\ pc' = "clean_power" /\ reg' = [reg EXCEPT !["INT_ENABLE"] = 0]
       /\ UNCHANGED <<result, cont, op, tmp>>) => (PcOK /\ ContOK /\ ConfigInv)'
  BY DEF IInv, Rest, PcOK, ContOK, ConfigInv
<1> QED
  BY <1>1, ConstBytes, WriteGotoIInv DEF CleanInt, Pcs, Regs

\* device_clean returns Ok with POWER_CTL written to 0.
LEMMA CleanPowerIInv == IInv /\ CleanPower => IInv'
<1> SUFFICES ASSUME IInv, CleanPower PROVE IInv'
  OBVIOUS
<1>1. TypeOK'
  BY ConstBytes, WriteType DEF IInv, CleanPower, Pcs, Regs
<1>2. pc = "clean_power" /\ UNCHANGED <<hw, op, tmp, sample>>
  BY WriteShape DEF CleanPower
<1>3. cont = "done" /\ op = "clean"
  BY <1>2 DEF IInv, Rest, PcOK, ContOK
<1>4. CASE reg' = [reg EXCEPT !["POWER_CTL"] = 0] /\ Finish("ok")
  <2>1. ~MeasureBit(reg'["POWER_CTL"])
    BY <1>4, MeasureOps, ConstBytes DEF IInv, TypeOK, Regs
  <2> QED
    BY <1>1, <1>2, <1>3, <1>4, <2>1, OkRest DEF IInv
<1>5. CASE Finish("EIO")
  BY <1>1, <1>5, FailRest DEF IInv
<1> QED
  BY <1>3, <1>4, <1>5, WriteShape DEF CleanPower

LEMMA InitSleepIInv == IInv /\ InitSleep => IInv'
<1> SUFFICES ASSUME IInv, InitSleep PROVE IInv'
  OBVIOUS
<1>1. TypeOK'
  BY DEF IInv, TypeOK, InitSleep, Pcs, hw, life
<1>2. (PcOK /\ ContOK /\ ConfigInv)'
  BY DEF IInv, Rest, PcOK, ContOK, ConfigInv, InitSleep
<1>3. (ResultOK /\ ConfigApplied /\ PowerContract)'
  BY BusyRest DEF IInv, InitSleep
<1> QED
  BY <1>1, <1>2, <1>3 DEF IInv, Rest

\* read_data keeps the registers; inside device_init its Ok leads to
\* disable_measure, and in read it returns Ok to the caller.
LEMMA ReadDataIInv == IInv /\ ReadData => IInv'
<1> SUFFICES ASSUME IInv, ReadData PROVE IInv'
  OBVIOUS
<1>1. ReadDataSample(dataRegs) \in Sample16
  BY SampleType DEF IInv, TypeOK
<1>2. UNCHANGED <<reg, dataRegs, raw, op, tmp>> /\ pc \in {"init_read", "rd_block"}
  BY DEF ReadData
<1>3. cont = "done"
  BY <1>2 DEF IInv, Rest, ContOK
<1>4. CASE /\ sample' = ReadDataSample(dataRegs) /\ dataReady' = FALSE
           /\ pc = "init_read" /\ pc' = "dis_read" /\ UNCHANGED <<result, cont, life>>
  <2>1. TypeOK'
    BY <1>1, <1>2, <1>4 DEF IInv, TypeOK, Pcs, life
  <2>2. (PcOK /\ ContOK /\ ConfigInv)'
    BY <1>2, <1>3, <1>4 DEF IInv, Rest, PcOK, ContOK, ConfigInv
  <2>3. (ResultOK /\ ConfigApplied /\ PowerContract)'
    BY <1>4, BusyRest DEF IInv
  <2> QED
    BY <2>1, <2>2, <2>3 DEF IInv, Rest
<1>5. CASE /\ sample' = ReadDataSample(dataRegs) /\ dataReady' = FALSE
           /\ pc = "rd_block" /\ Finish("ok")
  <2>1. op = "read"
    BY <1>5 DEF IInv, Rest, PcOK
  <2>2. TypeOK'
    BY <1>1, <1>2, <1>5, FinishType DEF IInv, TypeOK, Results
  <2> QED
    BY <1>2, <1>5, <2>1, <2>2, OkRest DEF IInv
<1>6. CASE /\ dataReady' \in {dataReady, FALSE} /\ UNCHANGED sample
           /\ \/ Finish("EINVAL")
              \/ Finish("EIO")
  <2>1. TypeOK'
    BY <1>2, <1>6, FinishType DEF IInv, TypeOK, Results
  <2>2. Rest'
    BY <1>6, FailRest
  <2> QED
    BY <2>1, <2>2 DEF IInv
<1> QED
  BY <1>3, <1>4, <1>5, <1>6 DEF ReadData, Goto, Return, Fail

-----------------------------------------------------------------------------
(* Entering a function, and the accelerometer.                            *)

LEMMA StartIInv == ASSUME IInv, NEW o \in Ops, Start(o) PROVE IInv'
<1>1. TypeOK'
  BY DEF IInv, TypeOK, Start, Entry, Pcs, Results, Ops, hw, life
<1>2. Rest'
  BY DEF IInv, Rest, Start, Entry, Ops, PcOK, ContOK, ResultOK, ConfigInv,
         ConfigApplied, PowerContract
<1> QED
  BY <1>1, <1>2 DEF IInv

LEMMA HwSampleIInv == IInv /\ HwSample => IInv'
<1> SUFFICES ASSUME IInv, HwSample PROVE IInv'
  OBVIOUS
<1>1. PICK r \in RawSamples : raw' = r /\ dataRegs' = Encode(r) /\ dataReady' = TRUE
  BY DEF HwSample
<1>2. Encode(r) \in [1..6 -> Byte]
  BY RawSamplesAssumption, EncodeType
<1>3. TypeOK'
  BY <1>1, <1>2 DEF IInv, TypeOK, HwSample, life
<1>4. Rest'
  BY DEF IInv, Rest, HwSample, PcOK, ContOK, ResultOK, ConfigInv, ConfigApplied,
         PowerContract, DefaultConfig
<1> QED
  BY <1>3, <1>4 DEF IInv

-----------------------------------------------------------------------------
(* The invariant and the properties it implies.                           *)

LEMMA StepIInv == IInv /\ [Next]_vars => IInv'
<1> SUFFICES ASSUME IInv, [Next]_vars PROVE IInv'
  OBVIOUS
<1>1. CASE \E o \in Ops : Start(o)
  BY <1>1, StartIInv
<1>2. CASE ConfigStep
  BY <1>2, CfgStandbyIInv, CfgIntDisableIInv, CfgBwReadIInv, CfgBwWriteIInv,
     CfgFormatIInv, CfgMapIInv, CfgFifoReadIInv, CfgFifoWriteIInv DEF ConfigStep
<1>3. CASE EnableRead \/ EnableWrite \/ DisableRead \/ DisableWrite
  BY <1>3, EnableReadIInv, EnableWriteIInv, DisableReadIInv, DisableWriteIInv
<1>4. CASE InitSleep \/ ReadData \/ CleanInt \/ CleanPower \/ HwSample
  BY <1>4, InitSleepIInv, ReadDataIInv, CleanIntIInv, CleanPowerIInv, HwSampleIInv
<1>5. CASE UNCHANGED vars
  BY <1>5 DEF vars, hw, life, IInv, TypeOK, Rest, PcOK, ContOK, ResultOK, ConfigInv,
         ConfigApplied, PowerContract, DefaultConfig
<1> QED
  BY <1>1, <1>2, <1>3, <1>4, <1>5 DEF Next

\* Every state the register model reaches satisfies the inductive
\* invariant: whatever register file the device starts from, whatever it
\* samples, and wherever a transaction fails.
THEOREM DeviceInvariant == Spec => []IInv
BY InitIInv, StepIInv, PTL DEF Spec

\* The register model's types: every register holds a byte and every
\* sample read_data returns holds an i16 on each axis.
THEOREM DeviceTypeOK == Spec => []TypeOK
<1>1. IInv => TypeOK
  BY DEF IInv
<1> QED
  BY <1>1, DeviceInvariant, PTL

\* When adxl345_device_init returns Ok, set_default_config, enable_measure
\* and disable_measure have left the default configuration in standby, for
\* every register file the device may start from.
THEOREM DeviceConfigApplied == Spec => []ConfigApplied
<1>1. IInv => ConfigApplied
  BY DEF IInv, Rest
<1> QED
  BY <1>1, DeviceInvariant, PTL

\* Each function of utility.rs that returns Ok leaves the power state its
\* caller takes it to: measuring after open's enable_measure, in standby
\* after device_init, device_clean and release's disable_measure.
THEOREM DevicePowerContract == Spec => []PowerContract
<1>1. IInv => PowerContract
  BY DEF IInv, Rest
<1> QED
  BY <1>1, DeviceInvariant, PTL

-----------------------------------------------------------------------------
(* The samples read_data returns.                                         *)

\* The data registers hold the byte layout of the reading latched last.
DataOK == dataRegs = Encode(raw)

\* Decoding the six bytes of a full-resolution reading gives four times
\* the reading on each axis.
LEMMA DecodeEncode ==
    ASSUME NEW r \in [Axes -> FullRes]
    PROVE  ReadDataSample(Encode(r)) = [a \in Axes |-> Scaled(r[a])]
<1>1. /\ DecodeAxis(LowByte(r.x), HighByte(r.x)) = Scaled(r.x)
      /\ DecodeAxis(LowByte(r.y), HighByte(r.y)) = Scaled(r.y)
      /\ DecodeAxis(LowByte(r.z), HighByte(r.z)) = Scaled(r.z)
  BY DecodeScales DEF Axes
<1> QED
  BY <1>1 DEF ReadDataSample, Encode, Axes

LEMMA StepDataOK == DataOK /\ [Next]_vars => DataOK'
<1> SUFFICES ASSUME DataOK, [Next]_vars PROVE DataOK'
  OBVIOUS
<1>1. CASE HwSample
  BY <1>1 DEF HwSample, DataOK
<1>2. CASE ~HwSample
  <2>1. UNCHANGED <<dataRegs, raw>>
    BY <1>2 DEF Next, Start, ConfigStep, CfgStandby, CfgIntDisable, CfgBwRead,
           CfgBwWrite, CfgFormat, CfgMap, CfgFifoRead, CfgFifoWrite, EnableRead,
           EnableWrite, DisableRead, DisableWrite, InitSleep, ReadData, CleanInt,
           CleanPower, WriteStep, ReadStep, hw, vars
  <2> QED
    BY <2>1 DEF DataOK
<1> QED
  BY <1>1, <1>2

\* Only read_data changes the sample, and it decodes the data registers.
LEMMA SampleOnlyRead ==
    ASSUME [Next]_vars, sample' # sample
    PROVE  sample' = ReadDataSample(dataRegs)
BY DEF Next, Start, ConfigStep, CfgStandby, CfgIntDisable, CfgBwRead,
       CfgBwWrite, CfgFormat, CfgMap, CfgFifoRead, CfgFifoWrite, EnableRead,
       EnableWrite, DisableRead, DisableWrite, InitSleep, ReadData, CleanInt,
       CleanPower, WriteStep, ReadStep, HwSample, Fail, Finish, vars

\* Every sample read_data returns is four times the reading the device
\* latched, on every axis: i16::from_le_bytes and << 2 lose nothing
\* (structures/mod.rs:265-267), for every set of readings.
THEOREM DeviceDecodeExact == Spec => DecodeExact
<1>1. Init => DataOK
  BY DEF Init, DataOK
<1>2. Spec => []DataOK
  BY <1>1, StepDataOK, PTL DEF Spec
<1>3. TypeOK /\ DataOK /\ [Next]_vars
        => [sample' # sample => sample' = [a \in Axes |-> Scaled(raw[a])]]_vars
  <2> SUFFICES ASSUME TypeOK, DataOK, [Next]_vars, sample' # sample
               PROVE  sample' = [a \in Axes |-> Scaled(raw[a])]
    OBVIOUS
  <2>1. raw \in [Axes -> FullRes]
    BY RawSamplesAssumption DEF TypeOK
  <2> QED
    BY <2>1, SampleOnlyRead, DecodeEncode DEF DataOK
<1> QED
  BY <1>2, <1>3, DeviceTypeOK, PTL DEF Spec, DecodeExact

-----------------------------------------------------------------------------
(* The register model implements the calls of Adxl345DeviceCalls.         *)

\* Every place away from idle belongs to one of the functions.
LEMMA BusyOp == IInv /\ pc # "idle" => op \in Ops
BY DEF IInv, TypeOK, Rest, PcOK, Pcs, Ops

\* enable_measure, disable_measure and device_clean write POWER_CTL and
\* INT_ENABLE only, which leaves the configuration as it is.
LEMMA ConfigFrame ==
    ASSUME reg \in [Regs -> Byte], NEW r \in {"POWER_CTL", "INT_ENABLE"}, NEW v,
           reg' \in {reg, [reg EXCEPT ![r] = v]}
    PROVE  Configured' = Configured
BY DEF Configured, Regs

\* A transaction that stays inside a function writing POWER_CTL is a Work
\* step of the calls.
LEMMA MapWork ==
    ASSUME IInv, pc # "idle", pc' # "idle", op # "read",
           UNCHANGED <<op, result, bound, probed>>,
           op # "init" => Configured' = Configured
    PROVE  Calls!Work
<1>1. op \in Calls!PowerOps
  BY BusyOp DEF Ops, Calls!PowerOps
<1> QED
  BY <1>1 DEF Calls!Work, MeasureBit, Configured

\* A function returning res is a Return step of the calls: the power state
\* and the configuration it leaves are what the invariant says of the
\* state it returns in.
LEMMA MapFinish ==
    ASSUME IInv, IInv', NEW res \in {"ok", "EIO", "EINVAL"}, Finish(res),
           pc # "idle", UNCHANGED op,
           res = "EINVAL" => op \in {"init", "read"},
           op = "read" => UNCHANGED reg,
           op # "init" => Configured' = Configured
    PROVE  Calls!Return(res)
<1>1. op \in Ops
  BY BusyOp
<1>2. res \in {"ok"} \cup Calls!Errors(op)
  BY <1>1 DEF Calls!Errors, Ops
<1>3. pc' = "idle" /\ result' = res
  BY DEF Finish
<1>4. res = "ok" =>
        /\ op = "open" => MeasureBit(reg'["POWER_CTL"])
        /\ op \in {"init", "clean", "release"} => ~MeasureBit(reg'["POWER_CTL"])
  BY <1>3 DEF IInv, Rest, PowerContract
<1>5. (res = "ok" /\ op \in Calls!PowerOps)
        => (MeasureBit(reg'["POWER_CTL"]) <=> op = "open")
  BY <1>4, Zenon DEF Calls!PowerOps
<1>6. (res = "ok" /\ op = "init") => Configured'
  BY <1>3 DEF IInv, Rest, ConfigApplied, DefaultConfig, Configured
<1> QED
  BY <1>2, <1>3, <1>5, <1>6 DEF Calls!Return, Finish, MeasureBit, Configured


\* A register write of a function that writes POWER_CTL is a Work step
\* when it stays inside the function and a Return step when it leaves it.
LEMMA WriteRefines ==
    ASSUME IInv, IInv', NEW from, NEW r \in Regs, NEW v, NEW next,
           WriteStep(from, r, v, next), from # "idle", next # "idle", op # "read",
           op # "init" => r \in {"POWER_CTL", "INT_ENABLE"}
    PROVE  Calls!Next
<1>1. pc = from /\ UNCHANGED op
  BY WriteShape
<1>2. reg' \in {reg, [reg EXCEPT ![r] = v]}
  BY WriteShape
<1>3. op # "init" => Configured' = Configured
  BY <1>2, ConfigFrame DEF IInv, TypeOK
<1>4. CASE pc' # "idle" /\ UNCHANGED <<result, cont, life>>
  <2>1. Calls!Work
    BY <1>1, <1>3, <1>4, MapWork DEF life
  <2> QED
    BY <2>1 DEF Calls!Next
<1>5. CASE Finish("ok")
  BY <1>1, <1>3, <1>5, MapFinish DEF Calls!Next, Calls!Results
<1>6. CASE Finish("EIO")
  BY <1>1, <1>3, <1>6, MapFinish DEF Calls!Next, Calls!Results
<1>7. cont \in {"done", "init_sleep"}
  BY DEF IInv, TypeOK
<1> QED
  BY <1>4, <1>5, <1>6, <1>7, WriteShape

\* A register read, the sleep and a sample change none of what the calls
\* see while they stay inside a function or outside all of them.
LEMMA StutterRefines ==
    ASSUME UNCHANGED <<reg, op, result, life>>, (pc # "idle") = (pc' # "idle")
    PROVE  UNCHANGED Calls!callVars
BY DEF life, Calls!callVars, Configured, MeasureBit

\* A register read goes on to the next place, which is no step of the
\* calls, or fails with EIO.
LEMMA ReadRefines ==
    ASSUME IInv, IInv', NEW from, NEW r \in Regs, NEW next,
           ReadStep(from, r, next), from # "idle", next # "idle", next # "return"
    PROVE  [Calls!Next]_Calls!callVars
<1>1. pc = from /\ UNCHANGED <<reg, op>>
  BY ReadShape
<1>2. CASE pc' = next /\ UNCHANGED <<result, cont, life>>
  BY <1>1, <1>2, StutterRefines
<1>3. CASE Finish("EIO")
  <2>1. op # "init" => Configured' = Configured
    BY <1>1 DEF Configured
  <2> QED
    BY <1>1, <1>3, <2>1, MapFinish DEF Calls!Next, Calls!Results
<1> QED
  BY <1>2, <1>3, ReadShape


\* The steps of set_default_config run inside device_init.
LEMMA ConfigRefines ==
    ASSUME IInv, IInv', ConfigStep
    PROVE  [Calls!Next]_Calls!callVars
<1>1. pc \in CfgPcs
  BY DEF ConfigStep, CfgStandby, CfgIntDisable, CfgBwRead, CfgBwWrite, CfgFormat,
         CfgMap, CfgFifoRead, CfgFifoWrite, WriteStep, ReadStep
<1>2. op = "init"
  BY <1>1 DEF IInv, Rest, PcOK
<1>3. CASE CfgStandby
  BY <1>2, <1>3, WriteRefines DEF CfgStandby, Regs
<1>4. CASE CfgIntDisable
  BY <1>2, <1>4, WriteRefines DEF CfgIntDisable, Regs
<1>5. CASE CfgBwRead
  BY <1>5, ReadRefines DEF CfgBwRead, Regs
<1>6. CASE CfgBwWrite
  BY <1>2, <1>6, WriteRefines DEF CfgBwWrite, Regs
<1>7. CASE CfgFormat
  BY <1>2, <1>7, WriteRefines DEF CfgFormat, Regs
<1>8. CASE CfgMap
  BY <1>2, <1>8, WriteRefines DEF CfgMap, Regs
<1>9. CASE CfgFifoRead
  BY <1>9, ReadRefines DEF CfgFifoRead, Regs
<1>10. CASE CfgFifoWrite
  BY <1>2, <1>10, WriteRefines DEF CfgFifoWrite, Regs
<1> QED
  BY <1>3, <1>4, <1>5, <1>6, <1>7, <1>8, <1>9, <1>10 DEF ConfigStep

\* enable_measure and disable_measure run inside device_init, open and
\* release, and device_clean inside remove: all write POWER_CTL or
\* INT_ENABLE only.
LEMMA MeasureRefines ==
    ASSUME IInv, IInv',
           EnableRead \/ EnableWrite \/ DisableRead \/ DisableWrite \/ CleanInt \/ CleanPower
    PROVE  [Calls!Next]_Calls!callVars
<1>1. op # "read"
  BY DEF EnableRead, EnableWrite, DisableRead, DisableWrite, CleanInt, CleanPower,
         WriteStep, ReadStep, IInv, Rest, PcOK, EnPcs, DisPcs, CleanPcs
<1>2. CASE EnableRead
  BY <1>2, ReadRefines DEF EnableRead, Regs
<1>3. CASE EnableWrite
  BY <1>1, <1>3, WriteRefines DEF EnableWrite, Regs
<1>4. CASE DisableRead
  BY <1>4, ReadRefines DEF DisableRead, Regs
<1>5. CASE DisableWrite
  BY <1>1, <1>5, WriteRefines DEF DisableWrite, Regs
<1>6. CASE CleanInt
  BY <1>1, <1>6, WriteRefines DEF CleanInt, Regs
<1>7. CASE CleanPower
  BY <1>1, <1>7, WriteRefines DEF CleanPower, Regs
<1> QED
  BY <1>2, <1>3, <1>4, <1>5, <1>6, <1>7


\* The block read of read_data: the verification read of device_init goes
\* on to disable_measure, the read of read returns, and either may fail.
LEMMA ReadDataRefines ==
    ASSUME IInv, IInv', ReadData
    PROVE  [Calls!Next]_Calls!callVars
<1>1. pc \in {"init_read", "rd_block"} /\ UNCHANGED <<reg, op>>
  BY DEF ReadData
<1>2. op \in {"init", "read"} /\ (pc = "rd_block" => cont = "done")
  BY <1>1 DEF IInv, Rest, PcOK, ContOK
<1>3. op # "init" => Configured' = Configured
  BY <1>1 DEF Configured
<1>4. CASE pc' # "idle" /\ UNCHANGED <<result, life>>
  BY <1>1, <1>4, StutterRefines
<1>5. ASSUME NEW res \in {"ok", "EIO", "EINVAL"}, Finish(res)
      PROVE  [Calls!Next]_Calls!callVars
  BY <1>1, <1>2, <1>3, <1>5, MapFinish DEF Calls!Next, Calls!Results
<1>6. \/ pc' # "idle" /\ UNCHANGED <<result, life>>
      \/ \E res \in {"ok", "EIO", "EINVAL"} : Finish(res)
  BY <1>1, <1>2 DEF ReadData, Goto, Return, Fail
<1> QED
  BY <1>4, <1>5, <1>6

\* The caller taking the device is a Call of the calls.
LEMMA StartRefines ==
    ASSUME NEW o \in Ops, Start(o)
    PROVE  Calls!Call(o)
<1>1. pc = "idle" /\ pc' # "idle"
  BY DEF Start, Entry, Ops
<1>2. UNCHANGED <<reg, bound, probed>> /\ op' = o /\ result' = "none"
  BY DEF Start, life
<1>3. ~(op = "init" /\ result \notin {"none", "ok"}) /\ Calls!Allowed(o)
  BY DEF Start, Allowed, Calls!Allowed
<1> QED
  BY <1>1, <1>2, <1>3 DEF Calls!Call, Configured, MeasureBit

\* Every step of the register model is a step of the calls or leaves what
\* they see unchanged.
LEMMA StepRefines == IInv /\ IInv' /\ [Next]_vars => [Calls!Next]_Calls!callVars
<1> SUFFICES ASSUME IInv, IInv', [Next]_vars PROVE [Calls!Next]_Calls!callVars
  OBVIOUS
<1>1. CASE \E o \in Ops : Start(o)
  BY <1>1, StartRefines DEF Calls!Next, Ops, Calls!Ops
<1>2. CASE ConfigStep
  BY <1>2, ConfigRefines
<1>3. CASE EnableRead \/ EnableWrite \/ DisableRead \/ DisableWrite \/ CleanInt \/ CleanPower
  BY <1>3, MeasureRefines
<1>4. CASE ReadData
  BY <1>4, ReadDataRefines
<1>5. CASE InitSleep \/ HwSample
  <2>1. UNCHANGED <<reg, op, result, life>> /\ (pc # "idle") = (pc' # "idle")
    BY <1>5 DEF InitSleep, HwSample
  <2> QED
    BY <2>1, StutterRefines
<1>6. CASE UNCHANGED vars
  BY <1>6, StutterRefines DEF vars
<1> QED
  BY <1>1, <1>2, <1>3, <1>4, <1>5, <1>6 DEF Next

\* The register model implements the calls: whatever register file the
\* device starts from and wherever a transaction fails, every behaviour
\* of the SMBus transactions of utility.rs is a behaviour of whole calls
\* that promise what Adxl345Driver assumes of them.
THEOREM DeviceRefinesCalls == Spec => CallsRefined
<1>1. Init => Calls!Init
  BY DEF Init, Calls!Init, Configured, MeasureBit
<1>2. IInv /\ IInv' /\ [Next]_vars => [Calls!Next]_Calls!callVars
  BY StepRefines
<1> QED
  BY <1>1, <1>2, DeviceInvariant, PTL DEF Spec, CallsRefined, Calls!Spec

=============================================================================
