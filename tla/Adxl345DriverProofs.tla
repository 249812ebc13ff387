------------------------ MODULE Adxl345DriverProofs ------------------------
(***************************************************************************)
(* Proofs about Adxl345Driver for every value of the constants: the type  *)
(* invariant, the read loop's capacity bound and, without transport       *)
(* faults, the standby of an unused device.                               *)
(***************************************************************************)
EXTENDS Adxl345Driver, TLAPS

\* The labels of read() between the SpinLock and the return.
InLoop(p) ==
    pc[p] \in {"read_wait", "read_sleep", "read_data", "read_filter_lock",
               "filter", "read_deliver"}

(***************************************************************************)
(* What `for _ in 0..items` keeps: the delivered count never passes the    *)
(* iterations done, which never pass the capacity; an iteration is left    *)
(* whenever read_data can still be called, and a sample about to be        *)
(* written was not yet counted.                                            *)
(***************************************************************************)
LoopOK(q) ==
    /\ count[q] <= items[q]
    /\ pc[q] = "read_lock" => count[q] = 0 /\ iter[q] = 0
    /\ InLoop(q) => count[q] <= iter[q] /\ iter[q] <= items[q]
    /\ pc[q] \in {"read_wait", "read_sleep", "read_data",
                  "read_filter_lock", "filter"} => iter[q] < items[q]
    /\ pc[q] = "read_deliver" => count[q] < iter[q]

LoopInv == \A q \in Procs : LoopOK(q)

\* Some task is inside a file operation or holds the node open whenever the
\* device measures.
PowerInv == measuring => \E p \in Procs : pc[p] # "idle"

IInv == TypeOK /\ LoopInv /\ (~Faults => PowerInv)

-----------------------------------------------------------------------------
\* The initial state of the driver's globals, of the device after power-on
\* and of every task (outside any file operation) is well typed.
LEMMA InitTypeOK == ASSUME Init PROVE TypeOK
<1>0. /\ module \in {"unloaded", "loaded"}
      /\ busPc \in BusPcs
  BY DEF Init, BusPcs
<1>1. /\ bound \in BOOLEAN /\ clientdata \in BOOLEAN /\ clientDev \in BOOLEAN
      /\ registration \in BOOLEAN /\ devicePtr \in BOOLEAN
      /\ measuring \in BOOLEAN /\ dataReady \in BOOLEAN
  BY DEF Init
<1>5. /\ devLock \in Procs \cup {NoProc} /\ filterLock \in Procs \cup {NoProc}
      /\ baseline \in SampleValues /\ hwSample \in SampleValues
  BY DEF Init, SampleValues
<1>2. /\ pc \in [Procs -> ProcPcs]
      /\ items \in [Procs -> 0..MaxItems]
      /\ nonblock \in [Procs -> BOOLEAN]
      /\ iter \in [Procs -> 0..MaxItems]
      /\ count \in [Procs -> 0..MaxItems]
      /\ ret \in [Procs -> Results]
  BY MaxItemsAssumption DEF Init, ProcPcs, Results
<1>3. cur \in [Procs -> SampleValues]
  BY DEF Init, SampleValues
<1>4. QED
  BY <1>0, <1>1, <1>2, <1>3, <1>5 DEF TypeOK

LEMMA InitIdle == ASSUME NEW q \in Procs, Init
                  PROVE  pc[q] = "idle" /\ count[q] = 0 /\ items[q] = 0 /\ iter[q] = 0
  BY DEF Init

LEMMA InitIInv == Init => IInv
<1> SUFFICES ASSUME Init PROVE IInv
  OBVIOUS
<1>1. TypeOK
  BY InitTypeOK
<1>2. LoopInv
  <2> SUFFICES ASSUME NEW q \in Procs PROVE LoopOK(q)
    BY DEF LoopInv
  <2>1. pc[q] = "idle" /\ count[q] = 0 /\ items[q] = 0 /\ iter[q] = 0
    BY InitIdle
  <2>2. QED
    BY <2>1 DEF LoopOK, InLoop
<1>3. PowerInv
  BY DEF Init, PowerInv
<1>4. QED
  BY <1>1, <1>2, <1>3 DEF IInv

\* A step of the bus thread or of the hardware leaves every task's loop
\* state alone and never powers the device up without faults: the read
\* loop and power parts of IInv carry over.
LEMMA BusFrame ==
    ASSUME IInv, UNCHANGED <<pc, items, iter, count>>,
           ~Faults => (measuring' => measuring)
    PROVE  (LoopInv /\ (~Faults => PowerInv))'
<1>1. LoopInv'
  BY DEF IInv, LoopInv, LoopOK, InLoop
<1>2. (~Faults => PowerInv)'
  BY DEF IInv, PowerInv
<1>3. QED
  BY <1>1, <1>2

\* Without faults, every transport result is a success.
LEMMA NoFaultOk == ASSUME ~Faults, NEW ok \in IoOk PROVE ok
  BY DEF IoOk

LEMMA BusStep == IInv /\ (BusNext \/ HwSample) => IInv'
<1> SUFFICES ASSUME IInv, BusNext \/ HwSample PROVE IInv'
  OBVIOUS
<1> USE FaultsAssumption
<1>1. CASE ModuleLoad
  <2>1. TypeOK'
    BY <1>1 DEF IInv, TypeOK, ModuleLoad, IoOk, SampleValues, BusPcs, hw, task
  <2>2. QED
    BY <1>1, <2>1, BusFrame DEF IInv, ModuleLoad, hw, task
<1>2. CASE Bind
  <2>1. TypeOK'
    BY <1>2 DEF IInv, TypeOK, Bind, BusPcs, hw, task
  <2>2. QED
    BY <1>2, <2>1, BusFrame DEF IInv, Bind, hw, task
<1>3. CASE ProbeEnter
  <2>1. TypeOK'
    BY <1>3 DEF IInv, TypeOK, ProbeEnter, DropClient, FromRawPtrOwned, BusPcs, hw, task
  <2>2. QED
    BY <1>3, <2>1, BusFrame DEF IInv, ProbeEnter, hw, task
<1>4. CASE ProbeInit
  <2>1. TypeOK'
    BY <1>4 DEF IInv, TypeOK, ProbeInit, IoOk, BusPcs, task
  <2>2. ~Faults => (measuring' => measuring)
    BY <1>4, NoFaultOk DEF ProbeInit
  <2>3. QED
    BY <1>4, <2>1, <2>2, BusFrame DEF IInv, ProbeInit, task
<1>5. CASE ProbeRegister
  <2>1. TypeOK'
    BY <1>5 DEF IInv, TypeOK, ProbeRegister, IoOk, BusPcs, hw, task
  <2>2. QED
    BY <1>5, <2>1, BusFrame DEF IInv, ProbeRegister, hw, task
<1>6. CASE ProbePublish
  <2>1. TypeOK'
    BY <1>6 DEF IInv, TypeOK, ProbePublish, DropClient, FromRawPtrOwned, BusPcs, hw, task
  <2>2. QED
    BY <1>6, <2>1, BusFrame DEF IInv, ProbePublish, hw, task
<1>7. CASE Unbind
  <2>1. TypeOK'
    BY <1>7 DEF IInv, TypeOK, Unbind, BusPcs, hw, task
  <2>2. QED
    BY <1>7, <2>1, BusFrame DEF IInv, Unbind, hw, task
<1>8. CASE RemoveEnter
  <2>1. TypeOK'
    BY <1>8 DEF IInv, TypeOK, RemoveEnter, DropClient, FromRawPtrOwned, BusPcs, hw, task
  <2>2. QED
    BY <1>8, <2>1, BusFrame DEF IInv, RemoveEnter, hw, task
<1>9. CASE RemoveClean
  <2>1. TypeOK'
    BY <1>9 DEF IInv, TypeOK, RemoveClean, PowerAfterClean, BusPcs, task
  <2>2. measuring' => measuring
    BY <1>9 DEF RemoveClean, PowerAfterClean
  <2>3. QED
    BY <1>9, <2>1, <2>2, BusFrame DEF IInv, RemoveClean, task
<1>10. CASE RemoveUnregister
  <2>1. TypeOK'
    BY <1>10 DEF IInv, TypeOK, RemoveUnregister, BusPcs, hw, task
  <2>2. QED
    BY <1>10, <2>1, BusFrame DEF IInv, RemoveUnregister, hw, task
<1>11. CASE RemoveClear
  <2>1. TypeOK'
    BY <1>11 DEF IInv, TypeOK, RemoveClear, DropClient, FromRawPtrOwned, BusPcs, hw, task
  <2>2. QED
    BY <1>11, <2>1, BusFrame DEF IInv, RemoveClear, hw, task
<1>12. CASE ModuleUnload
  <2>1. TypeOK'
    BY <1>12 DEF IInv, TypeOK, ModuleUnload, PowerAfterClean, DropClient, BusPcs, task
  <2>2. measuring' => measuring
    BY <1>12 DEF ModuleUnload, PowerAfterClean
  <2>3. QED
    BY <1>12, <2>1, <2>2, BusFrame DEF IInv, ModuleUnload, task
<1>13. CASE HwSample
  <2>1. TypeOK'
    BY <1>13 DEF IInv, TypeOK, HwSample, SampleValues, bus, task
  <2>2. QED
    BY <1>13, <2>1, BusFrame DEF IInv, HwSample, task
<1>14. QED
  BY <1>1, <1>2, <1>3, <1>4, <1>5, <1>6, <1>7, <1>8, <1>9, <1>10, <1>11,
     <1>12, <1>13 DEF BusNext

-----------------------------------------------------------------------------
(* One step of task p                                                      *)

\* Updating one task's entry of a per-task variable keeps its type.
LEMMA ExceptType ==
    ASSUME NEW S, NEW T, NEW f \in [S -> T], NEW x \in S, NEW v \in T
    PROVE  [f EXCEPT ![x] = v] \in [S -> T]
  OBVIOUS

\* Leaving read() with a result r keeps the types, given the new count and
\* the new globals are typed.
LEMMA ReturnType ==
    ASSUME TypeOK, NEW p \in Procs, NEW r \in Results, ReadReturn(p, r),
           count' \in [Procs -> 0..MaxItems],
           UNCHANGED <<bus, measuring, hwSample>>, dataReady' \in BOOLEAN,
           filterLock' \in Procs \cup {NoProc}, baseline' \in SampleValues
    PROVE  TypeOK'
<1>1. Zero \in SampleValues
  BY DEF SampleValues
<1>2. 0 \in 0..MaxItems
  BY MaxItemsAssumption
<1>3. QED
  BY <1>1, <1>2, ExceptType DEF TypeOK, ReadReturn, ProcPcs, bus

\* Staying in read() at label l keeps the types, given the new loop locals
\* and the new globals are typed.
LEMMA GotoType ==
    ASSUME TypeOK, NEW p \in Procs, NEW l \in ProcPcs, ReadGoto(p, l),
           iter' \in [Procs -> 0..MaxItems], count' \in [Procs -> 0..MaxItems],
           cur' \in [Procs -> SampleValues],
           UNCHANGED <<bus, measuring, hwSample>>, dataReady' \in BOOLEAN,
           filterLock' \in Procs \cup {NoProc}, baseline' \in SampleValues
    PROVE  TypeOK'
  BY ExceptType DEF TypeOK, ReadGoto, bus

\* The step changes no other task's pc or read-loop locals.
Others(p) ==
    \A q \in Procs \ {p} : /\ pc'[q] = pc[q] /\ items'[q] = items[q]
                          /\ iter'[q] = iter[q] /\ count'[q] = count[q]

\* The device is measuring after the step only if task p is busy after it,
\* or it was measuring already while p was idle (some other task is busy).
PowerCond(p) == measuring' => (pc'[p] # "idle" \/ (measuring /\ pc[p] = "idle"))

LEMMA TaskFrame ==
    ASSUME NEW p \in Procs, IInv, TypeOK', Others(p), LoopOK(p)',
           ~Faults => PowerCond(p)
    PROVE  IInv'
<1>1. LoopInv'
  BY DEF IInv, LoopInv, LoopOK, InLoop, Others
<1>2. ASSUME ~Faults PROVE PowerInv'
  <2>1. CASE pc'[p] # "idle"
    BY <2>1 DEF PowerInv
  <2>2. CASE measuring /\ pc[p] = "idle"
    <3>1. PICK q \in Procs : pc[q] # "idle"
      BY <1>2, <2>2 DEF IInv, PowerInv
    <3>2. q # p /\ pc'[q] = pc[q]
      BY <2>2, <3>1 DEF Others
    <3>3. QED
      BY <3>1, <3>2 DEF PowerInv
  <2>3. QED
    BY <1>2, <2>1, <2>2 DEF PowerCond, PowerInv
<1>3. QED
  BY <1>1, <1>2 DEF IInv

\* The open and release steps of a task preserve IInv.
LEMMA OpenReleaseStep ==
    ASSUME NEW p \in Procs, IInv,
           \/ OpenEnter(p) \/ OpenGetDevice(p) \/ OpenEnable(p)
           \/ OpenMutexInit(p) \/ OpenLockFilter(p) \/ OpenResetBaseline(p)
           \/ ReleaseEnter(p) \/ ReleaseDisable(p)
    PROVE  IInv'
<1> USE FaultsAssumption
<1>1. CASE OpenEnter(p)
  <2>1. TypeOK'
    BY <1>1 DEF IInv, TypeOK, OpenEnter, ProcPcs, Results, bus, hw
  <2>2. Others(p) /\ LoopOK(p)'
    BY <1>1 DEF IInv, TypeOK, OpenEnter, Others, LoopInv, LoopOK, InLoop
  <2>3. PowerCond(p)
    BY <1>1 DEF IInv, TypeOK, OpenEnter, PowerCond, hw
  <2>4. QED
    BY <2>1, <2>2, <2>3, TaskFrame
<1>2. CASE OpenGetDevice(p)
  <2>1. TypeOK'
    BY <1>2 DEF IInv, TypeOK, OpenGetDevice, ProcPcs, bus, hw
  <2>2. Others(p) /\ LoopOK(p)'
    BY <1>2 DEF IInv, TypeOK, OpenGetDevice, Others, LoopInv, LoopOK, InLoop
  <2>3. PowerCond(p)
    BY <1>2 DEF IInv, TypeOK, OpenGetDevice, PowerCond, hw
  <2>4. QED
    BY <2>1, <2>2, <2>3, TaskFrame
<1>3. CASE OpenEnable(p)
  <2>1. TypeOK'
    BY <1>3 DEF IInv, TypeOK, OpenEnable, ProcPcs, Results, IoOk, bus
  <2>2. Others(p) /\ LoopOK(p)'
    BY <1>3 DEF IInv, TypeOK, OpenEnable, Others, LoopInv, LoopOK, InLoop
  <2>3. ~Faults => PowerCond(p)
    BY <1>3, NoFaultOk DEF IInv, TypeOK, OpenEnable, PowerCond
  <2>4. QED
    BY <2>1, <2>2, <2>3, TaskFrame
<1>4. CASE OpenMutexInit(p)
  <2>1. TypeOK'
    BY <1>4 DEF IInv, TypeOK, OpenMutexInit, ProcPcs, bus, hw
  <2>2. Others(p) /\ LoopOK(p)'
    BY <1>4 DEF IInv, TypeOK, OpenMutexInit, Others, LoopInv, LoopOK, InLoop
  <2>3. PowerCond(p)
    BY <1>4 DEF IInv, TypeOK, OpenMutexInit, PowerCond, hw
  <2>4. QED
    BY <2>1, <2>2, <2>3, TaskFrame
<1>5. CASE OpenLockFilter(p)
  <2>1. TypeOK'
    BY <1>5 DEF IInv, TypeOK, OpenLockFilter, ProcPcs, bus, hw
  <2>2. Others(p) /\ LoopOK(p)'
    BY <1>5 DEF IInv, TypeOK, OpenLockFilter, Others, LoopInv, LoopOK, InLoop
  <2>3. PowerCond(p)
    BY <1>5 DEF IInv, TypeOK, OpenLockFilter, PowerCond, hw
  <2>4. QED
    BY <2>1, <2>2, <2>3, TaskFrame
<1>6. CASE OpenResetBaseline(p)
  <2>1. TypeOK'
    BY <1>6 DEF IInv, TypeOK, OpenResetBaseline, ProcPcs, SampleValues, bus, hw
  <2>2. Others(p) /\ LoopOK(p)'
    BY <1>6 DEF IInv, TypeOK, OpenResetBaseline, Others, LoopInv, LoopOK, InLoop
  <2>3. PowerCond(p)
    BY <1>6 DEF IInv, TypeOK, OpenResetBaseline, PowerCond, hw
  <2>4. QED
    BY <2>1, <2>2, <2>3, TaskFrame
<1>7. CASE ReleaseEnter(p)
  <2>1. TypeOK'
    BY <1>7 DEF IInv, TypeOK, ReleaseEnter, ProcPcs, Results, bus, hw
  <2>2. Others(p) /\ LoopOK(p)'
    BY <1>7 DEF IInv, TypeOK, ReleaseEnter, Others, LoopInv, LoopOK, InLoop
  <2>3. PowerCond(p)
    BY <1>7 DEF IInv, TypeOK, ReleaseEnter, PowerCond, hw
  <2>4. QED
    BY <2>1, <2>2, <2>3, TaskFrame
<1>8. CASE ReleaseDisable(p)
  <2>1. TypeOK'
    BY <1>8 DEF IInv, TypeOK, ReleaseDisable, ProcPcs, IoOk, bus
  <2>2. Others(p) /\ LoopOK(p)'
    BY <1>8 DEF IInv, TypeOK, ReleaseDisable, Others, LoopInv, LoopOK, InLoop
  <2>3. ~Faults => PowerCond(p)
    BY <1>8, NoFaultOk DEF ReleaseDisable, PowerCond
  <2>4. QED
    BY <2>1, <2>2, <2>3, TaskFrame
<1>9. QED
  BY <1>1, <1>2, <1>3, <1>4, <1>5, <1>6, <1>7, <1>8

\* The steps of read() preserve IInv.
LEMMA ReadStep ==
    ASSUME NEW p \in Procs, IInv,
           \/ ReadEnter(p) \/ ReadLock(p) \/ ReadPoll(p) \/ ReadWake(p)
           \/ ReadData(p) \/ FilterLock(p) \/ FilterDecide(p) \/ ReadDeliver(p)
    PROVE  IInv'
<1> USE FaultsAssumption
<1>1. CASE ReadEnter(p)
  <2>1. TypeOK'
    <3>1. PICK n \in 0..MaxItems, nb \in BOOLEAN :
            /\ items' = [items EXCEPT ![p] = n]
            /\ nonblock' = [nonblock EXCEPT ![p] = nb]
      BY <1>1 DEF ReadEnter
    <3>2. pc' \in [Procs -> ProcPcs]
      BY <1>1 DEF IInv, TypeOK, ReadEnter, ProcPcs
    <3>3. 0 \in 0..MaxItems
      BY MaxItemsAssumption
    <3>4. QED
      BY <1>1, <3>1, <3>2, <3>3, ExceptType DEF IInv, TypeOK, ReadEnter, Results, bus, hw
  <2>2. Others(p) /\ LoopOK(p)'
    BY <1>1 DEF IInv, TypeOK, ReadEnter, Others, LoopInv, LoopOK, InLoop
  <2>3. PowerCond(p)
    BY <1>1 DEF IInv, TypeOK, ReadEnter, PowerCond, ProcPcs, hw
  <2>4. QED
    BY <2>1, <2>2, <2>3, TaskFrame
<1>2. CASE ReadLock(p)
  <2>1. TypeOK'
    <3>1. CASE items[p] = 0
      <4>1. ReadReturn(p, "EINVAL") /\ UNCHANGED <<bus, filterLock, baseline, hw, count>>
        BY <1>2, <3>1 DEF ReadLock
      <4>2. "EINVAL" \in Results
        BY DEF Results
      <4> QED
        BY <4>1, <4>2, ReturnType DEF IInv, hw, TypeOK
    <3>2. CASE items[p] # 0
      BY <1>2, <3>2 DEF IInv, TypeOK, ReadLock, ProcPcs, bus, hw
    <3> QED
      BY <3>1, <3>2
  <2>2. Others(p) /\ LoopOK(p)'
    BY <1>2 DEF IInv, TypeOK, ReadLock, ReadReturn, ReadGoto, Others, LoopInv, LoopOK, InLoop
  <2>3. PowerCond(p)
    BY <1>2 DEF IInv, TypeOK, ReadLock, ReadReturn, ReadGoto, PowerCond, ProcPcs, hw
  <2>4. QED
    BY <2>1, <2>2, <2>3, TaskFrame
<1>3. CASE ReadPoll(p)
  <2>1. TypeOK'
    <3>1. /\ UNCHANGED <<bus, measuring, hwSample>> /\ dataReady' \in BOOLEAN
          /\ filterLock' \in Procs \cup {NoProc} /\ baseline' \in SampleValues
          /\ count' \in [Procs -> 0..MaxItems]
      BY <1>3, ExceptType DEF IInv, TypeOK, LoopInv, LoopOK, InLoop, ReadPoll, hw, SampleValues
    <3>2. CASE \E r \in Results : ReadReturn(p, r)
      <4>1. PICK r \in Results : ReadReturn(p, r)
        BY <3>2
      <4>2. QED
        BY <3>1, <4>1, ReturnType DEF IInv
    <3>3. CASE \E l \in ProcPcs : ReadGoto(p, l) /\ iter' \in [Procs -> 0..MaxItems]
                                  /\ cur' \in [Procs -> SampleValues]
      <4>1. PICK l \in ProcPcs : ReadGoto(p, l) /\ iter' \in [Procs -> 0..MaxItems]
                                /\ cur' \in [Procs -> SampleValues]
        BY <3>3
      <4>2. QED
        BY <3>1, <4>1, GotoType DEF IInv
    <3>4. QED
      <4>1. \/ \E r \in Results : ReadReturn(p, r)
            \/ \E l \in ProcPcs : ReadGoto(p, l) /\ iter' \in [Procs -> 0..MaxItems]
                                  /\ cur' \in [Procs -> SampleValues]
        BY <1>3, ExceptType DEF IInv, TypeOK, LoopInv, LoopOK, InLoop, ReadPoll, Results, ProcPcs
      <4>2. QED
        BY <3>2, <3>3, <4>1
  <2>2. Others(p) /\ LoopOK(p)'
    BY <1>3 DEF IInv, TypeOK, ReadPoll, ReadReturn, ReadGoto, Others, LoopInv, LoopOK, InLoop
  <2>3. PowerCond(p)
    BY <1>3 DEF IInv, TypeOK, ReadPoll, ReadReturn, ReadGoto, PowerCond, ProcPcs, hw
  <2>4. QED
    BY <2>1, <2>2, <2>3, TaskFrame
<1>4. CASE ReadWake(p)
  <2>1. TypeOK'
    BY <1>4 DEF IInv, TypeOK, ReadWake, ProcPcs, bus, hw
  <2>2. Others(p) /\ LoopOK(p)'
    BY <1>4 DEF IInv, TypeOK, ReadWake, Others, LoopInv, LoopOK, InLoop
  <2>3. PowerCond(p)
    BY <1>4 DEF IInv, TypeOK, ReadWake, PowerCond, ProcPcs, hw
  <2>4. QED
    BY <2>1, <2>2, <2>3, TaskFrame
<1>5. CASE ReadData(p)
  <2>1. TypeOK'
    <3>1. /\ UNCHANGED <<bus, measuring, hwSample>> /\ dataReady' \in BOOLEAN
          /\ filterLock' \in Procs \cup {NoProc} /\ baseline' \in SampleValues
          /\ count' \in [Procs -> 0..MaxItems]
      BY <1>5, ExceptType DEF IInv, TypeOK, LoopInv, LoopOK, InLoop, ReadData, hw, SampleValues
    <3>2. CASE \E r \in Results : ReadReturn(p, r)
      <4>1. PICK r \in Results : ReadReturn(p, r)
        BY <3>2
      <4>2. QED
        BY <3>1, <4>1, ReturnType DEF IInv
    <3>3. CASE \E l \in ProcPcs : ReadGoto(p, l) /\ iter' \in [Procs -> 0..MaxItems]
                                  /\ cur' \in [Procs -> SampleValues]
      <4>1. PICK l \in ProcPcs : ReadGoto(p, l) /\ iter' \in [Procs -> 0..MaxItems]
                                /\ cur' \in [Procs -> SampleValues]
        BY <3>3
      <4>2. QED
        BY <3>1, <4>1, GotoType DEF IInv
    <3>4. QED
      <4>1. \/ \E r \in Results : ReadReturn(p, r)
            \/ \E l \in ProcPcs : ReadGoto(p, l) /\ iter' \in [Procs -> 0..MaxItems]
                                  /\ cur' \in [Procs -> SampleValues]
        BY <1>5, ExceptType DEF IInv, TypeOK, LoopInv, LoopOK, InLoop, ReadData, Results, ProcPcs, SampleValues
      <4>2. QED
        BY <3>2, <3>3, <4>1
  <2>2. Others(p) /\ LoopOK(p)'
    BY <1>5 DEF IInv, TypeOK, ReadData, ReadReturn, ReadGoto, Others, LoopInv, LoopOK, InLoop
  <2>3. PowerCond(p)
    BY <1>5 DEF IInv, TypeOK, ReadData, ReadReturn, ReadGoto, PowerCond, ProcPcs, hw
  <2>4. QED
    BY <2>1, <2>2, <2>3, TaskFrame
<1>6. CASE FilterLock(p)
  <2>1. TypeOK'
    BY <1>6 DEF IInv, TypeOK, FilterLock, ProcPcs, bus, hw
  <2>2. Others(p) /\ LoopOK(p)'
    BY <1>6 DEF IInv, TypeOK, FilterLock, Others, LoopInv, LoopOK, InLoop
  <2>3. PowerCond(p)
    BY <1>6 DEF IInv, TypeOK, FilterLock, PowerCond, ProcPcs, hw
  <2>4. QED
    BY <2>1, <2>2, <2>3, TaskFrame
<1>7. CASE FilterDecide(p)
  <2>0. iter[p] + 1 \in 0..MaxItems
    <3>1. LoopOK(p)
      BY DEF IInv, LoopInv
    <3>2. items[p] \in 0..MaxItems /\ iter[p] \in 0..MaxItems /\ count[p] \in 0..MaxItems
      BY DEF IInv, TypeOK
    <3>3. pc[p] = "filter"
      BY <1>7 DEF FilterDecide
    <3>4. QED
      BY <3>1, <3>2, <3>3, MaxItemsAssumption DEF LoopOK, InLoop
  <2>1. TypeOK'
    <3>1. /\ UNCHANGED <<bus, measuring, hwSample>> /\ dataReady' \in BOOLEAN
          /\ filterLock' \in Procs \cup {NoProc} /\ baseline' \in SampleValues
          /\ count' \in [Procs -> 0..MaxItems]
      BY <1>7, ExceptType DEF IInv, TypeOK, LoopInv, LoopOK, InLoop, FilterDecide, hw, SampleValues
    <3>2. CASE \E r \in Results : ReadReturn(p, r)
      <4>1. PICK r \in Results : ReadReturn(p, r)
        BY <3>2
      <4>2. QED
        BY <3>1, <4>1, ReturnType DEF IInv
    <3>3. CASE \E l \in ProcPcs : ReadGoto(p, l) /\ iter' \in [Procs -> 0..MaxItems]
                                  /\ cur' \in [Procs -> SampleValues]
      <4>1. PICK l \in ProcPcs : ReadGoto(p, l) /\ iter' \in [Procs -> 0..MaxItems]
                                /\ cur' \in [Procs -> SampleValues]
        BY <3>3
      <4>2. QED
        BY <3>1, <4>1, GotoType DEF IInv
    <3>4. QED
      <4>1. \/ \E r \in Results : ReadReturn(p, r)
            \/ \E l \in ProcPcs : ReadGoto(p, l) /\ iter' \in [Procs -> 0..MaxItems]
                                  /\ cur' \in [Procs -> SampleValues]
        BY <1>7, <2>0, ExceptType DEF IInv, TypeOK, FilterDecide, Results, ProcPcs
      <4>2. QED
        BY <3>2, <3>3, <4>1
  <2>2. Others(p) /\ LoopOK(p)'
    BY <1>7 DEF IInv, TypeOK, FilterDecide, ReadReturn, ReadGoto, Others, LoopInv, LoopOK, InLoop
  <2>3. PowerCond(p)
    BY <1>7 DEF IInv, TypeOK, FilterDecide, ReadReturn, ReadGoto, PowerCond, ProcPcs, hw
  <2>4. QED
    BY <2>1, <2>2, <2>3, TaskFrame
<1>8. CASE ReadDeliver(p)
  <2>0. count[p] + 1 \in 0..MaxItems
    <3>1. LoopOK(p)
      BY DEF IInv, LoopInv
    <3>2. items[p] \in 0..MaxItems /\ iter[p] \in 0..MaxItems /\ count[p] \in 0..MaxItems
      BY DEF IInv, TypeOK
    <3>3. pc[p] = "read_deliver"
      BY <1>8 DEF ReadDeliver
    <3>4. QED
      BY <3>1, <3>2, <3>3, MaxItemsAssumption DEF LoopOK, InLoop
  <2>1. TypeOK'
    <3>1. /\ UNCHANGED <<bus, measuring, hwSample>> /\ dataReady' \in BOOLEAN
          /\ filterLock' \in Procs \cup {NoProc} /\ baseline' \in SampleValues
          /\ count' \in [Procs -> 0..MaxItems]
      BY <1>8, <2>0, ExceptType DEF IInv, TypeOK, ReadDeliver, hw, SampleValues
    <3>2. CASE \E r \in Results : ReadReturn(p, r)
      <4>1. PICK r \in Results : ReadReturn(p, r)
        BY <3>2
      <4>2. QED
        BY <3>1, <4>1, ReturnType DEF IInv
    <3>3. CASE \E l \in ProcPcs : ReadGoto(p, l) /\ iter' \in [Procs -> 0..MaxItems]
                                  /\ cur' \in [Procs -> SampleValues]
      <4>1. PICK l \in ProcPcs : ReadGoto(p, l) /\ iter' \in [Procs -> 0..MaxItems]
                                /\ cur' \in [Procs -> SampleValues]
        BY <3>3
      <4>2. QED
        BY <3>1, <4>1, GotoType DEF IInv
    <3>4. QED
      <4>1. \/ \E r \in Results : ReadReturn(p, r)
            \/ \E l \in ProcPcs : ReadGoto(p, l) /\ iter' \in [Procs -> 0..MaxItems]
                                  /\ cur' \in [Procs -> SampleValues]
        BY <1>8, ExceptType DEF IInv, TypeOK, LoopInv, LoopOK, InLoop, ReadDeliver, Results, ProcPcs
      <4>2. QED
        BY <3>2, <3>3, <4>1
  <2>2. Others(p) /\ LoopOK(p)'
    BY <1>8 DEF IInv, TypeOK, ReadDeliver, ReadReturn, ReadGoto, Others, LoopInv, LoopOK, InLoop
  <2>3. PowerCond(p)
    BY <1>8 DEF IInv, TypeOK, ReadDeliver, ReadReturn, ReadGoto, PowerCond, ProcPcs, hw
  <2>4. QED
    BY <2>1, <2>2, <2>3, TaskFrame
<1>9. QED
  BY <1>1, <1>2, <1>3, <1>4, <1>5, <1>6, <1>7, <1>8

-----------------------------------------------------------------------------
LEMMA StepIInv == IInv /\ [Next]_vars => IInv'
<1> SUFFICES ASSUME IInv, [Next]_vars PROVE IInv'
  OBVIOUS
<1>1. CASE BusNext \/ HwSample
  BY <1>1, BusStep
<1>2. CASE \E p \in Procs : TaskNext(p)
  <2>1. PICK p \in Procs : TaskNext(p)
    BY <1>2
  <2>2. QED
    BY <2>1, OpenReleaseStep, ReadStep DEF TaskNext
<1>3. CASE UNCHANGED vars
  BY <1>3 DEF IInv, TypeOK, LoopInv, LoopOK, InLoop, PowerInv, vars, bus, hw, task
<1>4. QED
  BY <1>1, <1>2, <1>3 DEF Next

\* IInv holds in every reachable state of the driver.
THEOREM IInvariant == Spec => []IInv
  BY InitIInv, StepIInv, PTL DEF Spec

\* Every variable of the driver model (globals, registers, per-task state of
\* open/read/release) stays in its type, for every number of tasks, every
\* buffer capacity and every sample set.
THEOREM TypeCorrect == Spec => []TypeOK
<1>1. IInv => TypeOK
  BY DEF IInv
<1>2. QED
  BY <1>1, IInvariant, PTL

\* The read loop `for _ in 0..items` of read() never counts more samples
\* written to the user buffer than the buffer holds, for every capacity.
THEOREM CapacityTheorem == Spec => []ReadWithinCapacity
<1>1. IInv => ReadWithinCapacity
  BY DEF IInv, LoopInv, LoopOK, ReadWithinCapacity
<1>2. QED
  BY <1>1, IInvariant, PTL

\* Without transport faults, open/release/probe/remove leave the device in
\* standby whenever no task is inside a file operation or holds it open.
THEOREM StandbyTheorem == ~Faults => (Spec => []StandbyWhenUnused)
<1> SUFFICES ASSUME ~Faults PROVE Spec => []StandbyWhenUnused
  OBVIOUS
<1>1. IInv => StandbyWhenUnused
  BY DEF IInv, PowerInv, StandbyWhenUnused
<1>2. QED
  BY <1>1, IInvariant, PTL


\* The filter's i16 arithmetic in adxl345_filter_out (fileops.rs:55-69)
\* never overflows in any reachable state, for every number of tasks and
\* every capacity, when every sample the device produces is one read_data
\* decodes from a full-resolution reading (DecodeScales).
THEOREM FilterFitsTheorem ==
    ASSUME Samples \subseteq [Axes -> {Scaled(r) : r \in FullRes}]
    PROVE  Spec => []FilterFits
<1>1. TypeOK => FilterFits
  <2> SUFFICES ASSUME TypeOK, NEW p \in Procs, pc[p] = "filter", NEW a \in Axes
               PROVE  DiffFits(cur[p][a], baseline[a])
    BY DEF FilterFits
  <2>1. \A v \in SampleValues : \E r \in FullRes : v[a] = Scaled(r)
    <3>1. 0 \in FullRes /\ Scaled(0) = 0
      BY DEF FullRes, Scaled
    <3> QED
      BY <3>1 DEF SampleValues, Zero
  <2>2. cur[p] \in SampleValues /\ baseline \in SampleValues
    BY DEF TypeOK
  <2> QED
    BY <2>1, <2>2, FilterNoOverflow
<1>2. QED
  BY <1>1, TypeCorrect, PTL


-----------------------------------------------------------------------------
(* The lifetime of the i2c client.                                         *)

\* No file operation touches the module, the binding or the client: they
\* belong to the bus thread.
LEMMA TaskBus ==
    ASSUME NEW p \in Procs, TaskNext(p)
    PROVE  UNCHANGED bus
BY DEF TaskNext, OpenEnter, OpenGetDevice, OpenEnable, OpenMutexInit,
       OpenLockFilter, OpenResetBaseline, ReadEnter, ReadLock, ReadPoll, ReadWake,
       ReadData, FilterLock, FilterDecide, ReadDeliver, ReleaseEnter, ReleaseDisable

\* ClientLifetime is inductive: module init creates the client as it
\* loads the module, the callbacks' borrowed views leave it alone, module
\* drop unregisters it as it unloads the module, and an oops is final.
LEMMA ClientStep == ClientLifetime /\ [Next]_vars => ClientLifetime'
<1> SUFFICES ASSUME ClientLifetime, [Next]_vars PROVE ClientLifetime'
  OBVIOUS
<1>1. CASE BusNext
  BY <1>1 DEF BusNext, ModuleLoad, Bind, ProbeEnter, ProbeInit, ProbeRegister,
             ProbePublish, Unbind, RemoveEnter, RemoveClean, RemoveUnregister,
             RemoveClear, ModuleUnload, DropClient, FromRawPtrOwned, ClientLifetime
<1>2. CASE HwSample
  BY <1>2 DEF HwSample, bus, ClientLifetime
<1>3. CASE \E p \in Procs : TaskNext(p)
  BY <1>3, TaskBus DEF bus, ClientLifetime
<1>4. CASE UNCHANGED vars
  BY <1>4 DEF vars, bus, ClientLifetime
<1> QED
  BY <1>1, <1>2, <1>3, <1>4 DEF Next

\* Whatever the tasks do and wherever loading, binding and unbinding
\* interleave, the client module init registers is on the bus exactly
\* while the module is loaded (unless the bus thread oopsed): the drops
\* of the callbacks' views never unregister it, module drop always does.
THEOREM ClientLifetimeTheorem == Spec => []ClientLifetime
<1>1. Init => ClientLifetime
  BY DEF Init, ClientLifetime
<1> QED
  BY <1>1, ClientStep, PTL DEF Spec

=============================================================================
