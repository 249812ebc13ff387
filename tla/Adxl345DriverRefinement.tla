--------------------- MODULE Adxl345DriverRefinement ---------------------
(***************************************************************************)
(* Adxl345Driver implements Adxl345FileOps: every step of a task, of the  *)
(* bus thread or of the accelerometer is a step of the file interface or  *)
(* leaves it unchanged, under the translation of each task's label        *)
(* (FileState) and with the node, DEVICE_PTR and read's locals as they    *)
(* are.                                                                    *)
(***************************************************************************)
EXTENDS Adxl345DriverProofs

(***************************************************************************)
(* The readiness wait of read() runs before the first sample is written:  *)
(* a task polling or sleeping there has written nothing.  This is what    *)
(* makes an EAGAIN lose no sample, and it is not implied by IInv.         *)
(***************************************************************************)
WaitFresh == \A q \in Procs : pc[q] \in {"read_wait", "read_sleep"} => count[q] = 0

RInv == IInv /\ WaitFresh

\* The labels a step of a task may leave, with the count it writes.
LEMMA WaitFreshStep == RInv /\ [Next]_vars => WaitFresh'
<1> SUFFICES ASSUME RInv, [Next]_vars, NEW q \in Procs,
                    pc'[q] \in {"read_wait", "read_sleep"}
             PROVE  count'[q] = 0
  BY DEF WaitFresh
<1>1. CASE BusNext \/ HwSample
  BY <1>1 DEF RInv, WaitFresh, BusNext, ModuleLoad, Bind, ProbeEnter, ProbeInit,
             ProbeRegister, ProbePublish, Unbind, RemoveEnter, RemoveClean,
             RemoveUnregister, RemoveClear, ModuleUnload, HwSample, task
<1>2. CASE UNCHANGED vars
  BY <1>2 DEF RInv, WaitFresh, vars, task
<1>3. ASSUME NEW p \in Procs, TaskNext(p), p # q
      PROVE  count'[q] = 0
  <2>0. pc \in [Procs -> ProcPcs] /\ count \in [Procs -> 0..MaxItems]
    BY DEF RInv, IInv, TypeOK
  <2>1. pc'[q] = pc[q] /\ count'[q] = count[q]
    BY <1>3, <2>0 DEF TaskNext, OpenEnter, OpenGetDevice, OpenEnable, OpenMutexInit,
       OpenLockFilter, OpenResetBaseline, ReadEnter, ReadLock, ReadPoll, ReadWake,
       ReadData, FilterLock, FilterDecide, ReadDeliver, ReleaseEnter,
       ReleaseDisable, ReadReturn, ReadGoto
  <2> QED
    BY <2>1 DEF RInv, WaitFresh
<1>4. ASSUME TaskNext(q) PROVE count'[q] = 0
  <2>1. pc \in [Procs -> ProcPcs] /\ count \in [Procs -> 0..MaxItems]
    BY DEF RInv, IInv, TypeOK
  <2>2. LoopOK(q)
    BY DEF RInv, IInv, LoopInv
  <2>3. CASE ReadLock(q)
    BY <2>1, <2>2, <2>3 DEF ReadLock, ReadReturn, LoopOK
  <2>4. CASE ReadPoll(q) \/ ReadWake(q)
    BY <2>1, <2>4 DEF RInv, WaitFresh, ReadPoll, ReadWake, ReadReturn, ReadGoto
  <2>5. CASE ~ReadLock(q) /\ ~ReadPoll(q) /\ ~ReadWake(q)
    BY <1>4, <2>1, <2>5 DEF TaskNext, OpenEnter, OpenGetDevice, OpenEnable,
       OpenMutexInit, OpenLockFilter, OpenResetBaseline, ReadEnter, ReadData,
       FilterLock, FilterDecide, ReadDeliver, ReleaseEnter, ReleaseDisable,
       ReadReturn, ReadGoto
  <2> QED
    BY <2>3, <2>4, <2>5
<1> QED
  BY <1>1, <1>2, <1>3, <1>4 DEF Next

\* RInv holds in every reachable state of the driver.
THEOREM RInvariant == Spec => []RInv
<1>1. Init => RInv
  BY InitIInv DEF Init, RInv, WaitFresh
<1>2. RInv /\ [Next]_vars => RInv'
  BY StepIInv, WaitFreshStep DEF RInv
<1> QED
  BY <1>1, <1>2, PTL DEF Spec

-----------------------------------------------------------------------------
(* The translation of labels                                               *)

\* Where each label of a task is in the protocol of the file interface.
LEMMA FileStateValues ==
    /\ FileState("idle") = "closed"
    /\ FileState("opened") = "open"
    /\ FileState("release_lock") = "releasing"
    /\ FileState("oops") = "crashed"
    /\ \A l \in {"open_ptr", "open_enable", "open_init", "open_lock", "open_reset"} :
         FileState(l) = "opening"
    /\ \A l \in {"read_lock", "read_wait", "read_sleep", "read_data",
                 "read_filter_lock", "filter", "read_deliver"} :
         FileState(l) = "reading"
  BY DEF FileState

\* A step that moves task p to label l and sets its result to r moves its
\* file from FileState(pc[p]) (s) to FileState(l) (t) with that result.
LEMMA MoveStep ==
    ASSUME NEW p \in Procs, NEW l, NEW r, NEW s, NEW t,
           pc \in [Procs -> ProcPcs], ret \in [Procs -> Results],
           pc' = [pc EXCEPT ![p] = l], ret' = [ret EXCEPT ![p] = r],
           FileState(pc[p]) = s, FileState(l) = t
    PROVE  Files!Move(p, s, t, r)
  BY DEF Files!Move

\* A step that changes no file-interface variable but task p's label,
\* within the same state of the protocol, is a stutter of Files.
LEMMA StutterStep ==
    ASSUME NEW p \in Procs, NEW l, pc \in [Procs -> ProcPcs],
           pc' = [pc EXCEPT ![p] = l], FileState(l) = FileState(pc[p]),
           UNCHANGED <<registration, devicePtr, ret, items, nonblock, count>>
    PROVE  UNCHANGED Files!fileVars
  BY DEF Files!fileVars

\* Whichever step of task p the file interface takes, it is a step of Files.
LEMMA FilesNext ==
    ASSUME NEW p \in Procs,
           \/ Files!OpenCall(p) \/ Files!OpenReturn(p) \/ Files!Crash(p)
           \/ Files!ReadCall(p) \/ Files!Deliver(p)
           \/ \E r \in Files!FileResults : Files!ReadReturn(p, r)
           \/ Files!ReleaseCall(p) \/ Files!ReleaseReturn(p)
    PROVE  Files!Next
  BY DEF Files!Next

\* A task that finds DEVICE_PTR None panics, whatever else it sets.
LEMMA CrashStep ==
    ASSUME NEW p \in Procs, TypeOK, TypeOK', ~devicePtr,
           pc[p] \in {"open_ptr", "opened"}, pc' = [pc EXCEPT ![p] = "oops"],
           \A q \in Procs \ {p} : /\ ret'[q] = ret[q] /\ items'[q] = items[q]
                                  /\ nonblock'[q] = nonblock[q] /\ count'[q] = count[q],
           UNCHANGED <<registration, devicePtr>>
    PROVE  Files!Crash(p)
<1>1. FileState(pc[p]) \in {"opening", "open"} /\ FileState("oops") = "crashed"
  BY FileStateValues
<1>2. Results = Files!FileResults
  BY DEF Results, Files!FileResults
<1> QED
  BY <1>1, <1>2 DEF Files!Crash, TypeOK

-----------------------------------------------------------------------------
(* Each step of a task is a step of Files or a stutter                     *)

\* open() and release(): a call starts, finds the device or panics, powers
\* it up or fails with EIO, and returns.
LEMMA OpenReleaseRefines ==
    ASSUME NEW p \in Procs, TypeOK, TypeOK',
           \/ OpenEnter(p) \/ OpenGetDevice(p) \/ OpenEnable(p)
           \/ OpenMutexInit(p) \/ OpenLockFilter(p) \/ OpenResetBaseline(p)
           \/ ReleaseEnter(p) \/ ReleaseDisable(p)
    PROVE  [Files!Next]_Files!fileVars
<1> USE FileStateValues
<1>0. pc \in [Procs -> ProcPcs] /\ ret \in [Procs -> Results]
  BY DEF TypeOK
<1>1. CASE OpenEnter(p)
  <2>1. PICK readOnly \in BOOLEAN :
          IF readOnly THEN /\ pc' = [pc EXCEPT ![p] = "open_ptr"]
                           /\ ret' = [ret EXCEPT ![p] = "none"]
                      ELSE /\ ret' = [ret EXCEPT ![p] = "EPERM"]
                           /\ UNCHANGED pc
    BY <1>1 DEF OpenEnter
  <2>2. registration /\ pc[p] = "idle"
        /\ UNCHANGED <<registration, devicePtr, items, nonblock, count>>
    BY <1>1 DEF OpenEnter, bus
  <2>3. CASE readOnly
    <3>1. Files!Move(p, "closed", "opening", "none")
      BY <1>0, <2>1, <2>2, <2>3, MoveStep
    <3> QED
      BY <2>2, <3>1, FilesNext DEF Files!OpenCall
  <2>4. CASE ~readOnly
    <3>1. pc' = [pc EXCEPT ![p] = "idle"]
      BY <1>0, <2>1, <2>2, <2>4
    <3>2. Files!Move(p, "closed", "closed", "EPERM")
      BY <1>0, <2>1, <2>2, <2>4, <3>1, MoveStep
    <3> QED
      BY <2>2, <3>2, FilesNext DEF Files!OpenCall
  <2> QED
    BY <2>3, <2>4
<1>2. CASE OpenGetDevice(p)
  <2>1. CASE devicePtr
    BY <1>0, <1>2, <2>1, StutterStep DEF OpenGetDevice, bus
  <2>2. CASE ~devicePtr
    <3>1. Files!Crash(p)
      BY <1>0, <1>2, <2>2, CrashStep DEF OpenGetDevice, bus
    <3> QED
      BY <3>1, FilesNext
  <2> QED
    BY <2>1, <2>2
<1>3. CASE OpenEnable(p)
  <2>1. PICK ok \in IoOk :
          IF ok THEN /\ pc' = [pc EXCEPT ![p] = "open_init"] /\ UNCHANGED ret
                ELSE /\ pc' = [pc EXCEPT ![p] = "idle"]
                     /\ ret' = [ret EXCEPT ![p] = "EIO"]
    BY <1>3 DEF OpenEnable
  <2>2. pc[p] = "open_enable"
        /\ UNCHANGED <<registration, devicePtr, items, nonblock, count>>
    BY <1>3 DEF OpenEnable, bus
  <2>3. CASE ok
    BY <1>0, <2>1, <2>2, <2>3, StutterStep
  <2>4. CASE ~ok
    <3>1. Files!Move(p, "opening", "closed", "EIO")
      BY <1>0, <2>1, <2>2, <2>4, MoveStep
    <3> QED
      BY <2>2, <3>1, FilesNext DEF Files!OpenReturn
  <2> QED
    BY <2>3, <2>4
<1>4. CASE OpenMutexInit(p) \/ OpenLockFilter(p)
  BY <1>0, <1>4, StutterStep DEF OpenMutexInit, OpenLockFilter, bus
<1>5. CASE OpenResetBaseline(p)
  <2>1. Files!Move(p, "opening", "open", ret[p])
    <3>1. ret = [ret EXCEPT ![p] = ret[p]] /\ pc[p] = "open_reset"
      BY <1>0, <1>5 DEF OpenResetBaseline
    <3> QED
      BY <1>0, <1>5, <3>1, MoveStep DEF OpenResetBaseline
  <2> QED
    BY <1>5, <2>1, FilesNext DEF OpenResetBaseline, Files!OpenReturn, bus
<1>6. CASE ReleaseEnter(p)
  <2>1. CASE devicePtr
    <3>1. Files!Move(p, "open", "releasing", "none")
      BY <1>0, <1>6, <2>1, MoveStep DEF ReleaseEnter
    <3> QED
      BY <1>6, <2>1, <3>1, FilesNext DEF ReleaseEnter, Files!ReleaseCall, bus
  <2>2. CASE ~devicePtr
    <3>1. Files!Crash(p)
      BY <1>0, <1>6, <2>2, CrashStep DEF ReleaseEnter, bus
    <3> QED
      BY <3>1, FilesNext
  <2> QED
    BY <2>1, <2>2
<1>7. CASE ReleaseDisable(p)
  <2>1. Files!Move(p, "releasing", "closed", ret[p])
    <3>1. ret = [ret EXCEPT ![p] = ret[p]] /\ pc[p] = "release_lock"
      BY <1>0, <1>7 DEF ReleaseDisable
    <3> QED
      BY <1>0, <1>7, <3>1, MoveStep DEF ReleaseDisable
  <2> QED
    BY <1>7, <2>1, FilesNext DEF ReleaseDisable, Files!ReleaseReturn, bus
<1> QED
  BY <1>1, <1>2, <1>3, <1>4, <1>5, <1>6, <1>7

\* A step that moves task p between two labels of the same protocol state
\* leaves the translated states of all tasks alone.
LEMMA SameFileState ==
    ASSUME NEW p \in Procs, NEW l, pc \in [Procs -> ProcPcs],
           pc' = [pc EXCEPT ![p] = l], FileState(l) = FileState(pc[p])
    PROVE  [q \in Procs |-> FileState(pc[q])]' = [q \in Procs |-> FileState(pc[q])]
  OBVIOUS

\* Leaving read() with result r and count c is a return of Files, given
\* the contract: c is the count or one more, within the buffer, zero for
\* EINVAL and EAGAIN; EINVAL exactly for an empty buffer; EAGAIN only for
\* a non-blocking read.
LEMMA ReturnRefines ==
    ASSUME NEW p \in Procs, TypeOK, NEW r \in Results \ {"none", "EPERM"},
           ReadReturn(p, r), FileState(pc[p]) = "reading",
           NEW c \in {count[p], count[p] + 1}, c <= items[p],
           count' = [count EXCEPT ![p] = c],
           r \in {"EINVAL", "EAGAIN"} => c = 0,
           (r = "EINVAL") = (items[p] = 0),
           r = "EAGAIN" => nonblock[p],
           UNCHANGED <<registration, devicePtr>>
    PROVE  Files!ReadReturn(p, r)
<1>1. Files!Move(p, "reading", "open", r)
  <2>1. FileState("opened") = "open"
    BY FileStateValues
  <2> QED
    BY <2>1, MoveStep DEF TypeOK, ReadReturn
<1>2. r \in Files!FileResults \ {"none", "EPERM"}
  BY DEF Results, Files!FileResults
<1> QED
  BY <1>1, <1>2 DEF Files!ReadReturn, ReadReturn

\* read(): the call starts or panics, then waits for data, returning
\* EINVAL for an empty buffer, EIO on an error and EAGAIN when not ready
\* and non-blocking, before it has written anything.
LEMMA ReadWaitRefines ==
    ASSUME NEW p \in Procs, RInv, TypeOK',
           ReadEnter(p) \/ ReadLock(p) \/ ReadPoll(p) \/ ReadWake(p)
    PROVE  [Files!Next]_Files!fileVars
<1> USE FileStateValues
<1>0. /\ TypeOK /\ LoopOK(p) /\ WaitFresh
      /\ pc \in [Procs -> ProcPcs] /\ count \in [Procs -> 0..MaxItems]
      /\ items \in [Procs -> 0..MaxItems] /\ iter \in [Procs -> 0..MaxItems]
      /\ ret \in [Procs -> Results]
  BY DEF RInv, IInv, LoopInv, TypeOK
<1>1. CASE ReadEnter(p)
  <2>0. /\ pc[p] = "opened" /\ ret' = [ret EXCEPT ![p] = "none"]
        /\ pc' = [pc EXCEPT ![p] = IF devicePtr THEN "read_lock" ELSE "oops"]
        /\ UNCHANGED bus
    BY <1>1 DEF ReadEnter
  <2>1. CASE devicePtr
    <3>1. Files!Move(p, "open", "reading", "none")
      <4>1. pc' = [pc EXCEPT ![p] = "read_lock"]
        BY <2>0, <2>1
      <4>2. FileState(pc[p]) = "open" /\ FileState("read_lock") = "reading"
        BY <2>0, FileStateValues
      <4> QED
        BY <1>0, <2>0, <4>1, <4>2, MoveStep
    <3>2. Files!ReadCall(p)
      BY <1>1, <2>0, <2>1, <3>1 DEF ReadEnter, Files!ReadCall, bus
    <3> QED
      BY <3>2, FilesNext
  <2>2. CASE ~devicePtr
    <3>1. Files!Crash(p)
      <4>1. pc' = [pc EXCEPT ![p] = "oops"]
        BY <2>0, <2>2
      <4>2. \A q \in Procs \ {p} : /\ ret'[q] = ret[q] /\ items'[q] = items[q]
                                   /\ nonblock'[q] = nonblock[q] /\ count'[q] = count[q]
        BY <1>0, <1>1 DEF ReadEnter, TypeOK
      <4> QED
        BY <1>0, <2>0, <2>2, <4>1, <4>2, CrashStep DEF bus
    <3> QED
      BY <3>1, FilesNext
  <2> QED
    BY <2>1, <2>2
<1>2. CASE ReadLock(p)
  <2>1. CASE items[p] = 0
    <3>1. ReadReturn(p, "EINVAL") /\ UNCHANGED <<bus, count>> /\ pc[p] = "read_lock"
      BY <1>2, <2>1 DEF ReadLock
    <3>2. count[p] = 0 /\ count = [count EXCEPT ![p] = count[p]]
      BY <1>0, <3>1 DEF LoopOK
    <3>3. Files!ReadReturn(p, "EINVAL")
      BY <1>0, <2>1, <3>1, <3>2, ReturnRefines DEF Results, bus
    <3> QED
      BY <3>3, FilesNext DEF Files!FileResults
  <2>2. CASE items[p] # 0
    BY <1>0, <1>2, <2>2, StutterStep DEF ReadLock, bus
  <2> QED
    BY <2>1, <2>2
<1>3. CASE ReadPoll(p)
  <2>1. /\ pc[p] = "read_wait" /\ count[p] = 0 /\ items[p] # 0
        /\ UNCHANGED <<bus, count>> /\ count = [count EXCEPT ![p] = count[p]]
    BY <1>0, <1>3 DEF ReadPoll, WaitFresh, LoopOK, InLoop
  <2>2. PICK ok \in IoOk :
          \/ ~ok /\ ReadReturn(p, "EIO")
          \/ ok /\ dataReady /\ ReadGoto(p, "read_data")
          \/ ok /\ ~dataReady /\ nonblock[p] /\ ReadReturn(p, "EAGAIN")
          \/ ok /\ ~dataReady /\ ~nonblock[p] /\ ReadGoto(p, "read_sleep")
    BY <1>3 DEF ReadPoll
  <2>3. CASE ReadReturn(p, "EIO")
    <3>1. Files!ReadReturn(p, "EIO")
      BY <1>0, <2>1, <2>3, ReturnRefines DEF Results, bus
    <3> QED
      BY <3>1, FilesNext DEF Files!FileResults
  <2>4. CASE nonblock[p] /\ ReadReturn(p, "EAGAIN")
    <3>1. Files!ReadReturn(p, "EAGAIN")
      BY <1>0, <2>1, <2>4, ReturnRefines DEF Results, bus
    <3> QED
      BY <3>1, FilesNext DEF Files!FileResults
  <2>5. CASE ReadGoto(p, "read_data") \/ ReadGoto(p, "read_sleep")
    BY <1>0, <2>1, <2>5, StutterStep DEF ReadGoto, bus
  <2> QED
    BY <2>2, <2>3, <2>4, <2>5
<1>4. CASE ReadWake(p)
  BY <1>0, <1>4, StutterStep DEF ReadWake, bus
<1> QED
  BY <1>1, <1>2, <1>3, <1>4

\* The loop of read(): read a sample, filter it, write it to the buffer.
\* A written sample is a Deliver of Files; every return keeps the contract.
LEMMA ReadLoopRefines ==
    ASSUME NEW p \in Procs, RInv, TypeOK',
           ReadData(p) \/ FilterLock(p) \/ FilterDecide(p) \/ ReadDeliver(p)
    PROVE  [Files!Next]_Files!fileVars
<1> USE FileStateValues
<1>0. /\ TypeOK /\ LoopOK(p)
      /\ pc \in [Procs -> ProcPcs] /\ count \in [Procs -> 0..MaxItems]
      /\ items \in [Procs -> 0..MaxItems] /\ iter \in [Procs -> 0..MaxItems]
      /\ count = [count EXCEPT ![p] = count[p]]
  BY DEF RInv, IInv, LoopInv, TypeOK
<1>1. CASE ReadData(p)
  <2>1. /\ pc[p] = "read_data" /\ items[p] # 0 /\ count[p] <= items[p]
        /\ UNCHANGED <<bus, count>>
    BY <1>0, <1>1 DEF ReadData, LoopOK, InLoop
  <2>2. CASE ReadReturn(p, "EIO")
    <3>1. Files!ReadReturn(p, "EIO")
      BY <1>0, <2>1, <2>2, ReturnRefines DEF Results, bus
    <3> QED
      BY <3>1, FilesNext DEF Files!FileResults
  <2>3. CASE ~ReadReturn(p, "EIO")
    <3>1. ReadGoto(p, "read_filter_lock")
      BY <1>1, <2>3 DEF ReadData
    <3> QED
      BY <1>0, <2>1, <3>1, StutterStep DEF ReadGoto, bus
  <2> QED
    BY <2>2, <2>3
<1>2. CASE FilterLock(p)
  BY <1>0, <1>2, StutterStep DEF FilterLock, bus
<1>3. CASE FilterDecide(p)
  <2>1. /\ pc[p] = "filter" /\ items[p] # 0 /\ count[p] <= items[p]
        /\ UNCHANGED <<bus, count>>
    BY <1>0, <1>3 DEF FilterDecide, LoopOK, InLoop
  <2>2. CASE ReadReturn(p, "OK")
    <3>1. Files!ReadReturn(p, "OK")
      BY <1>0, <2>1, <2>2, ReturnRefines DEF Results, bus
    <3> QED
      BY <3>1, FilesNext DEF Files!FileResults
  <2>3. CASE ~ReadReturn(p, "OK")
    <3>1. ReadGoto(p, "read_data") \/ ReadGoto(p, "read_deliver")
      BY <1>3, <2>3 DEF FilterDecide
    <3> QED
      BY <1>0, <2>1, <3>1, StutterStep DEF ReadGoto, bus
  <2> QED
    BY <2>2, <2>3
<1>4. CASE ReadDeliver(p)
  <2>1. /\ pc[p] = "read_deliver" /\ items[p] # 0 /\ count[p] < items[p]
        /\ UNCHANGED bus
    BY <1>0, <1>4 DEF ReadDeliver, LoopOK, InLoop
  <2>2. PICK okWrite, okPoll \in IoOk :
          \/ ReadReturn(p, "EFAULT") /\ UNCHANGED count
          \/ /\ count' = [count EXCEPT ![p] = count[p] + 1]
             /\ \/ ReadReturn(p, "EIO")
                \/ ReadGoto(p, "read_data") /\ UNCHANGED <<iter, cur>>
                \/ ReadReturn(p, "OK")
    BY <1>4 DEF ReadDeliver
  <2>3. CASE ReadReturn(p, "EFAULT") /\ UNCHANGED count
    <3>1. Files!ReadReturn(p, "EFAULT")
      BY <1>0, <2>1, <2>3, ReturnRefines DEF Results, bus
    <3> QED
      BY <3>1, FilesNext DEF Files!FileResults
  <2>4. CASE count' = [count EXCEPT ![p] = count[p] + 1]
             /\ (ReadReturn(p, "EIO") \/ ReadReturn(p, "OK"))
    <3>0. count[p] + 1 \in {count[p], count[p] + 1} /\ count[p] + 1 <= items[p]
      BY <1>0, <2>1
    <3>1. CASE ReadReturn(p, "EIO")
      <4>1. "EIO" \in Results \ {"none", "EPERM"}
        BY DEF Results
      <4>2. Files!ReadReturn(p, "EIO")
        BY <1>0, <2>1, <2>4, <3>0, <3>1, <4>1, ReturnRefines DEF bus
      <4> QED
        BY <4>2, FilesNext DEF Files!FileResults
    <3>2. CASE ReadReturn(p, "OK")
      <4>1. "OK" \in Results \ {"none", "EPERM"}
        BY DEF Results
      <4>2. Files!ReadReturn(p, "OK")
        BY <1>0, <2>1, <2>4, <3>0, <3>2, <4>1, ReturnRefines DEF bus
      <4> QED
        BY <4>2, FilesNext DEF Files!FileResults
    <3> QED
      BY <2>4, <3>1, <3>2
  <2>5. CASE count' = [count EXCEPT ![p] = count[p] + 1] /\ ReadGoto(p, "read_data")
    <3>1. [q \in Procs |-> FileState(pc[q])]' = [q \in Procs |-> FileState(pc[q])]
      BY <1>0, <2>1, <2>5, SameFileState DEF ReadGoto
    <3>2. Files!Deliver(p)
      BY <2>1, <2>5, <3>1 DEF Files!Deliver, ReadGoto, bus
    <3> QED
      BY <3>2, FilesNext
  <2> QED
    BY <2>2, <2>3, <2>4, <2>5
<1> QED
  BY <1>1, <1>2, <1>3, <1>4

\* probe, remove, load, unload and the accelerometer touch no file: at
\* most they register or deregister the node and publish or clear the device.
LEMMA BusRefines ==
    ASSUME TypeOK', BusNext \/ HwSample
    PROVE  [Files!Next]_Files!fileVars
<1>1. UNCHANGED task
  BY DEF BusNext, ModuleLoad, Bind, ProbeEnter, ProbeInit, ProbeRegister,
         ProbePublish, Unbind, RemoveEnter, RemoveClean, RemoveUnregister,
         RemoveClear, ModuleUnload, HwSample
<1>2. Files!Publish
  BY <1>1 DEF Files!Publish, TypeOK, task
<1> QED
  BY <1>2 DEF Files!Next

\* Every step of the driver is a step of the file interface or a stutter.
LEMMA FilesStep == RInv /\ RInv' /\ [Next]_vars => [Files!Next]_Files!fileVars
<1> SUFFICES ASSUME RInv, RInv', [Next]_vars PROVE [Files!Next]_Files!fileVars
  OBVIOUS
<1>0. TypeOK /\ TypeOK'
  BY DEF RInv, IInv
<1>1. CASE BusNext \/ HwSample
  BY <1>0, <1>1, BusRefines
<1>2. CASE \E p \in Procs : TaskNext(p)
  <2>1. PICK p \in Procs : TaskNext(p)
    BY <1>2
  <2> QED
    BY <1>0, <2>1, OpenReleaseRefines, ReadWaitRefines, ReadLoopRefines DEF TaskNext
<1>3. CASE UNCHANGED vars
  BY <1>3 DEF vars, bus, task, Files!fileVars
<1> QED
  BY <1>1, <1>2, <1>3 DEF Next

\* For every number of tasks and every buffer capacity, open, read and
\* release keep the promises of Adxl345FileOps whatever the interleaving
\* with other tasks, probe, remove, load and unload, and whatever
\* transactions and user copies fail: read() returns EINVAL exactly for an
\* empty buffer, writes at most one sample per slot, and returns EAGAIN only
\* to a non-blocking read that has written nothing.
THEOREM DriverRefinesFiles == Spec => FilesRefined
<1>1. Init => Files!Init
  <2>1. FileState("idle") = "closed"
    BY FileStateValues
  <2> QED
    BY <2>1 DEF Init, Files!Init
<1>2. RInv /\ RInv' /\ [Next]_vars => [Files!Next]_Files!fileVars
  BY FilesStep
<1> QED
  BY <1>1, <1>2, RInvariant, PTL DEF Spec, FilesRefined, Files!Spec

=============================================================================
