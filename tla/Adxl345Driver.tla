--------------------------- MODULE Adxl345Driver ---------------------------
(***************************************************************************)
(* The ADXL345 Rust I2C driver: module load/unload, the bus-originated    *)
(* probe/remove events dispatched through the client data pointer, and   *)
(* the open/read/release file operations of user processes, all sharing  *)
(* the device SpinLock, the filter Mutex, the DEVICE_PTR global and the   *)
(* accelerometer's registers (measure bit, DATA_READY bit, data regs).    *)
(*                                                                         *)
(* One process of Procs stands for one open file (one task).  Every step  *)
(* below ends at a point where the code can be interleaved: a lock        *)
(* acquisition, a read of a global, or a syscall boundary.                *)
(***************************************************************************)
EXTENDS Integers, Adxl345Decode

CONSTANTS
    Procs,     \* user tasks that open, read and release the device node
    NoProc,    \* model value: nobody holds a lock
    Samples,   \* accelerometer samples the hardware may produce
    MaxItems,  \* largest user buffer, in samples (writer.len() / 6)
    Faults     \* TRUE: every I2C transaction and user copy may fail

Axes == {"x", "y", "z"}

\* Adxl345Sample { x: 0, y: 0, z: 0 }
Zero == [a \in Axes |-> 0]

ASSUME ProcsAssumption == Procs # {} /\ NoProc \notin Procs

\* Adxl345Sample holds three i16.
ASSUME SamplesAssumption == Samples \subseteq [Axes -> -32768..32767]

ASSUME MaxItemsAssumption == MaxItems \in Nat \ {0}

ASSUME FaultsAssumption == Faults \in BOOLEAN

\* ADXL345_FILTER
Filter == 50

SampleValues == Samples \cup {Zero}

\* Outcomes of one fallible operation: success only, unless Faults.
IoOk == IF Faults THEN BOOLEAN ELSE {TRUE}

ProcPcs == {"idle", "open_ptr", "open_enable", "open_init", "open_lock",
            "open_reset", "opened", "read_lock", "read_wait", "read_sleep",
            "read_data", "read_filter_lock", "filter", "read_deliver",
            "release_lock", "oops"}

BusPcs == {"idle", "probe", "probe_init", "probe_register", "probe_publish",
           "remove", "remove_clean", "remove_unreg", "remove_clear", "oops"}

Results == {"none", "OK", "EPERM", "EIO", "EINVAL", "EAGAIN", "EFAULT"}

VARIABLES
    module,       \* "unloaded" or "loaded"
    busPc,        \* the bus thread running probe/remove (insmod or sysfs)
    bound,        \* the driver core has the driver bound to the client
    clientdata,   \* the i2c client's clientdata points to Adxl345Driver
    clientDev,    \* the i2c_client new_client_device registered is on the bus
    registration, \* the character device node is registered
    devicePtr,    \* DEVICE_PTR is Some
    devLock,      \* holder of the SpinLock<Adxl345>
    filterLock,   \* holder of the ADXL345_LAST_SAMPLE Mutex
    baseline,     \* the value inside ADXL345_LAST_SAMPLE
    measuring,    \* POWER_CTL measure bit (bit 3)
    dataReady,    \* INT_SOURCE DATA_READY bit (bit 7)
    hwSample,     \* contents of DATAX0..DATAZ1
    pc,           \* per task: where it is in open/read/release
    items,        \* per task: samples that fit the read buffer
    nonblock,     \* per task: O_NONBLOCK set on the file
    iter,         \* per task: iterations of the read loop done
    count,        \* per task: samples written to the user buffer
    cur,          \* per task: the sample just read by read_data
    ret           \* per task: error of its last syscall, or the "OK" of read

hw == <<measuring, dataReady, hwSample>>
bus == <<module, busPc, bound, clientdata, clientDev, registration, devicePtr>>
task == <<pc, items, nonblock, iter, count, cur, ret>>
vars == <<bus, devLock, filterLock, baseline, hw, task>>

-----------------------------------------------------------------------------
(* Helpers                                                                 *)

AbsVal(n) == IF n < 0 THEN -n ELSE n

\* adxl345_filter_out: TRUE (discard) when no axis moved more than Filter;
\* the baseline is overwritten with new in every branch.
FilterOut(new, last) == \A a \in Axes : AbsVal(new[a] - last[a]) <= Filter

\* Leave read(): drop the SpinLock guard and return r.
\* The loop locals nonblock, iter and cur die with the call; count stays as
\* the call's result (count * 6 bytes when r is "OK") beside items, the
\* capacity it was called with.
ReadReturn(p, r) ==
    /\ devLock' = NoProc
    /\ pc' = [pc EXCEPT ![p] = "opened"]
    /\ ret' = [ret EXCEPT ![p] = r]
    /\ UNCHANGED items
    /\ nonblock' = [nonblock EXCEPT ![p] = FALSE]
    /\ iter' = [iter EXCEPT ![p] = 0]
    /\ cur' = [cur EXCEPT ![p] = Zero]

\* Power state after adxl345_device_clean: INT_ENABLE <- 0, then POWER_CTL <- 0,
\* stopping at the first failure.
PowerAfterClean(okInt, okPower) == IF okInt /\ okPower THEN FALSE ELSE measuring

\* Mutant of FromRawPtrOwned: the callbacks' view owns the client.
FromRawPtrOwnedTrue == TRUE

\* I2CClient::from_raw_ptr, which every callback wraps its client in: a
\* borrowed view (owned: false).
FromRawPtrOwned == FALSE

\* Drop for I2CClient: i2c_unregister_device only when the value owns the
\* client; clientDev after dropping a view whose owned flag is owned.
DropClient(owned) == IF owned THEN FALSE ELSE clientDev

-----------------------------------------------------------------------------
Init ==
    /\ module = "unloaded"
    /\ busPc = "idle"
    /\ bound = FALSE
    /\ clientdata = FALSE
    /\ clientDev = FALSE
    /\ registration = FALSE
    /\ devicePtr = FALSE
    /\ devLock = NoProc
    /\ filterLock = NoProc
    /\ baseline = Zero
    /\ measuring = FALSE     \* POWER_CTL resets to 0x00 (standby)
    /\ dataReady = FALSE
    /\ hwSample = Zero
    /\ pc = [p \in Procs |-> "idle"]
    /\ items = [p \in Procs |-> 0]
    /\ nonblock = [p \in Procs |-> FALSE]
    /\ iter = [p \in Procs |-> 0]
    /\ count = [p \in Procs |-> 0]
    /\ cur = [p \in Procs |-> Zero]
    /\ ret = [p \in Procs |-> "none"]

-----------------------------------------------------------------------------
(* Module lifecycle and bus events (adxl345_core.rs, i2c/driver.rs)        *)

\* Adxl345Module::init: get the adapter, create the owned client, set its
\* clientdata to the pinned Adxl345Driver, build and add the driver; the
\* driver core then probes synchronously.  Any failure hits an expect().
ModuleLoad ==
    /\ module = "unloaded"
    /\ busPc = "idle"
    /\ \E ok \in IoOk :
         IF ok THEN /\ module' = "loaded"
                    /\ clientdata' = TRUE
                    /\ clientDev' = TRUE
                    /\ busPc' = "probe"
               ELSE /\ busPc' = "oops"
                    /\ clientDev' \in {clientDev, TRUE}
                    /\ UNCHANGED <<module, clientdata>>
    /\ devicePtr' = FALSE          \* fresh statics of the new module image
    /\ filterLock' = NoProc
    /\ baseline' = Zero
    /\ UNCHANGED <<bound, registration, devLock, hw, task>>

\* Bind through sysfs: the driver core calls probe_callback.
Bind ==
    /\ module = "loaded"
    /\ busPc = "idle"
    /\ ~bound
    /\ busPc' = "probe"
    /\ UNCHANGED <<module, bound, clientdata, clientDev, registration, devicePtr,
                   devLock, filterLock, baseline, hw, task>>

\* probe_callback: get_driver_instance fails on a null clientdata (EINVAL)
\* and the callback returns, dropping its view of the client.
ProbeEnter ==
    /\ busPc = "probe"
    /\ busPc' = IF clientdata THEN "probe_init" ELSE "idle"
    /\ clientDev' = IF clientdata THEN clientDev ELSE DropClient(FromRawPtrOwned)
    /\ UNCHANGED <<module, bound, clientdata, registration, devicePtr,
                   devLock, filterLock, baseline, hw, task>>

\* adxl345_device_init: set_default_config and enable_measure under the lock,
\* a test read_data and disable_measure; expect() on any failure.
ProbeInit ==
    /\ busPc = "probe_init"
    /\ devLock = NoProc
    /\ \E ok \in IoOk :
         IF ok THEN /\ measuring' = FALSE
                    /\ dataReady' = FALSE
                    /\ busPc' = "probe_register"
               ELSE /\ measuring' \in BOOLEAN
                    /\ dataReady' \in {dataReady, FALSE}
                    /\ busPc' = "oops"
    /\ UNCHANGED <<module, bound, clientdata, clientDev, registration, devicePtr,
                   devLock, filterLock, baseline, hwSample, task>>

\* adxl345_chardev_add: the node becomes visible to open(); expect() on failure.
ProbeRegister ==
    /\ busPc = "probe_register"
    /\ \E ok \in IoOk :
         /\ registration' = ok
         /\ busPc' = IF ok THEN "probe_publish" ELSE "oops"
    /\ UNCHANGED <<module, bound, clientdata, clientDev, devicePtr, devLock, filterLock,
                   baseline, hw, task>>

\* Store the registration under the lock, then DEVICE_PTR = Some; probe
\* returns 0 and probe_callback drops its view of the client.
ProbePublish ==
    /\ busPc = "probe_publish"
    /\ devLock = NoProc
    /\ devicePtr' = TRUE
    /\ bound' = TRUE
    /\ busPc' = "idle"
    /\ clientDev' = DropClient(FromRawPtrOwned)
    /\ UNCHANGED <<module, clientdata, registration, devLock, filterLock,
                   baseline, hw, task>>

\* Unbind through sysfs: the driver core calls remove_callback.
Unbind ==
    /\ module = "loaded"
    /\ busPc = "idle"
    /\ bound
    /\ busPc' = "remove"
    /\ UNCHANGED <<module, bound, clientdata, clientDev, registration, devicePtr,
                   devLock, filterLock, baseline, hw, task>>

\* remove_callback: with no clientdata only an error is logged.
RemoveEnter ==
    /\ busPc = "remove"
    /\ busPc' = IF clientdata THEN "remove_clean" ELSE "idle"
    /\ bound' = (bound /\ clientdata)
    /\ clientDev' = IF clientdata THEN clientDev ELSE DropClient(FromRawPtrOwned)
    /\ UNCHANGED <<module, clientdata, registration, devicePtr, devLock,
                   filterLock, baseline, hw, task>>

\* adxl345_device_clean under the lock; its error is only logged.
RemoveClean ==
    /\ busPc = "remove_clean"
    /\ devLock = NoProc
    /\ \E okInt, okPower \in IoOk : measuring' = PowerAfterClean(okInt, okPower)
    /\ busPc' = "remove_unreg"
    /\ UNCHANGED <<module, bound, clientdata, clientDev, registration, devicePtr, devLock,
                   filterLock, baseline, dataReady, hwSample, task>>

\* adxl.registration = None under the lock: the node is deregistered.
RemoveUnregister ==
    /\ busPc = "remove_unreg"
    /\ devLock = NoProc
    /\ registration' = FALSE
    /\ busPc' = "remove_clear"
    /\ UNCHANGED <<module, bound, clientdata, clientDev, devicePtr, devLock, filterLock,
                   baseline, hw, task>>

\* DEVICE_PTR = None, then remove_callback's free_clientdata and the drop
\* of its view of the client; unbound.
RemoveClear ==
    /\ busPc = "remove_clear"
    /\ devicePtr' = FALSE
    /\ clientdata' = FALSE
    /\ clientDev' = DropClient(FromRawPtrOwned)
    /\ bound' = FALSE
    /\ busPc' = "idle"
    /\ UNCHANGED <<module, registration, devLock, filterLock, baseline, hw, task>>

\* Drop for Adxl345Module: only when no file holds a module reference.
\* remove_driver runs the whole remove of a bound device uncontended, then
\* the owned I2CClient is dropped.
ModuleUnload ==
    /\ module = "loaded"
    /\ busPc = "idle"
    /\ \A p \in Procs : pc[p] = "idle"
    /\ \E okInt, okPower \in IoOk :
         measuring' = IF bound /\ clientdata THEN PowerAfterClean(okInt, okPower)
                                             ELSE measuring
    /\ module' = "unloaded"
    /\ bound' = FALSE
    /\ clientdata' = FALSE
    /\ clientDev' = DropClient(TRUE)
    /\ registration' = FALSE
    /\ devicePtr' = FALSE
    /\ UNCHANGED <<busPc, devLock, filterLock, baseline, dataReady, hwSample, task>>

-----------------------------------------------------------------------------
(* The accelerometer: a new sample at the output data rate while measuring *)

HwSample ==
    /\ measuring
    /\ \E s \in Samples : hwSample' = s
    /\ dataReady' = TRUE
    /\ UNCHANGED <<bus, devLock, filterLock, baseline, measuring, task>>

-----------------------------------------------------------------------------
(* File operations (fileops.rs, utility.rs)                                *)

\* chrdev_open finds the registered node and calls open(); a writable
\* access mode is refused with EPERM before anything else.
OpenEnter(p) ==
    /\ pc[p] = "idle"
    /\ registration
    /\ \E readOnly \in BOOLEAN :
         IF readOnly THEN /\ pc' = [pc EXCEPT ![p] = "open_ptr"]
                          /\ ret' = [ret EXCEPT ![p] = "none"]
                     ELSE /\ ret' = [ret EXCEPT ![p] = "EPERM"]
                          /\ UNCHANGED pc
    /\ UNCHANGED <<bus, devLock, filterLock, baseline, hw, items, nonblock,
                   iter, count, cur>>

\* DEVICE_PTR.as_ref().expect("Driver not initialized"): None oopses the task.
OpenGetDevice(p) ==
    /\ pc[p] = "open_ptr"
    /\ pc' = [pc EXCEPT ![p] = IF devicePtr THEN "open_enable" ELSE "oops"]
    /\ UNCHANGED <<bus, devLock, filterLock, baseline, hw, items, nonblock,
                   iter, count, cur, ret>>

\* adxl345_device_init_at_open: enable_measure under the lock, drop the lock,
\* sleep 2 ms on success; an error is returned as EIO.
OpenEnable(p) ==
    /\ pc[p] = "open_enable"
    /\ devLock = NoProc
    /\ \E ok \in IoOk :
         IF ok THEN /\ measuring' = TRUE
                    /\ pc' = [pc EXCEPT ![p] = "open_init"]
                    /\ UNCHANGED ret
               ELSE /\ pc' = [pc EXCEPT ![p] = "idle"]
                    /\ ret' = [ret EXCEPT ![p] = "EIO"]
                    /\ UNCHANGED measuring
    /\ UNCHANGED <<bus, devLock, filterLock, baseline, dataReady, hwSample,
                   items, nonblock, iter, count, cur>>

\* mutex_init! on ADXL345_LAST_SAMPLE, run at every open: the mutex is
\* unlocked whoever holds it.
OpenMutexInit(p) ==
    /\ pc[p] = "open_init"
    /\ filterLock' = NoProc
    /\ pc' = [pc EXCEPT ![p] = "open_lock"]
    /\ UNCHANGED <<bus, devLock, baseline, hw, items, nonblock, iter, count,
                   cur, ret>>

\* ADXL345_LAST_SAMPLE.lock()
OpenLockFilter(p) ==
    /\ pc[p] = "open_lock"
    /\ filterLock = NoProc
    /\ filterLock' = p
    /\ pc' = [pc EXCEPT ![p] = "open_reset"]
    /\ UNCHANGED <<bus, devLock, baseline, hw, items, nonblock, iter, count,
                   cur, ret>>

\* Reset the baseline to zero, set non-seekable, drop the guard, Ok(()).
OpenResetBaseline(p) ==
    /\ pc[p] = "open_reset"
    /\ baseline' = Zero
    /\ filterLock' = NoProc
    /\ pc' = [pc EXCEPT ![p] = "opened"]
    /\ UNCHANGED <<bus, devLock, hw, items, nonblock, iter, count, cur, ret>>

\* read(): DEVICE_PTR.expect(); the buffer size and O_NONBLOCK are the caller's.
ReadEnter(p) ==
    /\ pc[p] = "opened"
    /\ \E n \in 0..MaxItems, nb \in BOOLEAN :
         /\ items' = [items EXCEPT ![p] = n]
         /\ nonblock' = [nonblock EXCEPT ![p] = nb]
    /\ pc' = [pc EXCEPT ![p] = IF devicePtr THEN "read_lock" ELSE "oops"]
    /\ iter' = [iter EXCEPT ![p] = 0]
    /\ count' = [count EXCEPT ![p] = 0]
    /\ ret' = [ret EXCEPT ![p] = "none"]
    /\ UNCHANGED <<bus, devLock, filterLock, baseline, hw, cur>>

\* Mutant of ReadLock: the `items == 0` check is missing.
ReadLockNoEmptyCheck(p) ==
    /\ pc[p] = "read_lock"
    /\ devLock = NoProc
    /\ devLock' = p
    /\ pc' = [pc EXCEPT ![p] = "read_wait"]
    /\ UNCHANGED <<bus, filterLock, baseline, hw, ret, items, nonblock, iter,
                   count, cur>>

\* device.lock(); items == 0 returns EINVAL (the guard is dropped).
ReadLock(p) ==
    /\ pc[p] = "read_lock"
    /\ devLock = NoProc
    /\ IF items[p] = 0
         THEN ReadReturn(p, "EINVAL")
         ELSE /\ devLock' = p
              /\ pc' = [pc EXCEPT ![p] = "read_wait"]
              /\ UNCHANGED <<ret, items, nonblock, iter, cur>>
    /\ UNCHANGED <<bus, filterLock, baseline, hw, count>>

\* Stay inside read() at label l, holding the SpinLock.
ReadGoto(p, l) ==
    /\ pc' = [pc EXCEPT ![p] = l]
    /\ UNCHANGED <<devLock, ret, items, nonblock>>

\* Mutant of ReadPoll: the readiness test is inverted (`ready == 0` breaks).
ReadPollInverted(p) ==
    /\ pc[p] = "read_wait"
    /\ \E ok \in IoOk :
         \/ ~ok /\ ReadReturn(p, "EIO")
         \/ ok /\ ~dataReady /\ ReadGoto(p, "read_data") /\ UNCHANGED <<iter, cur>>
         \/ ok /\ dataReady /\ nonblock[p] /\ ReadReturn(p, "EAGAIN")
         \/ /\ ok /\ dataReady /\ ~nonblock[p]
            /\ ReadGoto(p, "read_sleep") /\ UNCHANGED <<iter, cur>>
    /\ UNCHANGED <<bus, filterLock, baseline, hw, count>>

\* One poll of data_ready() in the wait loop, the SpinLock held throughout;
\* the match arms are tried in order.
ReadPoll(p) ==
    /\ pc[p] = "read_wait"
    /\ \E ok \in IoOk :
         \/ ~ok /\ ReadReturn(p, "EIO")
         \/ ok /\ dataReady /\ ReadGoto(p, "read_data") /\ UNCHANGED <<iter, cur>>
         \/ ok /\ ~dataReady /\ nonblock[p] /\ ReadReturn(p, "EAGAIN")
         \/ /\ ok /\ ~dataReady /\ ~nonblock[p]
            /\ ReadGoto(p, "read_sleep") /\ UNCHANGED <<iter, cur>>
    /\ UNCHANGED <<bus, filterLock, baseline, hw, count>>

\* coarse_sleep(10 ms) returns; the loop polls again.
ReadWake(p) ==
    /\ pc[p] = "read_sleep"
    /\ pc' = [pc EXCEPT ![p] = "read_wait"]
    /\ UNCHANGED <<bus, devLock, filterLock, baseline, hw, items, nonblock,
                   iter, count, cur, ret>>

\* read_data(): a 6-byte block read of DATAX0..DATAZ1, which clears
\* DATA_READY; an error or a short read returns EIO.
ReadData(p) ==
    /\ pc[p] = "read_data"
    /\ \E ok \in IoOk :
         IF ok THEN /\ cur' = [cur EXCEPT ![p] = hwSample]
                    /\ dataReady' = FALSE
                    /\ ReadGoto(p, "read_filter_lock")
                    /\ UNCHANGED iter
               ELSE /\ ReadReturn(p, "EIO")
                    /\ UNCHANGED dataReady
    /\ UNCHANGED <<bus, filterLock, baseline, measuring, hwSample, count>>

\* adxl345_filter_out: ADXL345_LAST_SAMPLE.lock()
FilterLock(p) ==
    /\ pc[p] = "read_filter_lock"
    /\ filterLock = NoProc
    /\ filterLock' = p
    /\ pc' = [pc EXCEPT ![p] = "filter"]
    /\ UNCHANGED <<bus, devLock, baseline, hw, items, nonblock, iter, count,
                   cur, ret>>

\* Mutant of FilterDecide: a discarded sample goes on reading whatever the
\* iterations left.
FilterDecideNoBound(p) ==
    /\ pc[p] = "filter"
    /\ baseline' = cur[p]
    /\ filterLock' = NoProc
    /\ ReadGoto(p, IF FilterOut(cur[p], baseline) THEN "read_data" ELSE "read_deliver")
    /\ iter' = [iter EXCEPT ![p] = iter[p] + 1]
    /\ UNCHANGED <<bus, hw, count, cur>>

\* Compare with the baseline, overwrite it, drop the guard.  A discarded
\* sample ends this iteration of `for _ in 0..items` (continue).
FilterDecide(p) ==
    /\ pc[p] = "filter"
    /\ baseline' = cur[p]
    /\ filterLock' = NoProc
    /\ IF ~FilterOut(cur[p], baseline) \/ iter[p] + 1 < items[p]
         THEN /\ ReadGoto(p, IF FilterOut(cur[p], baseline) THEN "read_data"
                                                            ELSE "read_deliver")
              /\ iter' = [iter EXCEPT ![p] = iter[p] + 1]
              /\ UNCHANGED cur
         ELSE ReadReturn(p, "OK")
    /\ UNCHANGED <<bus, hw, count>>

\* Mutant of ReadDeliver: an error of the final data_ready() continues the
\* loop as if a sample were ready.
ReadDeliverErrContinue(p) ==
    /\ pc[p] = "read_deliver"
    /\ \E okWrite, okPoll \in IoOk :
         \/ ~okWrite /\ ReadReturn(p, "EFAULT") /\ UNCHANGED count
         \/ /\ okWrite
            /\ count' = [count EXCEPT ![p] = count[p] + 1]
            /\ \/ ~okPoll /\ ReadGoto(p, "read_data") /\ UNCHANGED <<iter, cur>>
               \/ /\ okPoll /\ dataReady /\ iter[p] < items[p]
                  /\ ReadGoto(p, "read_data") /\ UNCHANGED <<iter, cur>>
               \/ okPoll /\ ~(dataReady /\ iter[p] < items[p]) /\ ReadReturn(p, "OK")
    /\ UNCHANGED <<bus, filterLock, baseline, hw>>

\* Mutant of ReadDeliver: the final data_ready() answers "not ready" to a
\* non-blocking file with EAGAIN, as the wait loop does, losing the samples
\* already written.
ReadDeliverNonblockAgain(p) ==
    /\ pc[p] = "read_deliver"
    /\ \E okWrite, okPoll \in IoOk :
         \/ ~okWrite /\ ReadReturn(p, "EFAULT") /\ UNCHANGED count
         \/ /\ okWrite
            /\ count' = [count EXCEPT ![p] = count[p] + 1]
            /\ \/ ~okPoll /\ ReadReturn(p, "EIO")
               \/ /\ okPoll /\ dataReady /\ iter[p] < items[p]
                  /\ ReadGoto(p, "read_data") /\ UNCHANGED <<iter, cur>>
               \/ /\ okPoll /\ ~(dataReady /\ iter[p] < items[p])
                  /\ ReadReturn(p, IF ~dataReady /\ nonblock[p] THEN "EAGAIN" ELSE "OK")
    /\ UNCHANGED <<bus, filterLock, baseline, hw>>

\* Write x, y, z to the user buffer (a failed write returns its error),
\* count += 6, then data_ready(): not ready ends the loop early, an error
\* returns EIO; the loop goes on while iterations are left.
ReadDeliver(p) ==
    /\ pc[p] = "read_deliver"
    /\ \E okWrite, okPoll \in IoOk :
         \/ ~okWrite /\ ReadReturn(p, "EFAULT") /\ UNCHANGED count
         \/ /\ okWrite
            /\ count' = [count EXCEPT ![p] = count[p] + 1]
            /\ \/ ~okPoll /\ ReadReturn(p, "EIO")
               \/ /\ okPoll /\ dataReady /\ iter[p] < items[p]
                  /\ ReadGoto(p, "read_data") /\ UNCHANGED <<iter, cur>>
               \/ okPoll /\ ~(dataReady /\ iter[p] < items[p]) /\ ReadReturn(p, "OK")
    /\ UNCHANGED <<bus, filterLock, baseline, hw>>

\* release(): DEVICE_PTR.expect(); a None oopses the task.
ReleaseEnter(p) ==
    /\ pc[p] = "opened"
    /\ pc' = [pc EXCEPT ![p] = IF devicePtr THEN "release_lock" ELSE "oops"]
    /\ ret' = [ret EXCEPT ![p] = "none"]
    /\ UNCHANGED <<bus, devLock, filterLock, baseline, hw, items, nonblock,
                   iter, count, cur>>

\* Mutant of ReleaseDisable: release leaves the measure bit alone.
ReleaseDisableKeepsPower(p) ==
    /\ pc[p] = "release_lock"
    /\ devLock = NoProc
    /\ pc' = [pc EXCEPT ![p] = "idle"]
    /\ UNCHANGED <<bus, devLock, filterLock, baseline, hw, items, nonblock,
                   iter, count, cur, ret>>

\* adxl345_device_clean_at_release: disable_measure under the lock, its
\* result ignored.
ReleaseDisable(p) ==
    /\ pc[p] = "release_lock"
    /\ devLock = NoProc
    /\ \E ok \in IoOk : measuring' = IF ok THEN FALSE ELSE measuring
    /\ pc' = [pc EXCEPT ![p] = "idle"]
    /\ UNCHANGED <<bus, devLock, filterLock, baseline, dataReady, hwSample,
                   items, nonblock, iter, count, cur, ret>>

-----------------------------------------------------------------------------
BusNext ==
    \/ ModuleLoad \/ Bind \/ ProbeEnter \/ ProbeInit \/ ProbeRegister
    \/ ProbePublish \/ Unbind \/ RemoveEnter \/ RemoveClean
    \/ RemoveUnregister \/ RemoveClear \/ ModuleUnload

TaskNext(p) ==
    \/ OpenEnter(p) \/ OpenGetDevice(p) \/ OpenEnable(p) \/ OpenMutexInit(p)
    \/ OpenLockFilter(p) \/ OpenResetBaseline(p)
    \/ ReadEnter(p) \/ ReadLock(p) \/ ReadPoll(p) \/ ReadWake(p)
    \/ ReadData(p) \/ FilterLock(p) \/ FilterDecide(p) \/ ReadDeliver(p)
    \/ ReleaseEnter(p) \/ ReleaseDisable(p)

Next == BusNext \/ HwSample \/ \E p \in Procs : TaskNext(p)

\* The steps that continue an operation already started (everything but
\* starting a syscall, a bind, an unbind, a load or an unload).
BusProgress ==
    \/ ProbeEnter \/ ProbeInit \/ ProbeRegister \/ ProbePublish
    \/ RemoveEnter \/ RemoveClean \/ RemoveUnregister \/ RemoveClear

TaskProgress(p) ==
    \/ OpenGetDevice(p) \/ OpenEnable(p) \/ OpenMutexInit(p)
    \/ OpenLockFilter(p) \/ OpenResetBaseline(p)
    \/ ReadLock(p) \/ ReadPoll(p) \/ ReadWake(p) \/ ReadData(p)
    \/ FilterLock(p) \/ FilterDecide(p) \/ ReadDeliver(p) \/ ReleaseDisable(p)

(***************************************************************************)
(* Fairness.  The scheduler keeps running a runnable kernel thread, and    *)
(* spinlocks (queued) and mutexes (hand-off) serve their waiters in turn:  *)
(* a thread that can continue infinitely often eventually does (strong     *)
(* fairness of its continuation steps).  The device samples at its output *)
(* data rate while measuring.  Starting a syscall, a bind, an unbind, a    *)
(* load or an unload is the user's choice and is not fair.                 *)
(***************************************************************************)
Fairness ==
    /\ SF_vars(BusProgress)
    /\ WF_vars(HwSample)
    /\ \A p \in Procs : SF_vars(TaskProgress(p))

Spec == Init /\ [][Next]_vars
FairSpec == Spec /\ Fairness

-----------------------------------------------------------------------------
(* Properties                                                              *)

TypeOK ==
    /\ module \in {"unloaded", "loaded"}
    /\ busPc \in BusPcs
    /\ bound \in BOOLEAN
    /\ clientdata \in BOOLEAN
    /\ clientDev \in BOOLEAN
    /\ registration \in BOOLEAN
    /\ devicePtr \in BOOLEAN
    /\ devLock \in Procs \cup {NoProc}
    /\ filterLock \in Procs \cup {NoProc}
    /\ baseline \in SampleValues
    /\ measuring \in BOOLEAN
    /\ dataReady \in BOOLEAN
    /\ hwSample \in SampleValues
    /\ pc \in [Procs -> ProcPcs]
    /\ items \in [Procs -> 0..MaxItems]
    /\ nonblock \in [Procs -> BOOLEAN]
    /\ iter \in [Procs -> 0..MaxItems]
    /\ count \in [Procs -> 0..MaxItems]
    /\ cur \in [Procs -> SampleValues]
    /\ ret \in [Procs -> Results]

\* The read loop `for _ in 0..items` never writes more samples into the
\* user buffer than writer.len() / 6 allows, whichever of the filter's
\* discards, early data_ready stops and write errors happen on the way.
ReadWithinCapacity == \A p \in Procs : count[p] <= items[p]

\* adxl345_filter_out (fileops.rs:55-69) computes (new.x - last.x).abs() and
\* the same for y and z in i16: for the sample read_data returned and the
\* baseline the last filter call stored, neither the difference nor its
\* absolute value overflows, whichever samples the device produced.
FilterFits ==
    \A p \in Procs : pc[p] = "filter" => \A a \in Axes : DiffFits(cur[p][a], baseline[a])

\* The i2c_client Adxl345Module::init creates is owned by the Adxl345 it
\* stores and is unregistered when the module is dropped (client.rs:360);
\* probe_callback and remove_callback only wrap the same client in views
\* that must not unregister it.  So, unless the bus thread has oopsed, the
\* client is on the bus exactly while the module is loaded: no callback
\* takes it away under a bound driver and no unload leaves it behind.
ClientLifetime == busPc # "oops" => (clientDev <=> module = "loaded")

\* Power management of open/release/probe/remove: when no task is inside any
\* file operation or holds the node open, the accelerometer is in standby
\* (measure bit clear), whatever probe or remove is doing.
StandbyWhenUnused == (\A p \in Procs : pc[p] = "idle") => ~measuring

\* The readiness wait of a blocking read() (polling data_ready() and
\* sleeping) ends once the device is measuring: the task returns from read().
ReadReturns ==
    \A p \in Procs :
        (pc[p] \in {"read_wait", "read_sleep"} /\ measuring) ~> pc[p] = "opened"

(***************************************************************************)
(* The file interface.  A task's label translates to where its call is in *)
(* the protocol of Adxl345FileOps; the node, DEVICE_PTR and the locals of  *)
(* read() are the abstract ones.                                           *)
(***************************************************************************)
FileState(l) ==
    CASE l = "idle"         -> "closed"
      [] l = "opened"       -> "open"
      [] l = "release_lock" -> "releasing"
      [] l = "oops"         -> "crashed"
      [] l \in {"open_ptr", "open_enable", "open_init", "open_lock",
                "open_reset"} -> "opening"
      [] OTHER              -> "reading"

Files == INSTANCE Adxl345FileOps
           WITH node <- registration, ptr <- devicePtr,
                fst <- [p \in Procs |-> FileState(pc[p])], fret <- ret,
                fitems <- items, fnb <- nonblock, fcount <- count

\* open, read and release keep the promises of Adxl345FileOps whatever the
\* interleaving with other tasks, probe and remove: read() returns EINVAL
\* exactly for an empty buffer (fileops.rs:167), writes at most one sample
\* per slot, returns EAGAIN only to a non-blocking read that has written
\* nothing (fileops.rs:178), and a task panics only on a missing device.
FilesRefined == Files!Spec

(***************************************************************************)
(* Statements of the spec and of the code's comments that the code does    *)
(* not keep; each is checked by a run that expects a violation.            *)
(***************************************************************************)

\* utility.rs releases the SpinLock before every sleep ("Unlocking before
\* sleep", "Release the lock before sleeping"): no task sleeps, in
\* coarse_sleep or on the filter Mutex, while it holds the device SpinLock.
NoSleepUnderSpinLock ==
    \A p \in Procs : pc[p] \in {"read_sleep", "read_filter_lock"} => devLock # p

\* ADXL345_LAST_SAMPLE is "protected by a mutex": at most one task at a time
\* is between its lock() and the end of its update of the baseline (the
\* filter in read, the reset in open).
FilterExclusive ==
    \A p, q \in Procs :
        (p # q /\ pc[p] \in {"filter", "open_reset"}) => pc[q] \notin {"filter", "open_reset"}

\* Spec 3: a pipeline operation invoked while DeviceRegistry is empty is an
\* InvalidState error; no open, read or release ends in the oops of
\* DEVICE_PTR.expect("Driver not initialized").
NoOopsOnMissingDevice == \A p \in Procs : pc[p] # "oops"

\* Spec 4.4 and 6: a successful read returns at least one record (zero is
\* impossible, the readiness wait saw a ready sample).
ReadNeverZero == \A p \in Procs : ret[p] = "OK" => count[p] > 0

\* Comments of open ("Initialize at open, enabling measurement mode"): while
\* the driver is bound and no remove is running, a task that has opened the
\* node reads from a measuring device.
OpenFileMeasuring ==
    (bound /\ busPc = "idle") => \A p \in Procs : pc[p] = "opened" => measuring

\* Spec 3: the HandlerContext is set at probe and cleared at remove, so every
\* probe the bus delivers to the loaded driver finds it.
ProbeFindsContext == (busPc = "probe" /\ module = "loaded") => clientdata

\* Spec 3 and 4.3: DeviceRegistry is cleared at remove start and the device
\* is destroyed (put in standby) at remove: once remove has completed and the
\* driver is unbound, the accelerometer no longer measures.
RemovedStandby == (module = "loaded" /\ ~bound /\ busPc = "idle") => ~measuring

=============================================================================
