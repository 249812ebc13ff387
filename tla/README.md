# Verification of the ADXL345 Rust I2C driver

TLA+ models of the driver under `src/`, TLC runs on small instances, and TLAPS
proofs for every value of the constants.

## The system

The driver has four parts (spec 2) and the glue that starts them:

| Part | Source | What it does |
|---|---|---|
| TransportClient | `src/rust/kernel/i2c/client.rs` | The I2C client: created owned at module init, rebuilt borrowed inside callbacks. It carries the clientdata pointer and performs the SMBus and block transactions. |
| DriverBinding | `src/rust/kernel/i2c/driver.rs` | The `i2c_driver` vtable. Each callback finds the `Adxl345Driver` through the clientdata (`get_driver_instance`); `remove_callback` frees the clientdata after `remove`. |
| DeviceState | `src/src/fileops/utility/structures/mod.rs` | The register protocol: `set_default_config`, the read-modify-write of `POWER_CTL` (enable/disable measure), `data_ready` and `read_data` (6-byte block read decoded as `i16 << 2`). |
| SamplingPipeline | `src/src/fileops.rs`, `src/src/utility.rs` | `open`, `read` and `release` of `/dev/adxl345`, and the noise filter with its global baseline. |
| Module glue | `src/src/adxl345_core.rs` | `Adxl345Module::init` and `drop`, and the handler's `probe` and `remove`. |

They share four pieces of state:
- the device `SpinLock<Adxl345>`;
- the global `DEVICE_PTR` (a `static mut Option<Arc<...>>`), through which open, read and release find the device;
- the filter `Mutex` `ADXL345_LAST_SAMPLE`;
- the accelerometer's registers.

Probe and remove run on the bus thread (`insmod`, sysfs bind and unbind, `rmmod`). Open, read and release run on user tasks, concurrently with each other and with the bus thread.

Not modelled:
- the device id tables and macros (`device_id.rs`, `i2c_macros.rs`);
- the register constants;
- the diagnostic reader `adxl345_test`, which spec 1 puts out of scope.

## Modules

**`Adxl345Driver.tla`** is the whole driver as a set of interleaved processes.

- **State.**
  - The bus thread: `module`, `busPc`, `bound`, `clientdata`, `clientDev`, `registration`, `devicePtr`. `clientDev` says that the `i2c_client` module init created with `new_client_device` is still registered on the bus.
  - The two locks: `devLock` and `filterLock` hold the holder or `NoProc`.
  - The filter baseline.
  - The device: `measuring` is `POWER_CTL` bit 3, `dataReady` is `INT_SOURCE` bit 7, `hwSample` is the data registers.
  - For each task of `Procs`: a program counter and the locals of `read`.
- **Actions.** One action per step of the code between two points where another thread can run: a lock acquisition, a read of `DEVICE_PTR`, a return.
  - `OpenEnter`, `OpenGetDevice`, `OpenEnable`, `OpenMutexInit`, `OpenLockFilter` and `OpenResetBaseline` are `open`.
  - `ReadEnter` to `ReadDeliver` are `read`. Its wait loop and its `for _ in 0..items` loop are label cycles.
  - `ReleaseEnter` and `ReleaseDisable` are `release`.
  - `ModuleLoad` and `ModuleUnload` are module init and drop. `ModuleLoad` ends in a synchronous probe, and unload is possible only when no file is open.
  - `Bind` and `Unbind` are sysfs.
  - `ProbeEnter`, `ProbeInit`, `ProbeRegister` and `ProbePublish` are `probe_callback` and `probe`.
  - `RemoveEnter` to `RemoveClear` are `remove_callback` and `remove`.
  - Every callback step that rebuilds the client with `I2CClient::from_raw_ptr` (`ProbeEnter`, `ProbePublish`, `RemoveEnter`, `RemoveClear`) drops that borrowed view on return: `DropClient(FromRawPtrOwned)` unregisters only an owned client (client.rs:360). `ModuleUnload` drops the owned one.
  - `HwSample` is the accelerometer producing a sample while it measures.
- **What is collapsed.** `ProbeInit` is atomic: no task can reach the device before the node is registered. Each register operation is one step whose outcome is drawn from `IoOk`.
- **Constants.**
  - `Procs`: the tasks.
  - `NoProc`: a model value for "no lock holder".
  - `Samples`: the samples the hardware may produce.
  - `MaxItems`: the largest buffer, in samples.
  - `Faults`: with `TRUE`, every transaction and user copy may fail.
- **Mutants.** The mutants (`ReadLockNoEmptyCheck`, `ReadPollInverted`, `FilterDecideNoBound`, `ReadDeliverErrContinue`, `ReleaseDisableKeepsPower`) sit beside the actions they alter. They are plausible bugs that the properties must catch. One caveat: `ReadLockNoEmptyCheck` drops the check at fileops.rs:168-170, which the model folds together with the entry test of the `for` loop over the buffer. Dropping the check alone in the code would make an empty buffer return Ok(0), not overrun it. The mutant therefore stands for losing both bounds on the loop.

**`Adxl345Device.tla`** is DeviceState at the register level: the part `Adxl345Driver` collapses into single steps.
- **State.**
  - `reg`: the six configuration registers as bytes (`POWER_CTL`, `INT_ENABLE`, `BW_RATE`, `DATA_FORMAT`, `INT_MAP`, `FIFO_CTL`).
  - `dataReady`: `INT_SOURCE` bit 7. `dataRegs`: the six data registers. `raw`: the reading they hold.
  - The running function: `pc`, `op`, the byte `tmp` a read-modify-write has read, and `cont`, the return point of `enable_measure`/`disable_measure`.
  - `sample` and `result`: what the last `read_data` and the last function returned.
  - `bound` and `probed`: where the lifecycle is.
- **Actions.** One per SMBus transaction:
  - the eight of `set_default_config` (`CfgStandby` to `CfgFifoWrite`);
  - the read and the write of `enable_measure` and `disable_measure`;
  - `read_data`'s block read (`ReadData`), the 2 ms sleep of `adxl345_device_init` (`InitSleep`), and the two writes of `adxl345_device_clean`.
  - `Start(o)` is a caller taking the device lock and entering one of the functions. `HwSample` is the accelerometer latching a reading while bit 3 is set.
- **Transactions and failures.** With `Faults`, every transaction may fail.
  - A failed write may or may not have reached the device.
  - A block read may also come back short.
  - Every failure returns at once, as the code's `?` and `match` do: there is no rollback.
- **Bit operations.** They are arithmetic on bytes: `SetMeasure` is `|= 1 << 3`, `ClearMeasure` is `&= !(1 << 3)`, `ClearLowPower` is `&= !(1 << 4)`, `ClearFifoMode` is `&= !(3 << 6)`.
- **Who calls what.**
  - One function runs at a time, because every caller holds the SpinLock. `device_init` drops the lock for its sleep, but it runs inside probe, before any other caller exists.
  - Probe calls `device_init` on an unbound device, and remove calls `device_clean` on a bound one.
  - Open, read and release need a device probe has published. They may also follow `device_clean`, because remove clears `DEVICE_PTR` last.
  - After a failed `device_init`, probe has panicked and nothing calls the device again.

**`Adxl345DeviceCalls.tla`** is the abstract specification of the same functions: what `utility.rs` promises its callers, with each function seen as one call. Its state is what a caller can see: `measuring` (bit 3), `configured` (the four settings only `set_default_config` writes), `busy`, `op`, `result`, `bound` and `probed`.
- `Call(o)` is a caller taking the device.
- `Work` is a transaction inside a function that writes `POWER_CTL`. It may change the power state in any way. It may change the configuration only inside `device_init`.
- `Return(r)` ends the call. A call that returns Ok leaves the power state its caller assumes, and `device_init` Ok leaves the device configured. `read` changes neither.

`Adxl345Device` instantiates it as `Calls`, with this refinement mapping:
- `measuring` is `MeasureBit(reg["POWER_CTL"])`;
- `configured` is `Configured`;
- `busy` is `pc # "idle"`.

`CallsRefined == Calls!Spec` is the abstract specification stated of the register model.

**`Adxl345FileOps.tla`** is the abstract specification of the character device: what `open`, `read` and `release` of `fileops.rs` promise the tasks that call them. Each task's file is `closed`, `opening`, `open`, `reading`, `releasing` or `crashed`; with it go the result of its last call (`fret`) and the buffer capacity (`fitems`), the `O_NONBLOCK` flag (`fnb`) and the samples written (`fcount`) of its read. `node` and `ptr` say that the node is registered and the device published.
- `OpenCall` on a registered node starts an open or refuses it with EPERM. `OpenReturn` ends it with Ok or EIO.
- `ReadCall` needs a published device. `Deliver` writes a sample into a free slot.
- `ReadReturn(p, r)` may write one last sample. Its result keeps the contract: EINVAL exactly when the buffer holds no sample, EAGAIN only to a non-blocking read, and neither after a sample was written.
- `ReleaseCall` and `ReleaseReturn` close the file. `Crash` is a task that looks up a missing device. `Publish` is the driver changing `node` and `ptr`.

`Adxl345Driver` instantiates it as `Files`. Each task's label is translated by `FileState`, `pc` to the protocol state. `node` is `registration`, `ptr` is `devicePtr`, and the locals of `read` are taken as they are. `FilesRefined == Files!Spec`.

**`Adxl345Decode.tla`** is `read_data`'s arithmetic. `FromLeBytes` is `i16::from_le_bytes`, `Shl2` is `<< 2` with the bits it pushes out lost (`Wrap16`), and `DecodeAxis` is both together. It is checked against the reference `Scaled(r) = 4 * r`. `LowByte` and `HighByte` are how the device lays a reading out. The module holds its own proofs.

**`Adxl345DriverProofs.tla`** holds the inductive invariant and the TLAPS proofs. **`Adxl345DriverRefinement.tla`** extends it with the proof that the driver implements `Adxl345FileOps`.

**`Adxl345DeviceProofs.tla`** holds the register model's inductive invariant and its TLAPS proofs.

**`MCAdxl345Driver.tla` and `MCAdxl345DriverProofs.tla`** give the sample sets and the symmetry for TLC. The samples of `MCAdxl345DriverProofs` are computed from raw readings: `Adxl345Decode`'s byte layout, decoded by `DecodeAxis`. This composes the decoding with the pipeline. `MCAdxl345Device.tla` gives the register files and readings.

## Runs

**`safety`** (`MCAdxl345Driver.cfg` on `MCAdxl345DriverProofs`, pass): `TypeOK`, `ReadWithinCapacity`, `FilterFits`, `ClientLifetime`, `StandbyWhenUnused`, `IInv`.
- Two tasks go through every interleaving of load, probe, open, read, release, unbind, rebind and unload.
- The read count never exceeds the buffer.
- `FilterFits`: in every filter call, the i16 difference of each axis and its `.abs()` do not overflow (fileops.rs:56). The samples include decoded readings at both ends of the 13-bit range, and the baseline can hold either of them. The mutant decodes with `<< 3`, as a left-justified format would need. It makes the difference of the two extremes overflow.
- `ClientLifetime`: unless the bus thread has panicked, the client is registered exactly while the module is loaded. The mutant makes `from_raw_ptr` build an owned view, so the first callback unregisters the client under a bound driver.
- With no task in a file operation, the device is in standby.
- The proofs' inductive invariant holds in every reachable state, without faults.

**`liveness`** (`MCAdxl345DriverLive.cfg`, pass): `ReadReturns`. Under the fairness below, a blocking read whose device measures returns.


**`faults`** (`MCAdxl345DriverFaults.cfg`, pass): `RInv` and `FilesRefined` with `Faults = TRUE`.
- Every error path keeps the types and the bounds of the read loop. `RInv` is the refinement proof's inductive invariant. Its mutant lets a failed final `data_ready()` continue the loop.
- Every behaviour is a behaviour of `Adxl345FileOps` under the mapping, through every EIO, EFAULT, EAGAIN and EINVAL return. The run has faults on so that those returns happen. The mutant answers "not ready" from the final `data_ready()` with EAGAIN to a non-blocking file. That loses the samples already written, and TLC finds a return that no abstract step matches.
- A failed load or probe panics the bus thread, and nothing moves afterwards, so deadlock is not checked.

**`device`** (`MCAdxl345Device.cfg`, pass): `TypeOK`, `ConfigApplied`, `PowerContract`, `IInv`, `DecodeExact`, `CallsRefined`, with `Faults = TRUE`.
- The run starts from three register files: the power-on values; what another driver may leave (measuring with the Link bit, low power, left-justified, FIFO in stream mode); and every bit set. The readings include both ends of the 13-bit range.
- After a successful `device_init`, the device holds the default configuration in standby (spec 8's "config, enable, disable ends with bit 3 clear"), whatever it started from and whatever failed earlier.
- Whenever a function returns Ok, the power state is the one `Adxl345Driver` assumes: measuring after open, standby after init, clean and release.
- Every sample `read_data` returns is four times the reading in the registers.
- Every behaviour is a behaviour of `Adxl345DeviceCalls` under the mapping. Its mutant writes `device_clean`'s interrupt disable to the wrong register. That changes the configuration inside a call that must not touch it, and TLC finds the step that no abstract step matches.
- The system stops after probe panics, so deadlock is not checked.

Violation runs. Each checks one statement of the spec or of the code's comments, and TLC finds it broken:

| Run | Property | What the counterexample shows |
|---|---|---|
| `sleep_under_spinlock` | `NoSleepUnderSpinLock` | `read` sleeps (`coarse_sleep`, and the filter `Mutex`) holding the SpinLock (fileops.rs:183, :53). |
| `filter_exclusive` | `FilterExclusive` | A second `open`'s `mutex_init!` unlocks the filter Mutex under its holder (fileops.rs:114). |
| `oops_missing_device` | `NoOopsOnMissingDevice` | An `open` between node registration and `DEVICE_PTR = Some`, or a read or release after unbind, panics in `expect` (spec 3 wants InvalidState). |
| `read_zero` | `ReadNeverZero` | A discarded sample uses up a loop iteration, so `read` returns `Ok(0)` (spec 4.4 says impossible). |
| `release_disables_others` | `OpenFileMeasuring` | One file's `release` puts the device in standby while another file is open (utility.rs:167). |
| `rebind_context` | `ProbeFindsContext` | After unbind the clientdata is freed (driver.rs:336) and never set again, so rebinding fails (spec 3). |
| `failed_init_standby` | `FailedInitStandby` | From standby, `device_init` returns at the first error after the Measure bit reached POWER_CTL and leaves the device measuring. TLC's shortest trace is `enable_measure`'s own write reported failed although the byte landed (utility.rs:55); failures of `read_data` (:79) and `disable_measure` (:84) end the same way. Spec 7 says a failed probe leaves the device not activated. |
| `removed_standby` | `RemovedStandby` | An `open` racing `remove` re-enables measurement after remove's `device_clean`, because `DEVICE_PTR` is cleared last (adxl345_core.rs:127). |

### Bounds

- **Tasks.** Two tasks are the fewest that can race each other: on the filter Mutex, on release versus read, and on open versus remove.
- **`MaxItems`.** It is 2 in `safety` and `faults`, so the read loop can discard and then deliver, or deliver twice. It is 1 in `liveness`, where only the wait loop matters.
- **Samples.** In `liveness` and the violation runs there are three: zero, one within the filter threshold of zero (x = 40) and one beyond it (z = 100). So both filter outcomes happen from every baseline. `safety` and `faults` decode four raw readings: zero, x = 10 (decoded 40, filtered out against zero), and z = 4095 and z = -4096 (decoded 16380 and -16384). The two extremes are the pair whose difference is largest.
- **Symmetry.** Symmetry over the tasks is sound: no property and no action distinguishes one task from another.
- **Constants left free.** `Samples` and the size of the buffer are constants of the proofs, which hold for every value.

### Fairness

`FairSpec` assumes strong fairness of each task's continuation steps and of the bus thread's probe and remove steps, and weak fairness of the hardware's sampling:
- A runnable kernel thread is scheduled.
- The kernel's queued spinlocks and mutexes serve their waiters in turn.
- The device produces samples at its output data rate while measuring.

Starting a system call, a bind, an unbind, a load or an unload is the user's choice and gets no fairness.

## Proofs of the decoding (`Adxl345Decode.tla`)

These hold for every value, not just the readings the runs use:
- `DecodeScales`: for every full-resolution reading `r` in -4096..4095, `DecodeAxis(LowByte(r), HighByte(r)) = 4 * r`. It rests on `FromLeBytesInverse`: `from_le_bytes` undoes the device's byte split of every i16.
- `FilterNoOverflow`: the filter's `new - last` on two decoded readings lies in -32767..32767, so neither the subtraction nor `.abs()` overflows.

The ranges are written as `{v \in Int : lo <= v /\ v <= hi}` rather than as literal intervals, because the SMT backend reasons about them arithmetically only in that form.

## Proofs (`Adxl345DriverProofs.tla`)

The theorems are checked by `tlapm` for every set of tasks, every `MaxItems >= 1` and every sample set of three `i16` values:
- `IInvariant`: `Spec => []IInv`.
- `TypeCorrect`: `Spec => []TypeOK`.
- `CapacityTheorem`: `Spec => []ReadWithinCapacity`.
- `StandbyTheorem`: `~Faults => (Spec => []StandbyWhenUnused)`.
- `FilterFitsTheorem`: if every sample is a decoded full-resolution reading, then `Spec => []FilterFits`. `TypeOK` keeps the current sample and the baseline among the samples and zero, and `FilterNoOverflow` bounds the difference of any two of them.
- `ClientLifetimeTheorem`: `Spec => []ClientLifetime`. It is inductive together with `TypeOK`; the lemma `ClientStep` takes each bus action in turn.

They rest on the named assumptions `ProcsAssumption`, `SamplesAssumption`, `MaxItemsAssumption` and `FaultsAssumption`.

The inductive invariant is `IInv == TypeOK /\ LoopInv /\ (~Faults => PowerInv)`.

**`LoopInv` and why it is needed.** `ReadWithinCapacity` alone is not inductive: a step of `ReadDeliver` adds one to `count`, and only the loop's history says that is within bounds. `LoopInv` records that history per task:
- at `read_lock` the count and the iterations are 0;
- inside the loop, `count <= iter <= items`;
- wherever `read_data` may still be called, `iter < items`;
- a sample about to be written was not yet counted (`count < iter`).

**`PowerInv` and why it is needed.** `StandbyWhenUnused` needs `PowerInv`: the device measures only while some task is not idle. Only `OpenEnable` turns measuring on, and its task is then busy. `ReleaseDisable` returns a task to idle only after switching measuring off. That holds only without transport faults, hence the `~Faults` guard.

**How the proof is laid out.**
- `StepIInv` has one case per action.
- Bus actions go through `BusFrame`: task state is unchanged and power only goes down.
- Task actions go through `TaskFrame`: only task p's locals change, and power comes on only while p is busy.
- Both rest on typing lemmas for leaving `read` (`ReturnType`) and staying in it (`GotoType`).

## The refinement of the file interface (`Adxl345DriverRefinement.tla`)

- `DriverRefinesFiles`: `Spec => FilesRefined`, for every set of tasks and every `MaxItems >= 1`, with or without faults.
- `RInvariant`: `Spec => []RInv`, where `RInv == IInv /\ WaitFresh`.

**The invariant.** `WaitFresh` says that a task polling or sleeping in `read`'s readiness wait has written nothing. Without it, the EAGAIN return of `ReadPoll` could not be shown to lose no sample. IInv gives the rest: `LoopOK` says the buffer is not empty inside the loop, so no return there can be EINVAL, and that a sample about to be written has a free slot.

**How the proof is laid out.** Each step of a task is matched to one abstract step or a stutter:
- `OpenReleaseRefines`: the open and release steps.
- `ReadWaitRefines`: `ReadEnter` up to the readiness wait.
- `ReadLoopRefines`: `ReadData` to `ReadDeliver`. A `ReadDeliver` that writes and goes on is `Deliver`. One that writes and returns is a `ReadReturn` with one more sample.

The bus and hardware steps are `Publish` or stutters (`BusRefines`). The lemmas they share are:
- `MoveStep`: a task's label change is a `Move` of its file.
- `StutterStep` and `SameFileState`: a move within one protocol state.
- `ReturnRefines`: leaving `read` under the contract is an abstract return.
- `CrashStep`: the panics.

`FilesStep` combines them for `[Next]_vars`, using `RInv` in both states, and the theorem closes with `PTL`.

## Proofs of the register model (`Adxl345DeviceProofs.tla`)

These hold for every register file the device may start from (`InitRegsAssumption`: every register a byte) and every set of readings (`RawSamplesAssumption`: full-resolution values), with every transaction able to fail:
- `DeviceInvariant`: `Spec => []IInv`.
- `DeviceTypeOK`: `Spec => []TypeOK`.
- `DeviceConfigApplied`: `Spec => []ConfigApplied`.
- `DevicePowerContract`: `Spec => []PowerContract`.
- `DeviceDecodeExact`: `Spec => DecodeExact`. It rests on `DataOK` (the data registers hold the layout of the last reading) and on `DecodeScales`.
- `DeviceRefinesCalls`: `Spec => CallsRefined`. The register model implements the abstract calls.

**The refinement proof.** It is laid out the standard way:
- the initial states map to initial states of the calls;
- under `IInv` on both sides of a step, every step maps to a step of the calls or leaves the mapped variables unchanged (`StepRefines`).

The step lemmas:
- `StartRefines`: `Start(o)` is `Call(o)`.
- `WriteRefines`: a write that stays inside a function is `Work`, and a write that ends it is `Return` (`MapWork`, `MapFinish`). `ConfigFrame` shows that writes to `POWER_CTL` and `INT_ENABLE` leave `Configured` as it is. This is what confines configuration changes to `device_init`.
- `ReadRefines`, `InitSleep` and `HwSample`: these steps change no register, so they are stutters (`StutterRefines`), or a `Return` with an error.
- `MapFinish` takes the power state and the configuration at the return from `PowerContract` and `ConfigApplied` of `IInv'`.

The invariant is what makes the mapping work: `PcOK` tells which call a place belongs to, and `ResultOK` that no result is visible while one runs.

**The inductive invariant.** `ConfigApplied` alone is not inductive: when `disable_measure` returns Ok, only the history of `device_init` says the other registers hold their defaults. `IInv == TypeOK /\ Rest` records that history:
- `PcOK`: each place belongs to the functions that reach it;
- `ContOK`: `enable_measure` returns to the sleep exactly when `device_init` called it;
- `ResultOK`: a function in progress shows no result;
- `ConfigInv`: inside `device_init`, each register `set_default_config` has written still holds what it wrote. Only `POWER_CTL` is written afterwards.

**How the proof is laid out.** `StepIInv` has one lemma per action. A failing transaction goes through `FailRest`, since a function returning an error leaves nothing to check. A write or read that goes on to another place goes through `WriteGotoIInv` or `ReadGotoIInv`. A function returning Ok goes through `OkRest`, given the power bit and, for `device_init`, the default configuration. The byte lemmas `MeasureOps` and `ConfigOps` show that the read-modify-write masks keep a byte and set or clear their bits.

**What is only model-checked.** Liveness (`ReadReturns`) is out of TLAPS's reach. So are the violation runs.

## Plan for the next steps

1. **DriverBinding module.** The builder and `add_driver`/`remove_driver` failing midway. The optional callbacks (`shutdown`, `alert`, `command`, `detect`) are log-only defaults that change no state; `detect` is never called because the class is 0.
2. **Calls inside the driver.** Make `Adxl345Driver`'s device steps an instance of `Adxl345DeviceCalls`, so that the two refinements compose.
3. **An abstract pipeline.** A read returns a run of accepted samples; a refinement mapping from `Adxl345Driver` shows the pipeline implements it.
4. **More proofs.** An action property of release and open. Read's returns in `Adxl345FileOps` could also carry the samples, not only their count.
