------------------------- MODULE Adxl345DeviceCalls -------------------------
(***************************************************************************)
(* What the device functions of utility.rs promise their callers, each    *)
(* function seen as one call that takes the device and gives it back:     *)
(* probe calls adxl345_device_init, remove adxl345_device_clean, open     *)
(* adxl345_device_init_at_open, release adxl345_device_clean_at_release,  *)
(* read read_data.  This is the view Adxl345Driver takes of the device;   *)
(* Adxl345Device implements it transaction by transaction.                *)
(*                                                                         *)
(* While a call runs, the power state may change in any way (device_init  *)
(* enables measurement and disables it again), but only device_init       *)
(* touches the configuration and read_data touches no register at all.    *)
(* When a call returns Ok, the power state is the one its caller assumes. *)
(***************************************************************************)

VARIABLES
    measuring,   \* POWER_CTL bit 3
    configured,  \* BW_RATE, DATA_FORMAT, INT_MAP and FIFO_CTL hold the driver's settings
    busy,        \* a call is in progress
    op,          \* the call in progress, or the last one
    result,      \* what the last call returned ("none" while one runs)
    bound,       \* probe's device_init succeeded and remove has not run
    probed       \* probe has published the device at least once

callVars == <<measuring, configured, busy, op, result, bound, probed>>

Ops == {"init", "clean", "open", "release", "read"}
Results == {"none", "ok", "EIO", "EINVAL"}

\* The calls that write POWER_CTL (all but read).
PowerOps == {"init", "clean", "open", "release"}

\* A transaction error is EIO; a short block read of read_data is EINVAL,
\* so only the calls that run read_data return it.
Errors(o) == IF o \in {"init", "read"} THEN {"EIO", "EINVAL"} ELSE {"EIO"}

\* probe runs on an unbound device, remove on a bound one; open, read and
\* release reach the device once probe has published it.
Allowed(o) ==
    CASE o = "init"  -> ~bound
      [] o = "clean" -> bound
      [] OTHER       -> probed

Init ==
    /\ measuring \in BOOLEAN
    /\ configured \in BOOLEAN
    /\ busy = FALSE
    /\ op = "none"
    /\ result = "none"
    /\ bound = FALSE
    /\ probed = FALSE

\* A caller takes the device.  After a failed device_init probe has
\* panicked and nobody calls again.
Call(o) ==
    /\ ~busy
    /\ ~(op = "init" /\ result \notin {"none", "ok"})
    /\ Allowed(o)
    /\ busy' = TRUE
    /\ op' = o
    /\ result' = "none"
    /\ UNCHANGED <<measuring, configured, bound, probed>>

\* A transaction inside a call that writes POWER_CTL.
Work ==
    /\ busy
    /\ op \in PowerOps
    /\ measuring' \in BOOLEAN
    /\ configured' \in BOOLEAN
    /\ op # "init" => UNCHANGED configured
    /\ UNCHANGED <<busy, op, result, bound, probed>>

\* The call returns r; with it the device is bound (device_init Ok) or
\* unbound (device_clean, whose result remove ignores).
Return(r) ==
    /\ busy
    /\ r \in {"ok"} \cup Errors(op)
    /\ busy' = FALSE
    /\ result' = r
    /\ measuring' \in BOOLEAN
    /\ op = "read" => UNCHANGED measuring
    /\ (r = "ok" /\ op \in PowerOps) => measuring' = (op = "open")
    /\ configured' \in BOOLEAN
    /\ op # "init" => UNCHANGED configured
    /\ (r = "ok" /\ op = "init") => configured'
    /\ bound' = CASE op = "init"  -> r = "ok"
                  [] op = "clean" -> FALSE
                  [] OTHER        -> bound
    /\ probed' = (probed \/ (op = "init" /\ r = "ok"))
    /\ UNCHANGED op

Next ==
    \/ \E o \in Ops : Call(o)
    \/ Work
    \/ \E r \in Results \ {"none"} : Return(r)

Spec == Init /\ [][Next]_callVars

=============================================================================
