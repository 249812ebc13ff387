--------------------------- MODULE Adxl345FileOps ---------------------------
(***************************************************************************)
(* What the character device of fileops.rs promises the tasks that use    *)
(* it, each open, read and release seen from the caller: a call starts,   *)
(* runs, and returns a result.  Adxl345Driver implements it step by step. *)
(*                                                                         *)
(*   - open is refused (EPERM) for a writable file and fails with EIO      *)
(*     when the device cannot be powered up;                              *)
(*   - read fails with EINVAL exactly when the buffer holds no sample;     *)
(*   - it writes at most one sample per slot of the buffer;                *)
(*   - EAGAIN is returned only to a non-blocking read and only before it   *)
(*     wrote anything;                                                     *)
(*   - a task that looks up the device after it was unpublished (or       *)
(*     before it was published) panics ("crashed").                        *)
(***************************************************************************)
EXTENDS Naturals

CONSTANTS
    Procs,     \* the tasks
    MaxItems   \* largest user buffer, in samples

VARIABLES
    node,    \* the device node is registered: open() can be reached
    ptr,     \* the device is published (DEVICE_PTR is Some)
    fst,     \* per task: where its file is in the open/read/release protocol
    fret,    \* per task: result of its last call, "none" while one runs
    fitems,  \* per task: capacity of the buffer of the read in progress
    fnb,     \* per task: the read in progress is non-blocking
    fcount   \* per task: samples the read in progress (or the last one) wrote

fileVars == <<node, ptr, fst, fret, fitems, fnb, fcount>>

FileStates == {"closed", "opening", "open", "reading", "releasing", "crashed"}

FileResults == {"none", "OK", "EPERM", "EIO", "EINVAL", "EAGAIN", "EFAULT"}

Init ==
    /\ node = FALSE
    /\ ptr = FALSE
    /\ fst = [p \in Procs |-> "closed"]
    /\ fret = [p \in Procs |-> "none"]
    /\ fitems = [p \in Procs |-> 0]
    /\ fnb = [p \in Procs |-> FALSE]
    /\ fcount = [p \in Procs |-> 0]

\* The driver registers and deregisters the node and publishes and clears
\* the device; no file changes with it.
Publish ==
    /\ node' \in BOOLEAN
    /\ ptr' \in BOOLEAN
    /\ UNCHANGED <<fst, fret, fitems, fnb, fcount>>

\* Task p moves its file from state s to state t and sets its result r.
Move(p, s, t, r) ==
    /\ fst[p] = s
    /\ fst' = [fst EXCEPT ![p] = t]
    /\ fret' = [fret EXCEPT ![p] = r]

\* open() on the registered node: refused for a writable file, else it runs.
OpenCall(p) ==
    /\ node
    /\ \/ Move(p, "closed", "opening", "none")
       \/ Move(p, "closed", "closed", "EPERM")
    /\ UNCHANGED <<node, ptr, fitems, fnb, fcount>>

\* open() returns Ok, or EIO and the file stays closed.
OpenReturn(p) ==
    /\ \/ Move(p, "opening", "open", fret[p])
       \/ Move(p, "opening", "closed", "EIO")
    /\ UNCHANGED <<node, ptr, fitems, fnb, fcount>>

\* A task that finds no device panics; what its calls held is lost.
Crash(p) ==
    /\ ~ptr
    /\ fst[p] \in {"opening", "open"}
    /\ fst' = [fst EXCEPT ![p] = "crashed"]
    /\ fret' \in [Procs -> FileResults]
    /\ fitems' \in [Procs -> 0..MaxItems]
    /\ fnb' \in [Procs -> BOOLEAN]
    /\ fcount' \in [Procs -> 0..MaxItems]
    /\ \A q \in Procs \ {p} : /\ fret'[q] = fret[q] /\ fitems'[q] = fitems[q]
                              /\ fnb'[q] = fnb[q] /\ fcount'[q] = fcount[q]
    /\ UNCHANGED <<node, ptr>>

\* read() with a buffer of n samples, blocking or not.
ReadCall(p) ==
    /\ ptr
    /\ Move(p, "open", "reading", "none")
    /\ \E n \in 0..MaxItems, nb \in BOOLEAN :
         /\ fitems' = [fitems EXCEPT ![p] = n]
         /\ fnb' = [fnb EXCEPT ![p] = nb]
    /\ fcount' = [fcount EXCEPT ![p] = 0]
    /\ UNCHANGED <<node, ptr>>

\* The read writes one more sample into a free slot of the buffer.
Deliver(p) ==
    /\ fst[p] = "reading"
    /\ fcount[p] < fitems[p]
    /\ fcount' = [fcount EXCEPT ![p] = fcount[p] + 1]
    /\ UNCHANGED <<node, ptr, fst, fret, fitems, fnb>>

\* read() returns r, having written at most one more sample on the way out.
ReadReturn(p, r) ==
    /\ Move(p, "reading", "open", r)
    /\ r \in FileResults \ {"none", "EPERM"}
    /\ \E c \in {fcount[p], fcount[p] + 1} :
         /\ c <= fitems[p]
         /\ r \in {"EINVAL", "EAGAIN"} => c = 0
         /\ fcount' = [fcount EXCEPT ![p] = c]
    /\ (r = "EINVAL") = (fitems[p] = 0)
    /\ r = "EAGAIN" => fnb[p]
    /\ fnb' = [fnb EXCEPT ![p] = FALSE]
    /\ UNCHANGED <<node, ptr, fitems>>

\* release() on a published device, and its return.
ReleaseCall(p) ==
    /\ ptr
    /\ Move(p, "open", "releasing", "none")
    /\ UNCHANGED <<node, ptr, fitems, fnb, fcount>>

ReleaseReturn(p) ==
    /\ Move(p, "releasing", "closed", fret[p])
    /\ UNCHANGED <<node, ptr, fitems, fnb, fcount>>

Next ==
    \/ Publish
    \/ \E p \in Procs :
         \/ OpenCall(p) \/ OpenReturn(p) \/ Crash(p)
         \/ ReadCall(p) \/ Deliver(p) \/ \E r \in FileResults : ReadReturn(p, r)
         \/ ReleaseCall(p) \/ ReleaseReturn(p)

Spec == Init /\ [][Next]_fileVars

=============================================================================
