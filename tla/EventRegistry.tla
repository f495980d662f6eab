--------------------------- MODULE EventRegistry ---------------------------
(***************************************************************************)
(* The deferred notification registry of the event sample driver           *)
(* (examples/event/src/lib.rs) together with the library wrappers it       *)
(* relies on: WduIrp's cancel slot (src/io/irp.rs), WduTimer and WduDpc    *)
(* (src/sync/timer.rs, src/common/dpc.rs) and WduRemoveLock                *)
(* (src/sync/remove_lock.rs).                                              *)
(*                                                                         *)
(* A record is identified by the IOCTL request (IRP) that registered it.   *)
(* Every section of the code that runs under queue_lock is one atomic      *)
(* step: the spin lock serialises them and none of them waits inside.      *)
(* A step that makes the machine bug-check or spin forever (double IRP     *)
(* completion, double pool free, a freed KTIMER/KDPC still linked in a     *)
(* kernel queue, a Rust panic) leads to a Crashed state, after which no    *)
(* step is taken.                                                          *)
(***************************************************************************)
EXTENDS Naturals, Sequences, SequencesExt, FiniteSets

CONSTANTS
  Irps,         \* IOCTL_REGISTER_EVENT requests (IRP pointers)
  Files,        \* file objects opened on \Device\Event_Sample
  Events,       \* KEVENT objects user mode passes by handle
  BadHandle,    \* a handle ObReferenceObjectByHandle rejects
  Kinds,        \* notify_type values sent: a subset of {"Irp","Event","Invalid"}
  Cancellable,  \* requests whose issuer may cancel them (IoCancelIrp)
  NoValue       \* an absent pointer / tag / field

ASSUME Kinds \subseteq {"Irp", "Event", "Invalid"}
ASSUME Cancellable \subseteq Irps

VARIABLES
  queue,        \* DeviceExtension.event_queue: Vec<Box<NotifyRecord>>
  timer,        \* record.timer: "Armed" while in the kernel timer queue
  dpcPc,        \* progress of timer_dpc for the record's KDPC
  dpcIndex,     \* timer_dpc's local `index`, kept across the lock release
  freed,        \* records whose Box has been dropped
  kind,         \* notify_type of each request
  fileOf,       \* the file object each request was sent on
  evOf,         \* the event handle each EVENT_BASED request carries
  dispPc,       \* progress of device_control for each request
  dispStatus,   \* the status handle_register_event returned
  cancelRtn,    \* requests whose IRP->CancelRoutine is set
  cancelFlag,   \* requests whose IRP->Cancel is TRUE
  cloneCancel,  \* which WduIrp copies ("disp","rec","dpc") hold cancel = Some
  ctxDrops,     \* Box drops of IRP->DriverContext[3]
  completions,  \* IofCompleteRequest calls on each request
  cancelPc,     \* progress of cancel_routine for each request
  rlCount,      \* IO_REMOVE_LOCK IoCount of each file's FileContext
  rlRemoved,    \* files whose remove lock has Removed = TRUE
  lockTag,      \* WduRemoveLock.lock_tag of each file
  cleanPc,      \* progress of the cleanup / close of each file
  cleanupList,  \* cleanup's local cleanup_list
  refs,         \* object references the driver holds on each event
  drvPc         \* "Loaded", "Unloaded", or "Panic" (driver_unload's assert)

vars == << queue, timer, dpcPc, dpcIndex, freed, kind, fileOf, evOf, dispPc,
           dispStatus, cancelRtn, cancelFlag, cloneCancel, ctxDrops,
           completions, cancelPc, rlCount, rlRemoved, lockTag, cleanPc,
           cleanupList, refs, drvPc >>

irpVars   == << cancelRtn, cancelFlag, cloneCancel, ctxDrops >>
rlVars    == << rlCount, rlRemoved, lockTag >>
timerVars == << timer, dpcPc, dpcIndex >>
reqVars   == << kind, fileOf, evOf >>

Statuses == {"Pending", "Success", "Cancelled", "InvalidParameter", "ObjectError"}
DpcRunning == {"Lock", "Complete", "Relock"}

-----------------------------------------------------------------------------
(* Helpers translated from the Rust code.                                  *)

\* Vec::swap_remove with a 1-based index: the last element takes its place.
SwapRemove(s, i) ==
  IF i = Len(s) THEN Front(s) ELSE Front([s EXCEPT ![i] = Last(s)])

\* NotifyData::eq: IRP records match by IRP pointer, event records by KEVENT.
SameData(x, r) ==
  /\ kind[x] = kind[r]
  /\ kind[r] = "Irp" => x = r
  /\ kind[r] = "Event" => evOf[x] = evOf[r]

\* WduIrp::set_cancel_rtn(None) on the copy `c` of request r: it returns
\* the copy's own `cancel` field, stores NULL in IRP->CancelRoutine and drops
\* the Box that DriverContext[3] points to (from_context), whatever it holds.
SlotSome(r, c) == c \in cloneCancel[r]

ClearCancelRtn(r, c) ==
  /\ cloneCancel' = [cloneCancel EXCEPT ![r] = @ \ {c}]
  /\ cancelRtn' = cancelRtn \ {r}
  /\ ctxDrops' = [ctxDrops EXCEPT ![r] = @ + 1]

Complete(r) == completions' = [completions EXCEPT ![r] = @ + 1]

OpenFiles == {f \in Files : cleanPc[f] # "Closed"}

\* Mutant of ReleaseRemoveLock: device_control never reaches
\* IoReleaseRemoveLockEx (the release is skipped).
ReleaseRemoveLockSkipped(f) == rlCount' = rlCount

\* IoReleaseRemoveLockEx: drop one reference.
ReleaseRemoveLock(f) == rlCount' = [rlCount EXCEPT ![f] = @ - 1]

\* Mutant of RundownDrained: cleanup calls release instead of
\* release_and_wait and so does not wait for outstanding requests.
RundownDrainedNoWait(f) == TRUE

\* IoReleaseRemoveLockAndWaitEx returns once IoCount reaches zero.
RundownDrained(f) == rlCount[f] = 0

-----------------------------------------------------------------------------
(* Faults: states in which the machine has bug-checked or hangs.           *)

\* A dropped NotifyRecord whose KTIMER is still queued or whose KDPC is
\* queued or running (timer_dpc dereferences its context inside the record).
FreedWhileLive ==
  \E x \in freed : timer[x] = "Armed" \/ dpcPc[x] \in DpcRunning

\* The driver image is unloaded while a KTIMER or KDPC still points into it.
UnloadedWhileLive ==
  drvPc = "Unloaded" /\ \E x \in Irps : timer[x] = "Armed" \/ dpcPc[x] \in DpcRunning

Crashed ==
  \/ \E r \in Irps : completions[r] > 1 \/ ctxDrops[r] > 1
  \/ \E r \in Irps : dpcPc[r] = "Panic" \/ cancelPc[r] = "Panic"
  \/ drvPc = "Panic"
  \/ FreedWhileLive
  \/ UnloadedWhileLive

-----------------------------------------------------------------------------
Init ==
  /\ queue = << >>
  /\ timer = [r \in Irps |-> "Off"]
  /\ dpcPc = [r \in Irps |-> "Idle"]
  /\ dpcIndex = [r \in Irps |-> 0]
  /\ freed = {}
  /\ kind = [r \in Irps |-> NoValue]
  /\ fileOf = [r \in Irps |-> NoValue]
  /\ evOf = [r \in Irps |-> NoValue]
  /\ dispPc = [r \in Irps |-> "Init"]
  /\ dispStatus = [r \in Irps |-> NoValue]
  /\ cancelRtn = {}
  /\ cancelFlag = {}
  /\ cloneCancel = [r \in Irps |-> {}]
  /\ ctxDrops = [r \in Irps |-> 0]
  /\ completions = [r \in Irps |-> 0]
  /\ cancelPc = [r \in Irps |-> "Idle"]
  /\ rlCount = [f \in Files |-> 1]          \* IoInitializeRemoveLockEx bias
  /\ rlRemoved = {}
  /\ lockTag = [f \in Files |-> NoValue]
  /\ cleanPc = [f \in Files |-> "Open"]     \* create has run for every file
  /\ cleanupList = [f \in Files |-> {}]
  /\ refs = [e \in Events |-> 0]
  /\ drvPc = "Loaded"

-----------------------------------------------------------------------------
(* device_control: IoAcquireRemoveLockEx on the file's FileContext, then   *)
(* handle_register_event up to the point where it takes queue_lock.        *)

\* Mutant of DeviceControlRejected below: the failure path also calls
\* release on the remove lock it failed to acquire.
DeviceControlRejectedReleasing(r) ==
  \E f \in OpenFiles :
    /\ ~Crashed
    /\ dispPc[r] = "Init"
    /\ f \in rlRemoved
    /\ fileOf' = [fileOf EXCEPT ![r] = f]
    /\ lockTag' = [lockTag EXCEPT ![f] = r]
    /\ Complete(r)
    /\ ReleaseRemoveLock(f)
    /\ dispPc' = [dispPc EXCEPT ![r] = "Done"]
    /\ UNCHANGED << queue, timerVars, freed, kind, evOf, dispStatus, irpVars,
                    cancelPc, rlRemoved, cleanPc, cleanupList, refs, drvPc >>

\* The remove lock is already removed (cleanup ran): the request is
\* completed with STATUS_UNSUCCESSFUL and the lock is not released.
DeviceControlRejected(r) ==
  \E f \in OpenFiles :
    /\ ~Crashed
    /\ dispPc[r] = "Init"
    /\ f \in rlRemoved
    /\ fileOf' = [fileOf EXCEPT ![r] = f]
    /\ lockTag' = [lockTag EXCEPT ![f] = r]
    /\ Complete(r)
    /\ dispPc' = [dispPc EXCEPT ![r] = "Done"]
    /\ UNCHANGED << queue, timerVars, freed, kind, evOf, dispStatus, irpVars,
                    cancelPc, rlCount, rlRemoved, cleanPc, cleanupList, refs, drvPc >>

\* notify_type is neither IRP_BASED nor EVENT_BASED (or the buffer is short).
RegisterInvalid(r) ==
  /\ "Invalid" \in Kinds
  /\ kind' = [kind EXCEPT ![r] = "Invalid"]
  /\ dispStatus' = [dispStatus EXCEPT ![r] = "InvalidParameter"]
  /\ dispPc' = [dispPc EXCEPT ![r] = "Finish"]
  /\ UNCHANGED << evOf, refs, cancelRtn, cloneCancel >>

\* event_notification: WduEvent::ref_by_handle fails.
EventRefFailed(r) ==
  /\ "Event" \in Kinds
  /\ kind' = [kind EXCEPT ![r] = "Event"]
  /\ dispStatus' = [dispStatus EXCEPT ![r] = "ObjectError"]
  /\ dispPc' = [dispPc EXCEPT ![r] = "Finish"]
  /\ UNCHANGED << evOf, refs, cancelRtn, cloneCancel >>

\* event_notification: the event is referenced and the record built.
EventRefByHandle(r) ==
  /\ "Event" \in Kinds
  /\ \E e \in Events :
       /\ evOf' = [evOf EXCEPT ![r] = e]
       /\ refs' = [refs EXCEPT ![e] = @ + 1]
  /\ kind' = [kind EXCEPT ![r] = "Event"]
  /\ dispPc' = [dispPc EXCEPT ![r] = "Register"]
  /\ UNCHANGED << dispStatus, cancelRtn, cloneCancel >>

\* irp_notification before queue_lock: set_cancel_rtn(Some(cancel_routine))
\* stores the routine in the IRP and a boxed copy in DriverContext[3]; the
\* record's NotifyData and the DPC context are clones made afterwards, so
\* all three WduIrp copies carry cancel = Some.
IrpSetCancelRoutine(r) ==
  /\ "Irp" \in Kinds
  /\ kind' = [kind EXCEPT ![r] = "Irp"]
  /\ cancelRtn' = cancelRtn \cup {r}
  /\ cloneCancel' = [cloneCancel EXCEPT ![r] = {"disp", "rec", "dpc"}]
  /\ dispPc' = [dispPc EXCEPT ![r] = "Register"]
  /\ UNCHANGED << evOf, refs, dispStatus >>

DeviceControl(r) ==
  \E f \in OpenFiles :
    /\ ~Crashed
    /\ dispPc[r] = "Init"
    /\ f \notin rlRemoved
    /\ rlCount' = [rlCount EXCEPT ![f] = @ + 1]
    /\ lockTag' = [lockTag EXCEPT ![f] = r]
    /\ fileOf' = [fileOf EXCEPT ![r] = f]
    /\ \/ RegisterInvalid(r)
       \/ EventRefFailed(r)
       \/ EventRefByHandle(r)
       \/ IrpSetCancelRoutine(r)
    /\ UNCHANGED << queue, timerVars, freed, cancelFlag, ctxDrops, completions,
                    cancelPc, rlRemoved, cleanPc, cleanupList, drvPc >>

-----------------------------------------------------------------------------
(* The critical sections of the two registration paths.                    *)

\* Arm the timer (KeSetTimer with the record's DPC) and push the record.
Enqueue(r) ==
  /\ timer' = [timer EXCEPT ![r] = "Armed"]
  /\ queue' = Append(queue, r)

\* event_notification under queue_lock.
EventEnqueue(r) ==
  /\ ~Crashed
  /\ dispPc[r] = "Register"
  /\ kind[r] = "Event"
  /\ Enqueue(r)
  /\ dispStatus' = [dispStatus EXCEPT ![r] = "Success"]
  /\ dispPc' = [dispPc EXCEPT ![r] = "Finish"]
  /\ UNCHANGED << dpcPc, dpcIndex, freed, reqVars, irpVars, completions,
                  cancelPc, rlVars, cleanPc, cleanupList, refs, drvPc >>

\* irp_notification under queue_lock, IRP already cancelled: the
\* dispatch copy's set_cancel_rtn(None) returns Some, the lock is released,
\* STATUS_CANCELLED is returned and the local record Box is dropped.
IrpEnqueueCancelled(r) ==
  /\ ~Crashed
  /\ dispPc[r] = "Register"
  /\ kind[r] = "Irp"
  /\ r \in cancelFlag
  /\ SlotSome(r, "disp")
  /\ ClearCancelRtn(r, "disp")
  /\ freed' = freed \cup {r}
  /\ dispStatus' = [dispStatus EXCEPT ![r] = "Cancelled"]
  /\ dispPc' = [dispPc EXCEPT ![r] = "Finish"]
  /\ UNCHANGED << queue, timerVars, reqVars, cancelFlag, completions,
                  cancelPc, rlVars, cleanPc, cleanupList, refs, drvPc >>

\* irp_notification under queue_lock: mark_pending, arm, push. When the IRP
\* is cancelled and set_cancel_rtn(None) returns None the code falls through
\* to here as well, after the call's side effects.
IrpEnqueue(r) ==
  /\ ~Crashed
  /\ dispPc[r] = "Register"
  /\ kind[r] = "Irp"
  /\ IF r \in cancelFlag
       THEN /\ ~SlotSome(r, "disp")
            /\ ClearCancelRtn(r, "disp")
       ELSE UNCHANGED << cloneCancel, cancelRtn, ctxDrops >>
  /\ Enqueue(r)
  /\ dispStatus' = [dispStatus EXCEPT ![r] = "Pending"]
  /\ dispPc' = [dispPc EXCEPT ![r] = "Finish"]
  /\ UNCHANGED << dpcPc, dpcIndex, freed, reqVars, cancelFlag, completions,
                  cancelPc, rlVars, cleanPc, cleanupList, refs, drvPc >>

\* The tail of device_control: complete unless STATUS_PENDING, then
\* WduRemoveLock::release with whatever lock_tag holds now.
DeviceControlFinish(r) ==
  /\ ~Crashed
  /\ dispPc[r] = "Finish"
  /\ IF dispStatus[r] = "Pending" THEN UNCHANGED completions ELSE Complete(r)
  /\ ReleaseRemoveLock(fileOf[r])
  /\ lockTag' = [lockTag EXCEPT ![fileOf[r]] = NoValue]
  /\ dispPc' = [dispPc EXCEPT ![r] = "Done"]
  /\ UNCHANGED << queue, timerVars, freed, reqVars, dispStatus, irpVars,
                  cancelPc, rlRemoved, cleanPc, cleanupList, refs, drvPc >>

-----------------------------------------------------------------------------
(* IoCancelIrp (I/O manager) and cancel_routine.                           *)

\* IoCancelIrp sets IRP->Cancel and exchanges CancelRoutine with NULL; a
\* non-NULL routine is called: WduIrp::cancel_routine takes the Box out of
\* DriverContext[3] and calls the sample's cancel_routine, which releases
\* the cancel spin lock and then waits for queue_lock.
IoCancelIrp(r) ==
  /\ ~Crashed
  /\ r \in Cancellable
  /\ completions[r] = 0
  /\ r \notin cancelFlag \/ r \in cancelRtn
  /\ cancelFlag' = cancelFlag \cup {r}
  /\ cancelRtn' = cancelRtn \ {r}
  /\ cancelPc' = IF r \in cancelRtn THEN [cancelPc EXCEPT ![r] = "Lock"]
                                    ELSE cancelPc
  /\ UNCHANGED << queue, timerVars, freed, reqVars, dispPc, dispStatus,
                  cloneCancel, ctxDrops, completions, rlVars, cleanPc,
                  cleanupList, refs, drvPc >>

\* cancel_routine under queue_lock: position(..).unwrap() panics when no
\* record carries this IRP; otherwise swap_remove and KeCancelTimer, whose
\* result is only logged.
IrpPosition(r) == SelectInSeq(queue, LAMBDA x : kind[x] = "Irp" /\ x = r)

CancelRoutineNotFound(r) ==
  /\ ~Crashed
  /\ cancelPc[r] = "Lock"
  /\ IrpPosition(r) = 0
  /\ cancelPc' = [cancelPc EXCEPT ![r] = "Panic"]
  /\ UNCHANGED << queue, timerVars, freed, reqVars, dispPc, dispStatus,
                  irpVars, completions, rlVars, cleanPc, cleanupList, refs, drvPc >>

CancelRoutineRemove(r) ==
  /\ ~Crashed
  /\ cancelPc[r] = "Lock"
  /\ IrpPosition(r) # 0
  /\ queue' = SwapRemove(queue, IrpPosition(r))
  /\ timer' = [timer EXCEPT ![r] = "Off"]
  /\ cancelPc' = [cancelPc EXCEPT ![r] = "Complete"]
  /\ UNCHANGED << dpcPc, dpcIndex, freed, reqVars, dispPc, dispStatus,
                  irpVars, completions, rlVars, cleanPc, cleanupList, refs, drvPc >>

\* After the lock: complete with STATUS_CANCELLED, drop the removed record
\* (pending_irp) and, back in WduIrp::cancel_routine, the context Box.
CancelRoutineComplete(r) ==
  /\ ~Crashed
  /\ cancelPc[r] = "Complete"
  /\ Complete(r)
  /\ freed' = freed \cup {r}
  /\ ctxDrops' = [ctxDrops EXCEPT ![r] = @ + 1]
  /\ cancelPc' = [cancelPc EXCEPT ![r] = "Done"]
  /\ UNCHANGED << queue, timerVars, reqVars, dispPc, dispStatus, cancelRtn,
                  cancelFlag, cloneCancel, rlVars, cleanPc, cleanupList, refs, drvPc >>

-----------------------------------------------------------------------------
(* The kernel timer and timer_dpc.                                         *)

\* The one-shot KTIMER expires and queues the record's KDPC; from here on
\* KeCancelTimer returns FALSE.
TimerExpire(r) ==
  /\ ~Crashed
  /\ timer[r] = "Armed"
  /\ timer' = [timer EXCEPT ![r] = "Off"]
  /\ dpcPc' = [dpcPc EXCEPT ![r] = "Lock"]
  /\ UNCHANGED << queue, dpcIndex, freed, reqVars, dispPc, dispStatus,
                  irpVars, completions, cancelPc, rlVars, cleanPc,
                  cleanupList, refs, drvPc >>

\* timer_dpc's lookup under acquire_at_dpc: the first record whose
\* NotifyData equals the DPC context's copy.
DpcPosition(r) == SelectInSeq(queue, LAMBDA x : SameData(x, r))

\* Not found: another path removed it; release and return.
DpcNotFound(r) ==
  /\ ~Crashed
  /\ dpcPc[r] = "Lock"
  /\ DpcPosition(r) = 0
  /\ dpcPc' = [dpcPc EXCEPT ![r] = "Done"]
  /\ UNCHANGED << queue, timer, dpcIndex, freed, reqVars, dispPc, dispStatus,
                  irpVars, completions, cancelPc, rlVars, cleanPc,
                  cleanupList, refs, drvPc >>

\* Event record: KeSetEvent, ObDereferenceObject on the context's event,
\* then swap_remove of the record found, all under the lock.
DpcSignalEvent(r) ==
  /\ ~Crashed
  /\ dpcPc[r] = "Lock"
  /\ kind[r] = "Event"
  /\ DpcPosition(r) # 0
  /\ refs' = [refs EXCEPT ![evOf[r]] = @ - 1]
  /\ queue' = SwapRemove(queue, DpcPosition(r))
  /\ freed' = freed \cup {queue[DpcPosition(r)]}
  /\ dpcPc' = [dpcPc EXCEPT ![r] = "Done"]
  /\ UNCHANGED << timer, dpcIndex, reqVars, dispPc, dispStatus, irpVars,
                  completions, cancelPc, rlVars, cleanPc, cleanupList, drvPc >>

\* IRP record: set_cancel_rtn(None) on the DPC context's copy. Some: release
\* the lock to complete, keeping `index`. None: leave the record in place.
DpcClaimIrp(r) ==
  /\ ~Crashed
  /\ dpcPc[r] = "Lock"
  /\ kind[r] = "Irp"
  /\ DpcPosition(r) # 0
  /\ ClearCancelRtn(r, "dpc")
  /\ dpcIndex' = [dpcIndex EXCEPT ![r] = DpcPosition(r)]
  /\ dpcPc' = [dpcPc EXCEPT ![r] = IF SlotSome(r, "dpc") THEN "Complete"
                                                          ELSE "Done"]
  /\ UNCHANGED << queue, timer, freed, reqVars, dispPc, dispStatus,
                  cancelFlag, completions, cancelPc, rlVars, cleanPc,
                  cleanupList, refs, drvPc >>

\* Outside the lock: complete the IRP with STATUS_SUCCESS.
DpcCompleteIrp(r) ==
  /\ ~Crashed
  /\ dpcPc[r] = "Complete"
  /\ Complete(r)
  /\ dpcPc' = [dpcPc EXCEPT ![r] = "Relock"]
  /\ UNCHANGED << queue, timer, dpcIndex, freed, reqVars, dispPc, dispStatus,
                  irpVars, cancelPc, rlVars, cleanPc, cleanupList, refs, drvPc >>

\* Re-acquire and swap_remove(index.unwrap()) with the index found before
\* the lock was released; Vec::swap_remove panics when it is out of bounds.
DpcRemove(r) ==
  /\ ~Crashed
  /\ dpcPc[r] = "Relock"
  /\ IF dpcIndex[r] > Len(queue)
       THEN /\ dpcPc' = [dpcPc EXCEPT ![r] = "Panic"]
            /\ UNCHANGED << queue, freed >>
       ELSE /\ queue' = SwapRemove(queue, dpcIndex[r])
            /\ freed' = freed \cup {queue[dpcIndex[r]]}
            /\ dpcPc' = [dpcPc EXCEPT ![r] = "Done"]
  /\ UNCHANGED << timer, dpcIndex, reqVars, dispPc, dispStatus, irpVars,
                  completions, cancelPc, rlVars, cleanPc, cleanupList, refs, drvPc >>

-----------------------------------------------------------------------------
(* cleanup (IRP_MJ_CLEANUP) and close of a file object.                    *)

\* fs_ctx.file_rundown.acquire(tag): the cleanup IRP is the tag, written by
\* the file itself here. It cannot fail: only cleanup sets Removed.
CleanupAcquire(f) ==
  /\ ~Crashed
  /\ cleanPc[f] = "Open"
  /\ rlCount' = [rlCount EXCEPT ![f] = @ + 1]
  /\ lockTag' = [lockTag EXCEPT ![f] = f]
  /\ cleanPc' = [cleanPc EXCEPT ![f] = "Acquired"]
  /\ UNCHANGED << queue, timerVars, freed, reqVars, dispPc, dispStatus,
                  irpVars, completions, cancelPc, rlRemoved, cleanupList, refs, drvPc >>

\* release_and_wait: Removed = TRUE, release our reference and the
\* initial bias (tag: lock_tag as it is now), then wait for IoCount = 0.
CleanupReleaseAndWait(f) ==
  /\ ~Crashed
  /\ cleanPc[f] = "Acquired"
  /\ rlRemoved' = rlRemoved \cup {f}
  /\ rlCount' = [rlCount EXCEPT ![f] = @ - 2]
  /\ lockTag' = [lockTag EXCEPT ![f] = NoValue]
  /\ cleanPc' = [cleanPc EXCEPT ![f] = "Waiting"]
  /\ UNCHANGED << queue, timerVars, freed, reqVars, dispPc, dispStatus,
                  irpVars, completions, cancelPc, cleanupList, refs, drvPc >>

\* The retain_mut closure of cleanup for file f, per record x. Short
\* circuit: timer.cancel() runs only for records of OTHER files; a record
\* is visited (the else branch) when it is f's own or its timer was
\* cancelled. A visited IRP record gets set_cancel_rtn(None) on its record
\* copy and is dropped only when that returned None; a visited event record
\* is dereferenced and dropped.
CancelAttempted(f, x) == fileOf[x] # f
TimerCancelled(f, x)  == CancelAttempted(f, x) /\ timer[x] = "Armed"
Visited(f, x)         == ~CancelAttempted(f, x) \/ TimerCancelled(f, x)
Dropped(f, x) ==
  /\ Visited(f, x)
  /\ kind[x] = "Event" \/ ~SlotSome(x, "rec")

\* The IRP records the drain visits.
VisitedIrps(f) == {x \in ToSet(queue) : Visited(f, x) /\ kind[x] = "Irp"}

\* Mutant of DrainedRefs: the EventBased arm forgets evt.dereference().
DrainedRefsNoDeref(f) == refs

\* The event references the drain releases.
DrainedRefs(f) ==
  [e \in Events |->
     refs[e] - Cardinality({x \in ToSet(queue) :
                              Dropped(f, x) /\ kind[x] = "Event" /\ evOf[x] = e})]

\* After the wait, under queue_lock: the whole retain_mut pass.
CleanupDrain(f) ==
  /\ ~Crashed
  /\ cleanPc[f] = "Waiting"
  /\ RundownDrained(f)
  /\ timer' = [x \in Irps |-> IF x \in ToSet(queue) /\ TimerCancelled(f, x)
                                THEN "Off" ELSE timer[x]]
  /\ queue' = SelectSeq(queue, LAMBDA x : ~Dropped(f, x))
  /\ freed' = freed \cup {x \in ToSet(queue) : Dropped(f, x)}
  /\ refs' = DrainedRefs(f)
  /\ cloneCancel' = [x \in Irps |-> IF x \in VisitedIrps(f)
                                      THEN cloneCancel[x] \ {"rec"}
                                      ELSE cloneCancel[x]]
  /\ cancelRtn' = cancelRtn \ VisitedIrps(f)
  /\ ctxDrops' = [x \in Irps |-> IF x \in VisitedIrps(f) THEN ctxDrops[x] + 1
                                                         ELSE ctxDrops[x]]
  /\ cleanupList' = [cleanupList EXCEPT ![f] =
                       {x \in VisitedIrps(f) : ~SlotSome(x, "rec")}]
  /\ cleanPc' = [cleanPc EXCEPT ![f] = "Complete"]
  /\ UNCHANGED << dpcPc, dpcIndex, reqVars, dispPc, dispStatus, cancelFlag,
                  completions, cancelPc, rlVars, drvPc >>

\* After the lock: complete every IRP of cleanup_list with STATUS_CANCELLED,
\* then the cleanup request itself.
CleanupComplete(f) ==
  /\ ~Crashed
  /\ cleanPc[f] = "Complete"
  /\ completions' = [x \in Irps |-> IF x \in cleanupList[f]
                                      THEN completions[x] + 1
                                      ELSE completions[x]]
  /\ cleanPc' = [cleanPc EXCEPT ![f] = "Cleaned"]
  /\ UNCHANGED << queue, timerVars, freed, reqVars, dispPc, dispStatus,
                  irpVars, cancelPc, rlVars, cleanupList, refs, drvPc >>

\* IRP_MJ_CLOSE comes once no request sent on the file is outstanding;
\* close drops the FileContext.
Close(f) ==
  /\ ~Crashed
  /\ cleanPc[f] = "Cleaned"
  /\ \A r \in Irps : fileOf[r] = f => completions[r] > 0
  /\ cleanPc' = [cleanPc EXCEPT ![f] = "Closed"]
  /\ UNCHANGED << queue, timerVars, freed, reqVars, dispPc, dispStatus,
                  irpVars, completions, cancelPc, rlVars, cleanupList, refs, drvPc >>

\* driver_unload: the I/O manager calls it once no file object of the device
\* is open. It asserts that event_queue is empty, then deletes the device.
DriverUnload ==
  /\ ~Crashed
  /\ drvPc = "Loaded"
  /\ \A f \in Files : cleanPc[f] = "Closed"
  /\ drvPc' = IF queue = << >> THEN "Unloaded" ELSE "Panic"
  /\ UNCHANGED << queue, timerVars, freed, reqVars, dispPc, dispStatus,
                  irpVars, completions, cancelPc, rlVars, cleanPc,
                  cleanupList, refs >>

-----------------------------------------------------------------------------
\* Every action is guarded by ~Crashed: after a bug check or a panic
\* nothing runs.
Next ==
  \/ \E r \in Irps :
       \/ DeviceControlRejected(r) \/ DeviceControl(r)
       \/ EventEnqueue(r) \/ IrpEnqueueCancelled(r) \/ IrpEnqueue(r)
       \/ DeviceControlFinish(r)
       \/ IoCancelIrp(r) \/ CancelRoutineNotFound(r)
       \/ CancelRoutineRemove(r) \/ CancelRoutineComplete(r)
       \/ TimerExpire(r) \/ DpcNotFound(r) \/ DpcSignalEvent(r)
       \/ DpcClaimIrp(r) \/ DpcCompleteIrp(r) \/ DpcRemove(r)
  \/ \E f \in Files :
       \/ CleanupAcquire(f) \/ CleanupReleaseAndWait(f)
       \/ CleanupDrain(f) \/ CleanupComplete(f) \/ Close(f)
  \/ DriverUnload

Spec == Init /\ [][Next]_vars

\* Fairness. The issuer's actions (sending an IOCTL, cancelling it, closing
\* the handle) are not fair: a user need never take them. Everything the
\* driver, the I/O manager and the kernel do once started is weakly fair:
\* a thread inside a handler is eventually scheduled, a spin lock is
\* eventually granted, a one-shot timer eventually expires and a queued
\* DPC eventually runs, and IRP_MJ_CLOSE follows the last reference.
FairSpec ==
  /\ Spec
  /\ \A r \in Irps :
       /\ WF_vars(EventEnqueue(r))
       /\ WF_vars(IrpEnqueueCancelled(r))
       /\ WF_vars(IrpEnqueue(r))
       /\ WF_vars(DeviceControlFinish(r))
       /\ WF_vars(CancelRoutineNotFound(r))
       /\ WF_vars(CancelRoutineRemove(r))
       /\ WF_vars(CancelRoutineComplete(r))
       /\ WF_vars(TimerExpire(r))
       /\ WF_vars(DpcNotFound(r))
       /\ WF_vars(DpcSignalEvent(r))
       /\ WF_vars(DpcClaimIrp(r))
       /\ WF_vars(DpcCompleteIrp(r))
       /\ WF_vars(DpcRemove(r))
  /\ \A f \in Files :
       /\ WF_vars(CleanupReleaseAndWait(f))
       /\ WF_vars(CleanupDrain(f))
       /\ WF_vars(CleanupComplete(f))
       /\ WF_vars(Close(f))

-----------------------------------------------------------------------------
(* Properties.                                                             *)

TypeOK ==
  /\ queue \in Seq(Irps)
  /\ timer \in [Irps -> {"Off", "Armed"}]
  /\ dpcPc \in [Irps -> {"Idle", "Done", "Panic"} \cup DpcRunning]
  /\ dpcIndex \in [Irps -> Nat]
  /\ freed \subseteq Irps
  /\ kind \in [Irps -> Kinds \cup {NoValue}]
  /\ fileOf \in [Irps -> Files \cup {NoValue}]
  /\ evOf \in [Irps -> Events \cup {NoValue}]
  /\ dispPc \in [Irps -> {"Init", "Register", "Finish", "Done"}]
  /\ dispStatus \in [Irps -> Statuses \cup {NoValue}]
  /\ cancelRtn \subseteq Irps /\ cancelFlag \subseteq Irps
  /\ cloneCancel \in [Irps -> SUBSET {"disp", "rec", "dpc"}]
  /\ ctxDrops \in [Irps -> Nat] /\ completions \in [Irps -> Nat]
  /\ cancelPc \in [Irps -> {"Idle", "Lock", "Complete", "Done", "Panic"}]
  /\ rlCount \in [Files -> Nat] /\ rlRemoved \subseteq Files
  /\ lockTag \in [Files -> Irps \cup Files \cup {NoValue}]
  /\ cleanPc \in [Files -> {"Open", "Acquired", "Waiting", "Complete",
                            "Cleaned", "Closed"}]
  /\ cleanupList \in [Files -> SUBSET Irps]
  /\ refs \in [Events -> Nat]
  /\ drvPc \in {"Loaded", "Unloaded", "Panic"}

\* Remove-lock rundown (cleanup's release_and_wait against device_control):
\* once cleanup of a file has waited and drained the queue, no
\* device_control on that file is still inside its acquire/release pair,
\* so no record of the file can be pushed after the drain.
RundownExcludesDispatch ==
  \A f \in Files :
    cleanPc[f] \in {"Complete", "Cleaned", "Closed"} =>
      \A r \in Irps : fileOf[r] = f => dispPc[r] \notin {"Register", "Finish"}

\* Event references (ref_by_handle in event_notification against the
\* ObDereferenceObject calls in timer_dpc and cleanup): the driver holds
\* exactly one reference per event record that is queued or about to be.
EventReferenceAccounting ==
  \A e \in Events :
    refs[e] = Cardinality({r \in Irps : /\ kind[r] = "Event"
                                        /\ evOf[r] = e
                                        /\ \/ dispPc[r] = "Register"
                                           \/ r \in ToSet(queue)})

\* Exactly-once finalization (timer_dpc, cancel_routine, cleanup and
\* device_control all complete IRPs): no request is completed twice.
NoDoubleCompletion == \A r \in Irps : completions[r] <= 1

\* The DriverContext[3] Box that set_cancel_rtn(Some) allocates is dropped
\* at most once, by set_cancel_rtn(None) or by WduIrp::cancel_routine.
CancelContextFreedOnce == \A r \in Irps : ctxDrops[r] <= 1

\* No path drops a NotifyRecord while its KTIMER is still queued or its
\* KDPC is queued or running (cleanup, cancel_routine, timer_dpc).
RecordFreedOnlyWhenIdle == ~FreedWhileLive

\* Neither cancel_routine's position(..).unwrap(), nor timer_dpc's
\* swap_remove(index), nor driver_unload's assert that the queue is empty
\* panics (the panic handler spins at DISPATCH_LEVEL).
NoPanic ==
  /\ \A r \in Irps : dpcPc[r] # "Panic" /\ cancelPc[r] # "Panic"
  /\ drvPc # "Panic"

\* WduRemoveLock keeps a single lock_tag per FileContext: every holder of
\* the remove lock (device_control between acquire and release, cleanup
\* between acquire and release_and_wait) releases with its own tag.
RemoveLockTagOwned ==
  /\ \A r \in Irps :
       dispPc[r] \in {"Register", "Finish"} => lockTag[fileOf[r]] = r
  /\ \A f \in Files : cleanPc[f] = "Acquired" => lockTag[f] = f

\* Cleanup progress (release_and_wait against the device_control calls in
\* flight): a cleanup that has acquired the remove lock eventually
\* completes its request, unless the machine has crashed. Waiting for
\* IoCount to reach zero needs every device_control to release.
CleanupEventuallyCompletes ==
  \A f \in Files : cleanPc[f] = "Acquired" ~> (cleanPc[f] = "Cleaned" \/ Crashed)

\* Pending IRP completion (timer_dpc, cancel_routine and cleanup share the
\* job of completing an IRP_BASED request that device_control left
\* pending): every such request is eventually completed, unless the
\* machine has crashed.
IrpEventuallyCompleted ==
  \A r \in Irps :
    (dispPc[r] = "Done" /\ dispStatus[r] = "Pending") ~> (completions[r] > 0 \/ Crashed)

\* Cleanup of file f (the retain_mut pass) leaves the records of every
\* other file in the queue with their timers as they were.
CleanupSparesOtherFiles ==
  [][\A f \in Files :
       cleanPc[f] = "Waiting" /\ cleanPc'[f] = "Complete" =>
         \A x \in ToSet(queue) :
           fileOf[x] # f => x \in ToSet(queue') /\ timer'[x] = timer[x]]_vars

=============================================================================
