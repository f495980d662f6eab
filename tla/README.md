# TLA+ models of win-drvutils-rs

This directory holds TLA+ models of the concurrent parts of
win-drvutils-rs: the Rust wrappers over Windows kernel objects under
`src/src/` and the sample drivers under `src/examples/` that use them.
The models are checked with TLC.

## The system and its parts

| Part | Source | What runs concurrently |
|---|---|---|
| Event sample: the notification registry | `examples/event/src/lib.rs` | IOCTL dispatch (`device_control`), `cancel_routine` (called by the I/O manager through `IoCancelIrp`), `timer_dpc` (a DPC at DISPATCH_LEVEL), and `cleanup`/`close` of each file object. They share `DeviceExtension.event_queue` under `queue_lock`. |
| `WduIrp` cancel slot | `src/io/irp.rs` | `set_cancel_rtn` writes `IRP->CancelRoutine` and a boxed copy of the `WduIrp` in `DriverContext[3]`. The `extern` `cancel_routine` takes that Box back. Every clone of a `WduIrp` carries its own `cancel` field. |
| `WduRemoveLock` | `src/sync/remove_lock.rs` | Wraps an `IO_REMOVE_LOCK` plus one `lock_tag` field shared by all holders. |
| `WduTimer`, `WduDpc` | `src/sync/timer.rs`, `src/common/dpc.rs` | `KeSetTimer` with a DPC, and `KeCancelTimer`, which succeeds only while the timer is queued. The KDPC's context is the `WduDpc` itself, stored inside the registry record. |
| `WduEvent` | `src/sync/event.rs` | `ObReferenceObjectByHandle`, `ObDereferenceObject`, `KeSetEvent`. |
| `WduSpinLock` | `src/sync/spinlock.rs` | Classic and in-stack queued spin locks. `old_irql` and `lockhandle` are kept in the shared struct. |
| `WduFastMutex`, `WduGuardedMutex` | `src/sync/mutex.rs` | One kernel call per method, plus lock_api wrappers (`WduGuardedMtx`) whose methods pass the kernel a pointer to a stack slot. |
| Other sync wrappers | `pushlock.rs`, `eresource.rs`, `semaphore.rs`, `rundown_protection.rs` | One kernel call per method; the push-lock and ERESOURCE lock_api wrappers have the same stack-slot pointer. |
| Obcallback sample and `WduObCallback` | `examples/obcallback/src/*`, `src/callbacks/ob.rs` | Protect/unprotect IOCTLs under a guarded mutex. Object pre/post callbacks and a process-notify routine read the sample's static flags. |
| Process/thread/image/registry callbacks | `src/callbacks/*` | Register/unregister wrappers. |
| Driver, device, dispatch | `src/common/driver.rs`, `src/io/*` | Builders. Dispatch routes each IRP to the sample's handler. |
| Unicode strings, pool, MDL, sioctl sample | `src/strings/unicode.rs`, `src/memory/*`, `examples/sioctl` | Sequential code. |

### How the event sample's parts interact

1. **Registration.** A client sends `IOCTL_REGISTER_EVENT` on a file, and `device_control` acquires the file's remove lock.
   - **IRP-based:** `irp_notification` installs the cancel routine first. Then, under `queue_lock`, it marks the IRP pending, arms a one-shot timer whose DPC context is a clone of the record's data, and pushes the record.
   - **Event-based:** `event_notification` references the KEVENT by handle and then does the same under the lock.
2. **Expiry.** When the timer fires, `timer_dpc` looks the record up by value.
   - **Event record:** it signals and dereferences the event and removes the record.
   - **IRP record:** it clears the cancel routine on its own clone. If that says the routine was still set, it releases the lock, completes the IRP, re-takes the lock and removes the record at the index it found before.
3. **Cancellation.** `IoCancelIrp` calls `WduIrp::cancel_routine`, which calls the sample's `cancel_routine`. That routine takes the lock, finds the record (`unwrap`), `swap_remove`s it, tries to cancel its timer, and completes the IRP.
4. **Cleanup.** `cleanup` acquires the file's remove lock and calls `release_and_wait`, which waits for every `device_control` in flight on the file. It then drains the queue with `retain_mut` and completes the IRPs it collected. `close` drops the file context.

## Modules

### `EventRegistry.tla`: the event sample with its wrappers

Constants:
- `Irps`: the requests.
- `Files`: the file objects.
- `Events`: the KEVENTs.
- `Kinds`: which `notify_type` values clients send.
- `Cancellable`: which requests the issuer may cancel.
- `NoValue`.

A record is named by the request that registered it. A critical section under `queue_lock` is one step: the lock serialises those sections and none of them blocks inside. Code outside the lock is split at every point where another thread can observe a difference. For example, `timer_dpc`'s IRP branch has three steps: claim under the lock, complete outside it, then remove after re-acquiring.

| Variable | Code |
|---|---|
| `queue` | `event_queue` (order matters: `position` and `swap_remove`) |
| `timer`, `dpcPc`, `dpcIndex` | each record's KTIMER, the progress of its DPC, and `timer_dpc`'s local `index` |
| `freed` | records whose `Box<NotifyRecord>` was dropped |
| `cancelRtn`, `cancelFlag` | `IRP->CancelRoutine != NULL` and `IRP->Cancel` |
| `cloneCancel` | which `WduIrp` copies (dispatch `disp`, record `rec`, DPC context `dpc`) still hold `cancel = Some` |
| `ctxDrops` | drops of the `DriverContext[3]` Box |
| `completions` | `IofCompleteRequest` calls per IRP |
| `rlCount`, `rlRemoved`, `lockTag` | the `IO_REMOVE_LOCK`'s IoCount and Removed, and `WduRemoveLock.lock_tag` |
| `dispPc`, `cancelPc`, `cleanPc` | the program counters of `device_control`, `cancel_routine`, and `cleanup`/`close` |
| `refs` | references the driver holds on each KEVENT |

Actions, one per handler step, in code order:
- **`device_control`:** `DeviceControlRejected`. `DeviceControl` has one disjunct per path of `handle_register_event` (`RegisterInvalid`, `EventRefFailed`, `EventRefByHandle`, `IrpSetCancelRoutine`).
- **Registration under the lock:** `EventEnqueue`, `IrpEnqueueCancelled`, `IrpEnqueue`. `DeviceControlFinish` is the tail of `device_control`.
- **Cancellation:** `IoCancelIrp`, `CancelRoutineNotFound`, `CancelRoutineRemove`, `CancelRoutineComplete`.
- **Timer and DPC:** `TimerExpire`, `DpcNotFound`, `DpcSignalEvent`, `DpcClaimIrp`, `DpcCompleteIrp`, `DpcRemove`.
- **Cleanup and close:** `CleanupAcquire`, `CleanupReleaseAndWait`, `CleanupDrain` (the whole `retain_mut` pass), `CleanupComplete`, `Close`.
- **Unload:** `DriverUnload` (after the last close; its assert that the queue is empty).

Some states are faults that stop the machine. `Crashed` holds in any of these:
- a second completion of an IRP;
- a second drop of the context Box;
- a Rust panic, because the panic handler is `loop {}` at whatever IRQL it was raised;
- a dropped record whose KTIMER is still queued, or whose KDPC is queued or running (`FreedWhileLive`);
- an unloaded driver with a KTIMER or KDPC still pointing into it (`UnloadedWhileLive`).

Every action is guarded by `~Crashed`. The `PROJECT.json` map names the source lines of each definition.

### `MC_EventRegistry.tla`

This module declares the model values (`r1..r3`, `f1, f2`, `e1, e2`) and the sets each configuration uses. It also defines the symmetry sets: requests are interchangeable, and so are files. Symmetry is used only in the safety runs.

### `WduSpinLock.tla`, `AbstractSpinLock.tla`: the spin lock

`AbstractSpinLock` is what a spin lock promises: one holder at a time, and
`release` returns the CPU to the IRQL it had at `acquire`. Its variables are
`holder`, each thread's `irql`, and the IRQL saved for the holder.

`WduSpinLock` models `src/sync/spinlock.rs` with the struct's shared fields:
- `owner`: the KSPIN_LOCK;
- `oldIrql`: `WduSpinLock.old_irql`;
- `handle`: `WduSpinLock.lockhandle` (the KLOCK_QUEUE_HANDLE);
- `irql`, `pc`, `mode`, `entry`, `local`: each thread's IRQL, position, the pair it uses, its IRQL at entry, and the value `release` passes to the kernel.

Each kernel call is one step. A Rust statement around it is a step of its own where another CPU can see the difference. For example, `acquire_in_stack` has three steps: the `debug_assert`, the store of `LockHandle::default()`, and `KeAcquireInStackQueuedSpinLock`. The constant `Uses` says which pairs each thread calls, and `DebugBuild` whether `debug_assert!` is compiled in. `SpinLockRefinement` is `AbstractSpinLock!Spec` under a mapping that treats a spinning thread as not yet having called acquire.

`release_in_stack` through a handle still zeroed by `LockHandle::default()` bug-checks: the routine dereferences `LockQueue.Lock`, which is NULL, and a bug-check stops every CPU. Through another thread's handle it frees the lock and lowers to that handle's `OldIrql`.

One idealisation: `owner` is a single holder for the classic and the in-stack pairs. On the kernel the classic protocol (bit 0 of the KSPIN_LOCK) and the queued one (exchange of the queue tail) on one lock do not exclude each other. `spin_refinement` lets one thread use both pairs, so that run shows the `old_irql` store order for the classic pairs; it does not show that mixing the two protocols is safe.

### `WduMutex.tla`: fast and guarded mutex

The variables are:
- `count`, `owner`: the FAST_MUTEX lock bit and Owner;
- `pc`: each thread's position (`Wait` inside `acquire` on the mutex, `SlotWait` inside the kernel acquire on a stack slot).

`acquire` is split into the call (`Acquire`) and the kernel granting the mutex (`Grant`). `try_acquire` and `release` are one step each.

The lock_api methods (`init_lock`, `lock`, `try_lock`, `unlock`) compute `&self as *const _ as *mut Self` inside `fn lock(&self)`. That is the address of the local reference, so the kernel routine runs on a stack slot and never on the mutex. The slot holds an aligned pointer, so the routine reads the lock bit (`FM_LOCK_BIT`, 1 = free) as 0, that is, held. `KeAcquireGuardedMutex` then waits on whatever gate lies above the slot, for ever, or bug-checks on it (`LockApiLock`: `SlotWait` or `BugCheck`). `KeTryToAcquireGuardedMutex` returns FALSE (`LockApiTryLock` changes nothing). The guard's `unlock` is never reached, so it is not an action. `InitCall` says whether `DriverEntry` calls `init()` or `init_lock()` (the obcallback sample calls `init_lock`).

### `WduUnicode.tla`, `UnicodeCalls.tla`: `WduUnicodeString`

`WduUnicode` is pure. A `UNICODE_STRING` is a record of:
- `Length` and `MaximumLength` in bytes, as `u16`;
- `alloc`, the allocation;
- `written`, the bytes the constructor wrote;
- `buf`, the code units.

The operators follow `create`, `copy` (`Clone`), `from_ptr`, `as_slice`, `is_empty`, `len`, `try_from_u32`/`try_from_u64` and `contains`. `u16` arithmetic is done modulo 65536. `ptr::copy::<u16>` counts elements, not bytes. `Occurs` is a recursive reference substring check.

`UnicodeCalls` turns each constructor and query into a call over small input sets and records the result. `MC_UnicodeCalls` supplies texts of up to three units over `{a, A, b}`, and the lengths 12, 13, 32767 and 32768. It also supplies the `u32` values 9/10 digits. TLC integers are 32 bits, so `u64` inputs are given as their digit count.

### `ObCallback.tla`: the obcallback sample with `WduObCallback`

The actors are:
- the two IOCTLs (`protect_name`, `unprotect`);
- the process-notify routine, which reads the static flags without the mutex and then calls `check_process_match`;
- the object manager opening handles, which runs `pre_op_internal` over the live operations `Vec`;
- `driver_unload`.

`regs` is the list of registrations the kernel holds, and `handle` is `WduObCallback.handle`. Each IOCTL's body is one step, as if the `PROTECT` mutex excluded. `WduMutex` shows that the sample's `WduGuardedMtx` never grants: the first `PROTECT.lock()` hangs. `ObCallback` therefore models the sample with that mutex fixed, and its findings are defects of the logic that remain after the fix. Names are `WduUnicodeString` values built with `WduUnicode`.

## Runs

The runs below are the project's checks, listed in `PROJECT.json`.

| Run | Expect | Checks | What it shows |
|---|---|---|---|
| `event_rundown` | pass | `TypeOK`, `RundownExcludesDispatch` | 2 requests, 2 files, all three kinds, both requests cancellable. Once cleanup's drain has run, no `device_control` on that file is between acquire and release, so nothing is pushed after the drain. About 373k states. |
| `event_cleanup_progress` | pass | `EventReferenceAccounting`, `CleanupEventuallyCompletes` (liveness, `FairSpec`) | 2 event/invalid requests, 2 files, one KEVENT, so the two registrations are duplicate handles. `release_and_wait` never waits forever, and each reference taken by `ref_by_handle` is released exactly once. About 93k states. |
| `event_cleanup_freed_timer` | violation | `RecordFreedOnlyWhenIdle` | cleanup drops its own file's record without cancelling the timer. |
| `event_double_completion` | violation | `NoDoubleCompletion` | `timer_dpc` and `cancel_routine` both complete one IRP. |
| `spin_refinement` | pass | `SpinLockRefinement` | Three threads on `acquire`, `acquire_for_dpc`, `acquire_at_dpc`, one also in-stack, debug build. The shared `old_irql` is written only while held and read before `KeReleaseSpinLock`: the lock implements `AbstractSpinLock`. About 229k states. |
| `spin_instack_refinement` | violation | `SpinLockRefinement` | Two in-stack users, release build. The second acquirer resets `lockhandle` while the first holds the lock, and `KeAcquireInStackQueuedSpinLock` writes the second acquirer's PASSIVE `OldIrql` into the shared handle. The holder, which entered at DISPATCH, then releases to PASSIVE_LEVEL. |
| `mutex_lock_api` | violation | `LockReturns` (liveness, `FairSpec`) | After `init_lock`, as in the obcallback sample, one thread calls `WduGuardedMtx::lock` and one calls `acquire` directly. Neither call ever returns: the first waits on the stack slot, the second on the zeroed FAST_MUTEX. |
| `unicode_contains` | pass | `ContainsMatchesText` | `contains` agrees with `Occurs` on all texts of up to three units, both cases. |
| `unicode_create_overflow` | violation | `CreateWritesWithinBlock` | `create` copies `2*len` bytes into a `len`-byte block. |
| `obcb_unload` | pass | `UnloadLeavesNoCallback`, `KernelSeesOperations` | Protect, unprotect, failed registrations, process creation and handle opens: the kernel's registrations always equal the live operations `Vec`, and unload leaves none. |
| `obcb_reject_after_unprotect` | violation | `RejectOnlyWhileInstalled` | After unprotect, `REJECT_NAME_FLAG` is still set and process creation is still denied. |

### Further counterexamples

More configurations are kept beside the runs. Each checks one more property of the same modules, and TLC finds each violated except `event_refs.cfg`, which passes. Run them the same way, for example `tlc -workers 2 -config event_panic.cfg MC_EventRegistry`. Each is a defect of the code:

| Configuration | Checks | The code | What TLC shows |
|---|---|---|---|
| `event_refs.cfg` (pass) | `EventReferenceAccounting` | `event.rs:109` | The same accounting as in `event_cleanup_progress`, with 3 event requests on one KEVENT (about 382k states). |
| `event_cleanup_other_files.cfg` | `CleanupSparesOtherFiles` | `event/lib.rs:298` | The inverted `retain_mut` condition makes cleanup of `f1` cancel and drop `f2`'s registration; its event is dereferenced without being signalled. |
| `event_irp_hang.cfg` | `IrpEventuallyCompleted` (liveness) | `event/lib.rs:305` | For another file's IRP record whose timer cleanup cancelled, `set_cancel_rtn(None)` on the copy returns `Some`, so the record is kept with no timer and no cancel routine: nothing completes the IRP. |
| `event_ctx_double_free.cfg` | `CancelContextFreedOnce` | `irp.rs:295` | `set_cancel_rtn(None)` drops the `DriverContext[3]` Box that `IoCancelIrp` has already handed to `cancel_routine`, which drops it too. |
| `event_panic.cfg` | `NoPanic` | `event/lib.rs:514` | The cancel routine is installed (line 414) before the record is queued; a cancel in between finds no record and panics on `unwrap()`. |
| `event_lock_tag.cfg` | `RemoveLockTagOwned` | `remove_lock.rs:53` | One `lock_tag` per lock: concurrent holders overwrite it and release with another holder's tag. |
| `spin_instack_panic.cfg` | `NoPanic` | `spinlock.rs:112` | In a debug build, `debug_assert!(lockhandle.is_none())` fires on ordinary contention. |
| `unicode_create_length.cfg` | `CreateKeepsText` | `unicode.rs:386` | `to_unicode_len` wraps: 32768 units give `Length` 0. |
| `unicode_clone_overflow.cfg` | `CloneWritesWithinBlock` | `unicode.rs:590` | `copy()` points `Buffer` at the 24-byte `Vec` header; 13 units write 26 bytes there. The test at `tests/strings/src/lib.rs:100` uses 5 units. |
| `unicode_u32_digits.cfg` | `IntegerStringFits` | `unicode.rs:555` | A 10-digit `u32` needs 22 bytes; `MAX_LEN_U32_STRING` is 21. |
| `obcb_duplicate_registration.cfg` | `NoPanic` | `callback.rs:150` | A failed protect leaves its entries pushed; the next protect registers four, and `set_context`'s assert (`ob.rs:58`) panics on a handle open. |
| `obcb_failed_protect.cfg` | `FailedProtectRegistersNothing` | `callback.rs:126` | An unknown operation returns STATUS_UNSUCCESSFUL with the callback registered. |
| `obcb_name_padding.cfg` | `ProtectNameMatches` | `callback.rs:111` | The stored name includes the NUL padding of the input array, so a matching image name is not matched. |

The violations are bugs in the code. For the listed runs, `PROJECT.json` ("findings") gives the line and the reasoning; for the other configurations, the table above does. Most are independent: fixing the inverted cleanup condition (`lib.rs:298`) does not fix the stale `cancel` field of `WduIrp` copies (`irp.rs:282`), nor the stale index in `timer_dpc` (`lib.rs:580`).

Every property of a passing run has a mutant in `PROJECT.json`: a variant of one mapped definition, defined just before it in its module, that reproduces a plausible bug, and under which TLC finds the property violated. The mutants are:
- `device_control` releasing a lock it failed to acquire (breaks `TypeOK`);
- cleanup not waiting (breaks `RundownExcludesDispatch`);
- the drain forgetting `dereference` (breaks `EventReferenceAccounting`);
- `device_control` skipping `release` (breaks `CleanupEventuallyCompletes`);
- `acquire` storing `old_irql` before the lock is held (breaks `SpinLockRefinement`);
- `contains` also rejecting a needle as long as the haystack (breaks `ContainsMatchesText`);
- `protect_name` without its `is_cb_installed` guard (breaks `KernelSeesOperations`);
- `driver_unload` that only unregisters the process-notify routine (breaks `UnloadLeavesNoCallback`).

### Bounds

The bounds are the smallest ones that still contain each interesting case:
- Two files, so that cleanup of one file meets records of the other.
- Two requests, so that two dispatches share one remove lock and a DPC's stale index meets another removal.
- Three requests on the event-only path, so that three records of one KEVENT are in the queue at once.
- One KEVENT, so that handles collide.

- Spin lock: three threads, so that one holds, one spins and one changes IRQL; two in-stack users are enough to overwrite a held handle.
- Mutex: two threads, one through lock_api and one direct, so that both paths after `init_lock` are taken.
- Unicode: all texts of up to three units over `{a, A, b}` (the case-folding pair and another letter) and needles of up to two, plus the lengths where a limit is crossed: 12/13 units (the 24-byte `Vec` header), 32767/32768 units (the `u16` byte count), 9/10 decimal digits (the 21-byte buffer).
- Obcallback: two processes (one whose image contains the name, one that does not), names of two units with and without NUL padding, and `MaxProtects = 2`, the fewest protects for a duplicate registration.

No counter grows without bound: every request registers once, every file is cleaned once, the timers are one-shot, and protects are capped by `MaxProtects`.

### Fairness

`FairSpec` puts weak fairness on every step the driver, the I/O manager or the kernel takes once it has started:
- a thread inside a handler is eventually scheduled;
- a spin lock is eventually granted;
- a one-shot timer eventually expires and its queued DPC runs;
- close follows cleanup once no request on the file is outstanding.

`WduMutex`'s `FairSpec` puts weak fairness on releases (critical sections end) and strong fairness on `Grant`: the kernel wakes a waiter on every release, so a waiter that finds the mutex free again and again is not passed over for ever. Requests for the mutex are not fair. Under these assumptions `LockReturns` would hold for a mutex initialised with `init()` and used directly, so only the lock_api run is kept: its violation is due to the code, not to the fairness. The spin-lock, unicode and obcallback runs check safety only.

The client's actions are not fair: sending an IOCTL, cancelling it, and closing the handle (`DeviceControl`, `DeviceControlRejected`, `IoCancelIrp`, `CleanupAcquire`). Liveness runs do not use symmetry.

Deadlock checking is off (`CHECK_DEADLOCK FALSE`) because the driver really does stop: once every request is finished and every file closed, and after a bug check or a panic.

## What is not modelled, and the plan

Planned:
1. **The obcallback sample's unlocked reads.** `process_notify_cb` reads the flags before it takes `PROTECT`; with the mutex fixed, that read can race an IOCTL. `ObCallback` already splits the read from the locked check; a finer split of the IOCTL bodies is planned.
2. **An abstract registry specification** for the event sample, refined by `EventRegistry`.
3. **Finer atomicity inside `set_cancel_rtn`:** two stores instead of one `InterlockedExchange`.
4. **`WduPushLock`:** the shared `access` field written after the kernel call and read by `release`.

Not modelled:
- `WduEResource`, `WduSemaphore`, `WduRundownProtection`, `WduMutant`: one kernel call per method. The ERESOURCE and push-lock lock_api wrappers have the stack-slot pointer that `WduMutex` models. `WduEResource`'s `try_lock_*` enters a critical region that a failed try never leaves (a hazard in `PROJECT.json`; no module keeps per-thread APC state).
- The access-mask stripping of `pre_operation_cb` and `post_operation_cb`: they change only the rights of one handle.
- `WduUnicodeString::compare`, `np_compare`, `duplicate`, `to_lower`/`to_upper`, `is_prefix`/`is_suffix`, `match_expression`: single `Rtl*` calls. `try_from_utf8`: one `RtlUTF8ToUnicodeN` call.
- Pure I/O and builders: device creation, symbolic links, dispatch tables, MDL, pool, the `sioctl` sample.
